------------------------------ MODULE OokGpio ------------------------------
(***************************************************************************)
(* The OOK-GPIO driver (ook-gpio.c), from the command to the signal: an    *)
(* invocation formats its command, writes the timings of its protocol to   *)
(* one file of the kernel module and the frame to another.  The kernel     *)
(* module keeps the timings and transmits a frame when it is written, with *)
(* the timings it has then; it is modelled from this use of it.            *)
(*                                                                         *)
(* Opening a file may fail, which is noticed.  What is written reaches the *)
(* kernel at fclose(), whose result is not looked at: a write may get lost *)
(* with nobody knowing.                                                    *)
(***************************************************************************)
EXTENDS Protocols, Receivers, OokGpioText

CONSTANTS
    Procs,      \* invocations of rf-ctrl
    Commands    \* what they may be asked: functions from processes to commands

\* main() passes on whatever codes it was given; rolling codes are those of RollingCode.
ASSUME CommandsAssumption ==
    \A given \in Commands : \A p \in Procs :
        /\ given[p] \in [protocol : DOMAIN protocol_drivers, remote : Nat, device : Nat,
                          command : STRING, rolling_code : Nat]
        /\ given[p].protocol = "somfy" => given[p].rolling_code \in 0 .. 2^16 - 1
        /\ given[p].protocol = "blyss" => given[p].rolling_code \in 0 .. 4

VARIABLES
    cmd,        \* process -> its command
    timings,    \* kernel: the timings last written
    frame,      \* process -> the frame it has formatted
    pc,         \* process -> "format", "timings", "frame", "done"
    ret,        \* process -> what it returns
    sent,       \* process -> what the kernel transmitted for it
    disturbed   \* history: processes that lost their timings, or had them replaced

vars == <<cmd, frame, timings, pc, ret, sent, disturbed>>

NoTimings == Timing("none", None, None, None, None, 0, 0)
Silence   == [timings |-> NoTimings, frame |-> Refused]

Init ==
    /\ cmd \in Commands
    /\ frame = [p \in Procs |-> Refused]
    /\ timings = NoTimings
    /\ pc = [p \in Procs |-> "format"]
    /\ ret = [p \in Procs |-> 0]
    /\ sent = [p \in Procs |-> Silence]
    /\ disturbed = {}

Own(p) == protocol_drivers[cmd[p].protocol].timings

Goto(p, step) == pc' = [pc EXCEPT ![p] = step]
ReturnLength(p, r) ==       \* mutant: success is the length
    Goto(p, "done") /\ ret' = [ret EXCEPT ![p] = IF r = 0 THEN frame[p].bit_count ELSE r]
Return(p, r) == Goto(p, "done") /\ ret' = [ret EXCEPT ![p] = r]

-----------------------------------------------------------------------------
\* send_cmd() of rf-ctrl.c: a command the protocol does not know goes no further.
Format(p) ==
    /\ pc[p] = "format"
    /\ frame' = [frame EXCEPT ![p] = FormatCmd(cmd[p])]
    /\ \/ frame'[p].bit_count >= 0 /\ Goto(p, "timings") /\ UNCHANGED ret
       \/ frame'[p].bit_count < 0 /\ Return(p, -1)
    /\ UNCHANGED <<cmd, timings, sent, disturbed>>

\* A file cannot be opened, or fprintf() has no memory to print to.
CannotOpen(p) ==
    /\ pc[p] \in {"timings", "frame"}
    /\ Return(p, -1)
    /\ UNCHANGED <<cmd, frame, timings, sent, disturbed>>

(***************************************************************************)
(* ook_gpio_set_timings(): the ten numbers of the format; the eight times  *)
(* of a RAW frame are its base time and zeros.                             *)
(***************************************************************************)
TimingsTextHL(c) ==     \* mutant: RAW is written like the others
    [c EXCEPT !.base_time = 0]
TimingsText(c) ==
    IF c.bit_fmt = "RAW"
      THEN Timing("RAW", None, None, None, None, c.base_time, c.frame_count)
      ELSE [c EXCEPT !.base_time = 0]

InProgress(p) == pc[p] = "frame"

SetTimings(p) ==
    /\ pc[p] = "timings"
    /\ \/ /\ timings' = TimingsText(Own(p))
          /\ disturbed' = disturbed \cup {q \in Procs \ {p} : InProgress(q)}
       \/ disturbed' = disturbed \cup {p} /\ UNCHANGED timings
    /\ Goto(p, "frame")
    /\ UNCHANGED <<cmd, frame, ret, sent>>

(***************************************************************************)
(* ook_gpio_send_frame().  Nothing is transmitted when the write is lost,  *)
(* and when the build does: sprintf() reads the string it writes to, which *)
(* is undefined, and where that loses the beginning of the text the kernel *)
(* does not take the rest.                                                 *)
(***************************************************************************)
SendFrame(p) ==
    /\ pc[p] = "frame"
    /\ \/ sent' = [sent EXCEPT ![p] = [timings |-> timings, frame |-> frame[p]]]
       \/ UNCHANGED sent
    /\ Return(p, 0)
    /\ UNCHANGED <<cmd, frame, timings, disturbed>>

Next == \E p \in Procs : Format(p) \/ CannotOpen(p) \/ SetTimings(p) \/ SendFrame(p)

Spec == Init /\ [][Next]_vars

-----------------------------------------------------------------------------
TypeOK ==
    /\ \A p \in Procs : cmd[p].protocol \in DOMAIN protocol_drivers
    /\ \A p \in Procs : pc[p] \in {"timings", "frame"} => frame[p].bit_count >= 0
    /\ timings = NoTimings \/ \E p \in Procs : timings = TimingsText(Own(p))
    /\ pc \in [Procs -> {"format", "timings", "frame", "done"}]
    /\ ret \in [Procs -> {0, -1}]
    /\ disturbed \subseteq Procs

(***************************************************************************)
(* Every frame the driver formats, RAW ones with any padding included, has *)
(* a length that fits the uint16_t it is passed in, and fits the string it *)
(* is printed to: "1 byte + n bytes + n ','" (ook-gpio.c:116) is counted   *)
(* with four characters each.                                              *)
(***************************************************************************)
FrameTextFits ==
    \A p \in Procs :
        InProgress(p) => frame[p].bit_count < 2^16 /\ TextFits(frame[p].bits, frame[p].bit_count)

(***************************************************************************)
(* From what the kernel transmits for an invocation a receiver of the      *)
(* protocol recovers the command and the low bits of the codes, as many as *)
(* the format has room for, whoever else is at work; so two commands look  *)
(* the same only if their codes agree in those bits.  They may: main()     *)
(* checks no code against its maximum (rf-ctrl.c:683-691), and -r 32 is    *)
(* -r 0 to otax.  The signal is that of the protocol, unless the timings   *)
(* were lost or replaced on the way.                                       *)
(***************************************************************************)
SameSignal(c, d, bits) == IdealFrame(c, bits) = IdealFrame(d, bits) /\ c.frame_count = d.frame_count

TransmitsWhatIsMeant ==
    [][\A p \in Procs :
          sent'[p] # sent[p] =>
              LET f == sent'[p].frame
              IN  /\ Carries(f, cmd[p])
                  /\ p \notin disturbed =>
                        SameSignal(sent'[p].timings, Own(p), SubSeq(f.bits, 1, f.bit_count))]_vars

(***************************************************************************)
(* The encoders and the text of the timings are right for each command by  *)
(* itself: what TransmitsWhatIsMeant says of an invocation that is alone.  *)
(***************************************************************************)
EachIsRight ==
    \A given \in Commands : \A p \in Procs :
        LET own == protocol_drivers[given[p].protocol].timings
            f   == FormatCmd(given[p])
        IN  f.bit_count >= 0 =>
              /\ SameSignal(TimingsText(own), own, SubSeq(f.bits, 1, f.bit_count))
              /\ Carries(f, given[p])
=============================================================================
