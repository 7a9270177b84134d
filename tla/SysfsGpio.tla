----------------------------- MODULE SysfsGpio -----------------------------
(***************************************************************************)
(* The sysfs-gpio driver (sysfs-gpio.c) on the GPIO the transmitter hangs  *)
(* on: invocations of rf-ctrl that export the GPIO, make it an output,     *)
(* write the levels of the frames with their times, and unexport it.       *)
(* Invocations may overlap and use the same GPIO; results of write() and   *)
(* of the writes to export, unexport and direction are never looked at.    *)
(*                                                                         *)
(* The kernel's GPIO class is modelled from how this driver uses it: an    *)
(* export of a GPIO that is exported fails; unexporting removes the value  *)
(* files, so that descriptors still open on one write nothing; direction   *)
(* "out" drives the line low; the line keeps its level when released.      *)
(* Any write to direction or value may be lost without a trace.            *)
(***************************************************************************)
EXTENDS Naturals, Sequences, SequencesExt, Ook

CONSTANTS
    Procs,          \* invocations sharing the GPIO
    Configs,        \* timing configurations of the frames
    BitStrings,     \* frame data
    KillAllowed     \* whether an invocation may be killed

ASSUME SysfsAssumption ==
    Configs \subseteq TimingConfigs /\ BitStrings \subseteq Seq({0, 1}) /\ KillAllowed \in BOOLEAN

VARIABLES
    exported, output,   \* kernel: the GPIO is exported, is an output
    line,               \* level of the line, what the transmitter sends
    config, data,       \* what each invocation transmits
    pc,                 \* process -> where it stands in the driver
    pos,                \* process -> strokes done of its frames
    fd,                 \* process -> its descriptor: "none", "valid", "stale"
    ret,                \* process -> 0 or 1 (init() or send_cmd() returned an error)
    disturbed,          \* history: two invocations have used the GPIO at once
    lost,               \* history: invocations one of whose writes was lost
    wave                \* history: the levels the last one, if nothing befell it, gave the line

vars == <<exported, output, line, config, data, pc, pos, fd, ret, disturbed, lost, wave>>
kernel == <<exported, output, line>>

Steps == {"export", "direction", "open", "send", "off", "close", "unexport",
          "done", "left", "killed"}

Init ==
    /\ exported = FALSE /\ output = FALSE /\ line = 0
    /\ config \in Configs /\ data \in BitStrings
    /\ pc = [p \in Procs |-> "export"]
    /\ pos = [p \in Procs |-> 0]
    /\ fd = [p \in Procs |-> "none"]
    /\ ret = [p \in Procs |-> 0]
    /\ disturbed = FALSE /\ lost = {} /\ wave = << >>

Goto(p, step) == pc' = [pc EXCEPT ![p] = step]

\* The driver does not look at the result and goes on.
WriteLost(p) == lost' = lost \cup {p} /\ UNCHANGED line

-----------------------------------------------------------------------------
(***************************************************************************)
(* sysfs_gpio_init().  The second file is there only if the GPIO is still  *)
(* exported (so a number lost on its way to the first file ends here too), *)
(* and may be refused; main() closes the driver after a failure.           *)
(***************************************************************************)
Export(p) ==
    /\ pc[p] = "export"
    /\ exported' = TRUE
    /\ Goto(p, "direction")
    /\ wave' = << >>
    /\ UNCHANGED <<output, line, config, data, pos, fd, ret, lost>>

AfterFailureReturn == "done"    \* mutant: the driver is not closed
AfterFailure == "unexport"

InitFails(p) ==
    /\ pc[p] \in {"export", "direction"}
    /\ ret' = [ret EXCEPT ![p] = 1]
    /\ Goto(p, AfterFailure)
    /\ UNCHANGED <<kernel, config, data, pos, fd, lost, wave>>

Direction(p) ==
    /\ pc[p] = "direction" /\ exported
    /\ Goto(p, "open")
    /\ \/ output' = TRUE /\ line' = 0 /\ UNCHANGED lost
       \/ WriteLost(p) /\ UNCHANGED output
    /\ UNCHANGED <<exported, config, data, pos, fd, ret, wave>>

(***************************************************************************)
(* sysfs_gpio_send_cmd() as a list of strokes: write a level, or nothing   *)
(* when a RAW bit repeats the one before it in its frame, and sleep.       *)
(***************************************************************************)
Stroke(level, writes, time) == [level |-> level, writes |-> writes, time |-> time]

\* Neither written nor waited for if it lasts no time.
Lasting(s) == IF s.time > 0 THEN <<s>> ELSE << >>

EdgeStrokesSwapped(fmt, pair) ==    \* mutant: LH handled like HL
    Lasting(Stroke(1, TRUE, pair.h)) \o Lasting(Stroke(0, TRUE, pair.l))

EdgeStrokes(fmt, pair) ==
    LET high == Lasting(Stroke(1, TRUE, pair.h))
        low  == Lasting(Stroke(0, TRUE, pair.l))
    IN  IF fmt = "HL" THEN high \o low ELSE low \o high

FrameStrokes(c, bits) ==
    IF c.bit_fmt = "RAW"
      THEN [n \in 1 .. Len(bits) |->
               Stroke(bits[n], n = 1 \/ bits[n] # bits[IF n = 1 THEN 1 ELSE n - 1], c.base_time)]
      ELSE EdgeStrokes(c.bit_fmt, c.start)
             \o FlattenSeq([n \in 1 .. Len(bits) |-> EdgeStrokes(c.bit_fmt, c.bit[bits[n] + 1])])
             \o EdgeStrokes(c.bit_fmt, c.end)

FrameTimes(c) == 1 .. c.frame_count
Strokes(c, bits) == FlattenSeq([j \in FrameTimes(c) |-> FrameStrokes(c, bits)])

OpenValue(p) ==
    /\ pc[p] = "open"
    /\ \/ /\ exported
          /\ fd' = [fd EXCEPT ![p] = "valid"]
          /\ Goto(p, "send")
          /\ UNCHANGED ret
       \/ /\ ret' = [ret EXCEPT ![p] = 1]
          /\ Goto(p, "unexport")
          /\ UNCHANGED fd
    /\ UNCHANGED <<kernel, config, data, pos, lost, wave>>

\* write(fd, level): nothing happens to the line of a GPIO that was released.
Drive(p, level) == line' = IF fd[p] = "valid" /\ output THEN level ELSE line

SendStroke(p) ==
    LET all == Strokes(config, data)
        s   == all[pos[p] + 1]
    IN  /\ pc[p] = "send" /\ pos[p] < Len(all)
        /\ \/ s.writes /\ Drive(p, s.level) /\ UNCHANGED lost
           \/ s.writes /\ WriteLost(p)
           \/ ~ s.writes /\ UNCHANGED <<line, lost>>
        /\ wave' = IF disturbed' \/ p \in lost' THEN << >> ELSE Append(wave, Segment(line', s.time))
        /\ pos' = [pos EXCEPT ![p] = @ + 1]
        /\ UNCHANGED <<exported, output, config, data, pc, fd, ret>>

FramesSent(p) ==
    /\ pc[p] = "send" /\ pos[p] = Len(Strokes(config, data))
    /\ Goto(p, "off")
    /\ UNCHANGED <<kernel, config, data, pos, fd, ret, lost, wave>>

FinalLevelNone(p) == line       \* mutant: the transmitter is not turned off
FinalLevel(p) == IF fd[p] = "valid" /\ output THEN 0 ELSE line

TurnOff(p) ==
    /\ pc[p] = "off"
    /\ \/ line' = FinalLevel(p) /\ UNCHANGED lost
       \/ WriteLost(p)
    /\ Goto(p, "close")
    /\ UNCHANGED <<exported, output, config, data, pos, fd, ret, wave>>

CloseValue(p) ==
    /\ pc[p] = "close"
    /\ fd' = [fd EXCEPT ![p] = "none"]
    /\ Goto(p, "unexport")
    /\ UNCHANGED <<kernel, config, data, pos, ret, lost, wave>>

(***************************************************************************)
(* sysfs_gpio_close(): whoever exported it, and whoever still uses it.     *)
(***************************************************************************)
AfterUnexportOutput == output       \* mutant: the direction outlives the export
AfterUnexport == FALSE

Unexport(p) ==
    /\ pc[p] = "unexport"
    /\ exported' = FALSE /\ output' = AfterUnexport
    /\ fd' = [q \in Procs |-> IF fd[q] = "valid" THEN "stale" ELSE fd[q]]
    /\ Goto(p, "done")
    /\ UNCHANGED <<line, config, data, pos, ret, lost, wave>>

\* The unexport file cannot be opened, or the number written to it is lost:
\* the GPIO is left as it is.
CannotUnexport(p) ==
    /\ pc[p] = "unexport"
    /\ Goto(p, "left")
    /\ UNCHANGED <<kernel, config, data, pos, fd, ret, lost, wave>>

\* Its descriptor is closed; the GPIO stays exported, the line as it is.
Kill(p) ==
    /\ KillAllowed
    /\ pc[p] \notin {"done", "left", "killed"}
    /\ fd' = [fd EXCEPT ![p] = "none"]
    /\ Goto(p, "killed")
    /\ UNCHANGED <<kernel, config, data, pos, ret, lost, wave>>

Proceed(p) == Export(p) \/ InitFails(p) \/ Direction(p) \/ OpenValue(p) \/ SendStroke(p)
                \/ FramesSent(p) \/ TurnOff(p) \/ CloseValue(p) \/ Unexport(p)
                \/ CannotUnexport(p)

Active(p) == pc[p] \notin {"export", "done", "left", "killed"}

Next == \E p \in Procs :
            /\ disturbed' = (disturbed \/ \E q \in Procs \ {p} : Active(q))
            /\ Proceed(p) \/ Kill(p)

Spec == Init /\ [][Next]_vars

-----------------------------------------------------------------------------
TypeOK ==
    /\ {exported, output} \subseteq BOOLEAN /\ line \in {0, 1}
    /\ config \in Configs /\ data \in BitStrings
    /\ pc \in [Procs -> Steps]
    /\ \A p \in Procs : pos[p] \in 0 .. Len(Strokes(config, data))
    /\ fd \in [Procs -> {"none", "valid", "stale"}]
    /\ ret \in [Procs -> {0, 1}]
    /\ output => exported
    /\ disturbed \in BOOLEAN /\ lost \subseteq Procs

(***************************************************************************)
(* An invocation that has the GPIO to itself and none of whose writes is   *)
(* lost: the signal on the line while its frames are sent is the one       *)
(* README.md:9-15 describes, whatever the format, with durations of zero   *)
(* skipped and RAW levels written only when they change, and also after an *)
(* invocation that was killed or has lost a write.                         *)
(***************************************************************************)
SignalAsConfigured ==
    \A p \in Procs :
        pc[p] = "off" /\ ~ disturbed /\ p \notin lost => Signal(wave) = Signal(IdealWave(config, data))

(***************************************************************************)
(* An invocation that has the GPIO to itself gives it back with the        *)
(* transmitter off: if it succeeds and has lost no write, even when an     *)
(* earlier one was killed or left it on; and when init() fails half way or *)
(* send_cmd() fails, as long as none was killed and no write was ever lost *)
(* (whoever fails before OpenValue writes no level).                       *)
(***************************************************************************)
NoneKilled == \A p \in Procs : pc[p] # "killed"

OffWhenGivenBack ==
    \A p \in Procs :
        /\ pc[p] = "unexport" /\ ~ disturbed
        /\ (ret[p] = 0 /\ p \notin lost) \/ (NoneKilled /\ lost = {})
        => line = 0

(***************************************************************************)
(* When all invocations that started have ended, overlapping or not, no    *)
(* GPIO stays exported and no descriptor open (unless one was killed or    *)
(* could not unexport it).                                                 *)
(***************************************************************************)
ReleasedInTheEnd ==
    (\A p \in Procs : pc[p] \in {"export", "done"})
        => ~ exported /\ \A p \in Procs : fd[p] = "none"
=============================================================================
