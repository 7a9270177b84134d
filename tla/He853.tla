------------------------------- MODULE He853 -------------------------------
(***************************************************************************)
(* The HE853 driver (he853.c) and the dongle it talks to: a command is     *)
(* sent as four reports that fill the dongle's registers (TIMING1,         *)
(* TIMING2, DATA1, DATA2) and a fifth, EXECUTE, that makes it transmit     *)
(* what the registers hold.  hid_write() may fail, with the report         *)
(* delivered or not (a time-out may come after the delivery), and is then  *)
(* repeated, up to MAX_HID_WRITE_ATTEMPT times.                            *)
(*                                                                         *)
(* A frame (its timings, data, length and frame count) is one value, and a *)
(* register is known by the frame whose report filled it.                  *)
(***************************************************************************)
EXTENDS Integers, Sequences

CONSTANTS
    Frames,                 \* the frames send_cmd() is called with
    Acceptable,             \* those that are HL and at most 255 bits long
    MAX_HID_WRITE_ATTEMPT

ASSUME He853Assumption ==
    /\ Acceptable \subseteq Frames
    /\ MAX_HID_WRITE_ATTEMPT \in Nat \ {0}

Blank == "blank"        \* what a register holds before the first report
ASSUME BlankAssumption == Blank \notin Frames

ReportsShort == <<"TIMING1", "TIMING2", "DATA1", "EXECUTE">>     \* mutant: one is not sent
Reports      == <<"TIMING1", "TIMING2", "DATA1", "DATA2", "EXECUTE">>
Registers    == {"TIMING1", "TIMING2", "DATA1", "DATA2"}

VARIABLES
    handle,      \* whether the driver has the dongle open
    plugged,     \* whether the dongle is there
    frame,       \* the frame of the send_cmd() in progress, or of the last one
    step,        \* the report being sent; 0 when no send_cmd() is in progress
    retry_count,
    ret,         \* what the last send_cmd() returned: 0 stands for any result >= 0
    register,    \* the dongle's registers
    executed,    \* what the dongle transmitted for this command, in order
    gaveUp       \* history: a configuration report of this command was given up

vars == <<handle, plugged, frame, step, retry_count, ret, register, executed, gaveUp>>

Init ==
    /\ handle = FALSE /\ plugged = TRUE
    /\ frame \in Frames /\ step = 0 /\ retry_count = 0 /\ ret = -1
    /\ register = [r \in Registers |-> Blank]
    /\ executed = << >> /\ gaveUp = FALSE

\* he853_init() and he853_close(): hid_open() may fail.
Open ==
    /\ ~ handle /\ plugged
    /\ handle' = TRUE
    /\ UNCHANGED <<plugged, frame, step, retry_count, ret, register, executed, gaveUp>>

Close ==
    /\ handle /\ step = 0
    /\ handle' = FALSE
    /\ UNCHANGED <<plugged, frame, step, retry_count, ret, register, executed, gaveUp>>

\* The dongle is pulled out; put back, its registers are blank again.
Unplug ==
    /\ plugged
    /\ plugged' = FALSE
    /\ register' = [r \in Registers |-> Blank]
    /\ UNCHANGED <<handle, frame, step, retry_count, ret, executed, gaveUp>>

Plug ==
    /\ ~ plugged /\ ~ handle
    /\ plugged' = TRUE
    /\ UNCHANGED <<handle, frame, step, retry_count, ret, register, executed, gaveUp>>

\* he853_send_cmd() refuses frames that are too long, he853_configure() those not HL.
SendCmd(f) ==
    /\ handle /\ step = 0
    /\ frame' = f
    /\ executed' = << >> /\ gaveUp' = FALSE /\ retry_count' = 0
    /\ \/ f \in Acceptable /\ step' = 1 /\ UNCHANGED ret
       \/ f \notin Acceptable /\ ret' = -1 /\ UNCHANGED step
    /\ UNCHANGED <<handle, plugged, register>>

-----------------------------------------------------------------------------
\* The dongle gets a report.
Deliver(report) ==
    IF report = "EXECUTE"
      THEN executed' = Append(executed, register) /\ UNCHANGED register
      ELSE register' = [register EXCEPT ![report] = frame] /\ UNCHANGED executed

Lost == UNCHANGED <<register, executed>>

NextReportAlwaysOK(failed) ==       \* mutant: the result of EXECUTE is dropped too
    IF step < Len(Reports)
      THEN step' = step + 1 /\ gaveUp' = (gaveUp \/ failed) /\ UNCHANGED ret
      ELSE step' = 0 /\ ret' = 0 /\ UNCHANGED gaveUp

(***************************************************************************)
(* he853_configure() joins the results of its four reports with &&: each   *)
(* is -1 or positive, so each counts as true, the next report is sent      *)
(* whatever became of this one, and the result is 1.  Only the result of   *)
(* EXECUTE is returned.                                                    *)
(***************************************************************************)
NextReport(failed) ==
    IF step < Len(Reports)
      THEN step' = step + 1 /\ gaveUp' = (gaveUp \/ failed) /\ UNCHANGED ret
      ELSE step' = 0 /\ ret' = (IF failed THEN -1 ELSE 0) /\ UNCHANGED gaveUp

\* One hid_write() of the loop of he853_send_hid_report().
WriteSucceeds ==
    /\ step > 0 /\ plugged
    /\ Deliver(Reports[step])
    /\ retry_count' = 0
    /\ NextReport(FALSE)
    /\ UNCHANGED <<handle, plugged, frame>>

MayRetryOneMore(count) == count <= MAX_HID_WRITE_ATTEMPT    \* mutant: <= for <
MayRetry(count) == count < MAX_HID_WRITE_ATTEMPT

WriteFails ==
    /\ step > 0
    /\ (plugged /\ Deliver(Reports[step])) \/ Lost
    /\ \/ /\ MayRetry(retry_count + 1)
          /\ retry_count' = retry_count + 1
          /\ UNCHANGED <<step, ret, gaveUp>>
       \/ /\ ~ MayRetry(retry_count + 1)
          /\ retry_count' = 0
          /\ NextReport(TRUE)
    /\ UNCHANGED <<handle, plugged, frame>>

Next ==
    \/ Open \/ Close \/ Unplug \/ Plug
    \/ \E f \in Frames : SendCmd(f)
    \/ WriteSucceeds \/ WriteFails

Spec == Init /\ [][Next]_vars

-----------------------------------------------------------------------------
TypeOK ==
    /\ handle \in BOOLEAN /\ plugged \in BOOLEAN /\ gaveUp \in BOOLEAN
    /\ frame \in Frames
    /\ step \in 0 .. Len(Reports)
    /\ retry_count \in 0 .. MAX_HID_WRITE_ATTEMPT - 1
    /\ ret \in {0, -1}
    /\ register \in [Registers -> Frames \cup {Blank}]
    /\ executed \in Seq([Registers -> Frames \cup {Blank}])

Holds(snapshot, f) == \A r \in Registers : snapshot[r] = f

(***************************************************************************)
(* What is transmitted is the frame asked for, in all its parts, as long   *)
(* as no configuration report was given up: repeated, duplicated and lost  *)
(* reports never leave a part of an earlier command in the registers.      *)
(***************************************************************************)
TransmitsFrame ==
    ~ gaveUp => \A n \in 1 .. Len(executed) : Holds(executed[n], frame)

(***************************************************************************)
(* send_cmd() reports success only of a command that was transmitted.      *)
(***************************************************************************)
SuccessMeansTransmitted == step = 0 /\ ret = 0 => Len(executed) > 0

(***************************************************************************)
(* An EXECUTE whose hid_write() failed may have been delivered all the     *)
(* same, so a command may be transmitted more than once, but at most once  *)
(* per attempt.                                                            *)
(***************************************************************************)
BoundedRepeats == Len(executed) <= MAX_HID_WRITE_ATTEMPT

(***************************************************************************)
(* "configuration failed" (he853.c:318): a command whose configuration     *)
(* could not be sent is not executed.  Does not hold: no failure gets past *)
(* the && of he853_configure(), and the dongle transmits registers of two  *)
(* different commands.                                                     *)
(***************************************************************************)
NothingStaleTransmitted == \A n \in 1 .. Len(executed) : Holds(executed[n], frame)
=============================================================================
