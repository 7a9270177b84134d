-------------------------- MODULE HidDeviceProofs --------------------------
(***************************************************************************)
(* Proofs about HidDevice, for every QueueLimit.                           *)
(***************************************************************************)
EXTENDS HidDevice, TLAPS

(***************************************************************************)
(* The inductive invariant, in parts.  Where the two threads are relative  *)
(* to each other: before the barrier, between it and the join, after it.   *)
(***************************************************************************)
Opening == {"strings", "search", "detach", "claim", "spawn"}
Closed  == {"closed"} \cup Opening
Running == {"open", "write", "cancel", "join", "free"}

ThreadsInv ==
    /\ main \in Closed => reader \in {"none", "done"} /\ xfer \in {"null", "freed"}
    /\ main \in {"detach", "claim", "spawn"} => xfer = "null"
    /\ main = "barrier" => reader \in {"alloc", "submit", "barrier"}
    /\ main \in Running => reader \in {"test", "events", "cancel", "reap", "done"}
    /\ main = "free" => reader = "done"

HandleInv ==
    /\ main \in {"closed", "search"} => usb = "none"
    /\ main \in Opening \cup {"barrier"} <=> list # "none"
    /\ main = "spawn" => usb = "claimed"
    /\ main \notin Closed => usb = "claimed"
    /\ main \in Closed \cup {"barrier"} => queue = 0

(***************************************************************************)
(* The transfer: allocated by the thread before the barrier; idle while a  *)
(* thread is inside the callback; on its way out with a final status once  *)
(* read_thread() has cancelled it; not in flight once both threads have    *)
(* asked for its cancellation.                                             *)
(***************************************************************************)
TransferInv ==
    /\ reader = "alloc" => xfer = "null"
    /\ reader = "submit" => xfer = "idle"
    /\ main \in Running \/ reader = "barrier" => xfer \notin {"null", "freed"}

CallbackInv ==
    /\ cb # "none" => xfer = "idle"
    /\ cb = "main" => main = "write"
    /\ cb = "reader" => reader = "events"

CancelInv ==
    /\ reader = "reap" => /\ xfer # "inflight" /\ cb = "none"
                          /\ xfer \in {"ending", "done"} => status \in {"CANCELLED", "NO_DEVICE"}
    /\ main \in {"join", "free"} /\ reader \in {"reap", "done"} => xfer # "inflight"

IInv == TypeOK /\ ThreadsInv /\ HandleInv /\ TransferInv /\ CallbackInv /\ CancelInv /\ QueueBounded

-----------------------------------------------------------------------------
\* The list never outgrows the limit by more than two.
LEMMA EnqueueBounded ==
  ASSUME NEW n \in Nat, n <= QueueLimit + 2
  PROVE  Enqueue(n) \in Nat /\ Enqueue(n) <= QueueLimit + 2
  BY QueueAssumption DEF Enqueue

LEMMA InitIInv == Init => IInv
<1> SUFFICES ASSUME Init PROVE IInv
  OBVIOUS
<1> USE DEF Init
<1>1. TypeOK
  BY DEF TypeOK, MainSteps, ReaderSteps, Transfers, Statuses
<1>2. ThreadsInv /\ HandleInv
  BY DEF ThreadsInv, HandleInv, Closed, Opening, Running
<1>3. TransferInv /\ CallbackInv /\ CancelInv
  BY DEF TransferInv, CallbackInv, CancelInv, Running
<1>4. QueueBounded
  BY QueueAssumption DEF QueueBounded
<1> QED
  BY <1>1, <1>2, <1>3, <1>4 DEF IInv

LEMMA ReaderStepIInv == IInv /\ ReaderStep => IInv'
<1> SUFFICES ASSUME IInv, ReaderStep PROVE IInv'
  OBVIOUS
<1> USE DEF IInv, TypeOK, MainSteps, ReaderSteps, Transfers, Statuses, ThreadsInv, HandleInv,
            TransferInv, CallbackInv, CancelInv, QueueBounded, Closed, Opening, Running
<1>1. CASE Alloc
  BY <1>1 DEF Alloc, ReaderGoto
<1>2. CASE FirstSubmit
  BY <1>2 DEF FirstSubmit, AfterFirstSubmit, Submit, ReaderGoto
<1>3. CASE LoopTest
  BY <1>3 DEF LoopTest, ReaderGoto
<1>4. CASE EventsReturn
  BY <1>4 DEF EventsReturn, ReaderGoto
<1>5. CASE ReaderCancel
  BY <1>5 DEF ReaderCancel, Cancel, ReaderGoto
<1>6. CASE ReapReturns
  BY <1>6 DEF ReapReturns, ReaderGoto
<1>7. CASE Callback("reader")
  BY <1>7, EnqueueBounded DEF Callback, Handling
<1>8. CASE Resubmit("reader")
  BY <1>8 DEF Resubmit, Submit
<1> QED
  BY <1>1, <1>2, <1>3, <1>4, <1>5, <1>6, <1>7, <1>8 DEF ReaderStep

LEMMA MainStepIInv == IInv /\ (MainStep \/ User) => IInv'
<1> SUFFICES ASSUME IInv, MainStep \/ User PROVE IInv'
  OBVIOUS
<1> USE DEF IInv, TypeOK, MainSteps, ReaderSteps, Transfers, Statuses, ThreadsInv, HandleInv,
            TransferInv, CallbackInv, CancelInv, QueueBounded, Closed, Opening, Running
<1>1. CASE HidOpen \/ CloseStrings
  BY <1>1 DEF HidOpen, CloseStrings, AfterStrings, MainGoto
<1>2. CASE DetachDriver
  BY <1>2 DEF DetachDriver, OpenFails, AfterFailure, MainGoto
<1>3. CASE ClaimInterface
  BY <1>3 DEF ClaimInterface, OpenFails, AfterFailure, MainGoto
<1>4. CASE Spawn
  <2> USE <1>4 DEF Spawn, MainGoto
  <2>1. TypeOK'
    OBVIOUS
  <2>2. ThreadsInv' /\ HandleInv'
    OBVIOUS
  <2>3. TransferInv' /\ CallbackInv'
    OBVIOUS
  <2>4. CancelInv' /\ QueueBounded'
    OBVIOUS
  <2> QED
    BY <2>1, <2>2, <2>3, <2>4
<1>5. CASE Barrier
  BY <1>5 DEF Barrier, ReaderAtBarrier, MainGoto
<1>6. CASE BeginWrite \/ EndWrite
  BY <1>6 DEF BeginWrite, EndWrite, MainGoto
<1>7. CASE HidClose
  BY <1>7 DEF HidClose, StopRequested, MainGoto
<1>8. CASE MainCancel
  BY <1>8 DEF MainCancel, Cancel
<1>9. CASE Join
  BY <1>9 DEF Join, ReaderEnded, MainGoto
<1>10. CASE Free
  BY <1>10, QueueAssumption DEF Free
<1>11. CASE Callback("main")
  BY <1>11, EnqueueBounded DEF Callback, Handling
<1>12. CASE Resubmit("main")
  <2> USE <1>12 DEF Resubmit, Submit
  <2>1. TypeOK'
    OBVIOUS
  <2>2. ThreadsInv' /\ HandleInv'
    OBVIOUS
  <2>3. TransferInv' /\ CallbackInv'
    OBVIOUS
  <2>4. CancelInv' /\ QueueBounded'
    OBVIOUS
  <2> QED
    BY <2>1, <2>2, <2>3, <2>4
<1>13. CASE OpenPath
  BY <1>13 DEF OpenPath, MainGoto
<1>14. CASE NotFound
  BY <1>14 DEF NotFound, OpenFails, AfterFailure
<1> QED
  BY <1>1, <1>2, <1>3, <1>4, <1>5, <1>6, <1>7, <1>8, <1>9, <1>10, <1>11, <1>12, <1>13, <1>14
  DEF MainStep, User

LEMMA DeviceIInv == IInv /\ Device => IInv'
<1> SUFFICES ASSUME IInv, Device PROVE IInv'
  OBVIOUS
<1> USE DEF IInv, TypeOK, MainSteps, ReaderSteps, Transfers, Statuses, ThreadsInv, HandleInv,
            TransferInv, CallbackInv, CancelInv, QueueBounded, Closed, Opening, Running
<1>1. ASSUME NEW s \in {"COMPLETED", "ERROR"}, DeviceEnds(s) PROVE IInv'
  BY <1>1 DEF DeviceEnds, Finish
<1>2. CASE TimeoutExpires \/ EndingEnds
  BY <1>2 DEF TimeoutExpires, EndingEnds, Finish
<1>3. CASE Unplug
  <2>1. xfer' = xfer \/ (xfer \in {"inflight", "ending"} /\ xfer' = "done" /\ status' = "NO_DEVICE")
    BY <1>3 DEF Unplug, Finish
  <2>2. (list' # "none" <=> list # "none") /\ list' \in {"none", "empty", "path", "stale"}
    BY <1>3 DEF Unplug
  <2>3. xfer' = xfer => status' = status
    BY <1>3 DEF Unplug, Finish
  <2>4. plugged' \in BOOLEAN /\ UNCHANGED <<main, reader, cb, shutdown, queue, usb>>
    BY <1>3 DEF Unplug
  <2>5. TypeOK'
    BY <2>1, <2>2, <2>3, <2>4
  <2>6. ThreadsInv'
    BY <2>1, <2>4
  <2>7. HandleInv'
    BY <2>2, <2>4
  <2>8. TransferInv' /\ CallbackInv'
    BY <2>1, <2>4
  <2>9. CancelInv' /\ QueueBounded'
    BY <2>1, <2>3, <2>4
  <2> QED
    BY <2>5, <2>6, <2>7, <2>8, <2>9
<1>4. CASE Plug
  BY <1>4 DEF Plug
<1> QED
  BY <1>1, <1>2, <1>3, <1>4 DEF Device

LEMMA Inductive == Spec => []IInv
<1>1. IInv /\ [Next]_vars => IInv'
  <2> SUFFICES ASSUME IInv, [Next]_vars PROVE IInv'
    OBVIOUS
  <2>1. CASE Next
    BY <2>1, ReaderStepIInv, MainStepIInv, DeviceIInv DEF Next
  <2>2. CASE UNCHANGED vars
    BY <2>2 DEF vars, IInv, TypeOK, ThreadsInv, HandleInv, TransferInv, CallbackInv, CancelInv,
                QueueBounded
  <2> QED
    BY <2>1, <2>2
<1> QED
  BY InitIInv, <1>1, PTL DEF Spec

(***************************************************************************)
(* Every variable has its type, and the read thread exists only beside a   *)
(* claimed handle, whatever the limit of read_callback().                  *)
(***************************************************************************)
THEOREM TypeCorrectness == Spec => []TypeOK
<1>1. IInv => TypeOK
  BY DEF IInv
<1> QED
  BY <1>1, Inductive, PTL

(***************************************************************************)
(* The list of input reports, which nothing reads, never outgrows the      *)
(* limit of read_callback() by more than two.                              *)
(***************************************************************************)
THEOREM ReportsBounded == Spec => []QueueBounded
<1>1. IInv => QueueBounded
  BY DEF IInv
<1> QED
  BY <1>1, Inductive, PTL

(***************************************************************************)
(* In every interleaving of the two threads hid_write() and hid_close()    *)
(* find a transfer allocated and not yet freed.                            *)
(***************************************************************************)
THEOREM TransferNeverNull == Spec => []TransferExists
<1>1. IInv => TransferExists
  BY DEF IInv, TransferInv, TransferExists, Running
<1> QED
  BY <1>1, Inductive, PTL

(***************************************************************************)
(* hid_close() frees the transfer only when its thread has ended, no       *)
(* callback runs and its cancellation was asked for or it is idle, however *)
(* the cancellations, time-outs and disconnections overlapped.             *)
(***************************************************************************)
THEOREM FreeIsQuiescent == Spec => []FreedQuiescent
<1>1. IInv => FreedQuiescent
  BY DEF IInv, TypeOK, ThreadsInv, CallbackInv, CancelInv, FreedQuiescent
<1> QED
  BY <1>1, Inductive, PTL

(***************************************************************************)
(* Whatever step of hid_open() fails, and after hid_close(), no libusb     *)
(* handle and no list of devices is left.                                  *)
(***************************************************************************)
THEOREM NothingLeaks == Spec => []NoHandleLeft
<1>1. IInv => NoHandleLeft
  BY DEF IInv, HandleInv, NoHandleLeft, TypeOK, MainSteps, Closed, Opening
<1> QED
  BY <1>1, Inductive, PTL
=============================================================================
