----------------------------- MODULE HidDevice -----------------------------
(***************************************************************************)
(* The life of a hid_device of hid-libusb.c as he853.c uses it: opened,    *)
(* written to, closed, possibly several times (he853_probe() opens and     *)
(* closes it before he853_init() opens it again).  hid_open_path() starts  *)
(* a read thread that keeps one interrupt transfer submitted to the        *)
(* dongle; hid_close() stops it from the main thread.                      *)
(*                                                                         *)
(* libusb and the kernel are modelled from how this file uses them:        *)
(*  - a transfer in flight is completed by the device, cancelled, timed    *)
(*    out or ended by a disconnection; it is then "done" until a thread    *)
(*    inside libusb_handle_events(), or inside the synchronous transfer of *)
(*    hid_write(), reaps it and runs read_callback();                      *)
(*  - libusb_cancel_transfer() returns 0 for a transfer in flight that is  *)
(*    not being cancelled yet, an error otherwise; of one that is done but *)
(*    not reaped it may report either;                                     *)
(*  - libusb_handle_events() may return without having reaped anything.    *)
(***************************************************************************)
EXTENDS Naturals

CONSTANT QueueLimit     \* the 30 of read_callback()

ASSUME QueueAssumption == QueueLimit \in Nat

VARIABLES
    main,       \* where the main thread is: "closed" between two devices
    reader,     \* where read_thread() is
    xfer,       \* dev->transfer
    status,     \* how the transfer ended, when it is ending or has
    cb,         \* the thread that is inside read_callback(), or "none"
    shutdown,   \* dev->shutdown_thread
    queue,      \* length of dev->input_reports
    usb,        \* dev->device_handle: "none", "open", "claimed"
    list,       \* hid_enumerate()'s: "none", "empty", or with a "path" that leads to the
                \* dongle, or no longer does ("stale")
    plugged     \* whether the dongle is there

vars == <<main, reader, xfer, status, cb, shutdown, queue, usb, list, plugged>>

MainSteps   == {"closed", "strings", "search", "detach", "claim", "spawn", "barrier", "open", "write",
                "cancel", "join", "free"}
ReaderSteps == {"none", "alloc", "submit", "barrier", "test", "events", "cancel", "reap", "done"}
Transfers   == {"null", "idle", "inflight", "ending", "done", "freed"}
Statuses    == {"COMPLETED", "CANCELLED", "TIMED_OUT", "NO_DEVICE", "ERROR"}

Init ==
    /\ main = "closed" /\ reader = "none"
    /\ xfer = "null" /\ status = "COMPLETED" /\ cb = "none"
    /\ shutdown = FALSE /\ queue = 0
    /\ usb = "none" /\ list = "none" /\ plugged = TRUE

-----------------------------------------------------------------------------
(***************************************************************************)
(* libusb and the device.                                                  *)
(***************************************************************************)
Submit == xfer' = IF plugged THEN "inflight" ELSE "idle"    \* its result is ignored

Finish(s) == xfer' = "done" /\ status' = s

DeviceEnds(s) ==        \* a report arrives, or a transfer error
    /\ xfer = "inflight" /\ plugged
    /\ s \in {"COMPLETED", "ERROR"}
    /\ Finish(s)
    /\ UNCHANGED <<main, reader, cb, shutdown, queue, usb, list, plugged>>

TimeoutExpires ==       \* 5 s without a report: libusb cancels the transfer itself
    /\ xfer = "inflight"
    /\ xfer' = "ending" /\ status' = "TIMED_OUT"
    /\ UNCHANGED <<main, reader, cb, shutdown, queue, usb, list, plugged>>

EndingEnds ==
    /\ xfer = "ending"
    /\ Finish(status)
    /\ UNCHANGED <<main, reader, cb, shutdown, queue, usb, list, plugged>>

Unplug ==
    /\ plugged
    /\ plugged' = FALSE
    /\ list' = IF list = "path" THEN "stale" ELSE list
    /\ IF xfer \in {"inflight", "ending"} THEN Finish("NO_DEVICE") ELSE UNCHANGED <<xfer, status>>
    /\ UNCHANGED <<main, reader, cb, shutdown, queue, usb>>

Plug ==                 \* the dongle comes back at another address, for a handle to come
    /\ ~ plugged /\ main \in {"closed", "strings", "search"}
    /\ plugged' = TRUE
    /\ UNCHANGED <<main, reader, xfer, status, cb, shutdown, queue, usb, list>>

\* libusb_cancel_transfer(): found tells whether it returned 0.
Cancel(found) ==
    \/ xfer = "inflight" /\ found /\ xfer' = "ending" /\ status' = "CANCELLED"
    \/ xfer = "done" /\ found /\ xfer' = "done" /\ status' = "CANCELLED"
    \/ xfer # "inflight" /\ ~ found /\ UNCHANGED <<xfer, status>>

(***************************************************************************)
(* read_callback(): first the reaped transfer's status, then, unless it    *)
(* says that the thread must stop, the resubmission.  num_queued counts    *)
(* the links followed to find the end of the list.                         *)
(***************************************************************************)
Handling(t) == (t = "main" /\ main = "write") \/ (t = "reader" /\ reader \in {"events", "reap"})

EnqueueUnbounded(len) == len + 1            \* mutant: nothing is popped
Enqueue(len) == IF len > 0 /\ len - 1 > QueueLimit THEN len ELSE len + 1

Callback(t) ==
    /\ Handling(t) /\ cb = "none" /\ xfer = "done"
    /\ xfer' = "idle"
    /\ IF status \in {"CANCELLED", "NO_DEVICE"}
         THEN shutdown' = TRUE /\ UNCHANGED <<cb, queue>>
         ELSE /\ cb' = t
              /\ queue' = IF status = "COMPLETED" THEN Enqueue(queue) ELSE queue
              /\ UNCHANGED shutdown
    /\ UNCHANGED <<main, reader, status, usb, list, plugged>>

Resubmit(t) ==
    /\ cb = t
    /\ Submit
    /\ cb' = "none"
    /\ UNCHANGED <<main, reader, status, shutdown, queue, usb, list, plugged>>

-----------------------------------------------------------------------------
(***************************************************************************)
(* read_thread().                                                          *)
(***************************************************************************)
ReaderGoto(step) == reader' = step /\ UNCHANGED <<main, cb, shutdown, queue, usb, list, plugged>>

Alloc ==
    /\ reader = "alloc"
    /\ xfer' = "idle" /\ UNCHANGED status
    /\ ReaderGoto("submit")

AfterFirstSubmitChecked == IF plugged THEN "barrier" ELSE "done"    \* mutant: give up early
AfterFirstSubmit == "barrier"

FirstSubmit ==
    /\ reader = "submit"
    /\ Submit /\ UNCHANGED status
    /\ ReaderGoto(AfterFirstSubmit)

LoopTest ==
    /\ reader = "test"
    /\ ReaderGoto(IF shutdown THEN "cancel" ELSE "events")
    /\ UNCHANGED <<xfer, status>>

\* libusb_handle_events() returns, on an event, a timeout of its own or an error.
EventsReturn ==
    /\ reader = "events" /\ cb # "reader"
    /\ \E step \in {"test", "cancel"} : ReaderGoto(step)
    /\ UNCHANGED <<xfer, status>>

ReaderCancel ==
    /\ reader = "cancel"
    /\ \E found \in BOOLEAN : Cancel(found) /\ ReaderGoto(IF found THEN "reap" ELSE "done")

ReapReturns ==
    /\ reader = "reap" /\ cb # "reader"
    /\ ReaderGoto("done")
    /\ UNCHANGED <<xfer, status>>

ReaderStep == Alloc \/ FirstSubmit \/ LoopTest \/ EventsReturn \/ ReaderCancel \/ ReapReturns
                \/ Callback("reader") \/ Resubmit("reader")

-----------------------------------------------------------------------------
(***************************************************************************)
(* The main thread: hid_open_path(), hid_write() and hid_close().          *)
(***************************************************************************)
MainGoto(step) == main' = step /\ UNCHANGED <<status, cb, queue, plugged>>

(***************************************************************************)
(* hid_open(): hid_enumerate() lists the dongle if it is there, and opens  *)
(* it for a moment, if it can, to read strings; hid_open_path() looks for  *)
(* it again by the path in the list, which is freed when that returns.     *)
(***************************************************************************)
HidOpen ==
    /\ main = "closed"
    /\ list' = IF plugged THEN "path" ELSE "empty"
    /\ \/ plugged /\ usb' = "strings" /\ MainGoto("strings")
       \/ usb' = "none" /\ MainGoto("search")
    /\ UNCHANGED <<reader, xfer, shutdown>>

AfterStringsOpen == "strings"               \* mutant: libusb_close() forgotten
AfterStrings == "none"

CloseStrings ==
    /\ main = "strings"
    /\ usb' = AfterStrings
    /\ MainGoto("search")
    /\ UNCHANGED <<reader, xfer, shutdown, list>>

OpenPath ==
    /\ main = "search" /\ list = "path"
    /\ usb' = "open"
    /\ xfer' = "null" /\ shutdown' = FALSE /\ reader' = "none"
    /\ MainGoto("detach") /\ UNCHANGED list

\* hid_open() returns NULL; a handle opened by then is closed.
AfterFailureOpen == usb                     \* mutant: libusb_close() forgotten
AfterFailure == "none"

OpenFails == main' = "closed" /\ usb' = AfterFailure /\ list' = "none"
               /\ UNCHANGED <<status, cb, queue, plugged>>

NotFound ==             \* no path, none that leads to the dongle, or libusb_open() fails
    /\ main = "search"
    /\ OpenFails
    /\ UNCHANGED <<reader, xfer, shutdown>>

DetachDriver ==
    /\ main = "detach"
    /\ \/ MainGoto("claim") /\ UNCHANGED <<usb, list>>
       \/ OpenFails
    /\ UNCHANGED <<reader, xfer, shutdown>>

ClaimInterface ==
    /\ main = "claim"
    /\ \/ MainGoto("spawn") /\ usb' = "claimed" /\ UNCHANGED list
       \/ OpenFails
    /\ UNCHANGED <<reader, xfer, shutdown>>

Spawn ==
    /\ main = "spawn"
    /\ reader' = "alloc"
    /\ MainGoto("barrier")
    /\ UNCHANGED <<xfer, shutdown, usb, list>>

ReaderStarted   == reader # "none"          \* mutant: no barrier in the main thread
ReaderAtBarrier == reader = "barrier"

\* The second of the two threads to arrive lets both of them go.
Barrier ==
    /\ main = "barrier" /\ ReaderAtBarrier
    /\ reader' = IF reader = "barrier" THEN "test" ELSE reader
    /\ list' = "none"
    /\ MainGoto("open")
    /\ UNCHANGED <<xfer, shutdown, usb>>

BeginWrite ==
    /\ main = "open"
    /\ MainGoto("write")
    /\ UNCHANGED <<reader, xfer, shutdown, usb, list>>

EndWrite ==
    /\ main = "write" /\ cb # "main"
    /\ MainGoto("open")
    /\ UNCHANGED <<reader, xfer, shutdown, usb, list>>

StopForgotten == shutdown                   \* mutant: shutdown_thread is not set
StopRequested == TRUE

HidClose ==
    /\ main = "open"
    /\ shutdown' = StopRequested
    /\ MainGoto("cancel")
    /\ UNCHANGED <<reader, xfer, usb, list>>

MainCancel ==
    /\ main = "cancel"
    /\ \E found \in BOOLEAN : Cancel(found)
    /\ main' = "join"
    /\ UNCHANGED <<reader, cb, shutdown, queue, usb, list, plugged>>

JoinDetached == TRUE                        \* mutant: the thread is not joined
ReaderEnded  == reader = "done"

Join ==
    /\ main = "join" /\ ReaderEnded
    /\ MainGoto("free")
    /\ UNCHANGED <<reader, xfer, shutdown, usb, list>>

\* Free the transfer and its buffer, release the interface, close, drain.
Free ==
    /\ main = "free"
    /\ xfer' = "freed" /\ usb' = "none" /\ queue' = 0
    /\ main' = "closed"
    /\ UNCHANGED <<reader, status, cb, shutdown, list, plugged>>

MainStep == CloseStrings \/ OpenPath \/ NotFound \/ DetachDriver \/ ClaimInterface \/ Spawn
              \/ Barrier \/ EndWrite \/ MainCancel \/ Join \/ Free
              \/ Callback("main") \/ Resubmit("main")

User == HidOpen \/ BeginWrite \/ HidClose

Device == \/ \E s \in {"COMPLETED", "ERROR"} : DeviceEnds(s)
          \/ TimeoutExpires \/ EndingEnds \/ Unplug \/ Plug

Next == ReaderStep \/ MainStep \/ User \/ Device

Spec == Init /\ [][Next]_vars

(***************************************************************************)
(* Both threads are scheduled.  libusb_handle_events() and the synchronous *)
(* transfer of hid_write() handle finitely many callbacks and return       *)
(* within their timeouts (60 s and 1 s), however often the device answers  *)
(* meanwhile: strong fairness.  Nothing makes the device answer, and       *)
(* nothing makes the user open or close.                                   *)
(***************************************************************************)
ReaderRuns == Alloc \/ FirstSubmit \/ LoopTest \/ ReaderCancel \/ Resubmit("reader")
MainRuns   == CloseStrings \/ OpenPath \/ NotFound \/ DetachDriver \/ ClaimInterface \/ Spawn
                \/ Barrier \/ MainCancel \/ Join \/ Free \/ Resubmit("main")

Fairness == /\ WF_vars(ReaderRuns) /\ SF_vars(EventsReturn) /\ SF_vars(ReapReturns)
            /\ WF_vars(MainRuns) /\ SF_vars(EndWrite)

FairSpec == Spec /\ Fairness

-----------------------------------------------------------------------------
TypeOK ==
    /\ main \in MainSteps /\ reader \in ReaderSteps
    /\ xfer \in Transfers /\ status \in Statuses
    /\ cb \in {"none", "main", "reader"}
    /\ shutdown \in BOOLEAN /\ plugged \in BOOLEAN
    /\ queue \in Nat
    /\ usb \in {"none", "strings", "open", "claimed"}
    /\ list \in {"none", "empty", "path", "stale"}
    /\ reader \notin {"none", "done"} => usb = "claimed"

(***************************************************************************)
(* hid_close() and hid_write() only ever see a hid_device whose read       *)
(* thread has allocated the transfer: dev->transfer, which the other       *)
(* thread sets, is not NULL when hid_close() cancels and frees it.         *)
(***************************************************************************)
TransferExists == main \in {"open", "write", "cancel", "join", "free"} => xfer \notin {"null", "freed"}

(***************************************************************************)
(* When hid_close() frees the transfer its thread has ended, no callback   *)
(* is running, and the transfer is not live: it is idle, or at least its   *)
(* cancellation was requested, however the two cancellations, the          *)
(* time-outs and the resubmissions of read_callback() overlapped.          *)
(***************************************************************************)
FreedQuiescent == main = "free" => reader = "done" /\ cb = "none" /\ xfer # "inflight"

(***************************************************************************)
(* Nothing reads the input reports, and the list stays bounded, but not by *)
(* the limit: "Pop one off if we've reached 30 in the queue"               *)
(* (hid-libusb.c:650) is decided by the links between the reports there    *)
(* were, which must be more than 30, so the list keeps up to 32.           *)
(***************************************************************************)
QueueBounded == queue <= QueueLimit + 2

(***************************************************************************)
(* Opened or not, a device that is given up holds no libusb handle, nor    *)
(* the list of devices it was looked up in; and never two handles at once. *)
(***************************************************************************)
NoHandleLeft ==
    /\ main = "closed" => usb = "none" /\ queue = 0
    /\ main = "search" => usb = "none"
    /\ main \in {"closed", "open", "write", "cancel", "join", "free"} <=> list = "none"

(***************************************************************************)
(* hid_close() returns: the read thread notices the request to stop even   *)
(* when the cancellation finds no transfer in flight.                      *)
(***************************************************************************)
CloseReturns == main = "cancel" ~> main = "closed"

(***************************************************************************)
(* hid_open() returns, with the device or without, and once its thread is  *)
(* started with the device: whatever is unplugged, it gets past the        *)
(* barrier.                                                                *)
(***************************************************************************)
OpenReturns == /\ main = "search" ~> main \in {"open", "closed"}
               /\ main = "barrier" ~> main = "open"

(***************************************************************************)
(* "In both cases the objects can be safely cleaned up after the call to   *)
(* pthread_join()" (hid-libusb.c:733): the transfer freed is idle.  Does   *)
(* not hold: when the main thread's cancellation comes first, that of the  *)
(* read thread fails and the thread ends without reaping the transfer.     *)
(***************************************************************************)
TransferIdleAtFree == main = "free" => xfer = "idle"
=============================================================================
