---------------------------- MODULE HidReadThread ----------------------------
(***************************************************************************)
(* The read thread of an open hid_device (hid.c, libusb backend).          *)
(*                                                                         *)
(* Every open device has a thread that keeps one interrupt transfer going. *)
(* Its completion runs read_callback, which queues the report and submits  *)
(* the transfer again.  libusb runs callbacks in whichever thread handles  *)
(* events: the read thread, or the main thread while it waits for a        *)
(* feature report.  hid_close asks the read thread to stop, joins it and   *)
(* frees the transfer; two flags, shutdown_thread and                      *)
(* transfer_loop_finished, are shared without a lock.                      *)
(***************************************************************************)
EXTENDS Integers

CONSTANT QueueLimit     \* 30 in read_callback

ASSUME QueueAssumption == QueueLimit \in Nat

VARIABLES
    mainAt,         \* where the main thread is
    readerAt,       \* where the read thread is
    shutdown,       \* dev->shutdown_thread
    finished,       \* dev->transfer_loop_finished
    transfer,       \* dev->transfer
    status,         \* how the transfer was completed
    callbackBy,     \* the thread that runs read_callback
    callbackAt,     \* where read_callback is
    queued,         \* length of dev->input_reports
    plugged         \* whether the board is connected

flags    == <<shutdown, finished>>
callback == <<callbackBy, callbackAt>>
vars     == <<mainAt, readerAt, shutdown, finished, transfer, status,
              callbackBy, callbackAt, queued, plugged>>

MainAt   == {"create", "barrier", "idle", "control",
             "read", "waiting", "timed", "dozing", "cancel", "join", "free", "closed"}
ReaderAt == {"none", "submit", "barrier", "loop", "events", "cancel", "drain",
             "broadcast", "ended"}
Transfer == {"none", "pending", "cancelling", "done", "active", "idle", "freed"}
Status   == {"none", "data", "other", "cancelled", "gone"}

ReadTypeOK ==
    /\ mainAt \in MainAt
    /\ readerAt \in ReaderAt
    /\ shutdown \in BOOLEAN /\ finished \in BOOLEAN
    /\ transfer \in Transfer
    /\ status \in Status
    /\ callbackBy \in {"none", "main", "reader"}
    /\ callbackAt \in {"none", "handle", "check", "resubmit"}
    /\ queued \in Nat
    /\ plugged \in BOOLEAN

(* hidapi_initialize_device has claimed the interface; dev is zeroed. *)
ReadInit ==
    /\ mainAt = "create"
    /\ readerAt = "none"
    /\ shutdown = FALSE /\ finished = FALSE
    /\ transfer = "none"
    /\ status = "none"
    /\ callbackBy = "none" /\ callbackAt = "none"
    /\ queued = 0
    /\ plugged = TRUE

-----------------------------------------------------------------------------
(* libusb.                                                                 *)

(* libusb_submit_transfer: on failure both callers end the transfer loop.  *)
Submit ==
    \/ /\ plugged
       /\ transfer' = "pending"
       /\ UNCHANGED flags
    \/ /\ transfer' = "idle"
       /\ shutdown' = TRUE /\ finished' = TRUE

(* libusb_cancel_transfer: fails unless the transfer has been submitted; a *)
(* transfer that is complete but not handled yet may still turn out        *)
(* cancelled.                                                              *)
CancelTransfer ==
    /\ transfer' = IF transfer = "pending" THEN "cancelling" ELSE transfer
    /\ status' \in IF transfer = "done" THEN {status, "cancelled"} ELSE {status}

(* The transfer completes: with a report, a timeout (after 5 s) or an      *)
(* error, because it was cancelled, or because the board is gone.          *)
Complete ==
    /\ transfer \in {"pending", "cancelling"}
    /\ transfer' = "done"
    /\ status' \in IF ~plugged THEN {"gone"}
                   ELSE IF transfer = "cancelling" THEN {"cancelled"}
                   ELSE {"data", "other"}
    /\ UNCHANGED <<mainAt, readerAt, flags, callback, queued, plugged>>

(* A thread in libusb_handle_events or libusb_control_transfer finds the   *)
(* completed transfer and calls read_callback.                             *)
Handling(t) ==
    \/ t = "main" /\ mainAt = "control"
    \/ t = "reader" /\ readerAt = "events"
    \/ t = "reader" /\ readerAt = "drain" /\ ~finished

TakeEvent(t) ==
    /\ Handling(t)
    /\ transfer = "done"
    /\ callbackBy = "none"
    /\ transfer' = "active"
    /\ callbackBy' = t /\ callbackAt' = "handle"
    /\ UNCHANGED <<mainAt, readerAt, flags, status, queued, plugged>>

Unplug ==
    /\ plugged
    /\ plugged' = FALSE
    /\ UNCHANGED <<mainAt, readerAt, flags, transfer, status, callback, queued>>

-----------------------------------------------------------------------------
(* read_callback.                                                          *)

(* A waiting hid_read_timeout is signalled. *)
WakeMain ==
    mainAt' = CASE mainAt = "waiting" -> "read"
                [] mainAt = "dozing"  -> "timed"
                [] OTHER              -> mainAt

(* Mutant: the oldest report is not dropped. *)
AttachForever(n) == n + 1

(* The report is attached at the end; with more than QueueLimit links      *)
(* followed to get there the oldest one is dropped.                        *)
Attach(n) == IF n > QueueLimit + 1 THEN n ELSE n + 1

CallbackHandle ==
    /\ callbackAt = "handle"
    /\ CASE status = "data" ->
              /\ queued' = Attach(queued)
              /\ IF queued = 0 THEN WakeMain ELSE UNCHANGED mainAt
              /\ UNCHANGED shutdown
         [] status \in {"cancelled", "gone"} ->
              /\ shutdown' = TRUE
              /\ UNCHANGED <<queued, mainAt>>
         [] OTHER -> UNCHANGED <<queued, mainAt, shutdown>>
    /\ status' = "none"
    /\ callbackAt' = "check"
    /\ UNCHANGED <<readerAt, finished, transfer, callbackBy, plugged>>

(* Mutant: the callback returns without reporting the end of the loop. *)
CallbackCheckSilent ==
    /\ callbackAt = "check"
    /\ IF shutdown
       THEN /\ transfer' = "idle"
            /\ callbackBy' = "none" /\ callbackAt' = "none"
       ELSE /\ callbackAt' = "resubmit"
            /\ UNCHANGED <<transfer, callbackBy>>
    /\ UNCHANGED <<mainAt, readerAt, flags, status, queued, plugged>>

CallbackCheck ==
    /\ callbackAt = "check"
    /\ IF shutdown
       THEN /\ finished' = TRUE
            /\ transfer' = "idle"
            /\ callbackBy' = "none" /\ callbackAt' = "none"
       ELSE /\ callbackAt' = "resubmit"
            /\ UNCHANGED <<finished, transfer, callbackBy>>
    /\ UNCHANGED <<mainAt, readerAt, shutdown, status, queued, plugged>>

CallbackResubmit ==
    /\ callbackAt = "resubmit"
    /\ Submit
    /\ callbackBy' = "none" /\ callbackAt' = "none"
    /\ UNCHANGED <<mainAt, readerAt, status, queued, plugged>>

Callback == CallbackHandle \/ CallbackCheck \/ CallbackResubmit

-----------------------------------------------------------------------------
(* read_thread.                                                            *)

FirstSubmit ==
    /\ readerAt = "submit"
    /\ Submit
    /\ readerAt' = "barrier"
    /\ UNCHANGED <<mainAt, status, callback, queued, plugged>>

CheckShutdown ==
    /\ readerAt = "loop"
    /\ readerAt' = IF shutdown THEN "cancel" ELSE "events"
    /\ UNCHANGED <<mainAt, flags, transfer, status, callback, queued, plugged>>

(* libusb_handle_events returns, at the latest after its own timeout; a    *)
(* fatal error makes the thread stop.                                      *)
EventsReturn ==
    /\ readerAt = "events"
    /\ callbackBy # "reader"
    /\ \/ readerAt' = "loop" /\ UNCHANGED shutdown
       \/ readerAt' = "cancel" /\ shutdown' = TRUE
    /\ UNCHANGED <<mainAt, finished, transfer, status, callback, queued, plugged>>

(* Mutant: the thread does not wait for the end of the transfer loop. *)
ReaderCancelOnly ==
    /\ readerAt = "cancel"
    /\ CancelTransfer
    /\ readerAt' = "broadcast"
    /\ UNCHANGED <<mainAt, flags, callback, queued, plugged>>

ReaderCancel ==
    /\ readerAt = "cancel"
    /\ CancelTransfer
    /\ readerAt' = "drain"
    /\ UNCHANGED <<mainAt, flags, callback, queued, plugged>>

Drained ==
    /\ readerAt = "drain"
    /\ finished
    /\ callbackBy # "reader"
    /\ readerAt' = "broadcast"
    /\ UNCHANGED <<mainAt, flags, transfer, status, callback, queued, plugged>>

(* Mutant: no waiting reader is woken. *)
EndQuietly ==
    /\ readerAt = "broadcast"
    /\ readerAt' = "ended"
    /\ UNCHANGED <<mainAt, flags, transfer, status, callback, queued, plugged>>

Broadcast ==
    /\ readerAt = "broadcast"
    /\ WakeMain
    /\ readerAt' = "ended"
    /\ UNCHANGED <<flags, transfer, status, callback, queued, plugged>>

Reader ==
    \/ FirstSubmit \/ CheckShutdown \/ EventsReturn
    \/ ReaderCancel \/ Drained \/ Broadcast

-----------------------------------------------------------------------------
(* The main thread.                                                        *)

MainGoes(to) ==
    /\ mainAt' = to
    /\ UNCHANGED <<readerAt, flags, transfer, status, callback, queued, plugged>>

Create ==
    /\ mainAt = "create"
    /\ mainAt' = "barrier"
    /\ readerAt' = "submit"
    /\ UNCHANGED <<flags, transfer, status, callback, queued, plugged>>

(* pthread_barrier_wait of both threads. *)
Barrier ==
    /\ mainAt = "barrier" /\ readerAt = "barrier"
    /\ mainAt' = "idle" /\ readerAt' = "loop"
    /\ UNCHANGED <<flags, transfer, status, callback, queued, plugged>>

(* hid_send_feature_report, hid_get_feature_report and hid_write: libusb   *)
(* handles events while it waits for the transfer.                         *)
ControlTransfer == mainAt = "idle" /\ MainGoes("control")

ControlEnds == mainAt = "control" /\ callbackBy # "main" /\ MainGoes("idle")

(* hid_read_timeout: without a timeout, which is hid_read, with one, and   *)
(* as hid_read after hid_set_nonblocking.                                  *)
StartRead == mainAt = "idle" /\ (MainGoes("read") \/ MainGoes("timed"))

ReadNow ==
    /\ mainAt = "idle"
    /\ queued > 0
    /\ queued' = queued - 1
    /\ UNCHANGED <<mainAt, readerAt, flags, transfer, status, callback, plugged>>

(* The first report, or -1 after a shutdown, or else a wait. *)
ReturnOrWait(wait) ==
    /\ IF queued > 0
       THEN /\ queued' = queued - 1
            /\ mainAt' = "idle"
       ELSE /\ mainAt' = IF shutdown THEN "idle" ELSE wait
            /\ UNCHANGED queued
    /\ UNCHANGED <<readerAt, flags, transfer, status, callback, plugged>>

Read ==
    \/ mainAt = "read" /\ ReturnOrWait("waiting")
    \/ mainAt = "timed" /\ ReturnOrWait("dozing")

SpuriousWake ==
    \/ mainAt = "waiting" /\ MainGoes("read")
    \/ mainAt = "dozing" /\ MainGoes("timed")

(* The deadline is absolute: however often the thread is woken, it passes. *)
TimeOut == mainAt = "dozing" /\ MainGoes("idle")

(* hid_close. *)
CloseShutdown ==
    /\ mainAt = "idle"
    /\ shutdown' = TRUE
    /\ mainAt' = "cancel"
    /\ UNCHANGED <<readerAt, finished, transfer, status, callback, queued, plugged>>

CloseCancel ==
    /\ mainAt = "cancel"
    /\ CancelTransfer
    /\ mainAt' = "join"
    /\ UNCHANGED <<readerAt, flags, callback, queued, plugged>>

CloseJoin == mainAt = "join" /\ readerAt = "ended" /\ MainGoes("free")

CloseFree ==
    /\ mainAt = "free"
    /\ transfer' = "freed"
    /\ queued' = 0
    /\ mainAt' = "closed"
    /\ UNCHANGED <<readerAt, flags, status, callback, plugged>>

Close == CloseCancel \/ CloseJoin \/ CloseFree

ReadNext ==
    \/ Create \/ Barrier \/ ControlTransfer \/ ControlEnds
    \/ StartRead \/ ReadNow \/ Read \/ SpuriousWake \/ TimeOut \/ CloseShutdown \/ Close
    \/ Reader \/ Callback
    \/ \E t \in {"main", "reader"} : TakeEvent(t)
    \/ Complete \/ Unplug

(* Both threads are scheduled, a control transfer ends after 1 s, a        *)
(* transfer after 5 s, and libusb_handle_events does not return for ever   *)
(* without handling a transfer that is complete.  The user need not call   *)
(* anything, the board need not send or be unplugged.                      *)
ReadSpec ==
    /\ ReadInit
    /\ [][ReadNext]_vars
    /\ WF_vars(Barrier) /\ WF_vars(ControlEnds) /\ WF_vars(Read) /\ WF_vars(Close)
    /\ WF_vars(Reader) /\ WF_vars(Callback)
    /\ WF_vars(Complete) /\ SF_vars(TakeEvent("reader")) /\ SF_vars(TimeOut)

-----------------------------------------------------------------------------
(* Properties.                                                             *)

(* "In both cases the objects can be safely cleaned up after the call to   *)
(* pthread_join": from the moment the read thread leaves its loop no       *)
(* callback runs or can still be called, whichever thread would run it, so *)
(* hid_close frees a transfer nobody uses.                                 *)
NoCallbackAfterEnd ==
    readerAt \in {"broadcast", "ended"} =>
        /\ transfer \in {"idle", "freed"}
        /\ callbackBy = "none"

(* A user who never reads loses the oldest reports, not the memory.        *)
QueueBounded == queued <= QueueLimit + 2

(* The transfer is never lost between a cancel and a resubmit: until the   *)
(* loop is reported finished it is submitted, complete, or in a callback,  *)
(* and when it is reported finished it is none of these.                   *)
TransferAccounted == finished <=> transfer \in {"idle", "freed"}

(* What the proofs need besides: which steps of the two threads go         *)
(* together, and who may be inside read_callback.                          *)
ThreadsInStep ==
    /\ mainAt = "create" <=> readerAt = "none"
    /\ mainAt = "barrier" <=> readerAt \in {"submit", "barrier"}
    /\ transfer = "none" <=> readerAt \in {"none", "submit"}
    /\ transfer = "freed" <=> mainAt = "closed"
    /\ mainAt \in {"free", "closed"} => readerAt = "ended"
    /\ readerAt \in {"broadcast", "ended"} => finished

CallbackOwned ==
    /\ callbackBy = "none" <=> transfer # "active"
    /\ callbackBy = "none" <=> callbackAt = "none"
    /\ callbackBy = "main" => mainAt = "control"
    /\ callbackBy = "reader" => readerAt \in {"events", "drain"}

ReadInv ==
    /\ ReadTypeOK
    /\ TransferAccounted
    /\ QueueBounded
    /\ ThreadsInStep
    /\ CallbackOwned

(* hid_close returns, whatever the read thread, the transfer and the board *)
(* were doing when it was called.                                          *)
CloseEnds == mainAt = "cancel" ~> mainAt = "closed"

(* A hid_read that waits for a report returns when the board is gone:      *)
(* neither the signal nor the broadcast can be missed.  With a timeout it  *)
(* returns in any case, however often it is woken in between.              *)
ReadReturns ==
    /\ mainAt = "waiting" /\ ~plugged ~> mainAt = "idle"
    /\ mainAt = "timed" ~> mainAt = "idle"

=============================================================================
