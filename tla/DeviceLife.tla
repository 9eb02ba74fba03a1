----------------------------- MODULE DeviceLife -----------------------------
(***************************************************************************)
(* A standard run from hid_open_path to its end: UsbInterface and          *)
(* HidReadThread composed.                                                 *)
(*                                                                         *)
(* The two meet in hidapi_initialize_device, which starts the read thread  *)
(* once the interface is claimed, and in hid_close, which stops the thread *)
(* before it gives the interface back.  The thread keeps a transfer on the *)
(* interface meanwhile, and the board may restart under all of this.       *)
(* There is one standard process, which runs again and again, and nobody   *)
(* is killed.                                                              *)
(***************************************************************************)
EXTENDS UsbInterface, HidReadThread

CONSTANT Self   \* the standard process

ASSUME SelfAssumption == Std = {Self}

lifeVars == <<usbVars, vars>>

(* A new hid_device, and a process that has no thread but its first. *)
Fresh ==
    /\ mainAt' = "create" /\ readerAt' = "none"
    /\ shutdown' = FALSE /\ finished' = FALSE
    /\ transfer' = "none" /\ status' = "none"
    /\ callbackBy' = "none" /\ callbackAt' = "none"
    /\ queued' = 0
    /\ plugged' = TRUE

-----------------------------------------------------------------------------

(* hid_open_path up to the claim; plugged is about the board as it is      *)
(* enumerated when the handle is opened.                                   *)
Begin == OpenPath(Self) /\ Fresh

OpenUp ==
    \/ Probe(Self) /\ UNCHANGED vars
    \/ Detach(Self) /\ UNCHANGED vars
    \/ Claim(Self) /\ UNCHANGED vars
    \/ UndoDetach(Self) /\ UNCHANGED vars

(* The claim is granted: the read thread is started, and main uses it. *)
StartUp == pc[Self] = "use" /\ (Create \/ Barrier) /\ UNCHANGED usbVars

Call == pc[Self] = "use" /\ (ControlTransfer \/ StartRead \/ ReadNow) /\ UNCHANGED usbVars

CallEnds == pc[Self] = "use" /\ (ControlEnds \/ Read \/ SpuriousWake \/ TimeOut) /\ UNCHANGED usbVars

(* main returns: the process takes the read thread and its transfer along. *)
Return == mainAt = "idle" /\ ReturnSuccess(Self) /\ Fresh

(* error_exit: the first statement of hid_close. *)
Exit == ErrorExit(Self) /\ CloseShutdown

StopThread == pc[Self] = "release" /\ Close /\ UNCHANGED usbVars

(* Mutant: hid_close releases the interface before it joins the thread. *)
ReleaseBeforeJoin == mainAt \in {"join", "closed"} /\ CloseRelease(Self) /\ UNCHANGED vars

Release == mainAt = "closed" /\ CloseRelease(Self) /\ UNCHANGED vars

Reattach == CloseAttach(Self) /\ UNCHANGED vars

CloseSteps == StopThread \/ Release \/ Reattach

(* The board restarts: the handle is stale, and its transfer comes back.   *)
Restart ==
    /\ Reenumerate
    /\ plugged' = FALSE
    /\ UNCHANGED <<mainAt, readerAt, flags, transfer, status, callback, queued>>

Thread ==
    /\ Reader \/ Callback \/ Complete \/ \E t \in {"main", "reader"} : TakeEvent(t)
    /\ UNCHANGED usbVars

LifeInit == UsbInit /\ ReadInit

LifeNext ==
    \/ Begin \/ OpenUp \/ StartUp \/ Call \/ CallEnds \/ Return \/ Exit \/ CloseSteps
    \/ Thread
    \/ \E m \in Minimal : MinimalStep(m) /\ UNCHANGED vars
    \/ Restart

(* As in HidReadThread; and once begun, opening and closing go on.  Nobody *)
(* has to run the tool or call anything, and the board need not restart.   *)
LifeSpec ==
    /\ LifeInit
    /\ [][LifeNext]_lifeVars
    /\ WF_lifeVars(OpenUp) /\ WF_lifeVars(StartUp) /\ WF_lifeVars(CloseSteps)
    /\ WF_lifeVars(ControlEnds /\ UNCHANGED usbVars) /\ WF_lifeVars(Read /\ UNCHANGED usbVars)
    /\ WF_lifeVars(Reader /\ UNCHANGED usbVars) /\ WF_lifeVars(Callback /\ UNCHANGED usbVars)
    /\ WF_lifeVars(Complete /\ UNCHANGED usbVars)
    /\ SF_lifeVars(TakeEvent("reader") /\ UNCHANGED usbVars)
    /\ SF_lifeVars(TimeOut /\ UNCHANGED usbVars)

-----------------------------------------------------------------------------
(* Properties.                                                             *)

(* The transfer of the read thread is only ever on an interface that its   *)
(* process has claimed: hid_close gives the interface back, and the kernel *)
(* driver its board, when the transfer is no longer under way.             *)
TransferOwned ==
    plugged /\ transfer \in {"pending", "cancelling", "done", "active"} => owner = Self

(* A standard run that no other standard run disturbs opens the board,     *)
(* whichever driver it finds bound and however many minimal processes hold *)
(* the hidraw node, unless the board restarts meanwhile: "Already in use?" *)
(* is printed only under contention.                                       *)
SoloOpens == pc[Self] = "probe" ~> mainAt = "idle" \/ ~plugged

(* A run that fails gives the board back: hid_close comes to its end, and  *)
(* unless the board restarts the minimal tool finds its hidraw node again, *)
(* if it had one before.                                                   *)
FailedRunEnds ==
    pc[Self] = "release" ~>
        pc[Self] = "down" /\ (leaks = {} => driver = "hid")

=============================================================================
