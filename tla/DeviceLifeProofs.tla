-------------------------- MODULE DeviceLifeProofs --------------------------
(***************************************************************************)
(* Safety of the read thread, for every queue limit, and of its            *)
(* composition with the open and close protocol, for any number of minimal *)
(* processes.  The invariants of the two parts carry over to the whole, as *)
(* every step of the whole is a step of either part or starts a new        *)
(* hid_device; what is new there says in which stage of the run the main   *)
(* thread is where.                                                        *)
(***************************************************************************)
EXTENDS DeviceLife, UsbInterfaceProofs

-----------------------------------------------------------------------------
(* The read thread by itself.                                              *)

(* The invariant holds before the thread is created. *)
LEMMA ReadInitInv == ReadInit => ReadInv
<1> SUFFICES ASSUME ReadInit PROVE ReadInv
  OBVIOUS
<1>1. shutdown \in BOOLEAN /\ finished \in BOOLEAN /\ plugged \in BOOLEAN /\ ~finished
  BY DEF ReadInit
<1>2. ReadTypeOK /\ QueueBounded
  BY <1>1, QueueAssumption DEF ReadInit, ReadTypeOK, QueueBounded, MainAt, ReaderAt, Transfer, Status
<1>3. TransferAccounted /\ ThreadsInStep /\ CallbackOwned
  BY <1>1 DEF ReadInit, TransferAccounted, ThreadsInStep, CallbackOwned
<1> QED BY <1>2, <1>3 DEF ReadInv

(* Every step of either thread, of libusb and of the board keeps it. *)
LEMMA ReadInvInductive ==
  ASSUME ReadInv, [ReadNext]_vars
  PROVE  ReadInv'
<1> USE DEF ReadInv, ReadTypeOK, TransferAccounted, QueueBounded, ThreadsInStep,
            CallbackOwned, MainAt, ReaderAt, Transfer, Status, flags, callback
<1>1. CASE Create
  BY <1>1 DEF Create
<1>2. CASE Barrier
  BY <1>2 DEF Barrier
<1>3. CASE ControlTransfer
  BY <1>3 DEF ControlTransfer, MainGoes
<1>4. CASE ControlEnds
  BY <1>4 DEF ControlEnds, MainGoes
<1>5. CASE StartRead
  BY <1>5 DEF StartRead, MainGoes
<1>6. CASE Read
  BY QueueAssumption, <1>6 DEF Read, ReturnOrWait
<1>7. CASE SpuriousWake \/ TimeOut
  BY <1>7 DEF SpuriousWake, TimeOut, MainGoes
<1>25. CASE ReadNow
  BY QueueAssumption, <1>25 DEF ReadNow
<1>8. CASE CloseShutdown
  BY <1>8 DEF CloseShutdown
<1>9. CASE CloseCancel
  BY <1>9 DEF CloseCancel, CancelTransfer
<1>10. CASE CloseJoin
  BY <1>10 DEF CloseJoin, MainGoes
<1>11. CASE CloseFree
  BY QueueAssumption, <1>11 DEF CloseFree
<1>12. CASE FirstSubmit
  <2> readerAt = "submit" /\ readerAt' = "barrier"
        /\ UNCHANGED <<mainAt, status, callback, queued, plugged>>
    BY <1>12 DEF FirstSubmit
  <2>1. CASE transfer' = "pending" /\ UNCHANGED flags
    BY <2>1
  <2>2. CASE transfer' = "idle" /\ shutdown' = TRUE /\ finished' = TRUE
    BY <2>2
  <2> QED BY <1>12, <2>1, <2>2 DEF FirstSubmit, Submit
<1>13. CASE CheckShutdown
  BY <1>13 DEF CheckShutdown
<1>14. CASE EventsReturn
  <2>1. /\ readerAt = "events" /\ callbackBy # "reader"
        /\ UNCHANGED <<mainAt, finished, transfer, status, callback, queued, plugged>>
    BY <1>14 DEF EventsReturn
  <2>2. readerAt' \in {"loop", "cancel"} /\ shutdown' \in BOOLEAN
    BY <1>14 DEF EventsReturn
  <2> QED BY <2>1, <2>2
<1>15. CASE ReaderCancel
  BY <1>15 DEF ReaderCancel, CancelTransfer
<1>16. CASE Drained
  BY <1>16 DEF Drained
<1>17. CASE Broadcast
  BY <1>17 DEF Broadcast, WakeMain
<1>18. CASE CallbackHandle
  <2>1. UNCHANGED <<readerAt, finished, transfer, callbackBy, plugged>>
        /\ callbackAt = "handle" /\ callbackAt' = "check" /\ status' = "none"
    BY <1>18 DEF CallbackHandle
  <2>2. queued' \in Nat /\ queued' <= QueueLimit + 2
    BY <1>18, QueueAssumption DEF CallbackHandle, Attach
  <2>3. shutdown' \in BOOLEAN
    BY <1>18 DEF CallbackHandle
  <2>4. \/ mainAt' = mainAt
        \/ mainAt = "waiting" /\ mainAt' = "read"
        \/ mainAt = "dozing" /\ mainAt' = "timed"
    BY <1>18 DEF CallbackHandle, WakeMain
  <2> QED BY <2>1, <2>2, <2>3, <2>4
<1>19. CASE CallbackCheck
  BY <1>19 DEF CallbackCheck
<1>20. CASE CallbackResubmit
  <2>1. CASE transfer' = "pending" /\ UNCHANGED flags
    BY <1>20, <2>1 DEF CallbackResubmit
  <2>2. CASE transfer' = "idle" /\ shutdown' = TRUE /\ finished' = TRUE
    BY <1>20, <2>2 DEF CallbackResubmit
  <2> QED BY <1>20, <2>1, <2>2 DEF CallbackResubmit, Submit
<1>21. ASSUME NEW t \in {"main", "reader"}, TakeEvent(t) PROVE ReadInv'
  BY <1>21 DEF TakeEvent, Handling
<1>22. CASE Complete
  BY <1>22 DEF Complete
<1>23. CASE Unplug
  <2>1. plugged' \in BOOLEAN
    BY <1>23 DEF Unplug
  <2>2. UNCHANGED <<mainAt, readerAt, flags, transfer, status, callback, queued>>
    BY <1>23 DEF Unplug
  <2> QED BY <2>1, <2>2
<1>24. CASE UNCHANGED vars
  BY <1>24 DEF vars
<1> QED
  BY <1>1, <1>2, <1>3, <1>4, <1>5, <1>6, <1>7, <1>8, <1>9, <1>10, <1>11, <1>12,
     <1>13, <1>14, <1>15, <1>16, <1>17, <1>18, <1>19, <1>20, <1>21, <1>22, <1>23,
     <1>24, <1>25 DEF ReadNext, Close, Reader, Callback

(* The invariant holds in every behaviour. *)
THEOREM ReadInvariant == ReadSpec => []ReadInv
<1>1. ReadInv /\ [ReadNext]_vars => ReadInv'
  BY ReadInvInductive
<1> QED BY ReadInitInv, <1>1, PTL DEF ReadSpec

(* All variables keep their types; in particular the queue never becomes   *)
(* shorter than empty.                                                     *)
THEOREM ReadTypeCorrect == ReadSpec => []ReadTypeOK
<1>1. ReadInv => ReadTypeOK
  BY DEF ReadInv
<1> QED BY <1>1, ReadInvariant, PTL

(* The transfer loop is reported finished exactly when it is. *)
THEOREM ReadTransferAccounted == ReadSpec => []TransferAccounted
<1>1. ReadInv => TransferAccounted
  BY DEF ReadInv
<1> QED BY <1>1, ReadInvariant, PTL

(* The report queue is bounded for every limit. *)
THEOREM ReadQueueBounded == ReadSpec => []QueueBounded
<1>1. ReadInv => QueueBounded
  BY DEF ReadInv
<1> QED BY <1>1, ReadInvariant, PTL

(* hid_close frees a transfer that no callback uses or will use: the       *)
(* thread ends only when the loop is finished, and then the transfer is    *)
(* neither submitted nor inside a callback of either thread.               *)
THEOREM ReadNoCallbackAfterEnd == ReadSpec => []NoCallbackAfterEnd
<1>1. ReadInv => NoCallbackAfterEnd
  BY DEF ReadInv, ThreadsInStep, TransferAccounted, CallbackOwned, NoCallbackAfterEnd
<1> QED BY <1>1, ReadInvariant, PTL

-----------------------------------------------------------------------------
(* The composition.                                                        *)

MainCloses == {"cancel", "join", "free", "closed"}

(* The read thread exists only while the process owns the interface, and a *)
(* handle is good as long as the board has not restarted.                  *)
ThreadInRun ==
    /\ pc[Self] \in Opening  => mainAt = "create"
    /\ pc[Self] = "down"     => mainAt \in {"create", "closed"}
    /\ pc[Self] = "use"      => mainAt \notin MainCloses
    /\ pc[Self] = "release"  => mainAt \in MainCloses
    /\ pc[Self] = "attach"   => mainAt = "closed"
    /\ plugged /\ pc[Self] # "down" => Self \in alive

LifeInv == UsbInv /\ ReadInv /\ ThreadInRun

LEMMA SelfIsStd == Self \in Std /\ Self \in Proc /\ Std = {Self}
  BY SelfAssumption DEF Proc

(* A new hid_device satisfies the invariant of the read thread. *)
LEMMA FreshInv == Fresh => ReadInv'
<1> SUFFICES ASSUME Fresh PROVE ReadInv'
  OBVIOUS
<1>1. shutdown' \in BOOLEAN /\ finished' \in BOOLEAN /\ plugged' \in BOOLEAN
  BY DEF Fresh
<1>2. ReadTypeOK' /\ QueueBounded'
  BY <1>1, QueueAssumption
     DEF Fresh, ReadTypeOK, QueueBounded, MainAt, ReaderAt, Transfer, Status
<1>3. TransferAccounted' /\ ThreadsInStep' /\ CallbackOwned'
  BY DEF Fresh, TransferAccounted, ThreadsInStep, CallbackOwned
<1> QED BY <1>2, <1>3 DEF ReadInv

(* A step of the thread's part alone, in which main does not start to      *)
(* close.                                                                  *)
LEMMA ThreadStep ==
  ASSUME LifeInv, ReadNext, UNCHANGED usbVars, plugged' = plugged,
         pc[Self] \in Opening \/ pc[Self] = "down" => mainAt' = mainAt,
         mainAt \in MainCloses <=> mainAt' \in MainCloses,
         mainAt = "closed" => mainAt' = "closed"
  PROVE  LifeInv'
<1>1. UsbInv'
  BY StutterInv DEF LifeInv
<1>2. ReadInv'
  BY ReadInvInductive DEF LifeInv
<1>3. ThreadInRun'
  BY DEF LifeInv, ThreadInRun, MainCloses, usbVars
<1> QED BY <1>1, <1>2, <1>3 DEF LifeInv

(* The opening calls do not touch the read thread. *)
LEMMA OpenUpInv ==
  ASSUME LifeInv, OpenUp
  PROVE  LifeInv'
<1> USE SelfIsStd
<1>1. UsbInv'
  BY ProbeInv, DetachInv, ClaimInv, AttachInv DEF LifeInv, OpenUp, UndoDetach
<1>2. ReadInv' /\ UNCHANGED vars
  BY ReadInvInductive DEF LifeInv, OpenUp
<1>3. ThreadInRun'
  <2>1. pc[Self] \in Opening /\ mainAt = "create" /\ UNCHANGED <<mainAt, plugged>>
    BY <1>2 DEF OpenUp, Probe, Detach, Claim, UndoDetach, Opening, LifeInv, ThreadInRun, vars
  <2>2. pc' = [pc EXCEPT ![Self] = pc'[Self]] /\ pc'[Self] \in Opening \cup {"use", "down"}
    BY DEF OpenUp, Probe, Detach, Claim, UndoDetach, GoTo, LifeInv, UsbInv, UsbTypeOK, Opening
  <2>3. pc'[Self] # "down" /\ Self \in alive => Self \in alive'
    BY ProcAssumption
       DEF OpenUp, Probe, Detach, Claim, UndoDetach, GoTo, LifeInv, UsbInv, UsbTypeOK, Opening
  <2> QED BY <2>1, <2>2, <2>3 DEF LifeInv, ThreadInRun, MainCloses, Opening
<1> QED BY <1>1, <1>2, <1>3 DEF LifeInv

(* A run begins, or ends without hid_close, with a new read thread. *)
LEMMA BeginReturnInv ==
  ASSUME LifeInv, Begin \/ Return
  PROVE  LifeInv'
<1> USE SelfIsStd
<1>1. UsbInv'
  BY OpenPathInv, ReturnSuccessInv DEF LifeInv, Begin, Return
<1>2. ReadInv'
  BY FreshInv DEF Begin, Return
<1>3. CASE Begin
  <2>1. pc'[Self] = "probe" /\ Self \in alive' /\ mainAt' = "create"
    BY <1>3 DEF Begin, Fresh, OpenPath, GoTo, LifeInv, UsbInv, UsbTypeOK
  <2> QED BY <1>1, <1>2, <2>1 DEF LifeInv, ThreadInRun, Opening
<1>4. CASE Return
  <2>1. pc'[Self] = "down" /\ mainAt' = "create"
    BY <1>4 DEF Return, Fresh, ReturnSuccess, GoTo, LifeInv, UsbInv, UsbTypeOK
  <2> QED BY <1>1, <1>2, <2>1 DEF LifeInv, ThreadInRun, Opening
<1> QED BY <1>3, <1>4

(* hid_close, from its first statement to the reattach. *)
LEMMA ClosingInv ==
  ASSUME LifeInv, Exit \/ Release \/ Reattach
  PROVE  LifeInv'
<1> USE SelfIsStd
<1>1. UsbInv'
  BY ErrorExitInv, CloseReleaseInv, AttachInv DEF LifeInv, Exit, Release, Reattach, CloseAttach
<1>2. ReadInv' /\ plugged' = plugged
  <2>1. CASE Exit
    BY <2>1, ReadInvInductive DEF LifeInv, Exit, ReadNext, CloseShutdown
  <2>2. CASE Release \/ Reattach
    BY <2>2, ReadInvInductive DEF LifeInv, Release, Reattach, vars
  <2> QED BY <2>1, <2>2
<1>3. CASE Exit
  <2>1. pc'[Self] = "release" /\ mainAt' = "cancel" /\ UNCHANGED alive /\ pc[Self] = "use"
    BY <1>3 DEF Exit, ErrorExit, CloseShutdown, GoTo, LifeInv, UsbInv, UsbTypeOK
  <2> QED BY <1>1, <1>2, <2>1 DEF LifeInv, ThreadInRun, Opening, MainCloses
<1>4. CASE Release
  <2>1. pc'[Self] \in {"attach", "down"} /\ mainAt' = "closed" /\ pc[Self] = "release"
    BY <1>4 DEF Release, CloseRelease, GoTo, LifeInv, UsbInv, UsbTypeOK, vars
  <2>2. pc'[Self] = "attach" => UNCHANGED alive
    BY <1>4 DEF Release, CloseRelease, GoTo, LifeInv, UsbInv, UsbTypeOK
  <2> QED BY <1>1, <1>2, <2>1, <2>2 DEF LifeInv, ThreadInRun, Opening
<1>5. CASE Reattach
  <2>1. pc'[Self] = "down" /\ mainAt' = mainAt /\ pc[Self] = "attach"
    BY <1>5 DEF Reattach, CloseAttach, GoTo, LifeInv, UsbInv, UsbTypeOK, vars
  <2> QED BY <1>1, <1>2, <2>1 DEF LifeInv, ThreadInRun, Opening
<1> QED BY <1>3, <1>4, <1>5

(* The board restarts. *)
LEMMA RestartInv ==
  ASSUME LifeInv, Restart
  PROVE  LifeInv'
<1>1. UsbInv'
  BY ReenumerateInv DEF LifeInv, Restart
<1>2. ReadInv'
  <2>1. CASE plugged
    BY <2>1, ReadInvInductive DEF LifeInv, Restart, ReadNext, Unplug
  <2>2. CASE ~plugged
    <3>1. UNCHANGED vars
      BY <2>2 DEF LifeInv, ReadInv, ReadTypeOK, Restart, vars, flags, callback
    <3> QED BY <3>1, ReadInvInductive DEF LifeInv
  <2> QED BY <2>1, <2>2
<1>3. ThreadInRun'
  BY DEF LifeInv, ThreadInRun, Restart, Reenumerate
<1> QED BY <1>1, <1>2, <1>3 DEF LifeInv

(* A minimal process opens or closes the hidraw node. *)
LEMMA MinimalLifeInv ==
  ASSUME LifeInv, NEW m \in Minimal, MinimalStep(m), UNCHANGED vars
  PROVE  LifeInv'
<1>1. UsbInv'
  BY MinimalStepInv DEF LifeInv
<1>2. ReadInv'
  BY ReadInvInductive DEF LifeInv
<1>3. pc'[Self] = pc[Self] /\ (Self \in alive => Self \in alive')
  BY SelfIsStd, ProcAssumption
     DEF MinimalStep, OpenDevice, CloseDevice, GoTo, LifeInv, UsbInv, UsbTypeOK
<1>4. ThreadInRun'
  BY <1>3 DEF LifeInv, ThreadInRun, vars
<1> QED BY <1>1, <1>2, <1>4 DEF LifeInv

(* The main thread between the claim and hid_close, and the steps of       *)
(* hid_close that stop the read thread.                                    *)
LEMMA MainInv ==
  ASSUME LifeInv, StartUp \/ Call \/ CallEnds \/ StopThread
  PROVE  LifeInv'
<1>1. ReadNext /\ UNCHANGED usbVars
  BY DEF StartUp, Call, CallEnds, StopThread, ReadNext
<1>2. plugged' = plugged
  BY DEF StartUp, Call, CallEnds, StopThread, Create, Barrier, ControlTransfer, StartRead,
         ReadNow, ControlEnds, Read, ReturnOrWait, SpuriousWake, TimeOut, MainGoes, Close,
         CloseCancel, CloseJoin, CloseFree
<1>3. pc[Self] \in {"use", "release"}
  BY DEF StartUp, Call, CallEnds, StopThread
<1>4. CASE StartUp \/ Call \/ CallEnds
  <2>1. mainAt \notin MainCloses /\ mainAt' \notin MainCloses
    BY <1>4 DEF StartUp, Call, CallEnds, Create, Barrier, ControlTransfer, StartRead,
         ReadNow, ControlEnds, Read, ReturnOrWait, SpuriousWake, TimeOut, MainGoes, MainCloses
  <2> QED BY <1>1, <1>2, <1>3, <2>1, ThreadStep DEF Opening, MainCloses
<1>5. CASE StopThread
  <2>1. mainAt \in MainCloses \ {"closed"} /\ mainAt' \in MainCloses
    BY <1>5 DEF StopThread, Close, CloseCancel, CloseJoin, CloseFree, MainGoes, MainCloses
  <2> QED BY <1>1, <1>2, <1>3, <2>1, ThreadStep DEF Opening, MainCloses
<1> QED BY <1>4, <1>5

(* The read thread, the callback and libusb wake main at most. *)
LEMMA ThreadInv ==
  ASSUME LifeInv, Thread
  PROVE  LifeInv'
<1>1. ReadNext /\ UNCHANGED usbVars
  BY DEF Thread, ReadNext
<1>2. plugged' = plugged
  BY DEF Thread, Reader, FirstSubmit, CheckShutdown, EventsReturn, ReaderCancel, Drained,
         Broadcast, Callback, CallbackHandle, CallbackCheck, CallbackResubmit, Complete, TakeEvent
<1>3. \/ mainAt' = mainAt
      \/ mainAt = "waiting" /\ mainAt' = "read"
      \/ mainAt = "dozing" /\ mainAt' = "timed"
  BY DEF Thread, Reader, FirstSubmit, CheckShutdown, EventsReturn, ReaderCancel, Drained,
         Broadcast, Callback, CallbackHandle, CallbackCheck, CallbackResubmit, Complete,
         TakeEvent, WakeMain
<1>4. pc[Self] \in Opening \/ pc[Self] = "down" => mainAt \in {"create", "closed"}
  BY DEF LifeInv, ThreadInRun
<1> QED BY <1>1, <1>2, <1>3, <1>4, ThreadStep DEF MainCloses

-----------------------------------------------------------------------------

(* LifeInv holds at first and is kept by every step. *)
THEOREM LifeInvariant == LifeSpec => []LifeInv
<1>1. LifeInit => LifeInv
  <2> SUFFICES ASSUME LifeInit PROVE LifeInv
    OBVIOUS
  <2>1. UsbInv /\ ReadInv
    BY InitInv, ReadInitInv DEF LifeInit
  <2>2. ThreadInRun
    BY SelfIsStd DEF LifeInit, UsbInit, ReadInit, ThreadInRun, Opening
  <2> QED BY <2>1, <2>2 DEF LifeInv
<1>2. LifeInv /\ [LifeNext]_lifeVars => LifeInv'
  <2> SUFFICES ASSUME LifeInv, [LifeNext]_lifeVars PROVE LifeInv'
    OBVIOUS
  <2>1. CASE UNCHANGED lifeVars
    <3>1. UsbInv' /\ ReadInv'
      BY <2>1, StutterInv, ReadInvInductive DEF LifeInv, lifeVars
    <3>2. ThreadInRun'
      BY <2>1 DEF LifeInv, ThreadInRun, lifeVars, usbVars, vars
    <3> QED BY <3>1, <3>2 DEF LifeInv
  <2>2. CASE LifeNext
    BY <2>2, OpenUpInv, BeginReturnInv, ClosingInv, RestartInv, MinimalLifeInv, MainInv, ThreadInv
       DEF LifeNext, CloseSteps
  <2> QED BY <2>1, <2>2
<1> QED BY <1>1, <1>2, PTL DEF LifeSpec

(* The transfer of the read thread is on an interface its process owns: a  *)
(* transfer under way means that the thread has been started and not yet   *)
(* joined, which is between the claim and the release.                     *)
THEOREM LifeTransferOwned == LifeSpec => []TransferOwned
<1>1. LifeInv => TransferOwned
  <2> SUFFICES ASSUME LifeInv, plugged,
                      transfer \in {"pending", "cancelling", "done", "active"}
               PROVE  owner = Self
    BY DEF TransferOwned
  <2>1. mainAt \notin {"create", "closed"}
    BY DEF LifeInv, ReadInv, ThreadsInStep
  <2>2. pc[Self] \in {"use", "release"}
    BY <2>1, SelfIsStd DEF LifeInv, ThreadInRun, UsbInv, UsbTypeOK, Stage, Closing, Proc
  <2>3. Self \in alive
    BY <2>2 DEF LifeInv, ThreadInRun
  <2> QED BY <2>2, <2>3, SelfIsStd DEF LifeInv, UsbInv, ClaimAccounted
<1> QED BY <1>1, LifeInvariant, PTL

(* In the composition, too, hid_close frees a transfer nobody uses. *)
THEOREM LifeNoCallbackAfterEnd == LifeSpec => []NoCallbackAfterEnd
<1>1. LifeInv => NoCallbackAfterEnd
  BY DEF LifeInv, ReadInv, ThreadsInStep, TransferAccounted, CallbackOwned, NoCallbackAfterEnd
<1> QED BY <1>1, LifeInvariant, PTL

=============================================================================
