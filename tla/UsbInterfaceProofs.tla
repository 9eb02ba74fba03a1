------------------------- MODULE UsbInterfaceProofs -------------------------
(***************************************************************************)
(* Proofs about UsbInterface, for any number of standard and minimal       *)
(* processes.  UsbInv is the inductive invariant; the results are the      *)
(* exclusive use of the board by a standard process and the accounting of  *)
(* the hid driver.                                                         *)
(***************************************************************************)
EXTENDS UsbInterface, TLAPS

(* The initial state, hid bound and nothing running, satisfies UsbInv. *)
LEMMA InitInv == UsbInit => UsbInv
  BY ProcAssumption DEF UsbInit, UsbInv, UsbTypeOK, ClaimAccounted, DriverAccounted,
     HandlesAccounted, Responsible, Proc, Stage, Opening, Closing

LEMMA OpenPathInv ==
  ASSUME UsbInv, NEW p \in Std, OpenPath(p)
  PROVE  UsbInv'
<1> USE ProcAssumption DEF UsbInv, OpenPath, GoTo, Proc
<1>1. UsbTypeOK'
  BY DEF UsbTypeOK, Stage, Opening
<1>2. ClaimAccounted'
  BY DEF UsbTypeOK, ClaimAccounted, HandlesAccounted
<1>3. DriverAccounted'
  BY DEF UsbTypeOK, DriverAccounted, Responsible, HandlesAccounted
<1>4. HandlesAccounted'
  BY DEF UsbTypeOK, HandlesAccounted
<1> QED BY <1>1, <1>2, <1>3, <1>4

LEMMA ProbeInv ==
  ASSUME UsbInv, NEW p \in Std, Probe(p)
  PROVE  UsbInv'
<1> USE ProcAssumption DEF UsbInv, Probe, GoTo, Proc
<1>1. UsbTypeOK'
  BY DEF UsbTypeOK, Stage, Opening
<1>2. ClaimAccounted'
  BY DEF UsbTypeOK, ClaimAccounted
<1>3. DriverAccounted'
  BY DEF UsbTypeOK, DriverAccounted, Responsible
<1>4. HandlesAccounted'
  BY DEF UsbTypeOK, HandlesAccounted
<1> QED BY <1>1, <1>2, <1>3, <1>4

LEMMA DetachInv ==
  ASSUME UsbInv, NEW p \in Std, Detach(p)
  PROVE  UsbInv'
<1> USE ProcAssumption DEF UsbInv, Detach, GoTo, Proc
<1>1. UsbTypeOK'
  BY DEF UsbTypeOK, Stage, Opening
<1>2. ClaimAccounted'
  BY DEF UsbTypeOK, ClaimAccounted
<1>3. DriverAccounted'
  BY DEF UsbTypeOK, DriverAccounted, Responsible, HandlesAccounted
<1>4. HandlesAccounted'
  BY DEF UsbTypeOK, HandlesAccounted
<1> QED BY <1>1, <1>2, <1>3, <1>4

LEMMA ClaimInv ==
  ASSUME UsbInv, NEW p \in Std, Claim(p)
  PROVE  UsbInv'
<1> USE ProcAssumption DEF UsbInv, Claim, GoTo, Proc
<1>1. UsbTypeOK'
  BY DEF UsbTypeOK, Stage, Opening
<1>2. ClaimAccounted'
  BY DEF UsbTypeOK, ClaimAccounted
<1>3. DriverAccounted'
  BY DEF UsbTypeOK, DriverAccounted, Responsible, HandlesAccounted
<1>4. HandlesAccounted'
  BY DEF UsbTypeOK, HandlesAccounted
<1> QED BY <1>1, <1>2, <1>3, <1>4

(* Both call sites of libusb_attach_kernel_driver end the process.  Since  *)
(* the caller detached hid itself and is the only one responsible for it,  *)
(* rebinding it leaves nobody responsible; if it fails, that is recorded.  *)
LEMMA AttachInv ==
  ASSUME UsbInv, NEW p \in Std, pc[p] \in {"undo", "attach"},
         AttachKernelDriver(p), alive' = alive \ {p},
         GoTo(p, "down"), UNCHANGED owner
  PROVE  UsbInv'
<1> USE ProcAssumption DEF UsbInv, AttachKernelDriver, GiveUp, GoTo, Proc
<1>1. UsbTypeOK'
  BY DEF UsbTypeOK, Stage
<1>2. ClaimAccounted'
  BY DEF UsbTypeOK, ClaimAccounted
<1>3. DriverAccounted'
  <2>1. CASE p \in alive /\ driver = "none"
    BY <2>1 DEF UsbTypeOK, DriverAccounted, Responsible, HandlesAccounted
  <2>2. CASE ~(p \in alive /\ driver = "none")
    BY <2>2 DEF UsbTypeOK, DriverAccounted, Responsible, HandlesAccounted
  <2> QED BY <2>1, <2>2
<1>4. HandlesAccounted'
  BY DEF UsbTypeOK, HandlesAccounted
<1> QED BY <1>1, <1>2, <1>3, <1>4

LEMMA ReturnSuccessInv ==
  ASSUME UsbInv, NEW p \in Std, ReturnSuccess(p)
  PROVE  UsbInv'
<1> USE ProcAssumption DEF UsbInv, ReturnSuccess, LeaveClaim, GiveUp, GoTo, Proc
<1>1. UsbTypeOK'
  BY DEF UsbTypeOK, Stage
<1>2. ClaimAccounted'
  BY DEF UsbTypeOK, ClaimAccounted
<1>3. DriverAccounted'
  BY DEF UsbTypeOK, DriverAccounted, ClaimAccounted, Responsible
<1>4. HandlesAccounted'
  BY DEF UsbTypeOK, ClaimAccounted, HandlesAccounted
<1> QED BY <1>1, <1>2, <1>3, <1>4

LEMMA ErrorExitInv ==
  ASSUME UsbInv, NEW p \in Std, ErrorExit(p)
  PROVE  UsbInv'
<1> USE ProcAssumption DEF UsbInv, ErrorExit, GoTo, Proc
<1>1. UsbTypeOK'
  BY DEF UsbTypeOK, Stage, Closing
<1>2. ClaimAccounted'
  BY DEF UsbTypeOK, ClaimAccounted
<1>3. DriverAccounted'
  BY DEF UsbTypeOK, DriverAccounted, Responsible
<1>4. HandlesAccounted'
  BY DEF UsbTypeOK, HandlesAccounted
<1> QED BY <1>1, <1>2, <1>3, <1>4

LEMMA CloseReleaseInv ==
  ASSUME UsbInv, NEW p \in Std, CloseRelease(p)
  PROVE  UsbInv'
<1> USE ProcAssumption DEF UsbInv, CloseRelease, LeaveClaim, GoTo, Proc
<1>1. UsbTypeOK'
  BY DEF UsbTypeOK, Stage, Closing
<1>2. ClaimAccounted'
  BY DEF UsbTypeOK, ClaimAccounted
<1>3. DriverAccounted'
  BY DEF UsbTypeOK, DriverAccounted, ClaimAccounted, Responsible
<1>4. HandlesAccounted'
  BY DEF UsbTypeOK, ClaimAccounted, HandlesAccounted
<1> QED BY <1>1, <1>2, <1>3, <1>4

LEMMA MinimalStepInv ==
  ASSUME UsbInv, NEW p \in Minimal, MinimalStep(p)
  PROVE  UsbInv'
<1> USE ProcAssumption DEF UsbInv, MinimalStep, OpenDevice, CloseDevice, GoTo, Proc
<1>1. UsbTypeOK'
  BY DEF UsbTypeOK, Stage
<1>2. ClaimAccounted'
  BY DEF UsbTypeOK, ClaimAccounted
<1>3. DriverAccounted'
  BY DEF UsbTypeOK, DriverAccounted, Responsible
<1>4. HandlesAccounted'
  BY DEF UsbTypeOK, HandlesAccounted
<1> QED BY <1>1, <1>2, <1>3, <1>4

LEMMA KillInv ==
  ASSUME UsbInv, NEW p \in Proc, Kill(p)
  PROVE  UsbInv'
<1> USE ProcAssumption DEF UsbInv, Kill, LeaveClaim, GiveUp, GoTo, Proc
<1>1. UsbTypeOK'
  BY DEF UsbTypeOK, Stage
<1>2. ClaimAccounted'
  BY DEF UsbTypeOK, ClaimAccounted
<1>3. DriverAccounted'
  BY DEF UsbTypeOK, DriverAccounted, ClaimAccounted, Responsible
<1>4. HandlesAccounted'
  BY DEF UsbTypeOK, ClaimAccounted, HandlesAccounted
<1> QED BY <1>1, <1>2, <1>3, <1>4

LEMMA ReenumerateInv ==
  ASSUME UsbInv, Reenumerate
  PROVE  UsbInv'
  BY ProcAssumption DEF UsbInv, UsbTypeOK, ClaimAccounted, DriverAccounted,
     HandlesAccounted, Responsible, Reenumerate, Proc

LEMMA StutterInv ==
  ASSUME UsbInv, UNCHANGED usbVars
  PROVE  UsbInv'
  BY DEF UsbInv, UsbTypeOK, ClaimAccounted, DriverAccounted, HandlesAccounted,
     Responsible, usbVars

(* UsbInv is inductive: every call of every process preserves it. *)
THEOREM UsbInvInductive == UsbInv /\ [UsbNext]_usbVars => UsbInv'
<1> SUFFICES ASSUME UsbInv, [UsbNext]_usbVars PROVE UsbInv'
  OBVIOUS
<1>1. ASSUME NEW p \in Std, StdStep(p) PROVE UsbInv'
  <2>1. CASE UndoDetach(p)
    BY <2>1, AttachInv DEF UndoDetach
  <2>2. CASE CloseAttach(p)
    BY <2>2, AttachInv DEF CloseAttach
  <2> QED
    BY <1>1, <2>1, <2>2, OpenPathInv, ProbeInv, DetachInv, ClaimInv,
       ReturnSuccessInv, ErrorExitInv, CloseReleaseInv DEF StdStep
<1>2. ASSUME NEW p \in Minimal, MinimalStep(p) PROVE UsbInv'
  BY <1>2, MinimalStepInv
<1>3. ASSUME NEW p \in Proc, Kill(p) PROVE UsbInv'
  BY <1>3, KillInv
<1>4. CASE Reenumerate
  BY <1>4, ReenumerateInv
<1>5. CASE UNCHANGED usbVars
  BY <1>5, StutterInv
<1> QED BY <1>1, <1>2, <1>3, <1>4, <1>5 DEF UsbNext

THEOREM UsbInvariant == UsbSpec => []UsbInv
  BY InitInv, UsbInvInductive, PTL DEF UsbSpec

(* Type correctness of every variable, in every reachable state. *)
THEOREM UsbTypeCorrect == UsbSpec => []UsbTypeOK
<1>1. UsbInv => UsbTypeOK
  BY DEF UsbInv
<1> QED BY <1>1, UsbInvariant, PTL

LEMMA UsbInvSoleUser == UsbInv => SoleUser
<1> SUFFICES ASSUME UsbInv, NEW p \in InUse \cap Std, NEW q \in InUse
             PROVE  q = p
  BY DEF SoleUser
<1>1. owner = p /\ driver = "usbfs"
  BY ProcAssumption DEF UsbInv, ClaimAccounted, InUse
<1>2. CASE q \in Std
  BY <1>1, <1>2 DEF UsbInv, ClaimAccounted, InUse
<1>3. CASE q \in Minimal
  BY <1>1, <1>3 DEF UsbInv, HandlesAccounted, InUse
<1> QED BY <1>2, <1>3 DEF UsbInv, UsbTypeOK, InUse, Proc

(* A standard process that can reach the board is alone with it: the claim *)
(* excludes other standard processes, and the detach that preceded it has  *)
(* killed every hidraw descriptor.                                         *)
THEOREM UsbSoleUser == UsbSpec => []SoleUser
  BY UsbInvSoleUser, UsbInvariant, PTL

(* usbfs is bound exactly while somebody's claim is counted, and a process *)
(* owns the interface exactly from its claim to its release.               *)
THEOREM UsbClaimAccounted == UsbSpec => []ClaimAccounted
<1>1. UsbInv => ClaimAccounted
  BY DEF UsbInv
<1> QED BY <1>1, UsbInvariant, PTL

(* The hid driver is lost only through a recorded leak. *)
THEOREM UsbDriverAccounted == UsbSpec => []DriverAccounted
<1>1. UsbInv => DriverAccounted
  BY DEF UsbInv
<1> QED BY <1>1, UsbInvariant, PTL

(* When no run is in progress and none leaked it, hid is bound. *)
THEOREM UsbQuietMeansBound == UsbSpec => []QuietMeansBound
<1>1. UsbInv => QuietMeansBound
  BY DEF UsbInv, DriverAccounted, HandlesAccounted, Responsible, QuietMeansBound
<1> QED BY <1>1, UsbInvariant, PTL

(* What hid_close finds when it reattaches: its own claim is gone, and hid *)
(* is still detached, by itself.                                           *)
LEMMA AttachFinds ==
  ASSUME UsbInv, NEW p \in Std, CloseAttach(p), p \in alive
  PROVE  driver' = "hid" \/ owner \in Std \ {p}
<1>1. pc[p] = "attach" /\ detached[p] /\ AttachKernelDriver(p)
  BY DEF CloseAttach, UsbInv, HandlesAccounted
<1>2. driver \in {"none", "usbfs"}
  <2>1. p \in Responsible
    BY <1>1 DEF Responsible
  <2> QED BY <2>1 DEF UsbInv, UsbTypeOK, DriverAccounted
<1>3. CASE driver = "none"
  BY <1>1, <1>3 DEF AttachKernelDriver
<1>4. CASE driver = "usbfs"
  <2>1. owner \in Std /\ owner # p
    BY <1>1, <1>4 DEF UsbInv, UsbTypeOK, ClaimAccounted
  <2> QED BY <2>1
<1> QED BY <1>2, <1>3, <1>4

(* hid_close restores the driver unless another run came in between its    *)
(* two calls.                                                              *)
THEOREM UsbOnlyClaimPreventsRestore == UsbSpec => OnlyClaimPreventsRestore
<1>1. UsbInv =>
        [\A p \in Std : CloseAttach(p) /\ p \in alive =>
           driver' = "hid" \/ owner \in Std \ {p}]_usbVars
  BY AttachFinds
<1> QED BY <1>1, UsbInvariant, PTL DEF OnlyClaimPreventsRestore

(* What hid.c says of hid_close is true as long as no two standard runs    *)
(* are started at a time, however many minimal ones there are.             *)
THEOREM UsbSoloCloseRestores ==
  ASSUME \A p, q \in Std : p = q
  PROVE  UsbSpec => CloseRestoresDriver
<1>1. UsbInv =>
        [\A p \in Std : CloseAttach(p) /\ p \in alive => driver' = "hid"]_usbVars
  BY AttachFinds
<1> QED BY <1>1, UsbInvariant, PTL DEF CloseRestoresDriver

-----------------------------------------------------------------------------
(* The protocol implements BoardAccess.                                    *)

LEMMA StepMapsToAccess ==
  ASSUME UsbInv, [UsbNext]_usbVars
  PROVE  [Access!AccessNext]_InUse
<1> USE DEF Access!AccessNext, Access!Proc
<1>1. alive \subseteq Proc /\ pc \in [Proc -> Stage] /\ Std \subseteq Proc /\ Minimal \subseteq Proc
  BY DEF UsbInv, UsbTypeOK, Proc
(* Nobody uses the board while no driver is bound, and only minimal        *)
(* processes use it while hid is bound.                                    *)
<1>2. driver # "usbfs" => InUse \cap Std = {}
  <2>1. \A p \in Std : owner = p => owner # NoOwner
    BY ProcAssumption
  <2>2. \A p \in Std : p \in InUse => owner = p
    BY DEF UsbInv, ClaimAccounted, InUse
  <2> QED BY <2>1, <2>2 DEF UsbInv, ClaimAccounted, InUse
<1>3. driver # "hid" => InUse \cap Minimal = {}
  BY DEF UsbInv, HandlesAccounted, InUse
<1>4. ASSUME NEW p \in Std, OpenPath(p) \/ Probe(p) \/ UndoDetach(p)
                            \/ CloseRelease(p) \/ CloseAttach(p)
      PROVE  InUse' = InUse
  BY <1>1, <1>4 DEF InUse, OpenPath, Probe, UndoDetach, CloseRelease, CloseAttach, GoTo
<1>5. ASSUME NEW p \in Std, Detach(p) PROVE [Access!AccessNext]_InUse
  <2>1. CASE p \in alive /\ driver = "hid"
    <3>1. InUse' = {}
      BY <1>1, <1>2, <1>5, <2>1 DEF InUse, Detach, GoTo, Proc
    <3> QED BY <3>1 DEF Access!CutOff
  <2>2. CASE ~(p \in alive /\ driver = "hid")
    <3>1. InUse' = InUse
      BY <1>1, <1>5, <2>2 DEF InUse, Detach, GoTo
    <3> QED BY <3>1
  <2> QED BY <2>1, <2>2
<1>6. ASSUME NEW p \in Std, Claim(p) PROVE [Access!AccessNext]_InUse
  <2>1. CASE p \in alive /\ driver = "none"
    <3>1. InUse = {}
      BY <1>1, <1>2, <1>3, <2>1 DEF InUse, Proc
    <3>2. InUse' = {p}
      BY <1>1, <1>6, <2>1, <3>1 DEF InUse, Claim, GoTo
    <3> QED BY <3>1, <3>2 DEF Access!Enter
  <2>2. CASE ~(p \in alive /\ driver = "none")
    <3>1. InUse' = InUse
      BY <1>1, <1>6, <2>2 DEF InUse, Claim, GoTo
    <3> QED BY <3>1
  <2> QED BY <2>1, <2>2
<1>7. ASSUME NEW p \in Proc, ReturnSuccess(p) \/ ErrorExit(p) \/ CloseDevice(p) \/ Kill(p)
      PROVE  Access!Leave(p)
  BY <1>1, <1>7 DEF Access!Leave, InUse, ReturnSuccess, ErrorExit, CloseDevice, Kill, GoTo
<1>8. ASSUME NEW p \in Minimal, OpenDevice(p) PROVE Access!EnterShared(p)
  <2>1. InUse' = InUse \cup {p}
    BY <1>1, <1>8 DEF InUse, OpenDevice, GoTo
  <2> QED BY <1>2, <1>8, <2>1 DEF Access!EnterShared, OpenDevice
<1>9. CASE Reenumerate
  BY <1>9 DEF Reenumerate, InUse, Access!CutOff
<1>10. CASE UNCHANGED usbVars
  BY <1>10 DEF usbVars, InUse
<1>11. ASSUME NEW p \in Std, StdStep(p) PROVE [Access!AccessNext]_InUse
  BY <1>1, <1>4, <1>5, <1>6, <1>7, <1>11 DEF StdStep, Proc
<1>12. ASSUME NEW p \in Minimal, MinimalStep(p) PROVE [Access!AccessNext]_InUse
  BY <1>1, <1>7, <1>8, <1>12 DEF MinimalStep, Proc
<1> QED BY <1>7, <1>9, <1>10, <1>11, <1>12 DEF UsbNext, Proc

(* Claim, detach and the death of hidraw descriptors together amount to    *)
(* BoardAccess: exclusive use for standard, shared use for minimal         *)
(* processes.  Models of the commands may be built on BoardAccess alone.   *)
THEOREM UsbImplementsAccess == UsbSpec => ImplementsAccess
<1>1. UsbInit => Access!AccessInit
  BY DEF UsbInit, Access!AccessInit, InUse
<1>2. UsbInv /\ [UsbNext]_usbVars => [Access!AccessNext]_InUse
  BY StepMapsToAccess
<1> QED BY <1>1, <1>2, UsbInvariant, PTL DEF UsbSpec, ImplementsAccess, Access!AccessSpec

=============================================================================
