---------------------------- MODULE UsbInterface ----------------------------
(***************************************************************************)
(* Who may talk to one board, and what is left behind.                     *)
(*                                                                         *)
(* A board is one USB HID interface.  The kernel binds it to at most one   *)
(* driver: its own hid driver (then /dev/hidraw exists), usbfs (then one   *)
(* process has claimed it) or none.  The standard tool (13Y063.c on the    *)
(* libusb backend hid.c) takes the interface away from the kernel and      *)
(* claims it; the minimal tool opens the hidraw node, which any number of  *)
(* processes may hold at once.  Every libusb or kernel call is one action, *)
(* so processes interleave between calls, and a process may be killed or   *)
(* the board may re-enumerate between any two of them.                     *)
(***************************************************************************)
EXTENDS FiniteSets

CONSTANTS
    Std,        \* processes running the standard tool
    Minimal,    \* processes running the minimal tool
    NoOwner     \* the value of owner when nobody has claimed the interface

ASSUME ProcAssumption ==
    /\ Std \cap Minimal = {}
    /\ NoOwner \notin Std

Proc == Std \cup Minimal

VARIABLES
    driver,     \* the kernel driver the interface is bound to
    owner,      \* the process usbfs has granted the interface
    alive,      \* processes whose open handle still refers to the board
    pc,         \* the next call of each process
    detached,   \* hid.c: dev->is_driver_detached
    leaks       \* history: how a detached hid driver was given up, if it was

usbVars == <<driver, owner, alive, pc, detached, leaks>>

Opening == {"probe", "detach", "claim", "undo"}
Closing == {"release", "attach"}
Stage   == {"down", "use"} \cup Opening \cup Closing

UsbTypeOK ==
    /\ driver \in {"hid", "none", "usbfs"}
    /\ owner \in Std \cup {NoOwner}
    /\ alive \in SUBSET Proc
    /\ pc \in [Proc -> Stage]
    /\ detached \in [Std -> BOOLEAN]
    /\ leaks \in SUBSET {"exit", "kill", "race"}

UsbInit ==
    /\ driver = "hid"
    /\ owner = NoOwner
    /\ alive = {}
    /\ pc = [p \in Proc |-> "down"]
    /\ detached = [p \in Std |-> FALSE]
    /\ leaks = {}

-----------------------------------------------------------------------------
(* The kernel's side of the calls.                                         *)

GoTo(p, stage) == pc' = [pc EXCEPT ![p] = stage]

(* p's process gives back its descriptors: a claim it holds ends with them. *)
LeaveClaim(p) ==
    IF owner = p
    THEN driver' = "none" /\ owner' = NoOwner
    ELSE UNCHANGED <<driver, owner>>

(* p stops being responsible for a detached hid driver without rebinding it. *)
GiveUp(p, how) ==
    /\ detached' = [detached EXCEPT ![p] = FALSE]
    /\ leaks' = IF detached[p] /\ p \in alive THEN leaks \cup {how} ELSE leaks

(* libusb_attach_kernel_driver: binds hid again if no driver is bound. *)
AttachKernelDriver(p) ==
    IF p \in alive /\ driver = "none"
    THEN /\ driver' = "hid"
         /\ detached' = [detached EXCEPT ![p] = FALSE]
         /\ UNCHANGED leaks
    ELSE /\ GiveUp(p, "race")
         /\ UNCHANGED driver

-----------------------------------------------------------------------------
(* hid_open_path and hidapi_initialize_device.                             *)

(* libusb_open: a handle on the board as it is enumerated now. *)
OpenPath(p) ==
    /\ pc[p] = "down"
    /\ alive' = alive \cup {p}
    /\ detached' = [detached EXCEPT ![p] = FALSE]
    /\ GoTo(p, "probe")
    /\ UNCHANGED <<driver, owner, leaks>>

(* Mutant: the kernel driver is detached without asking whether it is there. *)
ProbeSkipped(p) ==
    /\ pc[p] = "probe"
    /\ GoTo(p, "detach")
    /\ UNCHANGED <<driver, owner, alive, detached, leaks>>

(* libusb_kernel_driver_active answers 0 for usbfs and for no driver. *)
Probe(p) ==
    /\ pc[p] = "probe"
    /\ GoTo(p, IF p \in alive /\ driver = "hid" THEN "detach" ELSE "claim")
    /\ UNCHANGED <<driver, owner, alive, detached, leaks>>

(* libusb_detach_kernel_driver: unbinding hid destroys the hidraw node, so *)
(* descriptors that minimal processes hold on it go dead.  If hid is gone  *)
(* by now the call fails, and so does the open.                            *)
Detach(p) ==
    /\ pc[p] = "detach"
    /\ IF p \in alive /\ driver = "hid"
       THEN /\ driver' = "none"
            /\ alive' = alive \ Minimal
            /\ detached' = [detached EXCEPT ![p] = TRUE]
            /\ GoTo(p, "claim")
       ELSE /\ alive' = alive \ {p}
            /\ GoTo(p, "down")
            /\ UNCHANGED <<driver, detached>>
    /\ UNCHANGED <<owner, leaks>>

(* Mutant: the result of libusb_claim_interface is ignored. *)
ClaimUnchecked(p) ==
    /\ pc[p] = "claim"
    /\ IF p \in alive /\ driver = "none"
       THEN driver' = "usbfs" /\ owner' = p
       ELSE UNCHANGED <<driver, owner>>
    /\ GoTo(p, "use")
    /\ UNCHANGED <<alive, detached, leaks>>

(* Mutant: a failed claim gives up without handing the driver back. *)
ClaimWithoutUndo(p) ==
    /\ pc[p] = "claim"
    /\ IF p \in alive /\ driver = "none"
       THEN /\ driver' = "usbfs" /\ owner' = p
            /\ GoTo(p, "use")
            /\ UNCHANGED alive
       ELSE /\ alive' = alive \ {p}
            /\ GoTo(p, "down")
            /\ UNCHANGED <<driver, owner>>
    /\ UNCHANGED <<detached, leaks>>

(* libusb_claim_interface: busy as soon as any driver is bound. *)
Claim(p) ==
    /\ pc[p] = "claim"
    /\ \/ /\ p \in alive /\ driver = "none"
          /\ driver' = "usbfs"
          /\ owner' = p
          /\ GoTo(p, "use")
          /\ UNCHANGED alive
       \/ /\ ~(p \in alive /\ driver = "none")
          /\ GoTo(p, IF detached[p] THEN "undo" ELSE "down")
          /\ alive' = IF detached[p] THEN alive ELSE alive \ {p}
          /\ UNCHANGED <<driver, owner>>
    /\ UNCHANGED <<detached, leaks>>

(* The claim failed after the detach: the driver is handed back. *)
UndoDetach(p) ==
    /\ pc[p] = "undo"
    /\ AttachKernelDriver(p)
    /\ alive' = alive \ {p}
    /\ GoTo(p, "down")
    /\ UNCHANGED owner

-----------------------------------------------------------------------------
(* How a standard run ends.                                                *)

(* main returns 0 without calling hid_close. *)
ReturnSuccess(p) ==
    /\ pc[p] = "use"
    /\ LeaveClaim(p)
    /\ GiveUp(p, "exit")
    /\ alive' = alive \ {p}
    /\ GoTo(p, "down")

(* error_exit: hid_close stops the read thread, then releases and reattaches. *)
ErrorExit(p) ==
    /\ pc[p] = "use"
    /\ GoTo(p, "release")
    /\ UNCHANGED <<driver, owner, alive, detached, leaks>>

(* Mutant: hid_close reattaches without releasing the interface first. *)
CloseWithoutRelease(p) ==
    /\ pc[p] = "release"
    /\ GoTo(p, IF detached[p] THEN "attach" ELSE "down")
    /\ alive' = IF detached[p] THEN alive ELSE alive \ {p}
    /\ UNCHANGED <<driver, owner, detached, leaks>>

(* Mutant: hid_close forgets to reattach the kernel driver. *)
CloseWithoutReattach(p) ==
    /\ pc[p] = "release"
    /\ LeaveClaim(p)
    /\ GoTo(p, "down")
    /\ alive' = alive \ {p}
    /\ UNCHANGED <<detached, leaks>>

(* hid_close releases the interface: the first of its two calls. *)
CloseRelease(p) ==
    /\ pc[p] = "release"
    /\ LeaveClaim(p)
    /\ GoTo(p, IF detached[p] THEN "attach" ELSE "down")
    /\ alive' = IF detached[p] THEN alive ELSE alive \ {p}
    /\ UNCHANGED <<detached, leaks>>

CloseAttach(p) ==
    /\ pc[p] = "attach"
    /\ AttachKernelDriver(p)
    /\ alive' = alive \ {p}
    /\ GoTo(p, "down")
    /\ UNCHANGED owner

-----------------------------------------------------------------------------
(* The minimal tool: OpenDevice and CloseDevice on the hidraw node.        *)

OpenDevice(p) ==
    /\ pc[p] = "down"
    /\ driver = "hid"
    /\ alive' = alive \cup {p}
    /\ GoTo(p, "use")
    /\ UNCHANGED <<driver, owner, detached, leaks>>

CloseDevice(p) ==
    /\ pc[p] = "use"
    /\ alive' = alive \ {p}
    /\ GoTo(p, "down")
    /\ UNCHANGED <<driver, owner, detached, leaks>>

-----------------------------------------------------------------------------
(* What the environment may do between any two calls.                      *)

(* A process is killed: the kernel closes its descriptors. *)
Kill(p) ==
    /\ pc[p] # "down"
    /\ IF p \in Std
       THEN LeaveClaim(p) /\ GiveUp(p, "kill")
       ELSE UNCHANGED <<driver, owner, detached, leaks>>
    /\ alive' = alive \ {p}
    /\ GoTo(p, "down")

(* The board restarts (power cycle, firmware update) and enumerates again: *)
(* the kernel probes hid afresh and every handle opened before is stale.   *)
Reenumerate ==
    /\ driver' = "hid"
    /\ owner' = NoOwner
    /\ alive' = {}
    /\ leaks' = {}
    /\ UNCHANGED <<pc, detached>>

StdStep(p) ==
    \/ OpenPath(p) \/ Probe(p) \/ Detach(p) \/ Claim(p) \/ UndoDetach(p)
    \/ ReturnSuccess(p) \/ ErrorExit(p) \/ CloseRelease(p) \/ CloseAttach(p)

MinimalStep(p) == OpenDevice(p) \/ CloseDevice(p)

UsbNext ==
    \/ \E p \in Std : StdStep(p)
    \/ \E p \in Minimal : MinimalStep(p)
    \/ \E p \in Proc : Kill(p)
    \/ Reenumerate

UsbSpec == UsbInit /\ [][UsbNext]_usbVars

-----------------------------------------------------------------------------
(* Properties.                                                             *)

InUse == {p \in alive : pc[p] = "use"}

(* While a standard process can reach the board, nobody else can: not      *)
(* another standard process, and no minimal process through a hidraw       *)
(* descriptor it opened earlier.  This is what makes a read followed by a  *)
(* write in one standard command atomic.                                   *)
SoleUser == \A p \in InUse \cap Std : InUse = {p}

(* To the commands of the tools the protocol is BoardAccess. *)
Access == INSTANCE BoardAccess WITH users <- InUse
ImplementsAccess == Access!AccessSpec

(* Nobody can be granted the interface while the kernel still lists        *)
(* somebody's claim, and a process past a successful claim still owns it   *)
(* until it releases it: hid_close never releases another process's claim. *)
ClaimAccounted ==
    /\ (driver = "usbfs") <=> (owner # NoOwner)
    /\ \A p \in Std :
         (owner = p) <=> (p \in alive /\ pc[p] \in {"use", "release"})

(* The hid driver is never gone without somebody who will put it back,     *)
(* except through one of the three recorded leaks: a successful run, a     *)
(* kill, or a reattach that lost a race.  In particular no failed open and *)
(* no error path loses it by itself, and at most one process is            *)
(* responsible at a time.                                                  *)
Responsible == {p \in Std \cap alive : detached[p]}

DriverAccounted ==
    /\ driver # "hid" => leaks # {} \/ Responsible # {}
    /\ Responsible # {} => driver # "hid"
    /\ \A p, q \in Responsible : p = q

(* Once all runs have ended without a leak, the minimal tool finds its     *)
(* hidraw node again.                                                      *)
QuietMeansBound ==
    leaks = {} /\ (\A p \in Std : pc[p] = "down") => driver = "hid"

(* What the proofs need besides: a handle exists only while its process    *)
(* runs, hidraw descriptors die with the hid driver, and is_driver_detached *)
(* is set exactly from the detach to the call that answers for it.         *)
HandlesAccounted ==
    /\ \A p \in alive : pc[p] # "down"
    /\ \A p \in Minimal : pc[p] \in {"down", "use"}
    /\ alive \cap Minimal # {} => driver = "hid"
    /\ \A p \in Std :
         /\ detached[p] => pc[p] \in {"claim", "undo", "use", "release", "attach"}
         /\ pc[p] \in {"undo", "attach"} => detached[p]

UsbInv == UsbTypeOK /\ ClaimAccounted /\ DriverAccounted /\ HandlesAccounted

(* hid.c says of hid_close "reattach the kernel driver if it was           *)
(* detached": a run that ends through error_exit leaves hid bound.         *)
CloseRestoresDriver ==
    [][\A p \in Std : CloseAttach(p) /\ p \in alive => driver' = "hid"]_usbVars

(* The reattach of hid_close fails for one reason only: another standard   *)
(* run has claimed the interface since hid_close released it.              *)
OnlyClaimPreventsRestore ==
    [][\A p \in Std : CloseAttach(p) /\ p \in alive =>
          driver' = "hid" \/ owner \in Std \ {p}]_usbVars

=============================================================================
