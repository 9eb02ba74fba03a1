----------------------------- MODULE BoardAccess -----------------------------
(***************************************************************************)
(* What the open and close protocol of UsbInterface promises to the        *)
(* commands: who can reach the board.  A standard process gets the board   *)
(* for itself or not at all; minimal processes share it; the board may be  *)
(* cut off from everybody at any time (another process detaches the hid    *)
(* driver, or the board restarts), after which every transfer fails.       *)
(***************************************************************************)
EXTENDS FiniteSets

CONSTANTS Std, Minimal

Proc == Std \cup Minimal

VARIABLE users      \* the processes whose transfers reach the board

AccessInit == users = {}

Enter(p) ==
    /\ p \in Std
    /\ users = {}
    /\ users' = {p}

EnterShared(p) ==
    /\ p \in Minimal
    /\ users \cap Std = {}
    /\ users' = users \cup {p}

Leave(p) == users' = users \ {p}

CutOff == users' = {}

AccessNext ==
    \/ \E p \in Proc : Enter(p) \/ EnterShared(p) \/ Leave(p)
    \/ CutOff

AccessSpec == AccessInit /\ [][AccessNext]_users

=============================================================================
