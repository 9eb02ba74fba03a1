---------------------------- MODULE SimAssignment ----------------------------
(***************************************************************************)
(* The commands --sim and --save-config of both tools, on top of the open  *)
(* and close protocol of UsbInterface.  SetModemSim reads the card of the  *)
(* other modem in one report and writes its own in a second one; main of   *)
(* the tools runs --sim before --save-config in every invocation.          *)
(***************************************************************************)
EXTENDS UsbInterface, Conversions

CONSTANTS
    BoardSims,      \* SIM cards of the board (GetSimCount: 6 on ME10, else 10)
    SimMaxCnt,      \* SIM_MAX_CNT of the minimal library
    Requests        \* the command lines that are explored

ASSUME SimAssumption ==
    /\ BoardSims \in Nat \ {0}
    /\ SimMaxCnt \in Nat \ {0}
    /\ BoardSims < 256 /\ SimMaxCnt < 256

(* A command line: -s or not, its two arguments (modem 0 stands for -s     *)
(* alone, which main cannot tell from -s 0 n), and --save-config or not.   *)
ASSUME RequestAssumption ==
    Requests \subseteq [s : BOOLEAN, modem : Nat, sim : Nat, save : BOOLEAN]

VARIABLES
    sim,        \* the board: card of each modem, 0 for none
    flash,      \* the board: the assignment saved as configuration data
    req,        \* the command line of each running process
    at,         \* where each process is in main and in SetModemSim
    seen        \* the assignment a process has read for -s so far

boardVars == <<sim, flash>>
toolVars  == <<req, at, seen>>
simVars   == <<sim, flash, req, at, seen>>
vars      == <<driver, owner, alive, pc, detached, leaks, sim, flash, req, at, seen>>

Modem == {1, 2}

(* Mutant: SetModemSim checks against its own modem's card. *)
OwnModem(m) == m

Other(m) == 3 - m

Distinct(table) == table[1] # 0 => table[1] # table[2]

NoRequest == [s |-> FALSE, modem |-> 0, sim |-> 0, save |-> FALSE]
NotSeen   == [m \in Modem |-> 0]

SimStage == {"idle", "sim", "write", "second", "config", "done", "failed"}

SimTypeOK ==
    /\ UsbTypeOK
    /\ sim \in [Modem -> 0 .. 255]
    /\ flash \in [Modem -> 0 .. 255]
    /\ req \in [Proc -> Requests \cup {NoRequest}]
    /\ at \in [Proc -> SimStage]
    /\ seen \in [Proc -> [Modem -> 0 .. 255]]

SimInit ==
    /\ UsbInit
    /\ sim \in [Modem -> 0 .. BoardSims] /\ Distinct(sim)
    /\ flash \in [Modem -> 0 .. BoardSims] /\ Distinct(flash)
    /\ req = [p \in Proc |-> NoRequest]
    /\ at = [p \in Proc |-> "idle"]
    /\ seen = [p \in Proc |-> NotSeen]

-----------------------------------------------------------------------------
(* The commands.  A transfer can fail at any time, and a feature report    *)
(* that the caller sees fail may or may not have reached the firmware.     *)

At(p, stage) == pc[p] = "use" /\ at[p] = stage

Move(p, stage) == at' = [at EXCEPT ![p] = stage]

(* The parameters of SetModemSim are unsigned char.                        *)
Target(p) == IF Byte(req[p].modem) = 1 THEN 1 ELSE 2
Card(p)   == Byte(req[p].sim)

(* The tool refuses modems other than 1 and 2; the library of the minimal  *)
(* tool accepts every module number, and takes 3 for modem 2.              *)
ModemExists(p) ==
    Byte(req[p].modem) \in IF p \in Std THEN {1, 2} ELSE {1, 2, 3}

(* Mutant: SetModemSim does not look at the number of cards. *)
AnyCard(p) == TRUE

CardExists(p) == Card(p) <= IF p \in Std THEN BoardSims ELSE SimMaxCnt

(* A command line is looked at once the board is open.                     *)
Dispatch(p) ==
    /\ At(p, "idle")
    /\ \E r \in Requests :
         /\ req' = [req EXCEPT ![p] = r]
         /\ Move(p, IF r.s THEN "sim" ELSE "config")
    /\ UNCHANGED <<seen, boardVars, usbVars>>

(* SetModemSim up to the write: the range checks, then the card of the     *)
(* other modem, read only when a card is to be assigned.                   *)
CheckSim(p) ==
    /\ At(p, "sim")
    /\ req[p].modem # 0
    /\ \/ /\ ModemExists(p) /\ CardExists(p)
          /\ Card(p) # 0 => p \in alive /\ sim[Other(Target(p))] # Card(p)
          /\ Move(p, "write")
       \/ /\ ~ModemExists(p) \/ ~CardExists(p) \/ Card(p) # 0
          /\ Move(p, "failed")
    /\ UNCHANGED <<req, seen, boardVars, usbVars>>

(* Mutant: SetModemSim does not look at the result of the write. *)
WriteSimUnchecked(p) ==
    /\ At(p, "write")
    /\ \/ p \in alive /\ sim' = [sim EXCEPT ![Target(p)] = Card(p)]
       \/ UNCHANGED sim
    /\ Move(p, "config")
    /\ UNCHANGED <<flash, req, seen, usbVars>>

(* SetModemSim: the write of the own card. *)
WriteSim(p) ==
    /\ At(p, "write")
    /\ \/ /\ p \in alive
          /\ sim' = [sim EXCEPT ![Target(p)] = Card(p)]
          /\ \E stage \in {"config", "failed"} : Move(p, stage)
       \/ /\ Move(p, "failed")
          /\ UNCHANGED sim
    /\ UNCHANGED <<flash, req, seen, usbVars>>

(* GetModemSim reads the two assignments one after the other. *)
ReadSim(p, m, stage) ==
    /\ \/ /\ p \in alive
          /\ seen' = [seen EXCEPT ![p] = [@ EXCEPT ![m] = sim[m]]]
          /\ Move(p, stage)
       \/ /\ Move(p, "failed")
          /\ UNCHANGED seen
    /\ UNCHANGED <<req, boardVars, usbVars>>

ReadFirst(p)  == At(p, "sim") /\ req[p].modem = 0 /\ ReadSim(p, 1, "second")
ReadSecond(p) == At(p, "second") /\ ReadSim(p, 2, "config")

(* SetConfigurationData, if --save-config was given. *)
SaveConfig(p) ==
    /\ At(p, "config")
    /\ \/ /\ ~req[p].save
          /\ Move(p, "done")
          /\ UNCHANGED flash
       \/ /\ req[p].save /\ p \in alive
          /\ flash' = sim
          /\ \E stage \in {"done", "failed"} : Move(p, stage)
       \/ /\ req[p].save
          /\ Move(p, "failed")
          /\ UNCHANGED flash
    /\ UNCHANGED <<sim, req, seen, usbVars>>

-----------------------------------------------------------------------------
(* Composition with the open and close protocol.                           *)

Command(p) ==
    \/ Dispatch(p) \/ CheckSim(p) \/ WriteSim(p)
    \/ ReadFirst(p) \/ ReadSecond(p) \/ SaveConfig(p)

Forget(p) ==
    /\ req' = [req EXCEPT ![p] = NoRequest]
    /\ at' = [at EXCEPT ![p] = "idle"]
    /\ seen' = [seen EXCEPT ![p] = NotSeen]

(* Calls that neither read nor write anything of the board. *)
Protocol(p) ==
    /\ \/ OpenPath(p) \/ Probe(p) \/ Detach(p) \/ Claim(p) \/ UndoDetach(p)
       \/ CloseRelease(p) \/ CloseAttach(p)
    /\ UNCHANGED simVars

Succeed(p) == at[p] = "done" /\ ReturnSuccess(p) /\ Forget(p) /\ UNCHANGED boardVars

Fail(p) == at[p] = "failed" /\ ErrorExit(p) /\ Forget(p) /\ UNCHANGED boardVars

(* The minimal tool opens the node, and closes it on both of its ways out. *)
Open(p) == OpenDevice(p) /\ UNCHANGED simVars

Close(p) ==
    /\ at[p] \in {"done", "failed"}
    /\ CloseDevice(p)
    /\ Forget(p)
    /\ UNCHANGED boardVars

Killed(p) == Kill(p) /\ Forget(p) /\ UNCHANGED boardVars

(* The firmware starts with the configuration data it has saved. *)
RestartBoard == Reenumerate /\ sim' = flash /\ UNCHANGED <<flash, toolVars>>

SimNext ==
    \/ \E p \in Proc : Command(p)
    \/ \E p \in Std : Protocol(p) \/ Succeed(p) \/ Fail(p)
    \/ \E p \in Minimal : Open(p) \/ Close(p)
    \/ \E p \in Proc : Killed(p)
    \/ RestartBoard

SimSpec == SimInit /\ [][SimNext]_vars

-----------------------------------------------------------------------------
(* Properties.                                                             *)

(* The two hypotheses under which the commands are atomic: the hidraw node *)
(* is opened by one process at most, and the minimal tool's fixed limit    *)
(* does not exceed the cards of the board.                                 *)
AtMostOneMinimal == \A p, q \in Minimal : p = q
LimitsAgree      == Minimal = {} \/ SimMaxCnt <= BoardSims

(* "Check SIM card is not used by other modem": no card is ever assigned   *)
(* to both modems, neither now nor after a restart.                        *)
NoSharedSim == Distinct(sim) /\ Distinct(flash)

(* The two assignments that -s prints, read in two transfers, are never a  *)
(* mix of an older and a newer state that shows one card in both modems.   *)
SnapshotDistinct ==
    \A p \in alive : at[p] \in {"config", "done"} => Distinct(seen[p])

(* What CheckSim established still holds when WriteSim acts on it.         *)
CheckStillHolds ==
    \A p \in alive :
        at[p] = "write" =>
            /\ Target(p) \in Modem /\ Card(p) \in 0 .. BoardSims
            /\ Card(p) # 0 => sim[Other(Target(p))] # Card(p)

(* A process is inside a command only while its device is open.            *)
CommandsInUse == \A p \in Proc : at[p] # "idle" => pc[p] = "use"

TablesDistinct ==
    /\ sim \in [Modem -> 0 .. BoardSims] /\ Distinct(sim)
    /\ flash \in [Modem -> 0 .. BoardSims] /\ Distinct(flash)

(* The invariant of the proofs. *)
SimInv ==
    /\ UsbInv
    /\ SimTypeOK
    /\ CommandsInUse
    /\ TablesDistinct
    /\ CheckStillHolds

(* Once a run has done -s and --save-config and still has the board, both  *)
(* the board and its configuration data hold the requested card: nobody    *)
(* came between the write, the save and the report of success.             *)
SetAndSaved ==
    \A p \in alive :
        /\ at[p] = "done" /\ req[p].s /\ req[p].modem # 0
        => /\ sim[Target(p)] = Card(p)
           /\ req[p].save => flash[Target(p)] = Card(p)

(* The commands implement the atomic table. *)
Table == INSTANCE SimTable WITH NumSims <- BoardSims
ImplementsTable == Table!TableSpec

=============================================================================
