----------------------------- MODULE CommandRun -----------------------------
(***************************************************************************)
(* What a run of either tool promises: its command line is a plan, and the *)
(* run carries the commands of the plan out one after the other, in a      *)
(* fixed order whatever their order on the line.  A command changes at     *)
(* most the one setting it names, to the value it names, if the board has  *)
(* such a setting and the value is in its range; and a run that ends early *)
(* has done a first part of its plan, the last command perhaps or not.     *)
(*                                                                         *)
(* This module is abstract: nothing of it is in the code.  ToolRun, which  *)
(* follows the code, is shown to implement it.                             *)
(***************************************************************************)
EXTENDS Conversions, Sequences

VARIABLES
    tool,       \* "std" or "minimal"
    board,      \* the name of the board
    plan,       \* what the command line asks for
    settings,   \* the settings of the board
    saved,      \* the settings it starts with
    left,       \* the commands still to carry out
    ended       \* "none" while the run goes on, then how it ended

planVars == <<tool, board, plan, settings, saved, left, ended>>

(* The usual order: changes, the save of what can be saved, the other ones. *)
Sequence == <<"p", "s", "f", "c", "t", "e", "T", "w", "r", "G", "u">>
Commands == {Sequence[i] : i \in DOMAIN Sequence}

(* A setting is the module, modem, LED or signal of a command.             *)
SavedKeys == ({"p"} \X (1 .. 3) \X {0}) \cup ({"s"} \X (1 .. 2) \X {0}) \cup {<<"f", 0, 0>>}
Keys ==
    SavedKeys \cup ({"e"} \X (1 .. 3) \X {0}) \cup ({"w"} \X (1 .. 2) \X (0 .. 1))
              \cup ({"r"} \X (1 .. 2) \X {0}) \cup {<<"u", 0, 0>>}

(* An F229 has no modem signals to switch and no modem to reset.           *)
KeysOf(b) == IF b = "F229" THEN {k \in Keys : k[1] \notin {"w", "r"}} ELSE Keys

(* The value of an LED is its mode, period and duty cycle, that of a reset *)
(* the number of resets in this run.                                       *)
InRange(k, v) ==
    CASE k[1] \in {"p", "w", "u", "r"} -> v \in {0, 1}
      [] k[1] = "s" -> v \in 0 .. IF tool = "std" /\ board = "ME10" THEN 6 ELSE 10
      [] k[1] = "f" -> v \in 0 .. Uint16Max
      [] k[1] = "e" -> v[1] \in 0 .. 2 /\ v[2] \in 0 .. Uint16Max /\ v[3] \in 0 .. 100

(* No setting is out of range, and no card is in both modems.              *)
Legal(table) ==
    /\ \A k \in Keys : InRange(k, table[k])
    /\ table[<<"s", 1, 0>>] # table[<<"s", 2, 0>>] \/ table[<<"s", 1, 0>>] = 0

(* A plan names its commands and, for those that are more than a query,    *)
(* the change that each asks for; -l makes the run end before them.        *)
RunInit ==
    /\ DOMAIN settings = Keys /\ Legal(settings)
    /\ \A k \in Keys : k[1] \in {"r", "u"} => settings[k] = 0
    /\ DOMAIN saved = SavedKeys
    /\ plan.asked \subseteq Commands
    /\ DOMAIN plan.changes \subseteq plan.asked
    /\ left = plan.asked
    /\ ended = "none"

-----------------------------------------------------------------------------
(* The command of the plan whose turn it is. *)
Turn(c) ==
    /\ ended = "none" /\ ~plan.list
    /\ \E i \in DOMAIN Sequence :
         /\ Sequence[i] = c /\ c \in left
         /\ \A j \in 1 .. i - 1 : Sequence[j] \notin left

Change(c) ==
    LET change == plan.changes[c] IN
    /\ change.key \in KeysOf(board)
    /\ settings' = [settings EXCEPT ![change.key] = change.value]
    /\ Legal(settings')
    /\ UNCHANGED saved

Save ==
    /\ saved' = [k \in SavedKeys |-> settings[k]]
    /\ UNCHANGED settings

(* A query carries nothing out. *)
CarriedOut(c) ==
    \/ c \in DOMAIN plan.changes /\ c = "c" /\ Save
    \/ c \in DOMAIN plan.changes /\ c # "c" /\ Change(c)
    \/ c \notin DOMAIN plan.changes /\ UNCHANGED <<settings, saved>>

Pass(c) ==
    /\ left' = left \ {c}
    /\ ended' = IF left' = {} THEN "ok" ELSE "none"

(* The run goes on after a command only if it was carried out, except that *)
(* nobody knows whether the bootloader was started.  A command that fails  *)
(* may have been carried out.                                              *)
Perform(c) ==
    /\ Turn(c)
    /\ \/ CarriedOut(c) /\ Pass(c)
       \/ c = "u" /\ Pass(c) /\ UNCHANGED <<settings, saved>>
       \/ /\ CarriedOut(c) \/ UNCHANGED <<settings, saved>>
          /\ ended' = "failed" /\ UNCHANGED left
    /\ UNCHANGED <<tool, board, plan>>

(* The minimal tool waits for ever for a state that no byte can have.      *)
Hang ==
    /\ Turn("p") /\ tool = "minimal"
    /\ CarriedOut("p")
    /\ ended' = "waits"
    /\ UNCHANGED <<tool, board, plan, left>>

(* The board is not found, or the line asks for nothing but the list of    *)
(* boards, or for nothing.                                                 *)
Leave ==
    /\ ended = "none" /\ left = plan.asked
    /\ \/ ended' = "failed"
       \/ (plan.list \/ left = {}) /\ ended' = "ok"
    /\ UNCHANGED <<tool, board, plan, settings, saved, left>>

RunNext == Hang \/ Leave \/ \E c \in Commands : Perform(c)

RunSpec == RunInit /\ [][RunNext]_planVars

=============================================================================
