--------------------------- MODULE ShutdownModems ---------------------------
(***************************************************************************)
(* cell_modem_power_ctrl.sh as the service shutdown_modems runs it: one    *)
(* call of the tool after the other switches the modules 1 and 2 of every  *)
(* board, and systemd ends the script when it takes too long.              *)
(*                                                                         *)
(* The script learns its boards from the output of "-l", which it asks for *)
(* twice before it switches and again before it shows the result.  What a  *)
(* successful call of -p has done is what ModulePower promises, and so is  *)
(* that a call may wait for ever when old firmware discards its request.   *)
(***************************************************************************)
EXTENDS BusOrder

CONSTANTS
    Boards,     \* the most boards, 1 .. Boards, in the order of the list
    OffTime,    \* MODEM_SHUTDOWN_TIME_MS, in seconds
    Limit,      \* TimeoutStartSec
    DisturbMax  \* bound: the boards that are disturbed

ASSUME ShutdownAssumption ==
    /\ Boards \in Nat \ {0}
    /\ OffTime \in Nat \ {0} /\ Limit \in Nat \ {0}
    /\ DisturbMax \in Nat

Board  == 1 .. Boards
Module == {1, 2}

(* What a call is aimed at when it has no -g, and a word of the log. *)
AnyBoard == 0
NoBoard  == -1

VARIABLES
    minimal,    \* MINIMAL_VERSION
    power,      \* POWER: the service asks for "off"
    present,    \* the boards that answer
    on,         \* the modules that have power
    pc,         \* the next step of the script
    targets,    \* what the loop still has to do
    elapsed,    \* seconds since the script was started
    late,       \* history: seconds that calls of -p took beyond their waits
    disturbed   \* history: boards that restarted or were switched by others

boards    == <<present, on>>
progress  == <<pc, targets, elapsed>>
shutVars  == <<minimal, power, boards, progress, late, disturbed>>

-----------------------------------------------------------------------------
(* The boards, each disturbed at most once.                                *)

MayBeDisturbed(b) ==
    b \in present \ disturbed /\ Cardinality(disturbed) < DisturbMax

Vanish(b) ==
    /\ MayBeDisturbed(b)
    /\ present' = present \ {b}
    /\ on' = on \ ({b} \X Module)
    /\ disturbed' = disturbed \cup {b}
    /\ UNCHANGED <<minimal, power, progress, late>>

(* A board starts with the power states of its configuration data. *)
Appear(b) ==
    /\ b \in disturbed \ present
    /\ present' = present \cup {b}
    /\ \E S \in SUBSET Module : on' = on \cup ({b} \X S)
    /\ UNCHANGED <<minimal, power, progress, late, disturbed>>

(* Another run, as one of the crawler, gives a module power again. *)
SwitchedOn(b, m) ==
    /\ MayBeDisturbed(b)
    /\ on' = on \cup {<<b, m>>}
    /\ disturbed' = disturbed \cup {b}
    /\ UNCHANGED <<minimal, power, present, progress, late>>

-----------------------------------------------------------------------------
(* The output of the tool.                                                 *)

Env == <<minimal, power, disturbed>>

(* The words of a log line, none of them an address. *)
LogLine == [i \in 1 .. 8 |-> NoBoard]

(* Mutant: the log line of the failure goes elsewhere than to the output   *)
(* that the caller reads as addresses.                                     *)
ListWithoutLog ==
    IF minimal THEN {<<>>} ELSE InBusOrder(present) \cup {<<>>}

(* get_modem_smb_addr: the addresses of all boards, or, when -l fails,     *)
(* the line that log writes to the same output; exit 1 ends only the       *)
(* subshell.  The minimal tool lists no addresses, with or without boards. *)
ModemSmbAddr ==
    {LogLine} \cup
        IF minimal THEN {<<>>} ELSE IF present = {} THEN {} ELSE InBusOrder(present)

(* The board that a call for target a reaches. *)
Reaches(a, b) == b \in present /\ (a = b \/ (a = AnyBoard /\ present = {b}))

(* sleep, and calls that take d seconds: systemd stops the script first.   *)
Spend(d, next) ==
    /\ elapsed' = elapsed + d
    /\ pc' = IF elapsed' >= Limit THEN "killed" ELSE next

Reached == {b \in Board : Reaches(Head(targets), b)}

(* The call for the first target fails, and the script with it. *)
CallFails ==
    /\ pc' = "exit1"
    /\ UNCHANGED <<boards, targets, elapsed>>

-----------------------------------------------------------------------------
(* The script.                                                             *)

First == IF power = "off" THEN "offTime" ELSE "module1"

(* cell_modem_power_ctrl: with one word the calls have no address. *)
Count ==
    /\ pc = "count"
    /\ \E words \in ModemSmbAddr :
         IF Len(words) = 1 THEN pc' = First /\ targets' = <<AnyBoard>>
                           ELSE pc' = "list" /\ UNCHANGED targets
    /\ UNCHANGED <<Env, late, boards, elapsed>>

List ==
    /\ pc = "list"
    /\ targets' \in ModemSmbAddr
    /\ pc' = IF targets' = <<>> THEN "wait" ELSE First
    /\ UNCHANGED <<Env, late, boards, elapsed>>

(* -f *)
SetOffTime ==
    /\ pc = "offTime"
    /\ \/ CallFails
       \/ /\ Reached # {}
          /\ pc' = "module1"
          /\ UNCHANGED <<boards, targets, elapsed>>
    /\ UNCHANGED <<Env, late>>

(* How long -p waits: not at all if there is nothing to do. *)
Durations(b, m) ==
    IF (<<b, m>> \in on) = (power = "on") THEN {0}
    ELSE IF power = "off" THEN 0 .. OffTime ELSE 0 .. 1

Switched(b, m) == IF power = "on" THEN on \cup {<<b, m>>} ELSE on \ {<<b, m>>}

(* -p 1 and -p 2.  A script that is stopped leaves the call to end alone. *)
Module1 ==
    /\ pc = "module1"
    /\ \/ CallFails
       \/ \E b \in Reached : \E d \in Durations(b, 1) :
            /\ on' = Switched(b, 1)
            /\ Spend(d, "module2")
            /\ UNCHANGED <<present, targets>>
    /\ UNCHANGED <<Env, late>>

Module2 ==
    /\ pc = "module2"
    /\ \/ CallFails
       \/ \E b \in Reached : \E d \in Durations(b, 2) :
            /\ on' = Switched(b, 2)
            /\ Spend(d, IF Len(targets) > 1 THEN First ELSE "wait")
            /\ targets' = Tail(targets)
            /\ UNCHANGED <<present>>
    /\ UNCHANGED <<Env, late>>

(* After the wait, -p reads the power state back every second until it is  *)
(* the one it asked for, which old firmware that discarded the request     *)
(* never reports.                                                          *)
ReadBackAgain ==
    /\ pc \in {"module1", "module2"}
    /\ \E b \in Reached :
         (<<b, IF pc = "module1" THEN 1 ELSE 2>> \in on) # (power = "on")
    /\ Spend(1, pc)
    /\ late' = late + 1
    /\ UNCHANGED <<Env, boards, targets>>

(* Mutant: the wait is that of the modules together. *)
WaitLong == 2 * OffTime

(* wait_for_cell_modem_reaction *)
Wait == OffTime

WaitForReaction ==
    /\ pc = "wait"
    /\ Spend(Wait, "showCount")
    /\ UNCHANGED <<Env, late, boards, targets>>

(* show_module_power_states: it lists the boards again and only reads. *)
ShowCount ==
    /\ pc = "showCount"
    /\ \E words \in ModemSmbAddr :
         IF Len(words) = 1 THEN pc' = "show" /\ targets' = <<AnyBoard>>
                           ELSE pc' = "showList" /\ UNCHANGED targets
    /\ UNCHANGED <<Env, late, boards, elapsed>>

ShowList ==
    /\ pc = "showList"
    /\ targets' \in ModemSmbAddr
    /\ pc' = IF targets' = <<>> THEN "exit0" ELSE "show"
    /\ UNCHANGED <<Env, late, boards, elapsed>>

Show ==
    /\ pc = "show"
    /\ \/ CallFails
       \/ /\ Reached # {}
          /\ pc' = IF Len(targets) > 1 THEN "show" ELSE "exit0"
          /\ targets' = Tail(targets)
          /\ UNCHANGED <<boards, elapsed>>
    /\ UNCHANGED <<Env, late>>

-----------------------------------------------------------------------------

ShutInit ==
    /\ minimal \in BOOLEAN
    /\ power \in {"off", "on"}
    /\ present \in {1 .. n : n \in 0 .. Boards}
    /\ on \in SUBSET (present \X Module)
    /\ pc = IF minimal THEN First ELSE "count"
    /\ targets = IF minimal THEN <<AnyBoard>> ELSE <<>>
    /\ elapsed = 0 /\ late = 0
    /\ disturbed = {}

ShutNext ==
    \/ Count \/ List \/ SetOffTime \/ Module1 \/ Module2 \/ ReadBackAgain
    \/ WaitForReaction \/ ShowCount \/ ShowList \/ Show
    \/ \E b \in Board : Vanish(b) \/ Appear(b)
    \/ \E b \in Board, m \in Module : SwitchedOn(b, m)

ShutSpec == ShutInit /\ [][ShutNext]_shutVars

-----------------------------------------------------------------------------
(* Properties.                                                             *)

(* A service that ends well has switched off the modules of every board    *)
(* that nobody disturbed, whatever its listings returned: a failed listing *)
(* is taken for addresses that no board has, and the first call fails.     *)
ExitZeroMeansOff ==
    pc = "exit0" /\ power = "off" =>
        \A b \in Board, m \in Module : <<b, m>> \in on => b \in disturbed

(* systemd stops the script only when the time limit has no room for the   *)
(* waits, two off times for each board and one at the end, and for the     *)
(* seconds in which calls of -p read the state back beyond their waits.    *)
(* Those have no bound: one call whose request old firmware discards is    *)
(* enough, with any number of boards.  The rest takes no time here.        *)
KilledOnlyOverdue ==
    pc = "killed" =>
        2 * OffTime * Cardinality(present \cup disturbed) + OffTime + late >= Limit

=============================================================================
