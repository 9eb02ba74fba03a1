----------------------------- MODULE SimCrawler -----------------------------
(***************************************************************************)
(* simcrawler.sh: it power-cycles the modems of a board, gives them one    *)
(* SIM card after the other and prints the number that ModemManager knows  *)
(* of each modem beside the card that the tool says it uses.               *)
(*                                                                         *)
(* The script discards the result of the calls that switch power and       *)
(* cards, and waits for a modem by counting those that ModemManager lists: *)
(* a modem leaves the list some time after it was switched and comes back  *)
(* with the number of the card it has then.  The modems of other boards    *)
(* are in the same list; they come and go as they like.                    *)
(***************************************************************************)
EXTENDS Integers, FiniteSets

CONSTANTS
    SimMax,     \* sim_max, 6 or 10
    PollMax,    \* polls in the 60 s of wait_for_modem
    OtherModems \* the modems of other boards: the USB bus and slot of each

Modem == {1, 2}
Other(m) == 3 - m

(* The USB bus of the board at the given address; each board has its own. *)
Own == 0

ASSUME CrawlAssumption ==
    /\ SimMax \in Nat \ {0} /\ SimMax % 2 = 0
    /\ PollMax \in Nat \ {0}
    /\ OtherModems \subseteq (Nat \ {Own}) \X Modem /\ IsFiniteSet(OtherModems)

(* No bus (modem_bus is empty), and any number of another board's card. *)
NoBus     == -1
Elsewhere == -1

VARIABLES
    fitted,     \* the slots that hold a modem
    card,       \* the card of each slot, 0 for none
    powered,    \* the slots that have power
    listing,    \* what ModemManager lists: "in", "leaving" (it will find
                \* out that the modem has gone) or "out"
    shows,      \* the number it has of each modem: that of the card the modem
                \* had when it was listed
    others,     \* what it lists of other boards: the bus and slot of each
    at,         \* the next step of the script
    step,       \* the next call of the power cycle
    simNum,     \* sim_num
    single,     \* single_modem
    bus,        \* modem_bus
    known,      \* the slots of that bus whose equipment id was found
    prev,       \* prev_modem_cnt
    polls,      \* polls so far
    outs,       \* mmcli_out_slot1 and 2: the number in it, 0 for none
    printed,    \* history: the cards of the rows printed
    back,       \* history: the bus and slot of the modems listed anew since the
                \* last baseline
    had,        \* history: the cards each modem had
    refused,    \* history: the switches the tool refused
    lost        \* history: a call of the tool failed for another reason

board     == <<fitted, card, powered>>
manager   == <<listing, shows, others>>
script    == <<at, step, simNum, single, bus, known, prev, polls, outs, printed>>
history   == <<had, refused, lost>>
crawlVars == <<board, manager, script, back, history>>

-----------------------------------------------------------------------------
(* ModemManager.                                                           *)

(* mmcli -L: the modems of all boards, in any order. *)
Listed == ({Own} \X {m \in Modem : listing[m] # "out"}) \cup others

SlotsOn(b) == {m \in Modem : <<b, m>> \in Listed}

Leave(m) ==
    /\ listing[m] = "leaving"
    /\ listing' = [listing EXCEPT ![m] = "out"]
    /\ UNCHANGED <<board, shows, others, script, back, history>>

Return(m) ==
    /\ m \in fitted \cap powered /\ listing[m] = "out"
    /\ listing' = [listing EXCEPT ![m] = "in"]
    /\ shows' = [shows EXCEPT ![m] = card[m]]
    /\ back' = back \cup {<<Own, m>>}
    /\ UNCHANGED <<board, others, script, history>>

(* Modems of other boards. *)
GoesElsewhere(m) ==
    /\ m \in others
    /\ others' = others \ {m}
    /\ UNCHANGED <<board, listing, shows, script, back, history>>

ComesElsewhere(m) ==
    /\ m \notin others
    /\ others' = others \cup {m}
    /\ back' = back \cup {m}
    /\ UNCHANGED <<board, listing, shows, script, history>>

(* The modems that may be left in the list for a while when S lost power   *)
(* or their card.                                                          *)
Restarted(S) == [m \in Modem |-> IF m \in S /\ listing[m] = "in" THEN "leaving" ELSE listing[m]]

-----------------------------------------------------------------------------
(* Calls of the tool.                                                      *)

(* The call fails, as with a board in use by another run.  Bound: once in  *)
(* a run of the script.                                                    *)
CallLost == ~lost /\ lost' = TRUE /\ UNCHANGED <<board, manager, had, refused>>

(* -p m state *)
SetPower(m, state) ==
    \/ CallLost
    \/ /\ powered' = IF state = 1 THEN powered \cup {m} ELSE powered \ {m}
       /\ listing' = Restarted({m} \cap (powered \ powered'))
       /\ UNCHANGED <<fitted, card, shows, others, history>>

(* -s m k: a modem restarts when its card changes, and perhaps when not. *)
SetSim(m, k) ==
    \/ CallLost
    \/ /\ k # 0 /\ card[Other(m)] = k
       /\ refused' = refused \cup {<<m, k>>}
       /\ UNCHANGED <<board, manager, had, lost>>
    \/ /\ k # 0 => card[Other(m)] # k
       /\ card' = [card EXCEPT ![m] = k]
       /\ had' = [had EXCEPT ![m] = @ \cup {k}]
       /\ \E S \in IF card[m] = k THEN {{}, {m}} ELSE {{m}} : listing' = Restarted(S)
       /\ UNCHANGED <<fitted, powered, shows, others, refused, lost>>

-----------------------------------------------------------------------------
(* The script.                                                             *)

PowerCycleCalls == << <<1, 0>>, <<2, 0>>, <<1, 1>>, <<2, 1>> >>

PowerCycle ==
    /\ at = "power"
    /\ SetPower(PowerCycleCalls[step][1], PowerCycleCalls[step][2])
    /\ IF step < 4 THEN step' = step + 1 /\ UNCHANGED at
                   ELSE at' = "baseline" /\ UNCHANGED step
    /\ UNCHANGED <<simNum, single, bus, known, prev, polls, outs, printed, back>>

(* wait_for_modem counts the modems first, ... *)
Baseline ==
    /\ at = "baseline"
    /\ prev' = Cardinality(Listed)
    /\ polls' = 0
    /\ back' = {}
    /\ at' = "poll"
    /\ UNCHANGED <<board, manager, step, simNum, single, bus, known, outs, printed, history>>

AfterWait == IF simNum = 0 THEN "ids" ELSE "info"

(* Mutant: a list that is as long as before ends the wait. *)
PollAnyCount ==
    /\ at = "poll"
    /\ at' = IF polls = PollMax THEN "timeout"
             ELSE IF Cardinality(Listed) >= prev THEN AfterWait ELSE "poll"
    /\ prev' = Cardinality(Listed)
    /\ polls' = IF at' = "poll" THEN polls + 1 ELSE polls

(* ... and then until there are more than at the poll before.  The time is *)
(* checked before the count.                                               *)
PollOnce ==
    /\ at = "poll"
    /\ at' = IF polls = PollMax THEN "timeout"
             ELSE IF Cardinality(Listed) > prev THEN AfterWait ELSE "poll"
    /\ prev' = Cardinality(Listed)
    /\ polls' = IF at' = "poll" THEN polls + 1 ELSE polls

Poll ==
    /\ PollOnce
    /\ UNCHANGED <<board, manager, step, simNum, single, bus, known, outs, printed, back, history>>

(* The bus is that of the modem listed last, of whichever board; with      *)
(* nothing listed it is empty.  What is known are the equipment ids of its *)
(* modems; without the second one the script goes on with one modem.       *)
GetEquipmentIds ==
    /\ at = "ids"
    /\ bus' \in IF Listed = {} THEN {NoBus} ELSE {m[1] : m \in Listed}
    /\ known' = SlotsOn(bus')
    /\ single' = (single \/ 2 \notin known')
    /\ simNum' = 1
    /\ at' = IF single' THEN "none2" ELSE "switch1"
    /\ UNCHANGED <<board, manager, step, prev, polls, outs, printed, back, history>>

(* Mutant: the second modem keeps its card. *)
NoSimForModem2Skipped == UNCHANGED <<board, manager, history>>

NoSimForModem2 == SetSim(2, 0)

AssignNone ==
    /\ at = "none2"
    /\ NoSimForModem2
    /\ at' = "switch1"
    /\ UNCHANGED <<step, simNum, single, bus, known, prev, polls, outs, printed, back>>

Switch1 ==
    /\ at = "switch1"
    /\ SetSim(1, simNum)
    /\ IF single THEN at' = "baseline" /\ UNCHANGED simNum
                 ELSE at' = "switch2" /\ simNum' = simNum + 1
    /\ UNCHANGED <<step, single, bus, known, prev, polls, outs, printed, back>>

Switch2 ==
    /\ at = "switch2"
    /\ SetSim(2, simNum)
    /\ at' = "baseline"
    /\ UNCHANGED <<step, simNum, single, bus, known, prev, polls, outs, printed, back>>

(* The number shown for the modem in slot m of the bus. *)
NumberOf(m) == IF bus = Own THEN shows[m] ELSE Elsewhere

(* Mutant: the numbers are exchanged. *)
InfoOfSwapped(m) ==
    IF m \in known /\ Other(m) \in SlotsOn(bus) THEN NumberOf(Other(m)) ELSE outs[m]

(* get_modem_info keeps the old output for a modem that is not listed. *)
InfoOf(m) == IF m \in known \cap SlotsOn(bus) THEN NumberOf(m) ELSE outs[m]

GetModemInfo ==
    /\ at = "info"
    /\ outs' = [m \in Modem |-> InfoOf(m)]
    /\ at' = "row1"
    /\ UNCHANGED <<board, manager, step, simNum, single, bus, known, prev, polls, printed, back, history>>

(* One row: outs[m] beside the card as the tool reads it now, or beside    *)
(* nothing if the call fails.                                              *)
PrintRow(m) ==
    \/ CallLost /\ UNCHANGED printed
    \/ /\ printed' = printed \cup {card[m]}
       /\ UNCHANGED <<board, manager, history>>

(* Mutant: the loop stops before the last card. *)
NextSimShort ==
    IF simNum + 1 < SimMax THEN at' = "switch1" /\ simNum' = simNum + 1
                           ELSE at' = "done" /\ UNCHANGED simNum

(* seq 1 sim_step sim_max; simNum is already the second card of its round. *)
NextSim ==
    IF simNum + 1 <= SimMax THEN at' = "switch1" /\ simNum' = simNum + 1
                            ELSE at' = "done" /\ UNCHANGED simNum

Row1 ==
    /\ at = "row1"
    /\ PrintRow(1)
    /\ IF single THEN NextSim ELSE at' = "row2" /\ UNCHANGED simNum
    /\ UNCHANGED <<step, single, bus, known, prev, polls, outs, back>>

Row2 ==
    /\ at = "row2"
    /\ PrintRow(2)
    /\ NextSim
    /\ UNCHANGED <<step, single, bus, known, prev, polls, outs, back>>

-----------------------------------------------------------------------------

CrawlInit ==
    /\ fitted \in SUBSET Modem \ {{}}
    /\ card \in {c \in [Modem -> 0 .. SimMax] : c[1] # 0 => c[1] # c[2]}
    /\ powered \in SUBSET Modem
    /\ listing = [m \in Modem |-> IF m \in fitted \cap powered THEN "in" ELSE "out"]
    /\ shows = card
    /\ others \in SUBSET OtherModems
    /\ at = "power" /\ step = 1 /\ simNum = 0
    /\ single \in BOOLEAN
    /\ bus = NoBus /\ known = {} /\ prev = 0 /\ polls = 0
    /\ outs = [m \in Modem |-> 0]
    /\ printed = {} /\ back = {}
    /\ had = [m \in Modem |-> {card[m]}] /\ refused = {}
    /\ lost = FALSE

Script ==
    \/ PowerCycle \/ Baseline \/ Poll \/ GetEquipmentIds \/ AssignNone
    \/ Switch1 \/ Switch2 \/ GetModemInfo \/ Row1 \/ Row2

CrawlNext ==
    \/ Script
    \/ \E m \in Modem : Leave(m) \/ Return(m)
    \/ \E m \in OtherModems : GoesElsewhere(m) \/ ComesElsewhere(m)

CrawlSpec == CrawlInit /\ [][CrawlNext]_crawlVars

-----------------------------------------------------------------------------
(* Properties.                                                             *)

(* wait_for_modem ends well only after a modem was listed anew, be it of   *)
(* another board, and not because one left the list late.                  *)
WaitSound == at \in {"ids", "info"} => back # {}

(* The tool refuses a card that the other modem uses, and the script does  *)
(* not look at the result: in the first round this happens with the cards  *)
(* a board starts with, later rounds are free of it, and so is a script    *)
(* for one modem, which takes the card of the other one away first.        *)
RefusedOnlyFirst ==
    ~lost =>
        /\ refused \subseteq {<<1, 1>>, <<2, 2>>}
        /\ <<2, 2>> \in refused => <<1, 1>> \in refused
        /\ single => refused = {}

(* A script that ends without a timeout has printed every card, except     *)
(* those that were refused.                                                *)
CardsCovered ==
    at = "done" /\ ~lost =>
        (1 .. SimMax) \ {call[2] : call \in refused} \subseteq printed

(* A modem of another board was listed anew since the last baseline. *)
CameElsewhere == back \cap OtherModems # {}

(* Where the row of modem m is printed. *)
RowOf(m) == IF m = 1 THEN "row1" ELSE "row2"

(* The number in a row is that of the card beside it, with two exceptions. *)
(* Where both slots hold a modem, or one of another board was listed anew  *)
(* meanwhile, the wait may end without the modem of the row, which then    *)
(* shows the number of a card it had before, or none.  And where the modem *)
(* that was listed last after the power cycle is another board's, or none  *)
(* is listed by then, every row shows a number of that board, or none.     *)
(* Calls of the tool that fail do not add to that.                         *)
RowTruthful ==
    \A m \in fitted : at = RowOf(m) /\ card[m] # 0 =>
        \/ outs[m] = card[m]
        \/ outs[m] \in had[m] \cup {0} /\ (fitted = Modem \/ CameElsewhere)
        \/ outs[m] \in {Elsewhere, 0} /\ bus # Own

=============================================================================
