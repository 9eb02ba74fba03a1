------------------------------- MODULE ToolRun -------------------------------
(***************************************************************************)
(* A whole run of either tool on one board: main reads its command line,   *)
(* opens the board and executes the commands that were given in its own    *)
(* fixed order, until one fails.  The board is its registers; the time a   *)
(* command takes and other processes are the subject of ModulePower and    *)
(* SimAssignment.                                                          *)
(***************************************************************************)
EXTENDS CommandLine, Conversions

VARIABLES
    board,      \* the name of the board
    hw,         \* its registers
    flash,      \* the configuration data it starts with
    dfu,        \* whether it has gone to its bootloader
    pos,        \* the command main is at, 0 before the board is open
    result      \* "none", then "ok", "failed" or "waits"

runVars == <<board, hw, flash, dfu, pos, result>>
vars    == <<commandVars, runVars>>

(* Mutant: the configuration data is saved before the off time is set. *)
OrderSaveEarly == <<"p", "s", "c", "f", "t", "e", "T", "w", "r", "G", "u">>

(* The order in which main looks at its flags. *)
Order == <<"p", "s", "f", "c", "t", "e", "T", "w", "r", "G", "u">>

Module == 1 .. 3
Signal == {1, 2} \X {0, 1}      \* modem, and WWAN or GNSS

LedOff == [mode |-> 0, period |-> 0, duty |-> 0]

(* The registers of the board before the run, and their part that --save-config stores. *)
Factory ==
    [power |-> [m \in Module |-> 1], sim |-> <<1, 2>>, offTime |-> 1000,
     led |-> [l \in Module |-> LedOff], wwan |-> [s \in Signal |-> 0],
     resets |-> <<0, 0>>]

Configuration(h) == [power |-> h.power, sim |-> h.sim, offTime |-> h.offTime]

NoConfiguration == [power |-> [m \in Module |-> 1], sim |-> <<0, 0>>, offTime |-> 0]

(* The registers of the board, and what its configuration data holds. *)
HwType ==
    [power : [Module -> Nat], sim : [{1, 2} -> Nat], offTime : Nat,
     led : [Module -> [mode : Nat, period : Nat, duty : Nat]],
     wwan : [Signal -> Nat], resets : [{1, 2} -> Nat]]

FlashType == [power : [Module -> Nat], sim : [{1, 2} -> Nat], offTime : Nat]

ToolTypeOK ==
    /\ CommandTypeOK
    /\ board \in {"F229", "ME10", "G239"}
    /\ hw \in HwType /\ flash \in FlashType
    /\ dfu \in BOOLEAN
    /\ pos \in 0 .. Len(Order) + 1
    /\ result \in {"none", "ok", "failed", "waits"}

ToolInit ==
    /\ CommandInit
    /\ board \in {"F229", "ME10", "G239"}
    /\ hw = Factory
    /\ flash = NoConfiguration
    /\ dfu = FALSE
    /\ pos = 0
    /\ result = "none"

-----------------------------------------------------------------------------
(* What each command asks, whether the tool accepts it, and what it does.  *)

(* Whether command c, which was given, changes something. *)
Setting(c) ==
    CASE c \in {"p", "s", "e", "w"} -> arg[c][1] # 0
      [] c = "f" -> arg["f"][1] >= 0
      [] c = "c" -> arg["c"][1] = 1
      [] c \in {"r", "u"} -> TRUE
      [] OTHER -> FALSE

(* The j-th argument of c as the unsigned char parameter it becomes. *)
Param(c, j) == Byte(arg[c][j])

(* Mutant: a limit on SIM cards for all boards. *)
SimLimitOfAny == 10

(* The limit on SIM cards: that of the board, or of the minimal library. *)
SimLimit == IF tool = "std" /\ board = "ME10" THEN 6 ELSE 10

(* The modem whose card -s sets; the minimal library takes 3 for modem 2. *)
SimModem == IF Param("s", 1) = 1 THEN 1 ELSE 2

(* Mutant: the duty cycle is not checked. *)
AcceptedAnyDuty(c) ==
    c = "e" => /\ Param("e", 1) \in Module /\ arg["e"][2] <= 2
               /\ arg["e"][2] = 2 => arg["e"][3] <= Uint16Max

(* The range checks of main and of the functions it calls. *)
Accepted(c) ==
    CASE c = "p" -> Param("p", 1) \in Module /\ Param("p", 2) \in {0, 1}
      [] c = "s" -> /\ Param("s", 1) \in IF tool = "std" THEN {1, 2} ELSE Module
                    /\ Param("s", 2) <= SimLimit
                    /\ Param("s", 2) # 0 => hw.sim[3 - SimModem] # Param("s", 2)
      [] c = "f" -> arg["f"][1] <= Uint16Max
      [] c = "e" -> /\ Param("e", 1) \in Module /\ arg["e"][2] <= 2
                    /\ arg["e"][2] = 2 => arg["e"][3] <= Uint16Max /\ Param("e", 4) <= 100
      [] c = "w" -> /\ board # "F229" /\ Param("w", 1) \in {1, 2}
                    /\ Param("w", 2) \in {0, 1} /\ Param("w", 3) \in {0, 1}
      [] c = "r" -> board # "F229" /\ Param("r", 1) \in {1, 2}
      [] c = "c" -> TRUE

(* Reading is refused only on an F229, which lacks some sensors. *)
Readable(c) == c \in {"T", "w", "G"} => board # "F229"

(* The registers after the report that c sends. *)
After(c) ==
    CASE c = "p" -> [hw EXCEPT !.power[Param("p", 1)] = Param("p", 2)]
      [] c = "s" -> [hw EXCEPT !.sim[SimModem] = Param("s", 2)]
      [] c = "f" -> [hw EXCEPT !.offTime = arg["f"][1]]
      [] c = "e" -> [hw EXCEPT !.led[Param("e", 1)] =
                       IF arg["e"][2] = 2
                       THEN [mode |-> 2, period |-> arg["e"][3], duty |-> Param("e", 4)]
                       ELSE [mode |-> arg["e"][2], period |-> 0, duty |-> 0]]
      [] c = "w" -> [hw EXCEPT !.wwan[<<Param("w", 1), Param("w", 2)>>] = Param("w", 3)]
      [] c = "r" -> [hw EXCEPT !.resets[Param("r", 1)] = @ + 1]
      [] c = "c" -> hw

-----------------------------------------------------------------------------
(* The run.                                                                *)

(* main goes on with the next command that was given, after the last one   *)
(* it returns 0.                                                           *)
Proceed ==
    /\ pos' = Min({j \in pos + 1 .. Len(Order) : Order[j] \in flag} \cup {Len(Order) + 1})
    /\ result' = IF pos' > Len(Order) THEN "ok" ELSE "none"

Fail == result' = "failed" /\ UNCHANGED pos

(* The board is searched and opened; -l ends the run before that.  A board *)
(* that is not there, not selected or in use fails the run.                *)
OpenBoard ==
    /\ parsed = "ready" /\ pos = 0 /\ result = "none"
    /\ \/ Fail
       \/ "l" \in flag /\ result' = "ok" /\ UNCHANGED pos
       \/ "l" \notin flag /\ Proceed
    /\ UNCHANGED <<commandVars, board, hw, flash, dfu>>

At(c) == pos \in DOMAIN Order /\ Order[pos] = c /\ result = "none"

(* A command that only reads and prints. *)
Show(c) ==
    /\ At(c) /\ ~Setting(c)
    /\ (Readable(c) /\ Proceed) \/ Fail
    /\ UNCHANGED <<commandVars, board, hw, flash, dfu>>

(* The minimal tool waits for the state it was given, not the byte sent. *)
WaitsForEver(c) == c = "p" /\ tool = "minimal" /\ Param("p", 2) # arg["p"][2]

(* A command that changes something.  When it fails its report may have    *)
(* reached the board or not.                                               *)
Set(c) ==
    /\ At(c) /\ c # "u" /\ Setting(c)
    /\ \/ /\ Accepted(c)
          /\ hw' = After(c)
          /\ flash' = IF c = "c" THEN Configuration(hw) ELSE flash
          /\ \/ Fail
             \/ ~WaitsForEver(c) /\ Proceed
             \/ WaitsForEver(c) /\ result' = "waits" /\ UNCHANGED pos
       \/ Fail /\ UNCHANGED <<hw, flash>>
    /\ UNCHANGED <<commandVars, board, dfu>>

(* -u, whose result main does not look at. *)
SetBootloaderMode ==
    /\ At("u")
    /\ dfu' \in BOOLEAN
    /\ Proceed
    /\ UNCHANGED <<commandVars, board, hw, flash>>

ToolNext ==
    \/ ReadCommandLine /\ UNCHANGED runVars
    \/ OpenBoard
    \/ \E i \in DOMAIN Order : Show(Order[i]) \/ Set(Order[i])
    \/ SetBootloaderMode

ToolSpec == ToolInit /\ [][ToolNext]_vars

-----------------------------------------------------------------------------
(* Properties.                                                             *)

(* The part of the board that c is about is as it was before the run. *)
Untouched(c) ==
    CASE c = "p" -> hw.power = Factory.power
      [] c = "s" -> hw.sim = Factory.sim
      [] c = "f" -> hw.offTime = Factory.offTime
      [] c = "e" -> hw.led = Factory.led
      [] c = "w" -> hw.wwan = Factory.wwan
      [] c = "r" -> hw.resets = Factory.resets
      [] c = "c" -> flash = NoConfiguration
      [] OTHER   -> TRUE

(* What c asked for holds. *)
InEffect(c) ==
    CASE c = "p" -> hw.power[Param("p", 1)] = Param("p", 2)
      [] c = "s" -> hw.sim[SimModem] = Param("s", 2)
      [] c = "f" -> hw.offTime = arg["f"][1]
      [] c = "e" -> /\ hw.led[Param("e", 1)].mode = arg["e"][2]
                    /\ arg["e"][2] = 2 => hw.led[Param("e", 1)].period = arg["e"][3]
      [] c = "w" -> hw.wwan[<<Param("w", 1), Param("w", 2)>>] = Param("w", 3)
      [] c = "r" -> hw.resets[Param("r", 1)] = 1
      [] c = "c" -> flash = Configuration(hw)
      [] OTHER   -> TRUE

(* However a run ends, what it did is a prefix of its commands in main's   *)
(* order: those before the one it is at are in effect, and the saved       *)
(* configuration has all of the run's settings; those after it, and those  *)
(* not given, have left the board alone.  A run that returns 0 has passed  *)
(* the last one.                                                           *)
PrefixDone ==
    /\ \A i \in DOMAIN Order :
         /\ (i < pos /\ Order[i] \in flag /\ Setting(Order[i])) => InEffect(Order[i])
         /\ (i > pos \/ Order[i] \notin flag) => Untouched(Order[i])
    /\ (result = "ok" /\ "l" \notin flag) => pos > Len(Order)
    /\ dfu => result = "ok"

(* Whatever the arguments, which become unsigned char before most checks,  *)
(* every register keeps a value of the range the usage text names; the SIM *)
(* cards are left to SimAssignment, except that no card serves two modems. *)
RegistersInRange ==
    /\ \A m \in Module : hw.power[m] \in {0, 1}
    /\ hw.sim[1] # hw.sim[2] \/ hw.sim[1] = 0
    /\ hw.offTime \in 0 .. Uint16Max
    /\ \A l \in Module : /\ hw.led[l].mode \in 0 .. 2
                          /\ hw.led[l].period \in 0 .. Uint16Max
                          /\ hw.led[l].duty \in 0 .. 100
    /\ \A s \in Signal : hw.wwan[s] \in {0, 1}
    /\ board = "F229" => Untouched("w") /\ Untouched("r")

(* The ranges of the usage text: "DUTYCYCLE: 0 .. 100 %", "SIM: 0 (none),  *)
(* 1 .. N (ME10: N = 6, others: N = 10)" and so on.                        *)
InUsageRange(c) ==
    CASE c = "p" -> arg["p"][1] \in 1 .. 3 /\ arg["p"][2] \in {0, 1}
      [] c = "s" -> arg["s"][1] \in 1 .. 2 /\ arg["s"][2] \in 0 .. IF board = "ME10" THEN 6 ELSE 10
      [] c = "f" -> arg["f"][1] \in 0 .. Uint16Max
      [] c = "e" -> /\ arg["e"][1] \in 1 .. 3 /\ arg["e"][2] \in 0 .. 2
                    /\ arg["e"][2] = 2 => arg["e"][3] \in 0 .. Uint16Max /\ arg["e"][4] \in 0 .. 100
      [] c = "w" -> arg["w"][1] \in 1 .. 2 /\ arg["w"][2] \in {0, 1} /\ arg["w"][3] \in {0, 1}
      [] c = "r" -> arg["r"][1] \in 1 .. 2

Ranged == {"p", "s", "f", "e", "w", "r"}

(* A run that returns 0 was given nothing else. *)
OutOfRangeRefused ==
    result = "ok" /\ "l" \notin flag =>
        \A c \in Ranged : c \in flag /\ Setting(c) => InUsageRange(c)

(* The arguments that become unsigned char. *)
Narrowed(c) ==
    CASE c \in {"p", "s"} -> {1, 2} [] c = "e" -> {1, 4} [] c = "w" -> 1 .. 3 [] c = "r" -> {1}
      [] c = "f" -> {}

(* Nothing but the narrowing, and the minimal library's own checks of -s,  *)
(* lets such an argument pass: no order of options and no earlier command  *)
(* makes main or a library function skip a check.                          *)
BytesRefused ==
    result = "ok" /\ "l" \notin flag =>
        \A c \in Ranged :
            /\ c \in flag /\ Setting(c)
            /\ \A j \in Narrowed(c) : arg[c][j] <= 255
            /\ c = "s" => tool = "std"
            => InUsageRange(c)

-----------------------------------------------------------------------------
(* The refinement of CommandRun.                                           *)

(* Its settings are the registers one by one, and whether the board has    *)
(* gone to its bootloader; the saved ones are those of a configuration.    *)
SavedKeys == ({"p"} \X Module \X {0}) \cup ({"s"} \X {1, 2} \X {0}) \cup {<<"f", 0, 0>>}
Keys ==
    SavedKeys \cup ({"e"} \X Module \X {0}) \cup ({"w"} \X {1, 2} \X {0, 1})
              \cup ({"r"} \X {1, 2} \X {0}) \cup {<<"u", 0, 0>>}

Stored(c) ==
    [k \in SavedKeys |-> IF k[1] = "p" THEN c.power[k[2]]
                         ELSE IF k[1] = "s" THEN c.sim[k[2]] ELSE c.offTime]

LedValue(l) == <<l.mode, l.period, l.duty>>

Register(h, left, k) ==
    CASE k[1] = "p" -> h.power[k[2]]
      [] k[1] = "s" -> h.sim[k[2]]
      [] k[1] = "f" -> h.offTime
      [] k[1] = "e" -> LedValue(h.led[k[2]])
      [] k[1] = "w" -> h.wwan[<<k[2], k[3]>>]
      [] k[1] = "r" -> h.resets[k[2]]
      [] k[1] = "u" -> IF left THEN 1 ELSE 0

Registers(h, left) == [k \in Keys |-> Register(h, left, k)]

(* What the words of the line ask for, numbers as the unsigned char that   *)
(* most of them become.                                                    *)
IsAsked(c) ==
    CASE c = "c" -> SaveGiven \/ Given("c") # {}
      [] c = "s" -> Given("s") \ LegacySave # {}
      [] OTHER   -> Given(c) # {}

Asked == {c \in {Order[i] : i \in DOMAIN Order} : IsAsked(c)}

Changing(c) ==
    CASE c \in {"p", "s", "e", "w"} -> Written(c, 1) # 0
      [] c = "f" -> Written("f", 1) >= 0
      [] c = "c" -> SaveGiven
      [] c \in {"r", "u"} -> TRUE
      [] OTHER -> FALSE

WrittenByte(c, j) == Byte(Written(c, j))

ChangeOf(c) ==
    CASE c = "p" -> [key |-> <<"p", WrittenByte("p", 1), 0>>, value |-> WrittenByte("p", 2)]
      [] c = "s" -> [key |-> <<"s", IF tool = "minimal" /\ WrittenByte("s", 1) = 3
                                    THEN 2 ELSE WrittenByte("s", 1), 0>>,
                     value |-> WrittenByte("s", 2)]
      [] c = "f" -> [key |-> <<"f", 0, 0>>, value |-> Written("f", 1)]
      [] c = "e" -> [key |-> <<"e", WrittenByte("e", 1), 0>>,
                     value |-> IF Written("e", 2) = 2
                               THEN <<2, WrittenBlink[1], Byte(WrittenBlink[2])>>
                               ELSE <<Written("e", 2), 0, 0>>]
      [] c = "w" -> [key |-> <<"w", WrittenByte("w", 1), WrittenByte("w", 2)>>,
                     value |-> WrittenByte("w", 3)]
      [] c = "r" -> [key |-> <<"r", Byte(WrittenReset), 0>>, value |-> 1]
      [] c = "u" -> [key |-> <<"u", 0, 0>>, value |-> 1]
      [] c = "c" -> [key |-> <<"c", 0, 0>>, value |-> 0]

Plan ==
    [asked   |-> Asked,
     changes |-> [c \in {a \in Asked : Changing(a)} |-> ChangeOf(c)],
     list    |-> Given("l") # {}]

Left ==
    IF pos = 0 THEN Asked ELSE {Order[i] : i \in {j \in pos .. Len(Order) : Order[j] \in Asked}}

Run == INSTANCE CommandRun
           WITH plan <- Plan, settings <- Registers(hw, dfu), saved <- Stored(flash),
                left <- Left, ended <- result

(* A run carries out its command line: whatever the words and their order, *)
(* each command of the line changes the setting it names to the value it   *)
(* names or nothing, in the usual order, and none comes after a failure.   *)
ImplementsRun == Run!RunSpec

=============================================================================
