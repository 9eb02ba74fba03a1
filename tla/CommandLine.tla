----------------------------- MODULE CommandLine -----------------------------
(***************************************************************************)
(* How main of both tools reads its command line.  getopt_long hands out   *)
(* the options one after the other, skipping other words; main itself      *)
(* takes the optional arguments from argv[optind] on.                      *)
(***************************************************************************)
EXTENDS Integers, Sequences, FiniteSetsExt

CONSTANT CommandLines       \* the argument vectors explored

(* A word with a sign is no number to isdigit. *)
ASSUME CommandAssumption ==
    CommandLines \subseteq
        Seq([kind : {"option", "attached", "number", "word"}, letter : STRING, value : Nat])

VARIABLES
    tool,       \* which of the two tools is run
    argv,       \* the arguments, from argv[1] on
    optind,     \* the next argument getopt_long looks at
    flag,       \* the options that were given: flag_p, flag_s, ...
    arg,        \* their arguments: arg_p_module and arg_p_state, ...
    parsed      \* how the reading ended

commandVars == <<tool, argv, optind, flag, arg, parsed>>

(* An option, one with a number attached to it (-p1, --power=1), a number  *)
(* and a word that is neither.  "S" stands for --save-config.              *)
Option(o)      == [kind |-> "option", letter |-> o, value |-> 0]
Attached(o, n) == [kind |-> "attached", letter |-> o, value |-> n]
Number(n)      == [kind |-> "number", letter |-> "", value |-> n]
Word           == [kind |-> "word", letter |-> "", value |-> 0]

Letters ==
    {"h", "l", "i", "p", "s", "f", "c", "S", "t", "e", "r", "w", "T", "G", "u"}
        \cup IF tool = "std" THEN {"g", "n", "j"} ELSE {"d"}

(* A local variable of main that has not been assigned. *)
Unset == -1000

NoArguments ==
    [o \in {"p", "s", "w", "e", "f", "c", "r", "i", "g", "n"} |->
        CASE o \in {"p", "s"} -> <<0, Unset>>
          [] o = "w" -> <<0, Unset, Unset>>
          [] o = "e" -> <<0, Unset, Unset, Unset>>
          [] o = "f" -> <<-1>>
          [] OTHER   -> <<0>>]

CommandTypeOK ==
    /\ tool \in {"std", "minimal"}
    /\ optind \in 1 .. Len(argv) + 1
    /\ flag \subseteq Letters
    /\ DOMAIN arg = DOMAIN NoArguments
    /\ \A o \in DOMAIN arg :
         /\ arg[o] \in Seq(Nat \cup {IF o = "f" THEN -1 ELSE Unset})
         /\ Len(arg[o]) = Len(NoArguments[o])
    /\ parsed \in {"reading", "ready", "usage", "error"}

CommandInit ==
    /\ tool \in {"std", "minimal"}
    /\ argv \in CommandLines
    /\ optind = 1
    /\ flag = {}
    /\ arg = NoArguments
    /\ parsed = "reading"

-----------------------------------------------------------------------------
(* getopt_long.                                                            *)

IsOption(k) == argv[k].kind \in {"option", "attached"}

(* The option at k is the next one. *)
NextOption(k) ==
    /\ k \in optind .. Len(argv)
    /\ IsOption(k)
    /\ \A j \in optind .. k - 1 : ~IsOption(j)

IsDigit(k) == k <= Len(argv) /\ argv[k].kind = "number"

HasOptionalArg(k) == argv[k].kind = "option" /\ k < Len(argv) /\ ~IsOption(k + 1)

(* sscanf("%d") leaves its variable alone when there is no number. *)
Scanned(k, old) == IF IsDigit(k) THEN argv[k].value ELSE old

-----------------------------------------------------------------------------
(* The cases of main's switch; k is the place of the option.               *)

Take(o, values, next) ==
    /\ flag' = flag \cup {o}
    /\ arg' = [arg EXCEPT ![o] = values]
    /\ optind' = next
    /\ UNCHANGED <<tool, argv, parsed>>

Stop(how) ==
    /\ parsed' = how
    /\ UNCHANGED <<tool, argv, optind, flag, arg>>

(* An option without arguments keeps those of an earlier occurrence. *)
Bare(o, k) == Take(o, arg[o], k + 1)

(* -p and -s: either no argument or two. *)
PairOption(o, k) ==
    \/ ~HasOptionalArg(k) /\ Bare(o, k)
    \/ /\ HasOptionalArg(k) /\ IsDigit(k + 2)
       /\ Take(o, <<Scanned(k + 1, arg[o][1]), argv[k + 2].value>>, k + 3)
    \/ HasOptionalArg(k) /\ ~IsDigit(k + 2) /\ Stop("error")

(* -f: no argument or one. *)
OffTimeOption(k) ==
    \/ ~HasOptionalArg(k) /\ Bare("f", k)
    \/ HasOptionalArg(k) /\ IsDigit(k + 1) /\ Take("f", <<argv[k + 1].value>>, k + 2)
    \/ HasOptionalArg(k) /\ ~IsDigit(k + 1) /\ Stop("error")

(* Mutant: the -s of the deprecated "-c -s" is left for getopt_long. *)
ConfigOptionKeepsS(k) ==
    IF k < Len(argv) /\ argv[k + 1] = Option("s")
    THEN Take("c", <<1>>, k + 1)
    ELSE Bare("c", k)

(* -c, and its deprecated form "-c -s". *)
ConfigOption(k) ==
    IF k < Len(argv) /\ argv[k + 1] = Option("s")
    THEN Take("c", <<1>>, k + 2)
    ELSE Bare("c", k)

(* Mutant: no default duty cycle. *)
LedOptionNoDefault(k) ==
    \/ ~HasOptionalArg(k) /\ Bare("e", k)
    \/ HasOptionalArg(k) /\ ~IsDigit(k + 2) /\ Stop("error")
    \/ /\ HasOptionalArg(k) /\ IsDigit(k + 2)
       /\ LET led == Scanned(k + 1, arg["e"][1])
              mode == argv[k + 2].value IN
          \/ mode # 2 /\ Take("e", <<led, mode, arg["e"][3], arg["e"][4]>>, k + 3)
          \/ mode = 2 /\ ~IsDigit(k + 3) /\ Stop("error")
          \/ mode = 2 /\ IsDigit(k + 3)
               /\ Take("e", <<led, 2, argv[k + 3].value, Scanned(k + 4, arg["e"][4])>>,
                       IF IsDigit(k + 4) THEN k + 5 ELSE k + 4)

(* -e: no argument, or LED and mode, and for mode 2 also the period and    *)
(* perhaps the duty cycle.                                                 *)
LedOption(k) ==
    \/ ~HasOptionalArg(k) /\ Bare("e", k)
    \/ HasOptionalArg(k) /\ ~IsDigit(k + 2) /\ Stop("error")
    \/ /\ HasOptionalArg(k) /\ IsDigit(k + 2)
       /\ LET led == Scanned(k + 1, arg["e"][1])
              mode == argv[k + 2].value IN
          \/ mode # 2 /\ Take("e", <<led, mode, arg["e"][3], arg["e"][4]>>, k + 3)
          \/ mode = 2 /\ ~IsDigit(k + 3) /\ Stop("error")
          \/ mode = 2 /\ IsDigit(k + 3)
               /\ Take("e", <<led, 2, argv[k + 3].value, Scanned(k + 4, 50)>>,
                       IF IsDigit(k + 4) THEN k + 5 ELSE k + 4)

WwanOption(k) ==
    \/ ~HasOptionalArg(k) /\ Bare("w", k)
    \/ /\ HasOptionalArg(k) /\ IsDigit(k + 2) /\ IsDigit(k + 3)
       /\ Take("w", <<Scanned(k + 1, arg["w"][1]), argv[k + 2].value, argv[k + 3].value>>, k + 4)
    \/ HasOptionalArg(k) /\ ~(IsDigit(k + 2) /\ IsDigit(k + 3)) /\ Stop("error")

(* Options with a required argument, attached or the next word whatever it *)
(* is: -r wants a number, the selectors -i, -g and -n a positive one.      *)
RequiredOption(o, k) ==
    \/ /\ argv[k].kind = "attached"
       /\ IF o # "r" /\ argv[k].value <= 0 THEN Stop("error") ELSE Take(o, <<argv[k].value>>, k + 1)
    \/ argv[k].kind = "option" /\ k = Len(argv) /\ Stop("error")
    \/ /\ argv[k].kind = "option" /\ k < Len(argv)
       /\ IF IF o = "r" THEN ~IsDigit(k + 1) ELSE Scanned(k + 1, arg[o][1]) <= 0
          THEN Stop("error")
          ELSE Take(o, <<Scanned(k + 1, arg[o][1])>>, k + 2)

(* -d of the minimal tool takes any text. *)
DeviceOption(k) ==
    \/ argv[k].kind = "option" /\ k = Len(argv) /\ Stop("error")
    \/ /\ argv[k].kind = "attached" \/ k < Len(argv)
       /\ flag' = flag \cup {"d"}
       /\ optind' = IF argv[k].kind = "attached" THEN k + 1 ELSE k + 2
       /\ UNCHANGED <<tool, argv, arg, parsed>>

(* Options that only set their flag, and --save-config; getopt_long refuses *)
(* text attached to them.                                                  *)
FlagOption(o, k) ==
    /\ argv[k].kind = "option"
    /\ flag' = flag \cup {IF o = "S" THEN "c" ELSE o}
    /\ arg' = IF o = "S" THEN [arg EXCEPT !["c"] = <<1>>] ELSE arg
    /\ optind' = k + 1
    /\ UNCHANGED <<tool, argv, parsed>>

GetOption(k) ==
    LET o == argv[k].letter IN
    \/ o \in {"p", "s"} /\ PairOption(o, k)
    \/ o = "f" /\ OffTimeOption(k)
    \/ o = "c" /\ argv[k].kind = "option" /\ ConfigOption(k)
    \/ o = "e" /\ LedOption(k)
    \/ o = "w" /\ WwanOption(k)
    \/ o \in {"r", "i", "g", "n"} \cap Letters /\ RequiredOption(o, k)
    \/ o = "d" /\ o \in Letters /\ DeviceOption(k)
    \/ o \in {"S", "l", "t", "T", "G", "u", "j"} \cap Letters /\ FlagOption(o, k)
    \/ o \notin Letters \ {"h"} /\ Stop("usage")
    \/ argv[k].kind = "attached" /\ o \in {"S", "l", "t", "T", "G", "u", "j", "c"} /\ Stop("usage")

(* No option is left; without any option main prints its usage. *)
EndOfOptions ==
    /\ \A k \in optind .. Len(argv) : ~IsOption(k)
    /\ Stop(IF flag = {} THEN "usage" ELSE "ready")

ReadCommandLine ==
    /\ parsed = "reading"
    /\ \/ \E k \in 1 .. Len(argv) : NextOption(k) /\ GetOption(k)
       \/ EndOfOptions

-----------------------------------------------------------------------------
(* What a command line means: the usage text, read with the last occurrence *)
(* of an option that has arguments.                                        *)

(* A required option takes the next word as its argument, whatever it is.  *)
TakesNext(k) == argv[k].kind = "option" /\ argv[k].letter \in {"i", "g", "n", "r", "d"}

(* The words that are such an argument: from the first of several options  *)
(* that take the next word, every other word.                              *)
IsArgument(k) ==
    \E j \in 1 .. k - 1 :
        /\ (k - j) % 2 = 1
        /\ \A i \in j .. k - 1 : TakesNext(i)
        /\ j > 1 => ~TakesNext(j - 1)

Given(o) == {k \in 1 .. Len(argv) : IsOption(k) /\ argv[k].letter = o /\ ~IsArgument(k)}

(* The -s of "-c -s" asks for a save and not for the SIM cards. *)
LegacySave == {k \in Given("s") : k - 1 \in Given("c") /\ argv[k] = Option("s")}

SaveGiven == Given("S") \cup LegacySave # {}

(* The j-th argument of the last occurrence of o that has arguments; its   *)
(* first argument is that of the last occurrence where it is a number.     *)
Written(o, j) ==
    LET places == {k \in Given(o) \ LegacySave :
                     HasOptionalArg(k) /\ (j = 1 => IsDigit(k + 1))} IN
    IF places = {} THEN NoArguments[o][j] ELSE Scanned(Max(places) + j, Unset)

(* The argument of the -r at k, attached to it or the next word. *)
ResetOf(k) == IF argv[k].kind = "attached" THEN argv[k].value ELSE Scanned(k + 1, Unset)

(* The period and the duty cycle of the -e at k. *)
BlinkOf(k) == <<Scanned(k + 3, Unset), Scanned(k + 4, 50)>>

(* Those of the last -r, and of the last -e that has arguments. *)
WrittenReset == ResetOf(Max(Given("r")))
WrittenBlink == BlinkOf(Max({k \in Given("e") : HasOptionalArg(k)}))

(* The option by option reading of main, which moves optind itself, agrees *)
(* with the meaning of the whole line: no option eats the arguments of     *)
(* another one, and repeated options do not mix beyond what is said above. *)
ReadAsWritten ==
    parsed = "ready" =>
        /\ \A o \in {"l", "p", "f", "e", "w", "r", "t", "T", "G", "u"} : (o \in flag) = (Given(o) # {})
        /\ ("s" \in flag) = (Given("s") \ LegacySave # {})
        /\ ("c" \in flag) = (SaveGiven \/ Given("c") # {})
        /\ arg["c"] = <<IF SaveGiven THEN 1 ELSE 0>>
        /\ \A o \in {"p", "s", "w"} : \A j \in DOMAIN arg[o] : arg[o][j] = Written(o, j)
        /\ arg["f"][1] = Written("f", 1)
        /\ arg["e"][1] = Written("e", 1) /\ arg["e"][2] = Written("e", 2)
        /\ arg["e"][2] = 2 => <<arg["e"][3], arg["e"][4]>> = WrittenBlink
        /\ Given("r") # {} => arg["r"][1] = WrittenReset

(* main never uses an argument it has not read: "int arg_p_state",         *)
(* "arg_s_sim", "arg_e_mode" and others are declared without a value.      *)
ArgumentsSet ==
    parsed = "ready" =>
        /\ \A o \in {"p", "s", "w"} :
             arg[o][1] # 0 => \A j \in DOMAIN arg[o] : arg[o][j] # Unset
        /\ arg["e"][1] # 0 =>
             /\ arg["e"][2] # Unset
             /\ arg["e"][2] = 2 => arg["e"][3] # Unset /\ arg["e"][4] # Unset

=============================================================================
