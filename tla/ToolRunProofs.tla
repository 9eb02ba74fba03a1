---------------------------- MODULE ToolRunProofs ----------------------------
(***************************************************************************)
(* Proofs about ToolRun, for any command lines: an argument that main uses *)
(* was given, every register keeps a value of its range, a run does a      *)
(* prefix of its commands, the command line is read as it is written, and  *)
(* the run implements CommandRun.                                          *)
(***************************************************************************)
EXTENDS ToolRun, NaturalsInduction, WellFoundedInduction, TLAPS

ArgLetters == {"p", "s", "w", "e", "f", "c", "r", "i", "g", "n"}

Value(o) == Nat \cup {IF o = "f" THEN -1 ELSE Unset}

(* ArgumentsSet, and that already while main reads. *)
ArgumentsThere ==
    /\ \A o \in ArgLetters \ {"f"} : arg[o][1] # Unset
    /\ \A o \in {"p", "s", "w"} :
         arg[o][1] # 0 => \A j \in DOMAIN arg[o] : arg[o][j] # Unset
    /\ arg["e"][1] # 0 =>
         /\ arg["e"][2] # Unset
         /\ arg["e"][2] = 2 => arg["e"][3] # Unset /\ arg["e"][4] # Unset

CommandInv == CommandTypeOK /\ argv \in CommandLines /\ ArgumentsThere

LEMMA Arities ==
  /\ DOMAIN NoArguments = ArgLetters
  /\ Len(NoArguments["p"]) = 2 /\ Len(NoArguments["s"]) = 2
  /\ Len(NoArguments["w"]) = 3 /\ Len(NoArguments["e"]) = 4
  /\ \A o \in ArgLetters \ {"p", "s", "w", "e"} : Len(NoArguments[o]) = 1
  /\ \A o \in ArgLetters : NoArguments[o] \in Seq(Value(o))
  BY DEF NoArguments, ArgLetters, Value, Unset

(* The words of the command line. *)
LEMMA WordTypes ==
  ASSUME CommandInv, NEW k \in 1 .. Len(argv)
  PROVE  argv[k].value \in Nat
<1> DEFINE W == [kind : {"option", "attached", "number", "word"}, letter : STRING, value : Nat]
<1>1. argv \in Seq(W)
  BY CommandAssumption DEF CommandInv
<1>2. argv[k] \in W
  <2> HIDE DEF W
  <2> QED BY <1>1
<1> QED BY <1>2

(* The arguments as main holds them. *)
LEMMA ArgTypes ==
  ASSUME CommandTypeOK, NEW o \in ArgLetters
  PROVE  /\ arg[o] \in Seq(Value(o)) /\ DOMAIN arg = ArgLetters
         /\ o \in {"p", "s"} =>
              /\ Len(arg[o]) = 2 /\ DOMAIN arg[o] = {1, 2}
              /\ arg[o][1] \in Nat \cup {Unset} /\ arg[o][2] \in Nat \cup {Unset}
         /\ o = "w" =>
              /\ Len(arg[o]) = 3 /\ DOMAIN arg[o] = {1, 2, 3}
              /\ \A j \in {1, 2, 3} : arg[o][j] \in Nat \cup {Unset}
         /\ o = "e" =>
              /\ Len(arg[o]) = 4 /\ DOMAIN arg[o] = {1, 2, 3, 4}
              /\ \A j \in {1, 2, 3, 4} : arg[o][j] \in Nat \cup {Unset}
         /\ o \notin {"p", "s", "w", "e"} =>
              Len(arg[o]) = 1 /\ DOMAIN arg[o] = {1} /\ arg[o][1] \in Value(o)
<1>1. arg[o] \in Seq(Value(o)) /\ Len(arg[o]) = Len(NoArguments[o]) /\ DOMAIN arg = ArgLetters
  BY Arities DEF CommandTypeOK, Value
<1>2. DOMAIN arg[o] = 1 .. Len(arg[o]) /\ \A j \in 1 .. Len(arg[o]) : arg[o][j] \in Value(o)
  BY <1>1
<1>3. CASE o \in {"p", "s"}
  <2>1. Len(arg[o]) = 2
    BY <1>1, <1>3, Arities
  <2> QED BY <1>1, <1>2, <1>3, <2>1 DEF Value
<1>4. CASE o = "w"
  <2>1. Len(arg[o]) = 3
    BY <1>1, <1>4, Arities
  <2> QED BY <1>1, <1>2, <1>4, <2>1 DEF Value
<1>5. CASE o = "e"
  <2>1. Len(arg[o]) = 4
    BY <1>1, <1>5, Arities
  <2> QED BY <1>1, <1>2, <1>5, <2>1 DEF Value
<1>6. CASE o \notin {"p", "s", "w", "e"}
  <2>1. Len(arg[o]) = 1
    BY <1>1, <1>6, Arities
  <2> QED BY <1>1, <1>2, <1>6, <2>1
<1> QED BY <1>3, <1>4, <1>5, <1>6

(* A case of main's switch that takes the arguments of o. *)
LEMMA TakeTypes ==
  ASSUME CommandInv, NEW o \in ArgLetters \cap Letters, NEW values, NEW next \in 1 .. Len(argv) + 1,
         Take(o, values, next),
         values \in Seq(Value(o)), Len(values) = Len(NoArguments[o])
  PROVE  /\ CommandTypeOK' /\ argv' \in CommandLines
         /\ arg'[o] = values /\ \A u \in ArgLetters \ {o} : arg'[u] = arg[u]
<1>1. /\ DOMAIN arg = ArgLetters
      /\ \A u \in ArgLetters : arg[u] \in Seq(Value(u)) /\ Len(arg[u]) = Len(NoArguments[u])
  BY Arities DEF CommandInv, CommandTypeOK, Value
<1>2. /\ arg' = [arg EXCEPT ![o] = values] /\ optind' = next
      /\ flag' = flag \cup {o} /\ UNCHANGED <<tool, argv, parsed>>
  BY DEF Take
<1>3. /\ DOMAIN arg' = ArgLetters /\ arg'[o] = values
      /\ \A u \in ArgLetters \ {o} : arg'[u] = arg[u]
  BY <1>1, <1>2
<1>4. \A u \in ArgLetters : arg'[u] \in Seq(Value(u)) /\ Len(arg'[u]) = Len(NoArguments[u])
  BY <1>1, <1>3
<1>5. Letters' = Letters /\ flag' \subseteq Letters
  BY <1>2 DEF Letters, CommandInv, CommandTypeOK
<1>6. CommandTypeOK'
  BY <1>2, <1>3, <1>4, <1>5, Arities DEF CommandInv, CommandTypeOK, Value
<1> QED BY <1>2, <1>3, <1>6 DEF CommandInv

LEMMA StopTypes ==
  ASSUME CommandInv, NEW how \in {"ready", "usage", "error"}, Stop(how)
  PROVE  CommandInv'
  BY DEF Stop, CommandInv, CommandTypeOK, ArgumentsThere, Letters

(* A number that main scans leaves a number, or the old value. *)
LEMMA ScannedTypes ==
  ASSUME CommandInv, NEW k \in 1 .. Len(argv), NEW n \in 1 .. 4, NEW old
  PROVE  /\ IsDigit(k + n) => k + n \in 1 .. Len(argv) /\ argv[k + n].value \in Nat
         /\ Scanned(k + n, old) \in Nat \cup {old}
<1>1. Len(argv) \in Nat
  BY CommandAssumption DEF CommandInv
<1>2. IsDigit(k + n) => k + n \in 1 .. Len(argv)
  BY <1>1 DEF IsDigit
<1> QED BY <1>2, WordTypes DEF Scanned

LEMMA Tuples ==
  ASSUME NEW S
  PROVE  /\ \A a \in S : <<a>> \in Seq(S) /\ Len(<<a>>) = 1
         /\ \A a, b \in S : <<a, b>> \in Seq(S) /\ Len(<<a, b>>) = 2
         /\ \A a, b, c \in S : <<a, b, c>> \in Seq(S) /\ Len(<<a, b, c>>) = 3
         /\ \A a, b, c, d \in S : <<a, b, c, d>> \in Seq(S) /\ Len(<<a, b, c, d>>) = 4
  OBVIOUS

LEMMA BareInv ==
  ASSUME CommandInv, NEW k \in 1 .. Len(argv), NEW o \in ArgLetters \cap Letters, Bare(o, k)
  PROVE  CommandInv'
<1>1. Len(argv) \in Nat
  BY CommandAssumption DEF CommandInv
<1>2. arg[o] \in Seq(Value(o)) /\ Len(arg[o]) = Len(NoArguments[o])
  BY Arities DEF CommandInv, CommandTypeOK, Value
<1>3. Take(o, arg[o], k + 1) /\ k + 1 \in 1 .. Len(argv) + 1
  BY <1>1 DEF Bare
<1>4. CommandTypeOK' /\ argv' \in CommandLines /\ \A u \in ArgLetters : arg'[u] = arg[u]
  BY <1>2, <1>3, TakeTypes
<1>5. ArgumentsThere'
  BY <1>4 DEF CommandInv, ArgumentsThere, ArgLetters
<1> QED BY <1>4, <1>5 DEF CommandInv

LEMMA PairOptionInv ==
  ASSUME CommandInv, NEW k \in 1 .. Len(argv), NEW o \in {"p", "s"}, PairOption(o, k)
  PROVE  CommandInv'
<1>1. o \in ArgLetters \cap Letters /\ Len(argv) \in Nat
  BY CommandAssumption DEF ArgLetters, Letters, CommandInv
<1>2. CASE Bare(o, k)
  BY <1>1, <1>2, BareInv
<1>3. CASE Stop("error")
  BY <1>3, StopTypes
<1>4. CASE /\ HasOptionalArg(k) /\ IsDigit(k + 2)
           /\ Take(o, <<Scanned(k + 1, arg[o][1]), argv[k + 2].value>>, k + 3)
  <2> DEFINE a == Scanned(k + 1, arg[o][1])
             b == argv[k + 2].value
  <2>1. arg[o][1] \in Nat
    BY <1>1, ArgTypes DEF CommandInv, ArgumentsThere
  <2>2. 1 \in 1 .. 4 /\ 2 \in 1 .. 4
    OBVIOUS
  <2>3. k + 2 \in 1 .. Len(argv) /\ b \in Nat
    BY <1>4, <2>2, ScannedTypes
  <2>4. a \in Nat
    BY <2>1, <2>2, ScannedTypes
  <2>5. Take(o, <<a, b>>, k + 3) /\ k + 3 \in 1 .. Len(argv) + 1
    BY <1>1, <1>4, <2>3
  <2> HIDE DEF a, b
  <2>6. <<a, b>> \in Seq(Value(o)) /\ Len(<<a, b>>) = Len(NoArguments[o])
    BY <2>3, <2>4, Tuples, Arities DEF Value
  <2>7. /\ CommandTypeOK' /\ argv' \in CommandLines /\ arg'[o] = <<a, b>>
        /\ \A u \in ArgLetters \ {o} : arg'[u] = arg[u]
    BY <1>1, <2>5, <2>6, TakeTypes
  <2>8. ArgumentsThere'
    <3>1. \A j \in DOMAIN <<a, b>> : <<a, b>>[j] # Unset
      BY <2>3, <2>4 DEF Unset
    <3> QED BY <2>7, <3>1 DEF CommandInv, ArgumentsThere, ArgLetters
  <2> QED BY <2>7, <2>8 DEF CommandInv
<1> QED BY <1>2, <1>3, <1>4 DEF PairOption

(* An option with one argument. *)
LEMMA SingleInv ==
  ASSUME CommandInv, NEW o \in {"f", "c", "r", "i", "g", "n"}, o \in Letters,
         NEW a \in Nat, NEW next \in 1 .. Len(argv) + 1, Take(o, <<a>>, next)
  PROVE  CommandInv'
<1>1. o \in ArgLetters \cap Letters /\ Len(NoArguments[o]) = 1 /\ a \in Value(o)
  BY Arities DEF ArgLetters, Value
<1>2. <<a>> \in Seq(Value(o)) /\ Len(<<a>>) = Len(NoArguments[o])
  BY <1>1, Tuples
<1>3. /\ CommandTypeOK' /\ argv' \in CommandLines /\ arg'[o] = <<a>>
      /\ \A u \in ArgLetters \ {o} : arg'[u] = arg[u]
  BY <1>1, <1>2, TakeTypes
<1>4. ArgumentsThere'
  <2>1. arg'[o][1] # Unset
    BY <1>3 DEF Unset
  <2> QED BY <1>3, <2>1 DEF CommandInv, ArgumentsThere, ArgLetters
<1> QED BY <1>3, <1>4 DEF CommandInv

LEMMA OffTimeOptionInv ==
  ASSUME CommandInv, NEW k \in 1 .. Len(argv), OffTimeOption(k)
  PROVE  CommandInv'
<1>1. "f" \in ArgLetters \cap Letters /\ Len(argv) \in Nat /\ 1 \in 1 .. 4
  BY CommandAssumption DEF ArgLetters, Letters, CommandInv
<1>2. CASE Bare("f", k)
  BY <1>1, <1>2, BareInv
<1>3. CASE Stop("error")
  BY <1>3, StopTypes
<1>4. CASE IsDigit(k + 1) /\ Take("f", <<argv[k + 1].value>>, k + 2)
  <2>1. k + 1 \in 1 .. Len(argv) /\ argv[k + 1].value \in Nat
    BY <1>1, <1>4, ScannedTypes
  <2>2. k + 2 \in 1 .. Len(argv) + 1
    BY <1>1, <2>1
  <2> QED BY <1>1, <1>4, <2>1, <2>2, SingleInv
<1> QED BY <1>2, <1>3, <1>4 DEF OffTimeOption

LEMMA ConfigOptionInv ==
  ASSUME CommandInv, NEW k \in 1 .. Len(argv), ConfigOption(k)
  PROVE  CommandInv'
<1>1. "c" \in ArgLetters \cap Letters /\ Len(argv) \in Nat
  BY CommandAssumption DEF ArgLetters, Letters, CommandInv
<1>2. CASE Bare("c", k)
  BY <1>1, <1>2, BareInv
<1>3. CASE k < Len(argv) /\ Take("c", << 1 >>, k + 2)
  <2>1. k + 2 \in 1 .. Len(argv) + 1
    BY <1>1, <1>3
  <2> QED BY <1>1, <1>3, <2>1, SingleInv
<1> QED BY <1>2, <1>3 DEF ConfigOption

(* The values that -e leaves. *)
LEMMA LedTakenInv ==
  ASSUME CommandInv, NEW led \in Nat, NEW mode \in Nat,
         NEW period \in Nat \cup {Unset}, NEW duty \in Nat \cup {Unset},
         mode = 2 => period # Unset /\ duty # Unset,
         NEW next \in 1 .. Len(argv) + 1, Take("e", <<led, mode, period, duty>>, next)
  PROVE  CommandInv'
<1>1. "e" \in ArgLetters \cap Letters /\ Value("e") = Nat \cup {Unset}
  BY DEF ArgLetters, Letters, Value
<1>2. /\ <<led, mode, period, duty>> \in Seq(Value("e"))
      /\ Len(<<led, mode, period, duty>>) = Len(NoArguments["e"])
  BY <1>1, Tuples, Arities
<1>3. /\ CommandTypeOK' /\ argv' \in CommandLines /\ arg'["e"] = <<led, mode, period, duty>>
      /\ \A u \in ArgLetters \ {"e"} : arg'[u] = arg[u]
  BY <1>1, <1>2, TakeTypes
<1>4. ArgumentsThere'
  <2>1. /\ arg'["e"][1] # Unset /\ arg'["e"][2] # Unset
        /\ arg'["e"][2] = 2 => arg'["e"][3] # Unset /\ arg'["e"][4] # Unset
    BY <1>3 DEF Unset
  <2> QED BY <1>3, <2>1 DEF CommandInv, ArgumentsThere, ArgLetters
<1> QED BY <1>3, <1>4 DEF CommandInv

LEMMA LedOptionInv ==
  ASSUME CommandInv, NEW k \in 1 .. Len(argv), LedOption(k)
  PROVE  CommandInv'
<1> DEFINE led == Scanned(k + 1, arg["e"][1])
           mode == argv[k + 2].value
<1>1. "e" \in ArgLetters \cap Letters /\ Len(argv) \in Nat /\ {1, 2, 3, 4} \subseteq 1 .. 4
  BY CommandAssumption DEF ArgLetters, Letters, CommandInv
<1>2. /\ arg["e"][1] \in Nat
      /\ arg["e"][3] \in Nat \cup {Unset} /\ arg["e"][4] \in Nat \cup {Unset}
  BY <1>1, ArgTypes DEF CommandInv, ArgumentsThere
<1>3. led \in Nat /\ Scanned(k + 4, 50) \in Nat
  BY <1>1, <1>2, ScannedTypes
<1>4. CASE Bare("e", k)
  BY <1>1, <1>4, BareInv
<1>5. CASE Stop("error")
  BY <1>5, StopTypes
<1>6. IsDigit(k + 2) => k + 2 \in 1 .. Len(argv) /\ mode \in Nat
  BY <1>1, ScannedTypes
<1> HIDE DEF led, mode
<1>7. CASE /\ IsDigit(k + 2) /\ mode # 2
           /\ Take("e", <<led, mode, arg["e"][3], arg["e"][4]>>, k + 3)
  <2>1. k + 3 \in 1 .. Len(argv) + 1
    BY <1>1, <1>6, <1>7
  <2> QED BY <1>2, <1>3, <1>6, <1>7, <2>1, LedTakenInv
<1>8. CASE /\ IsDigit(k + 2) /\ mode = 2 /\ IsDigit(k + 3)
           /\ Take("e", <<led, 2, argv[k + 3].value, Scanned(k + 4, 50)>>,
                   IF IsDigit(k + 4) THEN k + 5 ELSE k + 4)
  <2> DEFINE period == argv[k + 3].value
             duty == Scanned(k + 4, 50)
             next == IF IsDigit(k + 4) THEN k + 5 ELSE k + 4
  <2>1. k + 3 \in 1 .. Len(argv) /\ period \in Nat
    BY <1>1, <1>8, ScannedTypes
  <2>2. IsDigit(k + 4) => k + 4 \in 1 .. Len(argv)
    BY <1>1, ScannedTypes
  <2>3. next \in 1 .. Len(argv) + 1
    BY <1>1, <2>1, <2>2
  <2>4. Take("e", <<led, 2, period, duty>>, next) /\ duty \in Nat
    BY <1>3, <1>8
  <2> HIDE DEF period, duty, next
  <2>5. period # Unset /\ duty # Unset /\ 2 \in Nat
    BY <2>1, <2>4 DEF Unset
  <2> QED BY <1>3, <2>1, <2>3, <2>4, <2>5, LedTakenInv
<1> QED BY <1>4, <1>5, <1>7, <1>8 DEF LedOption, led, mode

LEMMA WwanOptionInv ==
  ASSUME CommandInv, NEW k \in 1 .. Len(argv), WwanOption(k)
  PROVE  CommandInv'
<1>1. "w" \in ArgLetters \cap Letters /\ Len(argv) \in Nat /\ {1, 2, 3} \subseteq 1 .. 4
  BY CommandAssumption DEF ArgLetters, Letters, CommandInv
<1>2. CASE Bare("w", k)
  BY <1>1, <1>2, BareInv
<1>3. CASE Stop("error")
  BY <1>3, StopTypes
<1>4. CASE /\ IsDigit(k + 2) /\ IsDigit(k + 3)
           /\ Take("w", <<Scanned(k + 1, arg["w"][1]), argv[k + 2].value, argv[k + 3].value>>, k + 4)
  <2> DEFINE a == Scanned(k + 1, arg["w"][1])
             b == argv[k + 2].value
             c == argv[k + 3].value
  <2>1. arg["w"][1] \in Nat
    BY <1>1, ArgTypes DEF CommandInv, ArgumentsThere
  <2>2. k + 3 \in 1 .. Len(argv) /\ b \in Nat /\ c \in Nat
    BY <1>1, <1>4, ScannedTypes
  <2>3. a \in Nat
    BY <1>1, <2>1, ScannedTypes
  <2>4. Take("w", <<a, b, c>>, k + 4) /\ k + 4 \in 1 .. Len(argv) + 1
    BY <1>1, <1>4, <2>2
  <2> HIDE DEF a, b, c
  <2>5. <<a, b, c>> \in Seq(Value("w")) /\ Len(<<a, b, c>>) = Len(NoArguments["w"])
    BY <2>2, <2>3, Tuples, Arities DEF Value
  <2>6. /\ CommandTypeOK' /\ argv' \in CommandLines /\ arg'["w"] = <<a, b, c>>
        /\ \A u \in ArgLetters \ {"w"} : arg'[u] = arg[u]
    BY <1>1, <2>4, <2>5, TakeTypes
  <2>7. ArgumentsThere'
    <3>1. \A j \in DOMAIN <<a, b, c>> : <<a, b, c>>[j] # Unset
      BY <2>2, <2>3 DEF Unset
    <3> QED BY <2>6, <3>1 DEF CommandInv, ArgumentsThere, ArgLetters
  <2> QED BY <2>6, <2>7 DEF CommandInv
<1> QED BY <1>2, <1>3, <1>4 DEF WwanOption

LEMMA RequiredOptionInv ==
  ASSUME CommandInv, NEW k \in 1 .. Len(argv), NEW o \in {"r", "i", "g", "n"} \cap Letters,
         RequiredOption(o, k)
  PROVE  CommandInv'
<1>1. o \in ArgLetters /\ Len(argv) \in Nat /\ 1 \in 1 .. 4
      /\ k + 1 \in 1 .. Len(argv) + 1 /\ argv[k].value \in Nat
  BY CommandAssumption, WordTypes DEF ArgLetters, CommandInv
<1>2. CASE Stop("error")
  BY <1>2, StopTypes
<1>3. CASE Take(o, <<argv[k].value>>, k + 1)
  BY <1>1, <1>3, SingleInv
<1>4. CASE k < Len(argv) /\ Take(o, <<Scanned(k + 1, arg[o][1])>>, k + 2)
  <2>1. arg[o][1] \in Nat
    <3>1. arg[o][1] \in Value(o) /\ arg[o][1] # Unset
      BY <1>1, ArgTypes DEF CommandInv, ArgumentsThere
    <3> QED BY <3>1 DEF Value
  <2>2. Scanned(k + 1, arg[o][1]) \in Nat
    BY <1>1, <2>1, ScannedTypes
  <2>3. k + 2 \in 1 .. Len(argv) + 1
    BY <1>1, <1>4
  <2> QED BY <1>4, <2>2, <2>3, SingleInv
<1> QED BY <1>2, <1>3, <1>4 DEF RequiredOption

(* The options that set their flag, and perhaps arg_c_save. *)
LEMMA FlagInv ==
  ASSUME CommandInv, NEW o \in Letters, flag' = flag \cup {o},
         optind' \in 1 .. Len(argv) + 1, UNCHANGED <<tool, argv, parsed>>,
         arg' = arg \/ arg' = [arg EXCEPT !["c"] = << 1 >>]
  PROVE  CommandInv'
<1>1. CASE arg' = arg
  BY <1>1 DEF CommandInv, CommandTypeOK, ArgumentsThere, Letters
<1>2. CASE arg' = [arg EXCEPT !["c"] = <<1>>]
  <2>1. DOMAIN arg = ArgLetters
    BY ArgTypes, Arities DEF CommandInv, CommandTypeOK
  <2>2. /\ DOMAIN arg' = ArgLetters /\ arg'["c"] = <<1>>
        /\ \A u \in ArgLetters \ {"c"} : arg'[u] = arg[u]
    BY <1>2, <2>1 DEF ArgLetters
  <2>3. <<1>> \in Seq(Value("c")) /\ Len(<<1>>) = Len(NoArguments["c"])
    BY Tuples, Arities DEF Value, ArgLetters
  <2>4. CommandTypeOK'
    <3>1. \A u \in ArgLetters : arg'[u] \in Seq(Value(u)) /\ Len(arg'[u]) = Len(NoArguments[u])
      BY <2>2, <2>3, Arities DEF CommandInv, CommandTypeOK, Value
    <3> QED BY <2>2, <3>1, Arities DEF CommandInv, CommandTypeOK, Value, Letters
  <2>5. ArgumentsThere'
    <3>1. arg'["c"][1] # Unset
      BY <2>2 DEF Unset
    <3> QED BY <2>2, <3>1 DEF CommandInv, ArgumentsThere, ArgLetters
  <2> QED BY <2>4, <2>5 DEF CommandInv
<1> QED BY <1>1, <1>2

LEMMA ReadCommandLineInv ==
  ASSUME CommandInv, ReadCommandLine
  PROVE  CommandInv'
<1>1. Len(argv) \in Nat
  BY CommandAssumption DEF CommandInv
<1>2. CASE EndOfOptions
  BY <1>2, StopTypes DEF EndOfOptions
<1>3. ASSUME NEW k \in 1 .. Len(argv), GetOption(k) PROVE CommandInv'
  <2> DEFINE o == argv[k].letter
  <2>1. CASE o \in {"p", "s"} /\ PairOption(o, k)
    BY <2>1, PairOptionInv
  <2>2. CASE OffTimeOption(k) \/ ConfigOption(k) \/ LedOption(k) \/ WwanOption(k)
    BY <2>2, OffTimeOptionInv, ConfigOptionInv, LedOptionInv, WwanOptionInv
  <2>3. CASE o \in {"r", "i", "g", "n"} \cap Letters /\ RequiredOption(o, k)
    BY <2>3, RequiredOptionInv
  <2>4. CASE o \in Letters /\ o = "d" /\ DeviceOption(k)
    <3>1. CASE Stop("error")
      BY <3>1, StopTypes
    <3>2. CASE ~Stop("error")
      <4>1. optind' \in 1 .. Len(argv) + 1
        BY <1>1, <2>4, <3>2 DEF DeviceOption
      <4> QED BY <2>4, <3>2, <4>1, FlagInv DEF DeviceOption
    <3> QED BY <3>1, <3>2
  <2>5. CASE o \in {"S", "l", "t", "T", "G", "u", "j"} \cap Letters /\ FlagOption(o, k)
    <3>1. optind' \in 1 .. Len(argv) + 1
      BY <1>1, <2>5 DEF FlagOption
    <3>2. (IF o = "S" THEN "c" ELSE o) \in Letters
      BY <2>5 DEF Letters
    <3> QED BY <2>5, <3>1, <3>2, FlagInv DEF FlagOption
  <2>6. CASE Stop("usage")
    BY <2>6, StopTypes
  <2> QED BY <1>3, <2>1, <2>2, <2>3, <2>4, <2>5, <2>6 DEF GetOption
<1> QED BY <1>2, <1>3 DEF ReadCommandLine

-----------------------------------------------------------------------------
(* The run.                                                                *)

LEMMA OrderFacts ==
  /\ Len(Order) = 11 /\ DOMAIN Order = 1 .. 11
  /\ Order[1] = "p" /\ Order[2] = "s" /\ Order[3] = "f" /\ Order[4] = "c"
  /\ Order[5] = "t" /\ Order[6] = "e" /\ Order[7] = "T" /\ Order[8] = "w"
  /\ Order[9] = "r" /\ Order[10] = "G" /\ Order[11] = "u"
  BY DEF Order

(* main goes on to a command that was given, and leaves out none. *)
LEMMA ProceedStep ==
  ASSUME pos \in 0 .. 12, Proceed
  PROVE  /\ pos' \in pos + 1 .. 12 \/ (pos = 12 /\ pos' = 12)
         /\ pos' <= 11 => Order[pos'] \in flag /\ result' = "none"
         /\ pos' = 12 => result' = "ok"
         /\ \A j \in pos + 1 .. 11 : Order[j] \in flag => pos' <= j
<1> DEFINE S == {j \in pos + 1 .. 11 : Order[j] \in flag} \cup {12}
<1>1. pos' = Min(S) /\ result' = IF pos' > 11 THEN "ok" ELSE "none"
  BY OrderFacts DEF Proceed
<1>2. S \subseteq Nat /\ 12 \in S
  OBVIOUS
<1>3. \E n \in S : \A m \in S : n <= m
  <2> HIDE DEF S
  <2> QED BY <1>2, SmallestNatural
<1>4. pos' \in S /\ \A m \in S : pos' <= m
  <2> HIDE DEF S
  <2> QED BY <1>1, <1>3 DEF Min
<1>5. \A j \in pos + 1 .. 11 : Order[j] \in flag => pos' <= j
  BY <1>4
<1>6. \/ pos' \in pos + 1 .. 11 /\ Order[pos'] \in flag
      \/ pos' = 12
  BY <1>4
<1> HIDE DEF S
<1>7. CASE pos' \in pos + 1 .. 11 /\ Order[pos'] \in flag
  BY <1>1, <1>5, <1>7
<1>8. CASE pos' = 12
  BY <1>1, <1>5, <1>8
<1> QED BY <1>6, <1>7, <1>8

(* A setting has its arguments, which are numbers. *)
LEMMA SettingTypes ==
  ASSUME CommandInv
  PROVE  /\ arg["p"][1] \in Nat /\ (Setting("p") => arg["p"][2] \in Nat)
         /\ arg["s"][1] \in Nat /\ (Setting("s") => arg["s"][2] \in Nat)
         /\ arg["w"][1] \in Nat /\ (Setting("w") => arg["w"][2] \in Nat /\ arg["w"][3] \in Nat)
         /\ arg["e"][1] \in Nat /\ (Setting("e") => arg["e"][2] \in Nat)
         /\ Setting("e") /\ arg["e"][2] = 2 => arg["e"][3] \in Nat /\ arg["e"][4] \in Nat
         /\ Setting("f") => arg["f"][1] \in Nat
         /\ arg["r"][1] \in Nat
<1>1. {"p", "s", "w", "e", "f", "r"} \subseteq ArgLetters
  BY DEF ArgLetters
<1>2. \A o \in {"p", "s"} : arg[o][1] \in Nat /\ (Setting(o) => arg[o][2] \in Nat)
  BY <1>1, ArgTypes DEF CommandInv, ArgumentsThere, Setting
<1>3. arg["w"][1] \in Nat /\ (Setting("w") => arg["w"][2] \in Nat /\ arg["w"][3] \in Nat)
  BY <1>1, ArgTypes DEF CommandInv, ArgumentsThere, Setting
<1>4. /\ arg["e"][1] \in Nat /\ (Setting("e") => arg["e"][2] \in Nat)
      /\ Setting("e") /\ arg["e"][2] = 2 => arg["e"][3] \in Nat /\ arg["e"][4] \in Nat
  BY <1>1, ArgTypes DEF CommandInv, ArgumentsThere, Setting
<1>5. arg["f"][1] \in Nat \cup {-1} /\ arg["r"][1] \in Nat
  BY <1>1, ArgTypes DEF CommandInv, ArgumentsThere, Value
<1>6. Setting("f") => arg["f"][1] \in Nat
  BY <1>5 DEF Setting
<1> QED BY <1>2, <1>3, <1>4, <1>5, <1>6

(* An unsigned char. *)
LEMMA Uint16Types == Uint16Max \in Nat
  BY DEF Uint16Max

LEMMA ByteTypes == ASSUME NEW n \in Nat PROVE Byte(n) \in Nat
  BY DEF Byte

(* What each report changes of the registers, and to what. *)
LEMMA AfterPower ==
  ASSUME CommandInv, hw \in HwType, Setting("p"), Accepted("p")
  PROVE  /\ Param("p", 1) \in Module /\ Param("p", 2) \in {0, 1}
         /\ After("p") \in HwType
         /\ After("p").power = [hw.power EXCEPT ![Param("p", 1)] = Param("p", 2)]
         /\ After("p").sim = hw.sim /\ After("p").offTime = hw.offTime
         /\ After("p").led = hw.led /\ After("p").wwan = hw.wwan
         /\ After("p").resets = hw.resets
<1>1. Param("p", 1) \in Module /\ Param("p", 2) \in {0, 1}
  BY DEF Accepted
<1>2. After("p") = [hw EXCEPT !.power[Param("p", 1)] = Param("p", 2)]
  BY DEF After
<1> QED BY <1>1, <1>2 DEF HwType

LEMMA AfterSim ==
  ASSUME CommandInv, hw \in HwType, Setting("s"), Accepted("s")
  PROVE  /\ SimModem \in {1, 2} /\ Param("s", 2) \in Nat
         /\ Param("s", 2) # 0 => hw.sim[3 - SimModem] # Param("s", 2)
         /\ After("s") \in HwType
         /\ After("s").sim = [hw.sim EXCEPT ![SimModem] = Param("s", 2)]
         /\ After("s").power = hw.power /\ After("s").offTime = hw.offTime
         /\ After("s").led = hw.led /\ After("s").wwan = hw.wwan
         /\ After("s").resets = hw.resets
<1>1. SimModem \in {1, 2} /\ Param("s", 2) \in Nat
  BY SettingTypes, ByteTypes DEF SimModem, Param
<1>2. Param("s", 2) # 0 => hw.sim[3 - SimModem] # Param("s", 2)
  BY DEF Accepted
<1>3. After("s") = [hw EXCEPT !.sim[SimModem] = Param("s", 2)]
  BY DEF After
<1> QED BY <1>1, <1>2, <1>3 DEF HwType

LEMMA AfterOffTime ==
  ASSUME CommandInv, hw \in HwType, Setting("f"), Accepted("f")
  PROVE  /\ arg["f"][1] \in 0 .. Uint16Max
         /\ After("f") \in HwType /\ After("f").offTime = arg["f"][1]
         /\ After("f").power = hw.power /\ After("f").sim = hw.sim
         /\ After("f").led = hw.led /\ After("f").wwan = hw.wwan
         /\ After("f").resets = hw.resets
<1> DEFINE t == arg["f"][1]
<1>0. t \in Nat /\ t <= Uint16Max
  <2>1. t \in Nat
    BY SettingTypes
  <2>2. t <= Uint16Max
    BY DEF Accepted
  <2> QED BY <2>1, <2>2
<1> HIDE DEF t
<1>1. t \in 0 .. Uint16Max
  BY <1>0, Uint16Types
<1>2. After("f") = [hw EXCEPT !.offTime = t]
  BY DEF After, t
<1>3. /\ After("f") \in HwType /\ After("f").offTime = t
      /\ After("f").power = hw.power /\ After("f").sim = hw.sim
      /\ After("f").led = hw.led /\ After("f").wwan = hw.wwan
      /\ After("f").resets = hw.resets
  BY <1>0, <1>2 DEF HwType
<1> QED BY <1>1, <1>3 DEF t

(* The mode, period and duty cycle that -e asks for. *)
LedArgument ==
    IF arg["e"][2] = 2 THEN <<2, arg["e"][3], Param("e", 4)>> ELSE <<arg["e"][2], 0, 0>>

LEMMA AfterLed ==
  ASSUME CommandInv, hw \in HwType, Setting("e"), Accepted("e")
  PROVE  /\ Param("e", 1) \in Module
         /\ \E l \in [mode : 0 .. 2, period : 0 .. Uint16Max, duty : 0 .. 100] :
              /\ After("e").led = [hw.led EXCEPT ![Param("e", 1)] = l]
              /\ l.mode = arg["e"][2] /\ (arg["e"][2] = 2 => l.period = arg["e"][3])
              /\ LedValue(l) = LedArgument
         /\ After("e") \in HwType
         /\ After("e").power = hw.power /\ After("e").sim = hw.sim
         /\ After("e").offTime = hw.offTime /\ After("e").wwan = hw.wwan
         /\ After("e").resets = hw.resets
<1> DEFINE l == IF arg["e"][2] = 2
                THEN [mode |-> 2, period |-> arg["e"][3], duty |-> Param("e", 4)]
                ELSE [mode |-> arg["e"][2], period |-> 0, duty |-> 0]
<1>1. Param("e", 1) \in Module /\ arg["e"][2] \in 0 .. 2
  BY SettingTypes DEF Accepted
<1>2. ASSUME arg["e"][2] = 2 PROVE arg["e"][3] \in 0 .. Uint16Max /\ Param("e", 4) \in 0 .. 100
  <2>1. arg["e"][3] \in Nat /\ arg["e"][4] \in Nat
    BY <1>2, SettingTypes
  <2>2. arg["e"][3] <= Uint16Max /\ Param("e", 4) <= 100
    BY <1>2 DEF Accepted
  <2>3. Param("e", 4) \in Nat
    BY <2>1, ByteTypes DEF Param
  <2> QED BY <2>1, <2>2, <2>3, Uint16Types
<1>3. /\ l \in [mode : 0 .. 2, period : 0 .. Uint16Max, duty : 0 .. 100]
      /\ l.mode = arg["e"][2] /\ (arg["e"][2] = 2 => l.period = arg["e"][3])
  <2>1. CASE arg["e"][2] = 2
    BY <1>2, <2>1
  <2>2. CASE arg["e"][2] # 2
    BY <1>1, <2>2, Uint16Types
  <2> QED BY <2>1, <2>2
<1>10. LedValue(l) = LedArgument
  <2>1. CASE arg["e"][2] = 2
    BY <2>1 DEF LedValue, LedArgument
  <2>2. CASE arg["e"][2] # 2
    BY <2>2 DEF LedValue, LedArgument
  <2> QED BY <2>1, <2>2
<1>4. After("e") = [hw EXCEPT !.led[Param("e", 1)] = l]
  BY DEF After
<1> HIDE DEF l
<1>5. l \in [mode : Nat, period : Nat, duty : Nat]
  <2>1. 0 .. 2 \subseteq Nat /\ 0 .. Uint16Max \subseteq Nat /\ 0 .. 100 \subseteq Nat
    BY Uint16Types
  <2> QED BY <1>3, <2>1
<1>6. After("e").led = [hw.led EXCEPT ![Param("e", 1)] = l]
  BY <1>1, <1>4 DEF HwType
<1>7. After("e") \in HwType
  BY <1>1, <1>4, <1>5 DEF HwType
<1>8. /\ After("e").power = hw.power /\ After("e").sim = hw.sim
      /\ After("e").offTime = hw.offTime /\ After("e").wwan = hw.wwan
      /\ After("e").resets = hw.resets
  BY <1>4 DEF HwType
<1>9. \E r \in [mode : 0 .. 2, period : 0 .. Uint16Max, duty : 0 .. 100] :
         /\ After("e").led = [hw.led EXCEPT ![Param("e", 1)] = r]
         /\ r.mode = arg["e"][2] /\ (arg["e"][2] = 2 => r.period = arg["e"][3])
         /\ LedValue(r) = LedArgument
  BY <1>3, <1>6, <1>10
<1> QED BY <1>1, <1>7, <1>8, <1>9

LEMMA AfterWwan ==
  ASSUME CommandInv, hw \in HwType, Setting("w"), Accepted("w")
  PROVE  /\ board # "F229" /\ <<Param("w", 1), Param("w", 2)>> \in Signal
         /\ Param("w", 3) \in {0, 1}
         /\ After("w") \in HwType
         /\ After("w").wwan = [hw.wwan EXCEPT ![<<Param("w", 1), Param("w", 2)>>] = Param("w", 3)]
         /\ After("w").power = hw.power /\ After("w").sim = hw.sim
         /\ After("w").offTime = hw.offTime /\ After("w").led = hw.led
         /\ After("w").resets = hw.resets
<1>1. /\ board # "F229" /\ <<Param("w", 1), Param("w", 2)>> \in Signal
      /\ Param("w", 3) \in {0, 1}
  BY DEF Accepted, Signal
<1>2. After("w") = [hw EXCEPT !.wwan[<<Param("w", 1), Param("w", 2)>>] = Param("w", 3)]
  BY DEF After
<1> DEFINE s == <<Param("w", 1), Param("w", 2)>>
<1> HIDE DEF s
<1> QED BY <1>1, <1>2 DEF HwType

LEMMA AfterReset ==
  ASSUME CommandInv, hw \in HwType, Setting("r"), Accepted("r")
  PROVE  /\ board # "F229" /\ Param("r", 1) \in {1, 2}
         /\ After("r") \in HwType
         /\ After("r").resets = [hw.resets EXCEPT ![Param("r", 1)] = @ + 1]
         /\ After("r").power = hw.power /\ After("r").sim = hw.sim
         /\ After("r").offTime = hw.offTime /\ After("r").led = hw.led
         /\ After("r").wwan = hw.wwan
<1>1. board # "F229" /\ Param("r", 1) \in {1, 2}
  BY DEF Accepted
<1>2. After("r") = [hw EXCEPT !.resets[Param("r", 1)] = @ + 1]
  BY DEF After
<1> QED BY <1>1, <1>2 DEF HwType

-----------------------------------------------------------------------------
(* A setting that is accepted.                                             *)

Setters == {"p", "s", "f", "c", "e", "w", "r"}

Applied(c) ==
    /\ Setting(c) /\ Accepted(c)
    /\ hw' = After(c)
    /\ flash' = IF c = "c" THEN Configuration(hw) ELSE flash
    /\ UNCHANGED <<commandVars, board>>

LEMMA AppliedRanges ==
  ASSUME CommandInv, hw \in HwType, RegistersInRange, NEW c \in Setters, Applied(c)
  PROVE  hw' \in HwType /\ RegistersInRange'
<1> USE DEF Applied
<1>1. CASE c = "p"
  <2>1. /\ hw' \in HwType /\ Param("p", 1) \in Module /\ Param("p", 2) \in {0, 1}
        /\ hw'.power = [hw.power EXCEPT ![Param("p", 1)] = Param("p", 2)]
        /\ hw'.sim = hw.sim /\ hw'.offTime = hw.offTime /\ hw'.led = hw.led
        /\ hw'.wwan = hw.wwan /\ hw'.resets = hw.resets /\ board' = board
    BY <1>1, AfterPower
  <2>2. \A m \in Module : hw'.power[m] \in {0, 1}
    BY <2>1 DEF HwType, RegistersInRange
  <2> QED BY <2>1, <2>2 DEF RegistersInRange, Untouched
<1>2. CASE c = "s"
  <2>1. /\ hw' \in HwType /\ SimModem \in {1, 2} /\ Param("s", 2) \in Nat
        /\ Param("s", 2) # 0 => hw.sim[3 - SimModem] # Param("s", 2)
        /\ hw'.sim = [hw.sim EXCEPT ![SimModem] = Param("s", 2)]
        /\ hw'.power = hw.power /\ hw'.offTime = hw.offTime /\ hw'.led = hw.led
        /\ hw'.wwan = hw.wwan /\ hw'.resets = hw.resets /\ board' = board
    BY <1>2, AfterSim
  <2>2. hw'.sim[1] # hw'.sim[2] \/ hw'.sim[1] = 0
    <3>1. hw.sim \in [{1, 2} -> Nat]
      BY DEF HwType
    <3>2. CASE SimModem = 1
      BY <2>1, <3>1, <3>2
    <3>3. CASE SimModem = 2
      BY <2>1, <3>1, <3>3
    <3> QED BY <2>1, <3>2, <3>3
  <2> QED BY <2>1, <2>2 DEF RegistersInRange, Untouched
<1>3. CASE c = "f"
  <2>1. /\ hw' \in HwType /\ hw'.offTime \in 0 .. Uint16Max
        /\ hw'.power = hw.power /\ hw'.sim = hw.sim /\ hw'.led = hw.led
        /\ hw'.wwan = hw.wwan /\ hw'.resets = hw.resets /\ board' = board
    BY <1>3, AfterOffTime
  <2> QED BY <2>1 DEF RegistersInRange, Untouched
<1>4. CASE c = "c"
  <2>1. hw' = hw /\ board' = board
    BY <1>4 DEF After
  <2> QED BY <2>1 DEF RegistersInRange, Untouched
<1>5. CASE c = "e"
  <2>1. /\ hw' \in HwType /\ Param("e", 1) \in Module
        /\ hw'.power = hw.power /\ hw'.sim = hw.sim /\ hw'.offTime = hw.offTime
        /\ hw'.wwan = hw.wwan /\ hw'.resets = hw.resets /\ board' = board
    BY <1>5, AfterLed
  <2>2. PICK r \in [mode : 0 .. 2, period : 0 .. Uint16Max, duty : 0 .. 100] :
            hw'.led = [hw.led EXCEPT ![Param("e", 1)] = r]
    BY <1>5, AfterLed
  <2>3. ASSUME NEW l \in Module
        PROVE  /\ hw'.led[l].mode \in 0 .. 2 /\ hw'.led[l].period \in 0 .. Uint16Max
               /\ hw'.led[l].duty \in 0 .. 100
    <3>1. CASE l = Param("e", 1)
      <4>1. hw'.led[l] = r
        BY <2>2, <3>1 DEF HwType
      <4>2. r.mode \in 0 .. 2 /\ r.period \in 0 .. Uint16Max /\ r.duty \in 0 .. 100
        OBVIOUS
      <4> QED BY <4>1, <4>2
    <3>2. CASE l # Param("e", 1)
      <4>1. hw'.led[l] = hw.led[l]
        BY <2>2, <3>2 DEF HwType
      <4> QED BY <4>1 DEF RegistersInRange
    <3> QED BY <3>1, <3>2
  <2> QED BY <2>1, <2>3 DEF RegistersInRange, Untouched
<1>6. CASE c = "w"
  <2> DEFINE s == <<Param("w", 1), Param("w", 2)>>
  <2>1. /\ hw' \in HwType /\ s \in Signal /\ Param("w", 3) \in {0, 1}
        /\ hw'.wwan = [hw.wwan EXCEPT ![s] = Param("w", 3)]
        /\ hw'.power = hw.power /\ hw'.sim = hw.sim /\ hw'.offTime = hw.offTime
        /\ hw'.led = hw.led /\ hw'.resets = hw.resets
        /\ board' = board /\ board # "F229"
    BY <1>6, AfterWwan
  <2> HIDE DEF s
  <2>2. \A t \in Signal : hw'.wwan[t] \in {0, 1}
    BY <2>1 DEF HwType, RegistersInRange
  <2> QED BY <2>1, <2>2 DEF RegistersInRange
<1>7. CASE c = "r"
  <2>1. /\ hw' \in HwType
        /\ hw'.power = hw.power /\ hw'.sim = hw.sim /\ hw'.offTime = hw.offTime
        /\ hw'.led = hw.led /\ hw'.wwan = hw.wwan
        /\ board' = board /\ board # "F229"
    BY <1>7, AfterReset
  <2> QED BY <2>1 DEF RegistersInRange
<1> QED BY <1>1, <1>2, <1>3, <1>4, <1>5, <1>6, <1>7 DEF Setters

(* A setting touches no register but its own. *)
LEMMA AppliedKeepsFields ==
  ASSUME CommandInv, hw \in HwType, NEW c \in Setters, Applied(c)
  PROVE  /\ c # "p" => hw'.power = hw.power
         /\ c # "s" => hw'.sim = hw.sim
         /\ c # "f" => hw'.offTime = hw.offTime
         /\ c # "e" => hw'.led = hw.led
         /\ c # "w" => hw'.wwan = hw.wwan
         /\ c # "r" => hw'.resets = hw.resets
         /\ c # "c" => flash' = flash
<1> USE DEF Applied
<1>0. c # "c" => flash' = flash
  OBVIOUS
<1>1. CASE c = "p"
  BY <1>0, <1>1, AfterPower
<1>2. CASE c = "s"
  BY <1>0, <1>2, AfterSim
<1>3. CASE c = "f"
  BY <1>0, <1>3, AfterOffTime
<1>4. CASE c = "c"
  BY <1>4 DEF After
<1>5. CASE c = "e"
  BY <1>0, <1>5, AfterLed
<1>6. CASE c = "w"
  BY <1>0, <1>6, AfterWwan
<1>7. CASE c = "r"
  BY <1>0, <1>7, AfterReset
<1> QED BY <1>1, <1>2, <1>3, <1>4, <1>5, <1>6, <1>7 DEF Setters

LEMMA AppliedKeepsUntouched ==
  ASSUME CommandInv, hw \in HwType, NEW c \in Setters, Applied(c), NEW d, d # c, Untouched(d)
  PROVE  Untouched(d)'
<1>1. CASE d \in Setters
  BY <1>1, AppliedKeepsFields DEF Setters, Untouched
<1>2. CASE d \notin Setters
  BY <1>2 DEF Setters, Untouched
<1> QED BY <1>1, <1>2

(* The arguments keep their meaning. *)
LEMMA SameArguments ==
  ASSUME UNCHANGED commandVars
  PROVE  /\ \A c, j : Param(c, j)' = Param(c, j)
         /\ SimModem' = SimModem /\ arg' = arg /\ flag' = flag
         /\ \A c : Setting(c)' <=> Setting(c)
  BY DEF commandVars, Param, SimModem, Setting

LEMMA AppliedKeepsEffect ==
  ASSUME CommandInv, hw \in HwType, NEW c \in Setters, Applied(c),
         NEW d, d # c, d = "c" => c \notin {"p", "s", "f"}, InEffect(d)
  PROVE  InEffect(d)'
<1>0. /\ \A o, j : Param(o, j)' = Param(o, j)
      /\ SimModem' = SimModem /\ arg' = arg
  BY SameArguments DEF Applied
<1>1. CASE d = "p"
  BY <1>0, <1>1, AppliedKeepsFields DEF InEffect
<1>2. CASE d = "s"
  BY <1>0, <1>2, AppliedKeepsFields DEF InEffect
<1>3. CASE d = "f"
  BY <1>0, <1>3, AppliedKeepsFields DEF InEffect
<1>4. CASE d = "c"
  BY <1>4, AppliedKeepsFields DEF InEffect, Configuration
<1>5. CASE d = "e"
  BY <1>0, <1>5, AppliedKeepsFields DEF InEffect
<1>6. CASE d = "w"
  BY <1>0, <1>6, AppliedKeepsFields DEF InEffect
<1>7. CASE d = "r"
  BY <1>0, <1>7, AppliedKeepsFields DEF InEffect
<1>8. CASE d \notin Setters
  BY <1>8 DEF Setters, InEffect
<1> QED BY <1>1, <1>2, <1>3, <1>4, <1>5, <1>6, <1>7, <1>8 DEF Setters

LEMMA AppliedIsInEffect ==
  ASSUME CommandInv, hw \in HwType, NEW c \in Setters, Applied(c), Untouched(c)
  PROVE  InEffect(c)'
<1>0. /\ \A o, j : Param(o, j)' = Param(o, j)
      /\ SimModem' = SimModem /\ arg' = arg /\ hw' = After(c)
      /\ Setting(c) /\ Accepted(c)
  BY SameArguments DEF Applied
<1>1. CASE c = "p"
  <2>1. hw'.power[Param("p", 1)] = Param("p", 2)
    BY <1>0, <1>1, AfterPower DEF HwType
  <2> QED BY <1>0, <1>1, <2>1 DEF InEffect
<1>2. CASE c = "s"
  <2>1. hw'.sim[SimModem] = Param("s", 2)
    BY <1>0, <1>2, AfterSim DEF HwType
  <2> QED BY <1>0, <1>2, <2>1 DEF InEffect
<1>3. CASE c = "f"
  <2>1. hw'.offTime = arg["f"][1]
    BY <1>0, <1>3, AfterOffTime
  <2> QED BY <1>0, <1>3, <2>1 DEF InEffect
<1>4. CASE c = "c"
  BY <1>4 DEF InEffect, Applied, After, Configuration
<1>5. CASE c = "e"
  <2>1. PICK l \in [mode : 0 .. 2, period : 0 .. Uint16Max, duty : 0 .. 100] :
          /\ hw'.led = [hw.led EXCEPT ![Param("e", 1)] = l]
          /\ l.mode = arg["e"][2] /\ (arg["e"][2] = 2 => l.period = arg["e"][3])
    BY <1>0, <1>5, AfterLed
  <2>2. hw'.led[Param("e", 1)] = l
    BY <1>0, <1>5, <2>1, AfterLed DEF HwType
  <2> QED BY <1>0, <1>5, <2>1, <2>2 DEF InEffect
<1>6. CASE c = "w"
  <2> DEFINE s == <<Param("w", 1), Param("w", 2)>>
  <2>1. s \in Signal /\ hw'.wwan = [hw.wwan EXCEPT ![s] = Param("w", 3)]
    BY <1>0, <1>6, AfterWwan
  <2>2. hw'.wwan[s] = Param("w", 3)
    <3> HIDE DEF s
    <3> QED BY <2>1 DEF HwType
  <2> QED BY <1>0, <1>6, <2>2 DEF InEffect
<1>7. CASE c = "r"
  <2>1. /\ Param("r", 1) \in {1, 2}
        /\ hw'.resets = [hw.resets EXCEPT ![Param("r", 1)] = @ + 1]
    BY <1>0, <1>7, AfterReset
  <2>2. hw.resets = <<0, 0>>
    BY <1>7 DEF Untouched, Factory
  <2>3. hw'.resets[Param("r", 1)] = 1
    BY <2>1, <2>2
  <2> QED BY <1>0, <1>7, <2>3 DEF InEffect
<1> QED BY <1>1, <1>2, <1>3, <1>4, <1>5, <1>6, <1>7 DEF Setters

-----------------------------------------------------------------------------
(* Nothing is done before the command line is read, and the command main   *)
(* is at has done nothing yet.                                             *)
StillToDo ==
    /\ pos > 0 \/ result # "none" => parsed = "ready"
    /\ \A i \in 1 .. 11 : i = pos =>
         Order[i] \in flag /\ (result = "none" => Untouched(Order[i]))
    /\ pos = 12 => result = "ok"

RunInv == ToolTypeOK /\ CommandInv /\ RegistersInRange /\ PrefixDone /\ StillToDo

(* The conjuncts in the form the proofs use them. *)
LEMMA RunTypes ==
  ASSUME ToolTypeOK
  PROVE  hw \in HwType /\ pos \in 0 .. 12 /\ pos \in Nat
         /\ flash \in FlashType
  BY OrderFacts DEF ToolTypeOK

(* The commands before pos are in effect and the others have done nothing. *)
Before == \A i \in 1 .. 11 :
    i < pos /\ Order[i] \in flag /\ Setting(Order[i]) => InEffect(Order[i])
NotYet == \A i \in 1 .. 11 : i > pos \/ Order[i] \notin flag => Untouched(Order[i])

Parts ==
    /\ Before /\ NotYet
    /\ result = "ok" /\ "l" \notin flag => pos > 11
    /\ dfu => result = "ok"

LEMMA PrefixParts == (PrefixDone <=> Parts) /\ (PrefixDone' <=> Parts')
<1>1. DOMAIN Order = 1 .. 11 /\ Len(Order) = 11
  BY OrderFacts
<1> HIDE DEF Order
<1>2. PrefixDone <=> Parts
  BY <1>1 DEF PrefixDone, Parts, Before, NotYet
<1>3. PrefixDone' <=> Parts'
  BY <1>1 DEF PrefixDone, Parts, Before, NotYet
<1> QED BY <1>2, <1>3

(* What a step of the command at pos has to show of the registers. *)
OthersKept ==
    /\ \A i \in 1 .. 11 :
         i < pos /\ Order[i] \in flag /\ Setting(Order[i]) => InEffect(Order[i])'
    /\ \A i \in 1 .. 11 : i # pos /\ Untouched(Order[i]) => Untouched(Order[i])'

LEMMA ProceedInv ==
  ASSUME RunInv, pos \in 1 .. 11, result = "none", UNCHANGED commandVars, Proceed,
         OthersKept, NEW c, c = Order[pos], Setting(c) => InEffect(c)',
         (dfu' => dfu) \/ pos = 11
  PROVE  PrefixDone' /\ StillToDo' /\ pos' \in 0 .. 12 /\ result' \in {"none", "ok"}
<1>1. /\ pos' \in pos + 1 .. 12
      /\ pos' <= 11 => Order[pos'] \in flag /\ result' = "none"
      /\ pos' = 12 => result' = "ok"
      /\ \A j \in pos + 1 .. 11 : Order[j] \in flag => pos' <= j
  BY ProceedStep
<1>2. flag' = flag /\ (\A d : Setting(d)' <=> Setting(d)) /\ parsed' = parsed
  BY SameArguments DEF commandVars
<1>3. Before /\ NotYet /\ ~dfu /\ parsed = "ready" /\ Order[pos] \in flag
  BY PrefixParts DEF RunInv, Parts, StillToDo
<1> HIDE DEF Order
<1>4. Before'
  <2> SUFFICES ASSUME NEW i \in 1 .. 11, i < pos', Order[i] \in flag, Setting(Order[i])
               PROVE  InEffect(Order[i])'
    BY <1>2 DEF Before
  <2>1. i <= pos
    BY <1>1
  <2>2. CASE i < pos
    BY <2>2 DEF OthersKept
  <2>3. CASE i = pos
    BY <2>3
  <2> QED BY <2>1, <2>2, <2>3
<1>5. NotYet'
  <2> SUFFICES ASSUME NEW i \in 1 .. 11, i > pos' \/ Order[i] \notin flag
               PROVE  Untouched(Order[i])'
    BY <1>2 DEF NotYet
  <2>1. i # pos /\ (i > pos \/ Order[i] \notin flag)
    BY <1>1, <1>3
  <2> QED BY <1>3, <2>1 DEF NotYet, OthersKept
<1>6. result' = "ok" => pos' > 11
  BY <1>1
<1>7. dfu' => result' = "ok"
  BY <1>1, <1>3
<1>8. PrefixDone'
  BY <1>4, <1>5, <1>6, <1>7, PrefixParts DEF Parts
<1>9. StillToDo'
  <2>1. ASSUME NEW i \in 1 .. 11, i = pos' PROVE Untouched(Order[i])'
    <3>1. i > pos
      BY <1>1, <2>1
    <3> QED BY <1>3, <3>1 DEF NotYet, OthersKept
  <2> QED BY <1>1, <1>2, <1>3, <2>1 DEF StillToDo
<1> QED BY <1>1, <1>8, <1>9

LEMMA HaltInv ==
  ASSUME RunInv, pos \in 1 .. 11, result = "none", UNCHANGED <<commandVars, pos, dfu>>,
         result' \in {"failed", "waits"}, OthersKept
  PROVE  PrefixDone' /\ StillToDo'
<1>1. flag' = flag /\ (\A d : Setting(d)' <=> Setting(d)) /\ parsed' = parsed /\ pos' = pos
  BY SameArguments DEF commandVars
<1>2. Before /\ NotYet /\ ~dfu /\ parsed = "ready" /\ Order[pos] \in flag
  BY PrefixParts DEF RunInv, Parts, StillToDo
<1> HIDE DEF Order
<1>3. Before'
  BY <1>1 DEF Before, OthersKept
<1>4. NotYet'
  BY <1>1, <1>2 DEF NotYet, OthersKept
<1>5. PrefixDone'
  BY <1>2, <1>3, <1>4, PrefixParts DEF Parts
<1>6. StillToDo'
  BY <1>1, <1>2 DEF StillToDo
<1> QED BY <1>5, <1>6

(* A step that leaves the registers alone. *)
LEMMA SameRegisters ==
  ASSUME UNCHANGED <<commandVars, board, hw, flash>>
  PROVE  /\ \A d : InEffect(d)' <=> InEffect(d)
         /\ \A d : Untouched(d)' <=> Untouched(d)
         /\ RegistersInRange' <=> RegistersInRange
         /\ CommandInv' <=> CommandInv
<1>1. /\ \A c, j : Param(c, j)' = Param(c, j)
      /\ SimModem' = SimModem /\ arg' = arg /\ hw' = hw /\ flash' = flash /\ board' = board
  BY SameArguments
<1>2. \A d : InEffect(d)' <=> InEffect(d)
  BY <1>1 DEF InEffect
<1>3. \A d : Untouched(d)' <=> Untouched(d)
  BY <1>1 DEF Untouched
<1>4. RegistersInRange' <=> RegistersInRange
  BY <1>1, <1>3 DEF RegistersInRange
<1>5. CommandInv' <=> CommandInv
  BY DEF commandVars, CommandInv, CommandTypeOK, ArgumentsThere, Letters
<1> QED BY <1>2, <1>3, <1>4, <1>5

LEMMA KeptOthers ==
  ASSUME RunInv, UNCHANGED <<commandVars, board, hw, flash>>
  PROVE  OthersKept
<1>1. Before
  BY PrefixParts DEF RunInv, Parts
<1> QED BY <1>1, SameRegisters DEF OthersKept, Before

LEMMA AppliedOthers ==
  ASSUME RunInv, pos \in 1 .. 11, Order[pos] \in Setters, Applied(Order[pos])
  PROVE  OthersKept
<1>1. Before /\ CommandInv /\ hw \in HwType
  BY PrefixParts, RunTypes DEF RunInv, Parts
<1>2. \A i \in 1 .. 11 : i # pos => Order[i] # Order[pos]
  BY OrderFacts
<1>3. \A i \in 1 .. 11 : i < pos /\ Order[i] = "c" => Order[pos] \notin {"p", "s", "f"}
  BY OrderFacts
<1> HIDE DEF Order
<1> QED BY <1>1, <1>2, <1>3, AppliedKeepsEffect, AppliedKeepsUntouched DEF OthersKept, Before

LEMMA OpenBoardInv ==
  ASSUME RunInv, OpenBoard PROVE RunInv'
<1>1. /\ pos = 0 /\ result = "none" /\ parsed = "ready"
      /\ UNCHANGED <<commandVars, board, hw, flash, dfu>>
  BY DEF OpenBoard
<1>2. /\ CommandInv' /\ RegistersInRange' /\ (\A d : Untouched(d)' <=> Untouched(d))
      /\ flag' = flag /\ parsed' = "ready"
  BY <1>1, SameRegisters, SameArguments DEF RunInv, commandVars
<1>3. NotYet /\ ~dfu
  BY <1>1, PrefixParts DEF RunInv, Parts
<1>4. \A i \in 1 .. 11 : Untouched(Order[i])
  BY <1>1, <1>3 DEF NotYet
<1> HIDE DEF Order
<1>5. NotYet' /\ ~dfu'
  BY <1>1, <1>2, <1>3, <1>4 DEF NotYet
<1>6. CASE UNCHANGED pos /\ result' \in {"failed", "ok"} /\ (result' = "ok" => "l" \in flag)
  <2>1. Before'
    BY <1>1, <1>6 DEF Before
  <2>2. PrefixDone'
    BY <1>2, <1>5, <1>6, <2>1, PrefixParts DEF Parts
  <2>3. StillToDo'
    BY <1>1, <1>2, <1>6 DEF StillToDo
  <2>4. ToolTypeOK'
    BY <1>1, <1>2, <1>6 DEF RunInv, ToolTypeOK, CommandInv
  <2> QED BY <1>2, <2>2, <2>3, <2>4 DEF RunInv
<1>7. CASE Proceed
  <2>1. /\ pos' \in 1 .. 12
        /\ pos' <= 11 => Order[pos'] \in flag /\ result' = "none"
        /\ pos' = 12 => result' = "ok"
        /\ \A j \in 1 .. 11 : Order[j] \in flag => pos' <= j
    BY <1>1, <1>7, ProceedStep
  <2>2. Before'
    BY <1>2, <2>1 DEF Before
  <2>3. PrefixDone'
    BY <1>5, <2>1, <2>2, PrefixParts DEF Parts
  <2>4. StillToDo'
    <3>1. \A i \in 1 .. 11 : Untouched(Order[i])'
      BY <1>2, <1>4
    <3> QED BY <1>2, <2>1, <3>1 DEF StillToDo
  <2>5. ToolTypeOK'
    <3>1. result' \in {"none", "ok"}
      BY <2>1
    <3> QED BY <1>1, <1>2, <2>1, <3>1, OrderFacts DEF RunInv, ToolTypeOK, CommandInv
  <2> QED BY <1>2, <2>3, <2>4, <2>5 DEF RunInv
<1> QED BY <1>6, <1>7 DEF OpenBoard, Fail

LEMMA ShowInv ==
  ASSUME RunInv, NEW c, Show(c) PROVE RunInv'
<1>1. /\ pos \in 1 .. 11 /\ Order[pos] = c /\ result = "none" /\ ~Setting(c)
      /\ UNCHANGED <<commandVars, board, hw, flash, dfu>> /\ (Proceed \/ Fail)
  BY OrderFacts DEF Show, At
<1>2. OthersKept /\ CommandInv' /\ RegistersInRange'
  BY <1>1, KeptOthers, SameRegisters DEF RunInv
<1>3. /\ PrefixDone' /\ StillToDo' /\ pos' \in 0 .. 12
      /\ result' \in {"none", "ok", "failed", "waits"}
  <2>1. CASE Proceed
    BY <1>1, <1>2, <2>1, ProceedInv
  <2>2. CASE Fail
    BY <1>1, <1>2, <2>2, HaltInv DEF Fail
  <2> QED BY <1>1, <2>1, <2>2
<1>4. ToolTypeOK'
  BY <1>1, <1>2, <1>3, OrderFacts DEF RunInv, ToolTypeOK, CommandInv
<1> QED BY <1>2, <1>3, <1>4 DEF RunInv

LEMMA SetInv ==
  ASSUME RunInv, NEW c \in Setters, Set(c) PROVE RunInv'
<1>1. /\ pos \in 1 .. 11 /\ Order[pos] = c /\ result = "none" /\ Setting(c)
      /\ UNCHANGED <<commandVars, board, dfu>>
  BY OrderFacts DEF Set, At
<1>2. hw \in HwType /\ CommandInv /\ RegistersInRange /\ Untouched(c)
      /\ flash \in FlashType
  BY <1>1, RunTypes DEF RunInv, StillToDo
<1>3. CASE Fail /\ UNCHANGED <<hw, flash>>
  <2>1. OthersKept /\ CommandInv' /\ RegistersInRange'
    BY <1>1, <1>2, <1>3, KeptOthers, SameRegisters
  <2>2. PrefixDone' /\ StillToDo'
    BY <1>1, <1>3, <2>1, HaltInv DEF Fail
  <2>3. ToolTypeOK'
    BY <1>1, <1>3, <2>1 DEF RunInv, ToolTypeOK, CommandInv, Fail
  <2> QED BY <2>1, <2>2, <2>3 DEF RunInv
<1>4. CASE /\ Applied(c)
           /\ Proceed \/ (result' \in {"failed", "waits"} /\ UNCHANGED pos)
  <2>1. hw' \in HwType /\ RegistersInRange' /\ OthersKept /\ InEffect(c)'
    BY <1>1, <1>2, <1>4, AppliedRanges, AppliedOthers, AppliedIsInEffect
  <2>2. flash' \in FlashType
    BY <1>2, <1>4 DEF Applied, Configuration, HwType, FlashType
  <2>3. CommandInv'
    BY <1>1, <1>2 DEF commandVars, CommandInv, CommandTypeOK, ArgumentsThere, Letters
  <2>4. /\ PrefixDone' /\ StillToDo' /\ pos' \in 0 .. 12
        /\ result' \in {"none", "ok", "failed", "waits"}
    <3>1. CASE Proceed
      BY <1>1, <2>1, <3>1, ProceedInv
    <3>2. CASE result' \in {"failed", "waits"} /\ UNCHANGED pos
      BY <1>1, <2>1, <3>2, HaltInv
    <3> QED BY <1>4, <3>1, <3>2
  <2>5. ToolTypeOK'
    BY <1>1, <2>1, <2>2, <2>3, <2>4, OrderFacts DEF RunInv, ToolTypeOK, CommandInv
  <2> QED BY <2>1, <2>3, <2>4, <2>5 DEF RunInv
<1> QED BY <1>1, <1>3, <1>4 DEF Set, Applied, Fail

LEMMA SetBootloaderModeInv ==
  ASSUME RunInv, SetBootloaderMode PROVE RunInv'
<1>1. /\ pos = 11 /\ Order[pos] = "u" /\ result = "none" /\ Proceed
      /\ UNCHANGED <<commandVars, board, hw, flash>> /\ dfu' \in BOOLEAN
  BY OrderFacts DEF SetBootloaderMode, At
<1>2. OthersKept /\ CommandInv' /\ RegistersInRange' /\ InEffect("u")'
  BY <1>1, KeptOthers, SameRegisters DEF RunInv, InEffect
<1>3. /\ PrefixDone' /\ StillToDo' /\ pos' \in 0 .. 12 /\ result' \in {"none", "ok"}
  BY <1>1, <1>2, ProceedInv
<1>4. ToolTypeOK'
  BY <1>1, <1>2, <1>3, OrderFacts DEF RunInv, ToolTypeOK, CommandInv
<1> QED BY <1>2, <1>3, <1>4 DEF RunInv

LEMMA ReadingInv ==
  ASSUME RunInv, ReadCommandLine, UNCHANGED runVars PROVE RunInv'
<1>1. /\ parsed = "reading" /\ UNCHANGED <<board, hw, flash, dfu, pos, result>>
  BY DEF ReadCommandLine, runVars
<1>2. pos = 0 /\ result = "none" /\ CommandInv'
  BY <1>1, RunTypes, ReadCommandLineInv DEF RunInv, StillToDo
<1>3. NotYet /\ ~dfu
  BY <1>2, PrefixParts DEF RunInv, Parts
<1>4. \A i \in 1 .. 11 : Untouched(Order[i]) /\ Untouched(Order[i])'
  BY <1>1, <1>2, <1>3 DEF NotYet, Untouched
<1> HIDE DEF Order
<1>5. Before' /\ NotYet'
  BY <1>1, <1>2, <1>4 DEF Before, NotYet
<1>6. PrefixDone'
  BY <1>1, <1>2, <1>3, <1>5, PrefixParts DEF Parts
<1>7. RegistersInRange'
  BY <1>1 DEF RunInv, RegistersInRange, Untouched
<1>8. ToolTypeOK' /\ StillToDo'
  BY <1>1, <1>2 DEF RunInv, ToolTypeOK, CommandInv, StillToDo
<1> QED BY <1>2, <1>6, <1>7, <1>8 DEF RunInv

LEMMA RunInitInv == ToolInit => RunInv
<1> SUFFICES ASSUME ToolInit PROVE RunInv
  OBVIOUS
<1>1. CommandTypeOK
  <2>1. argv \in Seq([kind : {"option", "attached", "number", "word"}, letter : STRING, value : Nat])
    BY CommandAssumption DEF ToolInit, CommandInit
  <2>2. Len(argv) \in Nat
    BY <2>1
  <2> QED BY <2>2, Arities DEF ToolInit, CommandInit, CommandTypeOK, Value
<1>2. ArgumentsThere
  BY DEF ToolInit, CommandInit, ArgumentsThere, NoArguments, ArgLetters, Unset
<1>3. CommandInv
  BY <1>1, <1>2 DEF CommandInv, ToolInit, CommandInit
<1>4. Factory \in HwType /\ LedOff.mode = 0 /\ LedOff.period = 0 /\ LedOff.duty = 0
  BY DEF Factory, HwType, LedOff
<1>5. ToolTypeOK
  <2>1. NoConfiguration \in FlashType
    <3>1. <<0, 0>> \in [{1, 2} -> Nat] /\ [m \in Module |-> 1] \in [Module -> Nat]
      OBVIOUS
    <3> QED BY <3>1 DEF NoConfiguration, FlashType
  <2>2. hw = Factory /\ flash = NoConfiguration /\ dfu = FALSE /\ pos = 0 /\ result = "none"
        /\ board \in {"F229", "ME10", "G239"}
    BY DEF ToolInit
  <2> HIDE DEF NoConfiguration, Factory
  <2>3. hw \in HwType /\ flash \in FlashType
    BY <1>4, <2>1, <2>2
  <2>4. pos \in 0 .. Len(Order) + 1
    <3>1. Len(Order) = 11
      BY OrderFacts
    <3> QED BY <2>2, <3>1
  <2>5. dfu \in BOOLEAN
    BY <2>2
  <2> QED BY <1>1, <2>2, <2>3, <2>4, <2>5 DEF ToolTypeOK
<1>6. RegistersInRange
  <2>1. 0 \in 0 .. Uint16Max /\ 1000 \in 0 .. Uint16Max
    <3>1. 1000 <= Uint16Max
      BY DEF Uint16Max
    <3> QED BY <3>1, Uint16Types
  <2>2. /\ \A m \in Module : hw.power[m] \in {0, 1}
        /\ hw.sim[1] # hw.sim[2] /\ hw.offTime = 1000
        /\ \A l \in Module : hw.led[l] = LedOff
        /\ \A s \in Signal : hw.wwan[s] \in {0, 1}
    BY DEF ToolInit, Factory
  <2>3. Untouched("w") /\ Untouched("r")
    BY DEF ToolInit, Untouched
  <2> QED BY <1>4, <2>1, <2>2, <2>3 DEF RegistersInRange
<1>7. Before /\ NotYet
  BY DEF Before, NotYet, ToolInit, Untouched
<1>8. PrefixDone
  BY <1>7, PrefixParts DEF ToolInit, Parts
<1>9. StillToDo
  BY DEF ToolInit, StillToDo
<1> QED BY <1>3, <1>5, <1>6, <1>8, <1>9 DEF RunInv

LEMMA RunInvInductive == RunInv /\ [ToolNext]_vars => RunInv'
<1> SUFFICES ASSUME RunInv, [ToolNext]_vars PROVE RunInv'
  OBVIOUS
<1>1. CASE ReadCommandLine /\ UNCHANGED runVars
  BY <1>1, ReadingInv
<1>2. CASE OpenBoard \/ SetBootloaderMode
  BY <1>2, OpenBoardInv, SetBootloaderModeInv
<1>3. ASSUME NEW i \in DOMAIN Order, Show(Order[i]) \/ Set(Order[i]) PROVE RunInv'
  <2>1. CASE Show(Order[i])
    BY <2>1, ShowInv
  <2>2. CASE Set(Order[i])
    <3>1. Order[i] \in Setters
      BY <2>2, OrderFacts DEF Set, Setting, Setters
    <3> QED BY <2>2, <3>1, SetInv
  <2> QED BY <1>3, <2>1, <2>2
<1>4. CASE UNCHANGED vars
  <2>1. UNCHANGED <<commandVars, board, hw, flash, dfu, pos, result>>
    BY <1>4 DEF vars, runVars
  <2>2. CommandInv' /\ RegistersInRange' /\ flag' = flag /\ parsed' = parsed
        /\ (\A d : InEffect(d)' <=> InEffect(d)) /\ (\A d : Untouched(d)' <=> Untouched(d))
        /\ (\A d : Setting(d)' <=> Setting(d))
    BY <2>1, SameRegisters, SameArguments DEF RunInv, commandVars
  <2>3. Before' /\ NotYet'
    <3>1. Before /\ NotYet
      BY PrefixParts DEF RunInv, Parts
    <3> HIDE DEF Order
    <3> QED BY <2>1, <2>2, <3>1 DEF Before, NotYet
  <2>4. PrefixDone'
    BY <2>1, <2>2, <2>3, PrefixParts DEF RunInv, Parts
  <2>5. ToolTypeOK' /\ StillToDo'
    BY <2>1, <2>2 DEF RunInv, ToolTypeOK, CommandInv, StillToDo
  <2> QED BY <2>2, <2>4, <2>5 DEF RunInv
<1> QED BY <1>1, <1>2, <1>3, <1>4 DEF ToolNext

THEOREM RunInvariant == ToolSpec => []RunInv
<1>1. ToolInit => RunInv
  BY RunInitInv
<1>2. RunInv /\ [ToolNext]_vars => RunInv'
  BY RunInvInductive
<1> QED BY <1>1, <1>2, PTL DEF ToolSpec

(* Every variable keeps its type. *)
THEOREM ToolTypes == ToolSpec => []ToolTypeOK
<1>1. RunInv => ToolTypeOK
  BY DEF RunInv
<1> QED BY <1>1, RunInvariant, PTL

(* Whatever the command line says, the board gets no value out of range. *)
THEOREM RegistersStayInRange == ToolSpec => []RegistersInRange
<1>1. RunInv => RegistersInRange
  BY DEF RunInv
<1> QED BY <1>1, RunInvariant, PTL

(* However a run ends, it has done a prefix of its commands. *)
THEOREM RunIsPrefix == ToolSpec => []PrefixDone
<1>1. RunInv => PrefixDone
  BY DEF RunInv
<1> QED BY <1>1, RunInvariant, PTL

(* main uses no argument that it has not read. *)
THEOREM ArgumentsAreSet == ToolSpec => []ArgumentsSet
<1>1. RunInv => ArgumentsSet
  <2> SUFFICES ASSUME RunInv PROVE ArgumentsSet
    OBVIOUS
  <2>1. {"p", "s", "w", "e"} \subseteq ArgLetters \ {"f"}
    BY DEF ArgLetters
  <2> QED BY <2>1 DEF RunInv, CommandInv, ArgumentsThere, ArgumentsSet
<1> QED BY <1>1, RunInvariant, PTL

-----------------------------------------------------------------------------
(* The line is read as it is written.                                      *)

(* The occurrences of o that main has passed, and those of them whose j-th *)
(* argument it has taken.                                                  *)
Seen(o) == {k \in Given(o) : k < optind}

Taken(o, j) ==
    {k \in Seen(o) \ LegacySave : HasOptionalArg(k) /\ (j = 1 => IsDigit(k + 1))}

WrittenSoFar(o, j) ==
    IF Taken(o, j) = {} THEN NoArguments[o][j] ELSE Scanned(Max(Taken(o, j)) + j, Unset)

SavedSoFar == Seen("S") \cup (Seen("s") \cap LegacySave)

(* The options whose arguments are followed, and the places of these.      *)
Followed  == {"p", "s", "w", "f", "e"}
Places(o) == CASE o = "w" -> 1 .. 3 [] o = "f" -> 1 .. 1 [] OTHER -> 1 .. 2

(* While main reads, flags and arguments are what the part of the line in  *)
(* front of optind says, and optind is neither at an argument nor at the   *)
(* second half of "-c -s".                                                 *)
AtWord ==
    /\ ~IsArgument(optind)
    /\ optind <= Len(argv) /\ optind - 1 \in Given("c") => argv[optind] # Option("s")

FlagsSoFar ==
    /\ \A o \in {"l", "p", "f", "e", "w", "r", "t", "T", "G", "u"} : o \in flag <=> Seen(o) # {}
    /\ "s" \in flag <=> Seen("s") \ LegacySave # {}
    /\ "c" \in flag <=> SavedSoFar # {} \/ Seen("c") # {}

ArgumentsSoFar ==
    /\ arg["c"] = <<IF SavedSoFar # {} THEN 1 ELSE 0>>
    /\ \A o \in Followed : \A j \in Places(o) : arg[o][j] = WrittenSoFar(o, j)
    /\ Seen("r") # {} => arg["r"][1] = ResetOf(Max(Seen("r")))
    /\ arg["e"][2] = 2 => <<arg["e"][3], arg["e"][4]>> = BlinkOf(Max(Taken("e", 2)))

ReadSoFar ==
    /\ parsed \in {"reading", "ready"} => AtWord /\ FlagsSoFar /\ ArgumentsSoFar
    /\ parsed = "ready" => \A k \in optind .. Len(argv) : ~IsOption(k)

(* The length of the line, and the letters of its options. *)
LEMMA LineFacts ==
  ASSUME CommandInv
  PROVE  /\ Len(argv) \in Nat /\ optind \in 1 .. Len(argv) + 1
         /\ \A k \in 1 .. Len(argv) : argv[k].letter \in STRING
<1> DEFINE W == [kind : {"option", "attached", "number", "word"}, letter : STRING, value : Nat]
<1>1. argv \in Seq(W)
  BY CommandAssumption DEF CommandInv
<1>2. \A k \in 1 .. Len(argv) : argv[k] \in W
  <2> HIDE DEF W
  <2> QED BY <1>1
<1>3. \A k \in 1 .. Len(argv) : argv[k].letter \in STRING
  BY <1>2
<1>4. Len(argv) \in Nat
  BY <1>1
<1> QED BY <1>3, <1>4 DEF CommandInv, CommandTypeOK

(* A word is an argument exactly if an option takes it that is none. *)
LEMMA ArgumentUnfolds ==
  ASSUME NEW k \in Nat
  PROVE  IsArgument(k) <=> k > 1 /\ TakesNext(k - 1) /\ ~IsArgument(k - 1)
<1>1. ASSUME IsArgument(k) PROVE k > 1 /\ TakesNext(k - 1) /\ ~IsArgument(k - 1)
  <2>1. PICK j \in 1 .. k - 1 :
           /\ (k - j) % 2 = 1
           /\ \A i \in j .. k - 1 : TakesNext(i)
           /\ j > 1 => ~TakesNext(j - 1)
    BY <1>1 DEF IsArgument
  <2>2. k > 1 /\ TakesNext(k - 1)
    BY <2>1
  <2>3. ASSUME IsArgument(k - 1) PROVE FALSE
    <3>1. PICK l \in 1 .. k - 1 - 1 :
             /\ (k - 1 - l) % 2 = 1
             /\ \A i \in l .. k - 1 - 1 : TakesNext(i)
             /\ l > 1 => ~TakesNext(l - 1)
      BY <2>3 DEF IsArgument
    <3>2. CASE j < l
      BY <2>1, <3>1, <3>2
    <3>3. CASE l < j
      BY <2>1, <3>1, <3>3
    <3>4. CASE j = l
      BY <2>1, <3>1, <3>4
    <3> QED BY <3>2, <3>3, <3>4
  <2> QED BY <2>2, <2>3
<1>2. ASSUME k > 1, TakesNext(k - 1), ~IsArgument(k - 1) PROVE IsArgument(k)
  <2> DEFINE S == {m \in 1 .. k - 1 : \A i \in m .. k - 1 : TakesNext(i)}
  <2>1. k - 1 \in S
    BY <1>2
  <2>2. S \in SUBSET Nat
    OBVIOUS
  <2>3. PICK m \in S : \A i \in S : ~(i < m)
    <3> HIDE DEF S
    <3>1. PICK m \in S : \A i \in S : ~(<<i, m>> \in OpToRel(<, Nat))
      BY <2>1, <2>2, WFMin, NatLessThanWellFounded, Zenon
    <3>2. ASSUME NEW i \in S, i < m PROVE <<i, m>> \in OpToRel(<, Nat)
      BY <2>2, <3>2, Zenon DEF OpToRel
    <3> QED BY <3>1, <3>2
  <2>4. m \in 1 .. k - 1 /\ \A i \in m .. k - 1 : TakesNext(i)
    OBVIOUS
  <2>5. m > 1 => ~TakesNext(m - 1)
    <3> SUFFICES ASSUME m > 1, TakesNext(m - 1) PROVE FALSE
      OBVIOUS
    <3>1. m - 1 \in 1 .. k - 1 /\ \A i \in m - 1 .. k - 1 : TakesNext(i)
      BY <2>4
    <3>2. m - 1 \in S
      BY <3>1
    <3> QED BY <2>3, <2>4, <3>2
  <2>6. (k - m) % 2 = 1
    <3> SUFFICES ASSUME (k - m) % 2 # 1 PROVE FALSE
      OBVIOUS
    <3>1. (k - m) % 2 = 0
      BY <2>4
    <3>2. (k - 1 - m) % 2 = 1 /\ m <= k - 1 - 1
      BY <2>4, <3>1
    <3>3. IsArgument(k - 1)
      BY <2>4, <2>5, <3>2 DEF IsArgument
    <3> QED BY <1>2, <3>3
  <2> QED BY <2>4, <2>5, <2>6 DEF IsArgument
<1> QED BY <1>1, <1>2

(* The largest place is the last one that was added. *)
LEMMA MaxAdded ==
  ASSUME NEW S \in SUBSET Int, NEW k \in Int, \A i \in S : i < k
  PROVE  Max(S \cup {k}) = k
<1> DEFINE T == S \cup {k}
<1>1. k \in T /\ \A y \in T : k >= y
  OBVIOUS
<1>2. \A x \in T : (\A y \in T : x >= y) => x = k
  <2> SUFFICES ASSUME NEW x \in T, \A y \in T : x >= y PROVE x = k
    OBVIOUS
  <2>1. x >= k /\ k >= x /\ x \in Int
    BY <1>1
  <2> QED BY <2>1
<1> HIDE DEF T
<1>3. Max(T) \in T /\ \A y \in T : Max(T) >= y
  BY <1>1 DEF Max
<1>4. Max(T) = k
  BY <1>2, <1>3
<1> QED BY <1>4 DEF T

(* The next option is no argument and no second half of "-c -s". *)
LEMMA NextIsGiven ==
  ASSUME CommandInv, AtWord, NEW k \in 1 .. Len(argv), NextOption(k)
  PROVE  /\ ~IsArgument(k) /\ k \in Given(argv[k].letter) /\ k \notin LegacySave
         /\ \A i \in optind .. k - 1 : ~IsOption(i)
<1>1. optind \in Nat \ {0} /\ Len(argv) \in Nat /\ optind <= k /\ IsOption(k)
      /\ \A i \in optind .. k - 1 : ~IsOption(i)
  BY LineFacts DEF NextOption
<1>2. CASE k = optind
  <2>1. ~IsArgument(k)
    BY <1>2 DEF AtWord
  <2>2. k \notin LegacySave
    BY <1>1, <1>2 DEF AtWord, LegacySave
  <2> QED BY <1>1, <2>1, <2>2 DEF Given
<1>3. CASE k # optind
  <2>1. ~IsOption(k - 1)
    BY <1>1, <1>3
  <2>2. ~IsArgument(k)
    BY <2>1, ArgumentUnfolds DEF TakesNext, IsOption
  <2>3. k \notin LegacySave
    BY <2>1 DEF LegacySave, Given
  <2> QED BY <1>1, <2>2, <2>3 DEF Given
<1> QED BY <1>2, <1>3

(* Whether main takes the j-th argument of o from the words after k. *)
Fresh(k, o, j) ==
    argv[k].letter = o /\ HasOptionalArg(k) /\ (j = 1 => IsDigit(k + 1))

(* What is passed when optind goes from the option at k on to next, with   *)
(* no option in between but arguments.                                     *)
LEMMA Passed ==
  ASSUME CommandInv, AtWord, NEW k \in 1 .. Len(argv), NextOption(k),
         NEW next \in k + 1 .. Len(argv) + 1,
         \A i \in k + 1 .. next - 1 : ~IsOption(i) \/ IsArgument(i),
         optind' = next, UNCHANGED argv
  PROVE  /\ \A o : Seen(o)' = Seen(o) \cup IF argv[k].letter = o THEN {k} ELSE {}
         /\ LegacySave' = LegacySave /\ k \notin LegacySave
         /\ \A o, j : Taken(o, j)' = Taken(o, j) \cup IF Fresh(k, o, j) THEN {k} ELSE {}
         /\ \A o, j : WrittenSoFar(o, j)' =
                         IF Fresh(k, o, j) THEN Scanned(k + j, Unset) ELSE WrittenSoFar(o, j)
         /\ \A o : argv[k].letter = o => Max(Seen(o)') = k
         /\ \A o, j : Fresh(k, o, j) => Max(Taken(o, j)') = k
<1>1. /\ ~IsArgument(k) /\ k \in Given(argv[k].letter) /\ k \notin LegacySave
      /\ \A i \in optind .. k - 1 : ~IsOption(i)
      /\ optind \in Nat \ {0} /\ Len(argv) \in Nat /\ optind <= k /\ k \in Nat /\ next \in Nat
  BY NextIsGiven, LineFacts DEF NextOption
<1>2. /\ \A o : Given(o)' = Given(o) /\ Given(o) \subseteq 1 .. Len(argv)
      /\ LegacySave' = LegacySave
      /\ \A i : IsDigit(i)' = IsDigit(i) /\ HasOptionalArg(i)' = HasOptionalArg(i)
      /\ \A i : Scanned(i, Unset)' = Scanned(i, Unset)
  BY DEF Given, LegacySave, IsDigit, HasOptionalArg, IsOption, IsArgument, TakesNext, Scanned, Unset
<1>3. \A o : Seen(o)' = Seen(o) \cup IF argv[k].letter = o THEN {k} ELSE {}
  <2> SUFFICES ASSUME NEW o, NEW i \in Given(o)
               PROVE  i < next <=> i < optind \/ (argv[k].letter = o /\ i = k)
    BY <1>1, <1>2 DEF Seen
  <2>1. i \in 1 .. Len(argv) /\ IsOption(i) /\ ~IsArgument(i) /\ argv[i].letter = o
    BY DEF Given
  <2>2. i \notin optind .. k - 1 /\ i \notin k + 1 .. next - 1
    BY <1>1, <2>1
  <2> QED BY <1>1, <2>1, <2>2
<1>4. \A o, j : Taken(o, j)' = Taken(o, j) \cup IF Fresh(k, o, j) THEN {k} ELSE {}
  BY <1>1, <1>2, <1>3 DEF Taken, Fresh
<1>5. \A S \in SUBSET Int : (\A i \in S : i < k) => Max(S \cup {k}) = k
  <2>1. k \in Int
    BY <1>1
  <2> QED BY <2>1, MaxAdded, Zenon
<1>6. \A o : argv[k].letter = o => Max(Seen(o)') = k
  <2> SUFFICES ASSUME NEW o, argv[k].letter = o PROVE Max(Seen(o)') = k
    OBVIOUS
  <2>1. Seen(o) \in SUBSET Int /\ (\A i \in Seen(o) : i < k) /\ Seen(o)' = Seen(o) \cup {k}
    BY <1>1, <1>2, <1>3 DEF Seen
  <2> QED BY <1>5, <2>1
<1>7. \A o, j : Fresh(k, o, j) => Max(Taken(o, j)') = k
  <2> SUFFICES ASSUME NEW o, NEW j, Fresh(k, o, j) PROVE Max(Taken(o, j)') = k
    OBVIOUS
  <2>1. /\ Taken(o, j) \in SUBSET Int /\ (\A i \in Taken(o, j) : i < k)
        /\ Taken(o, j)' = Taken(o, j) \cup {k}
    BY <1>1, <1>2, <1>4 DEF Taken, Seen
  <2> QED BY <1>5, <2>1
<1>8. \A o, j : WrittenSoFar(o, j)' =
                  IF Fresh(k, o, j) THEN Scanned(k + j, Unset) ELSE WrittenSoFar(o, j)
  <2> SUFFICES ASSUME NEW o, NEW j
               PROVE  WrittenSoFar(o, j)' =
                         IF Fresh(k, o, j) THEN Scanned(k + j, Unset) ELSE WrittenSoFar(o, j)
    OBVIOUS
  <2>1. CASE Fresh(k, o, j)
    <3>1. Taken(o, j)' # {}
      BY <1>4, <2>1
    <3>2. Max(Taken(o, j)') = k
      BY <1>7, <2>1
    <3>3. WrittenSoFar(o, j)' = Scanned(k + j, Unset)'
      BY <3>1, <3>2 DEF WrittenSoFar, Scanned, IsDigit
    <3> QED BY <1>2, <2>1, <3>3
  <2>2. CASE ~Fresh(k, o, j)
    <3>1. Taken(o, j)' = Taken(o, j)
      BY <1>4, <2>2
    <3> QED BY <1>2, <2>2, <3>1 DEF WrittenSoFar, NoArguments, Scanned, IsDigit
  <2> QED BY <2>1, <2>2
<1> QED BY <1>1, <1>2, <1>3, <1>4, <1>6, <1>7, <1>8

(* One option has been read, its arguments with it, and main goes on at    *)
(* the word that follows them.                                             *)
LEMMA OptionRead ==
  ASSUME CommandInv, ReadSoFar, parsed = "reading",
         NEW k \in 1 .. Len(argv), NextOption(k),
         NEW next \in k + 1 .. Len(argv) + 1,
         \A i \in k + 1 .. next - 1 : ~IsOption(i) \/ IsArgument(i),
         next = k + 1 => ~TakesNext(k),
         next = k + 1 /\ next <= Len(argv) /\ argv[k].letter = "c" => argv[next] # Option("s"),
         optind' = next, UNCHANGED <<argv, parsed>>,
         flag' = flag \cup {IF argv[k].letter = "S" THEN "c" ELSE argv[k].letter},
         arg'["c"] = IF argv[k].letter = "S" THEN << 1 >> ELSE arg["c"],
         \A o \in Followed : \A j \in Places(o) :
             arg'[o][j] = IF Fresh(k, o, j) THEN Scanned(k + j, Unset) ELSE arg[o][j],
         arg'["r"] = IF argv[k].letter = "r" THEN << ResetOf(k) >> ELSE arg["r"],
         IF Fresh(k, "e", 2)
         THEN arg'["e"][2] = 2 => <<arg'["e"][3], arg'["e"][4]>> = BlinkOf(k)
         ELSE arg'["e"] = arg["e"]
  PROVE  ReadSoFar'
<1>1. AtWord /\ FlagsSoFar /\ ArgumentsSoFar
  BY DEF ReadSoFar
<1>2. /\ \A o : Seen(o)' = Seen(o) \cup IF argv[k].letter = o THEN {k} ELSE {}
      /\ LegacySave' = LegacySave /\ k \notin LegacySave
      /\ \A o, j : Taken(o, j)' = Taken(o, j) \cup IF Fresh(k, o, j) THEN {k} ELSE {}
      /\ \A o, j : WrittenSoFar(o, j)' =
                      IF Fresh(k, o, j) THEN Scanned(k + j, Unset) ELSE WrittenSoFar(o, j)
      /\ \A o : argv[k].letter = o => Max(Seen(o)') = k
      /\ \A o, j : Fresh(k, o, j) => Max(Taken(o, j)') = k
  BY <1>1, Passed
<1>3. AtWord'
  <2>1. k \in Nat \ {0} /\ next \in Nat /\ Len(argv) \in Nat /\ next > k
    BY LineFacts
  <2>2. ~TakesNext(next - 1) \/ IsArgument(next - 1)
    <3>1. CASE next = k + 1
      BY <2>1, <3>1
    <3>2. CASE next # k + 1
      BY <2>1, <3>2 DEF TakesNext, IsOption
    <3> QED BY <3>1, <3>2
  <2>3. ~IsArgument(next)
    BY <2>1, <2>2, ArgumentUnfolds
  <2>4. ASSUME next <= Len(argv), next - 1 \in Given("c") PROVE argv[next] # Option("s")
    <3>1. IsOption(next - 1) /\ ~IsArgument(next - 1) /\ argv[next - 1].letter = "c"
      BY <2>4 DEF Given
    <3>2. next = k + 1
      BY <2>1, <3>1
    <3> QED BY <2>1, <2>4, <3>1, <3>2
  <2>5. IsArgument(next)' <=> IsArgument(next)
    BY DEF IsArgument, TakesNext
  <2>6. Given("c")' = Given("c")
    BY DEF Given, IsOption, IsArgument, TakesNext
  <2>7. \A o : Option(o)' = Option(o)
    BY DEF Option
  <2> QED BY <2>3, <2>4, <2>5, <2>6, <2>7 DEF AtWord
<1>4. SavedSoFar' # {} <=> SavedSoFar # {} \/ argv[k].letter = "S"
  BY <1>2 DEF SavedSoFar
<1>5. FlagsSoFar'
  <2>1. \A o \in {"l", "p", "f", "e", "w", "r", "t", "T", "G", "u"} :
           /\ o \in flag' <=> o \in flag \/ argv[k].letter = o
           /\ Seen(o)' # {} <=> Seen(o) # {} \/ argv[k].letter = o
    BY <1>2
  <2>2. "s" \in flag' <=> "s" \in flag \/ argv[k].letter = "s"
    OBVIOUS
  <2>3. (Seen("s") \ LegacySave)' # {} <=> Seen("s") \ LegacySave # {} \/ argv[k].letter = "s"
    BY <1>2
  <2>4. "c" \in flag' <=> "c" \in flag \/ argv[k].letter \in {"c", "S"}
    OBVIOUS
  <2>5. Seen("c")' # {} <=> Seen("c") # {} \/ argv[k].letter = "c"
    BY <1>2
  <2> QED BY <1>1, <1>4, <2>1, <2>2, <2>3, <2>4, <2>5 DEF FlagsSoFar
<1>6. /\ arg'["c"] = <<IF SavedSoFar' # {} THEN 1 ELSE 0>>
      /\ \A o \in Followed : \A j \in Places(o) : arg'[o][j] = WrittenSoFar(o, j)'
  BY <1>1, <1>2, <1>4 DEF ArgumentsSoFar
<1>7. \A i : ResetOf(i)' = ResetOf(i) /\ BlinkOf(i)' = BlinkOf(i)
  BY DEF ResetOf, BlinkOf, Scanned, IsDigit, Unset
<1>8. Seen("r")' # {} => arg'["r"][1] = ResetOf(Max(Seen("r")'))
  <2>1. CASE argv[k].letter = "r"
    <3>1. Max(Seen("r")') = k
      BY <1>2, <2>1
    <3> QED BY <2>1, <3>1
  <2>2. CASE argv[k].letter # "r"
    <3>1. Seen("r")' = Seen("r") /\ arg'["r"] = arg["r"]
      BY <1>2, <2>2
    <3> QED BY <1>1, <3>1 DEF ArgumentsSoFar
  <2> QED BY <2>1, <2>2
<1>9. arg'["e"][2] = 2 => <<arg'["e"][3], arg'["e"][4]>> = BlinkOf(Max(Taken("e", 2)'))
  <2>1. CASE Fresh(k, "e", 2)
    <3>1. Max(Taken("e", 2)') = k
      BY <1>2, <2>1
    <3> QED BY <2>1, <3>1
  <2>2. CASE ~Fresh(k, "e", 2)
    <3>1. Taken("e", 2)' = Taken("e", 2)
      BY <1>2, <2>2
    <3> QED BY <1>1, <2>2, <3>1 DEF ArgumentsSoFar
  <2> QED BY <2>1, <2>2
<1>10. ArgumentsSoFar'
  BY <1>6, <1>7, <1>8, <1>9 DEF ArgumentsSoFar
<1> QED BY <1>3, <1>5, <1>10 DEF ReadSoFar

(* The deprecated "-c -s". *)
LEMMA LegacyRead ==
  ASSUME CommandInv, ReadSoFar, parsed = "reading",
         NEW k \in 1 .. Len(argv), NextOption(k),
         argv[k].kind = "option", argv[k].letter = "c",
         k < Len(argv), argv[k + 1] = Option("s"), Take("c", << 1 >>, k + 2)
  PROVE  ReadSoFar'
<1>1. AtWord /\ FlagsSoFar /\ ArgumentsSoFar
  BY DEF ReadSoFar
<1>2. /\ k \in Nat \ {0} /\ optind \in Nat \ {0} /\ Len(argv) \in Nat /\ optind <= k
      /\ \A i \in optind .. k - 1 : ~IsOption(i)
      /\ k \in Given("c") /\ ~IsArgument(k) /\ k \notin LegacySave
  BY <1>1, LineFacts, NextIsGiven DEF NextOption
<1>3. k + 1 \in Given("s") /\ k + 1 \in LegacySave
  <2>1. argv[k + 1].kind = "option" /\ argv[k + 1].letter = "s"
    BY DEF Option
  <2>2. ~IsArgument(k + 1)
    <3>1. ~TakesNext(k)
      BY DEF TakesNext
    <3>2. k + 1 \in Nat /\ k + 1 - 1 = k
      BY <1>2
    <3> QED BY <3>1, <3>2, ArgumentUnfolds
  <2>3. k + 1 \in Given("s")
    BY <1>2, <2>1, <2>2 DEF Given, IsOption
  <2> QED BY <1>2, <2>3 DEF LegacySave
<1>4. /\ \A o : Given(o)' = Given(o)
      /\ LegacySave' = LegacySave
      /\ \A i : IsDigit(i)' = IsDigit(i) /\ HasOptionalArg(i)' = HasOptionalArg(i)
      /\ optind' = k + 2 /\ parsed' = parsed /\ flag' = flag \cup {"c"}
      /\ arg' = [arg EXCEPT !["c"] = <<1>>] /\ argv' = argv
  BY DEF Take, Given, LegacySave, IsDigit, HasOptionalArg, IsOption, IsArgument, TakesNext
<1>5. \A o : Seen(o)' = Seen(o) \cup (IF o = "c" THEN {k} ELSE {}) \cup (IF o = "s" THEN {k + 1} ELSE {})
  <2> SUFFICES ASSUME NEW o, NEW i \in Given(o)
               PROVE  i < k + 2 <=> i < optind \/ (o = "c" /\ i = k) \/ (o = "s" /\ i = k + 1)
    <3>1. \A o : /\ k \in Given(o) <=> o = "c"
                 /\ k + 1 \in Given(o) <=> o = "s"
      BY <1>2, <1>3 DEF Given
    <3> QED BY <1>4, <3>1 DEF Seen
  <2>1. i \in 1 .. Len(argv) /\ IsOption(i) /\ argv[i].letter = o
    BY DEF Given
  <2>2. argv[k + 1].letter = "s"
    BY DEF Option
  <2>3. i \notin optind .. k - 1
    BY <1>2, <2>1
  <2> QED BY <1>2, <2>1, <2>2, <2>3
<1>6. \A o \in Followed : \A j : Taken(o, j)' = Taken(o, j)
  <2>1. ~HasOptionalArg(k)
    BY DEF HasOptionalArg, IsOption, Option
  <2> QED BY <1>3, <1>4, <1>5, <2>1 DEF Taken, Followed
<1>7. AtWord'
  <2>1. ~TakesNext(k + 1)
    BY DEF TakesNext, Option
  <2>2. ~IsArgument(k + 2)
    <3>1. k + 2 \in Nat /\ k + 2 - 1 = k + 1
      BY <1>2
    <3> QED BY <2>1, <3>1, ArgumentUnfolds
  <2>3. k + 1 \notin Given("c")
    BY DEF Given, Option
  <2>4. IsArgument(k + 2)' <=> IsArgument(k + 2)
    BY <1>4 DEF IsArgument, TakesNext
  <2>5. k + 2 - 1 = k + 1
    BY <1>2
  <2> QED BY <1>4, <2>2, <2>3, <2>4, <2>5 DEF AtWord
<1>8. SavedSoFar' # {}
  BY <1>3, <1>4, <1>5 DEF SavedSoFar
<1>9. FlagsSoFar'
  <2>1. \A o \in {"l", "p", "f", "e", "w", "r", "t", "T", "G", "u"} : Seen(o)' = Seen(o)
    BY <1>5
  <2>2. (Seen("s") \ LegacySave)' = Seen("s") \ LegacySave
    BY <1>3, <1>4, <1>5
  <2> QED BY <1>1, <1>4, <1>8, <2>1, <2>2 DEF FlagsSoFar
<1>10. ArgumentsSoFar'
  <2>1. "c" \in DOMAIN arg /\ "c" \notin Followed
    BY ArgTypes DEF ArgLetters, CommandInv, Followed
  <2>2. arg'["c"] = <<1>> /\ \A o \in Followed : arg'[o] = arg[o]
    BY <1>4, <2>1
  <2>3. \A o \in Followed : \A j : WrittenSoFar(o, j)' = WrittenSoFar(o, j)
    BY <1>4, <1>6 DEF WrittenSoFar, NoArguments, Scanned, IsDigit, Unset
  <2>4. \A i : ResetOf(i)' = ResetOf(i) /\ BlinkOf(i)' = BlinkOf(i)
    BY <1>4 DEF ResetOf, BlinkOf, Scanned, IsDigit, Unset
  <2>5. arg'["r"] = arg["r"] /\ arg'["e"] = arg["e"]
    BY <1>4, <2>1, ArgTypes DEF ArgLetters, CommandInv
  <2>6. Seen("r")' = Seen("r") /\ Taken("e", 2)' = Taken("e", 2)
    BY <1>5, <1>6 DEF Followed
  <2> QED BY <1>1, <1>8, <2>2, <2>3, <2>4, <2>5, <2>6 DEF ArgumentsSoFar
<1> QED BY <1>4, <1>7, <1>9, <1>10 DEF ReadSoFar

(* One option with arguments of its own, n words of them. *)
LEMMA TakeRead ==
  ASSUME CommandInv, ReadSoFar, parsed = "reading",
         NEW k \in 1 .. Len(argv), NextOption(k),
         NEW o \in ArgLetters, argv[k].letter = o, NEW values, NEW next \in k + 1 .. Len(argv) + 1,
         Take(o, values, next),
         \A i \in k + 1 .. next - 1 : ~IsOption(i) \/ IsArgument(i),
         next = k + 1 => ~TakesNext(k),
         next = k + 1 /\ next <= Len(argv) /\ o = "c" => argv[next] # Option("s"),
         o = "c" => values = arg["c"],
         o \in Followed => \A j \in Places(o) :
             values[j] = IF Fresh(k, o, j) THEN Scanned(k + j, Unset) ELSE arg[o][j],
         o = "r" => values = << ResetOf(k) >>,
         o = "e" => IF HasOptionalArg(k)
                    THEN values[2] = 2 => <<values[3], values[4]>> = BlinkOf(k)
                    ELSE values = arg["e"]
  PROVE  ReadSoFar'
<1>1. /\ flag' = flag \cup {o} /\ arg' = [arg EXCEPT ![o] = values] /\ optind' = next
      /\ UNCHANGED <<argv, parsed>> /\ o # "S"
  BY DEF Take, ArgLetters
<1>2. /\ DOMAIN arg = ArgLetters /\ "c" \in ArgLetters /\ "c" \notin Followed
      /\ Followed \subseteq ArgLetters
  BY ArgTypes DEF ArgLetters, CommandInv, Followed
<1>3. arg'["c"] = arg["c"]
  BY <1>1, <1>2
<1>4. \A u \in Followed : \A j \in Places(u) :
         arg'[u][j] = IF Fresh(k, u, j) THEN Scanned(k + j, Unset) ELSE arg[u][j]
  <2> SUFFICES ASSUME NEW u \in Followed, NEW j \in Places(u)
               PROVE  arg'[u][j] = IF Fresh(k, u, j) THEN Scanned(k + j, Unset) ELSE arg[u][j]
    OBVIOUS
  <2>1. CASE u = o
    <3>1. arg'[u] = values
      BY <1>1, <1>2, <2>1
    <3> QED BY <2>1, <3>1
  <2>2. CASE u # o
    <3>1. arg'[u] = arg[u]
      BY <1>1, <1>2, <2>2
    <3> QED BY <2>2, <3>1 DEF Fresh
  <2> QED BY <2>1, <2>2
<1>5. argv[k].letter # "S" /\ flag' = flag \cup {argv[k].letter}
  BY <1>1
<1>6. arg'["r"] = IF argv[k].letter = "r" THEN << ResetOf(k) >> ELSE arg["r"]
  BY <1>1, <1>2 DEF ArgLetters
<1>7. IF Fresh(k, "e", 2)
      THEN arg'["e"][2] = 2 => <<arg'["e"][3], arg'["e"][4]>> = BlinkOf(k)
      ELSE arg'["e"] = arg["e"]
  BY <1>1, <1>2 DEF ArgLetters, Fresh
<1> QED BY <1>1, <1>3, <1>4, <1>5, <1>6, <1>7, OptionRead

(* main gives up, which leaves nothing to compare. *)
LEMMA StopRead ==
  ASSUME NEW how \in {"usage", "error"}, Stop(how)
  PROVE  ReadSoFar'
BY DEF Stop, ReadSoFar

(* An option without arguments of its own. *)
LEMMA BareRead ==
  ASSUME CommandInv, ReadSoFar, parsed = "reading",
         NEW k \in 1 .. Len(argv), NextOption(k),
         NEW o \in {"p", "s", "f", "e", "w", "c"}, argv[k].letter = o, Bare(o, k),
         o = "c" => ~(k < Len(argv) /\ argv[k + 1] = Option("s")),
         o # "c" => ~HasOptionalArg(k)
  PROVE  ReadSoFar'
<1>1. /\ k \in Nat \ {0} /\ Len(argv) \in Nat /\ k + 1 \in k + 1 .. Len(argv) + 1
      /\ ~TakesNext(k) /\ o \in ArgLetters
      /\ \A i \in k + 1 .. k + 1 - 1 : FALSE
  BY LineFacts DEF TakesNext, ArgLetters
<1>2. o \in Followed => \A j : ~Fresh(k, o, j)
  BY DEF Followed, Fresh
<1>3. Take(o, arg[o], k + 1)
  BY DEF Bare
<1>4. k + 1 <= Len(argv) /\ o = "c" => argv[k + 1] # Option("s")
  BY <1>1
<1> QED BY <1>1, <1>2, <1>3, <1>4, TakeRead

(* The words that are numbers are no options, and are of the line. *)
LEMMA DigitFacts ==
  ASSUME CommandInv, NEW k \in 1 .. Len(argv)
  PROVE  /\ k \in Nat \ {0} /\ Len(argv) \in Nat
         /\ HasOptionalArg(k) => k + 1 <= Len(argv) /\ ~IsOption(k + 1) /\ ~TakesNext(k + 1)
         /\ \A n \in 1 .. 4 : IsDigit(k + n) => k + n <= Len(argv) /\ ~IsOption(k + n)
         /\ \A n \in 1 .. 4 : \A old :
               Scanned(k + n, old) = IF IsDigit(k + n) THEN argv[k + n].value ELSE old
BY LineFacts DEF HasOptionalArg, IsDigit, IsOption, Scanned, TakesNext

(* -p and -s. *)
LEMMA PairRead ==
  ASSUME CommandInv, ReadSoFar, parsed = "reading",
         NEW k \in 1 .. Len(argv), NextOption(k),
         NEW o \in {"p", "s"}, argv[k].letter = o, PairOption(o, k)
  PROVE  ReadSoFar'
<1>1. CASE ~HasOptionalArg(k) /\ Bare(o, k)
  BY <1>1, BareRead
<1>2. CASE HasOptionalArg(k) /\ IsDigit(k + 2)
           /\ Take(o, <<Scanned(k + 1, arg[o][1]), argv[k + 2].value>>, k + 3)
  <2> DEFINE values == <<Scanned(k + 1, arg[o][1]), argv[k + 2].value>>
  <2>1. /\ k + 3 \in k + 1 .. Len(argv) + 1 /\ o \in ArgLetters /\ Places(o) = {1, 2} /\ o # "c"
        /\ \A i \in k + 1 .. k + 3 - 1 : ~IsOption(i)
        /\ k + 3 # k + 1
    BY <1>2, DigitFacts DEF ArgLetters, Places
  <2>2. \A j \in {1, 2} : values[j] = IF Fresh(k, o, j) THEN Scanned(k + j, Unset) ELSE arg[o][j]
    BY <1>2, DigitFacts DEF Fresh
  <2>3. Take(o, values, k + 3)
    BY <1>2
  <2> HIDE DEF values
  <2> DEFINE next == k + 3
  <2>4. /\ next \in k + 1 .. Len(argv) + 1 /\ next # k + 1 /\ Take(o, values, next)
        /\ \A i \in k + 1 .. next - 1 : ~IsOption(i) \/ IsArgument(i)
        /\ o \notin {"c", "r", "e"}
    BY <2>1, <2>3
  <2>5. \A j \in Places(o) : values[j] = IF Fresh(k, o, j) THEN Scanned(k + j, Unset) ELSE arg[o][j]
    BY <2>1, <2>2
  <2> HIDE DEF next
  <2> QED BY <2>1, <2>4, <2>5, TakeRead
<1>3. CASE Stop("error")
  BY <1>3, StopRead
<1> QED BY <1>1, <1>2, <1>3 DEF PairOption

(* -f. *)
LEMMA OffTimeRead ==
  ASSUME CommandInv, ReadSoFar, parsed = "reading",
         NEW k \in 1 .. Len(argv), NextOption(k),
         argv[k].letter = "f", OffTimeOption(k)
  PROVE  ReadSoFar'
<1>1. CASE ~HasOptionalArg(k) /\ Bare("f", k)
  BY <1>1, BareRead
<1>2. CASE HasOptionalArg(k) /\ IsDigit(k + 1) /\ Take("f", <<argv[k + 1].value>>, k + 2)
  <2> DEFINE values == <<argv[k + 1].value>>
  <2>1. /\ k + 2 \in k + 1 .. Len(argv) + 1 /\ "f" \in ArgLetters /\ Places("f") = {1}
        /\ \A i \in k + 1 .. k + 2 - 1 : ~IsOption(i)
        /\ k + 2 # k + 1
    BY <1>2, DigitFacts DEF ArgLetters, Places
  <2>2. \A j \in {1} : values[j] = IF Fresh(k, "f", j) THEN Scanned(k + j, Unset) ELSE arg["f"][j]
    BY <1>2, DigitFacts DEF Fresh
  <2>3. Take("f", values, k + 2)
    BY <1>2
  <2> HIDE DEF values
  <2> DEFINE next == k + 2
  <2>4. /\ next \in k + 1 .. Len(argv) + 1 /\ next # k + 1 /\ Take("f", values, next)
        /\ \A i \in k + 1 .. next - 1 : ~IsOption(i) \/ IsArgument(i)
        /\ "f" \notin {"c", "r", "e"}
    BY <2>1, <2>3
  <2>5. \A j \in Places("f") : values[j] = IF Fresh(k, "f", j) THEN Scanned(k + j, Unset) ELSE arg["f"][j]
    BY <2>1, <2>2
  <2> HIDE DEF next
  <2> QED BY <2>1, <2>4, <2>5, TakeRead
<1>3. CASE Stop("error")
  BY <1>3, StopRead
<1> QED BY <1>1, <1>2, <1>3 DEF OffTimeOption

(* -c. *)
LEMMA ConfigRead ==
  ASSUME CommandInv, ReadSoFar, parsed = "reading",
         NEW k \in 1 .. Len(argv), NextOption(k),
         argv[k].letter = "c", argv[k].kind = "option", ConfigOption(k)
  PROVE  ReadSoFar'
<1>1. CASE k < Len(argv) /\ argv[k + 1] = Option("s")
  BY <1>1, LegacyRead DEF ConfigOption
<1>2. CASE ~(k < Len(argv) /\ argv[k + 1] = Option("s"))
  BY <1>2, BareRead DEF ConfigOption
<1> QED BY <1>1, <1>2

(* -w. *)
LEMMA WwanRead ==
  ASSUME CommandInv, ReadSoFar, parsed = "reading",
         NEW k \in 1 .. Len(argv), NextOption(k),
         argv[k].letter = "w", WwanOption(k)
  PROVE  ReadSoFar'
<1>1. CASE ~HasOptionalArg(k) /\ Bare("w", k)
  BY <1>1, BareRead
<1>2. CASE HasOptionalArg(k) /\ IsDigit(k + 2) /\ IsDigit(k + 3)
           /\ Take("w", <<Scanned(k + 1, arg["w"][1]), argv[k + 2].value, argv[k + 3].value>>, k + 4)
  <2> DEFINE values == <<Scanned(k + 1, arg["w"][1]), argv[k + 2].value, argv[k + 3].value>>
  <2>1. /\ k + 4 \in k + 1 .. Len(argv) + 1 /\ "w" \in ArgLetters /\ Places("w") = {1, 2, 3}
        /\ \A i \in k + 1 .. k + 4 - 1 : ~IsOption(i)
        /\ k + 4 # k + 1
    BY <1>2, DigitFacts DEF ArgLetters, Places
  <2>2. \A j \in {1, 2, 3} : values[j] = IF Fresh(k, "w", j) THEN Scanned(k + j, Unset) ELSE arg["w"][j]
    BY <1>2, DigitFacts DEF Fresh
  <2>3. Take("w", values, k + 4)
    BY <1>2
  <2> HIDE DEF values
  <2>4. \A j \in Places("w") : values[j] = IF Fresh(k, "w", j) THEN Scanned(k + j, Unset) ELSE arg["w"][j]
    BY <2>1, <2>2
  <2> DEFINE next == k + 4
  <2>5. /\ next \in k + 1 .. Len(argv) + 1 /\ next # k + 1 /\ Take("w", values, next)
        /\ \A i \in k + 1 .. next - 1 : ~IsOption(i) \/ IsArgument(i)
    BY <2>1, <2>3
  <2> HIDE DEF next
  <2> QED BY <2>1, <2>4, <2>5, TakeRead
<1>3. CASE Stop("error")
  BY <1>3, StopRead
<1> QED BY <1>1, <1>2, <1>3 DEF WwanOption

(* -e. *)
LEMMA LedRead ==
  ASSUME CommandInv, ReadSoFar, parsed = "reading",
         NEW k \in 1 .. Len(argv), NextOption(k),
         argv[k].letter = "e", LedOption(k)
  PROVE  ReadSoFar'
<1> DEFINE led == Scanned(k + 1, arg["e"][1])
<1>1. CASE ~HasOptionalArg(k) /\ Bare("e", k)
  BY <1>1, BareRead
<1>2. ASSUME HasOptionalArg(k), IsDigit(k + 2), NEW x, NEW y, NEW next \in k + 3 .. Len(argv) + 1,
             \A i \in k + 3 .. next - 1 : ~IsOption(i),
             Take("e", <<led, argv[k + 2].value, x, y>>, next),
             argv[k + 2].value = 2 => <<x, y>> = BlinkOf(k)
      PROVE  ReadSoFar'
  <2> DEFINE values == <<led, argv[k + 2].value, x, y>>
  <2>1. /\ next \in k + 1 .. Len(argv) + 1 /\ "e" \in ArgLetters /\ Places("e") = {1, 2}
        /\ \A i \in k + 1 .. next - 1 : ~IsOption(i)
        /\ next # k + 1
    <3>1. k \in Nat \ {0} /\ Len(argv) \in Nat /\ ~IsOption(k + 1) /\ ~IsOption(k + 2)
      BY <1>2, DigitFacts
    <3>2. "e" \in ArgLetters /\ Places("e") = {1, 2}
      BY DEF ArgLetters, Places
    <3>3. \A i \in k + 1 .. next - 1 : i = k + 1 \/ i = k + 2 \/ i \in k + 3 .. next - 1
      BY <3>1
    <3>4. \A i \in k + 1 .. next - 1 : ~IsOption(i)
      BY <1>2, <3>1, <3>3
    <3> QED BY <3>1, <3>2, <3>4
  <2>2. \A j \in {1, 2} : values[j] = IF Fresh(k, "e", j) THEN Scanned(k + j, Unset) ELSE arg["e"][j]
    BY <1>2, DigitFacts DEF Fresh
  <2>3. Take("e", values, next)
    BY <1>2
  <2>4. values[2] = 2 => <<values[3], values[4]>> = BlinkOf(k)
    BY <1>2
  <2> HIDE DEF values
  <2> QED BY <1>2, <2>1, <2>2, <2>3, <2>4, TakeRead
<1>3. CASE HasOptionalArg(k) /\ IsDigit(k + 2) /\ argv[k + 2].value # 2
           /\ Take("e", <<led, argv[k + 2].value, arg["e"][3], arg["e"][4]>>, k + 3)
  <2>1. k + 3 \in k + 3 .. Len(argv) + 1 /\ \A i \in k + 3 .. k + 3 - 1 : FALSE
    BY <1>3, DigitFacts
  <2> HIDE DEF led
  <2> QED BY <1>2, <1>3, <2>1
<1>4. CASE HasOptionalArg(k) /\ IsDigit(k + 2) /\ argv[k + 2].value = 2 /\ IsDigit(k + 3)
           /\ Take("e", <<led, 2, argv[k + 3].value, Scanned(k + 4, 50)>>,
                   IF IsDigit(k + 4) THEN k + 5 ELSE k + 4)
  <2> DEFINE next == IF IsDigit(k + 4) THEN k + 5 ELSE k + 4
  <2>1. next \in k + 3 .. Len(argv) + 1 /\ \A i \in k + 3 .. next - 1 : ~IsOption(i)
    <3>1. /\ k \in Nat \ {0} /\ Len(argv) \in Nat
          /\ k + 3 <= Len(argv) /\ ~IsOption(k + 3)
          /\ IsDigit(k + 4) => k + 4 <= Len(argv) /\ ~IsOption(k + 4)
      BY <1>4, LineFacts DEF IsDigit, IsOption
    <3>2. next \in k + 3 .. Len(argv) + 1
      BY <3>1
    <3>3. \A i \in k + 3 .. next - 1 : i = k + 3 \/ (i = k + 4 /\ IsDigit(k + 4))
      BY <3>1
    <3> QED BY <3>1, <3>2, <3>3
  <2>2. Take("e", <<led, argv[k + 2].value, argv[k + 3].value, Scanned(k + 4, 50)>>, next)
    BY <1>4
  <2>3. <<argv[k + 3].value, Scanned(k + 4, 50)>> = BlinkOf(k)
    BY <1>4 DEF BlinkOf, Scanned
  <2> HIDE DEF led, next
  <2> QED BY <1>2, <1>4, <2>1, <2>2, <2>3
<1>5. CASE Stop("error")
  BY <1>5, StopRead
<1> QED BY <1>1, <1>3, <1>4, <1>5 DEF LedOption

(* Options with a required argument, -d of the minimal tool among them. *)
LEMMA RequiredRead ==
  ASSUME CommandInv, ReadSoFar, parsed = "reading",
         NEW k \in 1 .. Len(argv), NextOption(k),
         \/ argv[k].letter \in {"r", "i", "g", "n"} /\ RequiredOption(argv[k].letter, k)
         \/ argv[k].letter = "d" /\ DeviceOption(k)
  PROVE  ReadSoFar'
<1> DEFINE o == argv[k].letter
<1>1. k \in Nat \ {0} /\ Len(argv) \in Nat /\ ~IsArgument(k)
  BY LineFacts, NextIsGiven DEF ReadSoFar
<1>2. CASE Stop("error")
  BY <1>2, StopRead
<1>3. \A next \in {k + 1, k + 2} :
         (IF argv[k].kind = "attached" THEN next = k + 1
                                       ELSE argv[k].kind = "option" /\ next = k + 2 /\ k < Len(argv))
           => /\ next \in k + 1 .. Len(argv) + 1
              /\ \A i \in k + 1 .. next - 1 : ~IsOption(i) \/ IsArgument(i)
              /\ next = k + 1 => ~TakesNext(k)
  <2>1. argv[k].kind = "attached" => ~TakesNext(k)
    BY DEF TakesNext
  <2>2. argv[k].kind = "option" => IsArgument(k + 1)
    <3>1. argv[k].kind = "option" => TakesNext(k)
      BY DEF TakesNext
    <3>2. k + 1 \in Nat /\ k + 1 > 1 /\ k + 1 - 1 = k
      BY <1>1
    <3> QED BY <1>1, <3>1, <3>2, ArgumentUnfolds
  <2> QED BY <1>1, <2>1, <2>2
<1>4. ASSUME o \in {"r", "i", "g", "n"}, NEW v, o = "r" => v = ResetOf(k), NEW next \in {k + 1, k + 2}, Take(o, <<v>>, next),
             IF argv[k].kind = "attached" THEN next = k + 1
                                          ELSE argv[k].kind = "option" /\ next = k + 2 /\ k < Len(argv)
      PROVE  ReadSoFar'
  <2>1. o \in ArgLetters /\ o \notin Followed /\ o # "c"
    BY <1>4 DEF ArgLetters, Followed
  <2> HIDE DEF o
  <2> QED BY <1>3, <1>4, <2>1, TakeRead DEF o
<1>5. CASE o \in {"r", "i", "g", "n"} /\ RequiredOption(o, k) /\ ~Stop("error")
  <2>1. CASE argv[k].kind = "attached" /\ Take(o, <<argv[k].value>>, k + 1)
    BY <1>4, <1>5, <2>1 DEF ResetOf
  <2>2. CASE /\ argv[k].kind = "option" /\ k < Len(argv) /\ (o = "r" => IsDigit(k + 1))
             /\ Take(o, <<Scanned(k + 1, arg[o][1])>>, k + 2)
    <3>1. o = "r" => Scanned(k + 1, arg[o][1]) = ResetOf(k)
      BY <2>2 DEF ResetOf, Scanned
    <3> QED BY <1>4, <1>5, <2>2, <3>1
  <2> QED BY <1>5, <2>1, <2>2 DEF RequiredOption
<1>6. CASE o = "d" /\ DeviceOption(k) /\ ~Stop("error")
  <2> DEFINE next == IF argv[k].kind = "attached" THEN k + 1 ELSE k + 2
  <2>1. /\ flag' = flag \cup {"d"} /\ optind' = next /\ UNCHANGED <<argv, arg, parsed>>
        /\ argv[k].kind = "attached" \/ (argv[k].kind = "option" /\ k < Len(argv))
    BY <1>6 DEF DeviceOption, NextOption, IsOption
  <2>2. /\ next \in k + 1 .. Len(argv) + 1
        /\ \A i \in k + 1 .. next - 1 : ~IsOption(i) \/ IsArgument(i)
        /\ next = k + 1 => ~TakesNext(k)
    BY <1>3, <2>1
  <2>3. \A u \in Followed : \A j : ~Fresh(k, u, j)
    BY <1>6 DEF Followed, Fresh
  <2>4. o # "r" /\ ~Fresh(k, "e", 2)
    BY <1>6 DEF Fresh
  <2> HIDE DEF next
  <2> QED BY <1>6, <2>1, <2>2, <2>3, <2>4, OptionRead
<1> QED BY <1>2, <1>5, <1>6

(* Options that only set a flag, and --save-config. *)
LEMMA FlagRead ==
  ASSUME CommandInv, ReadSoFar, parsed = "reading",
         NEW k \in 1 .. Len(argv), NextOption(k),
         argv[k].letter \in {"S", "l", "t", "T", "G", "u", "j"}, FlagOption(argv[k].letter, k)
  PROVE  ReadSoFar'
<1> DEFINE o == argv[k].letter
<1>1. /\ k + 1 \in k + 1 .. Len(argv) + 1 /\ o # "c" /\ ~TakesNext(k)
      /\ \A i \in k + 1 .. k + 1 - 1 : FALSE
  BY LineFacts DEF TakesNext
<1>2. \A u \in Followed : \A j : ~Fresh(k, u, j)
  BY DEF Followed, Fresh
<1>3. /\ flag' = flag \cup {IF o = "S" THEN "c" ELSE o} /\ optind' = k + 1
      /\ arg' = (IF o = "S" THEN [arg EXCEPT !["c"] = <<1>>] ELSE arg)
      /\ UNCHANGED <<argv, parsed>>
  BY DEF FlagOption
<1>4. arg'["c"] = (IF o = "S" THEN <<1>> ELSE arg["c"]) /\ \A u \in Followed : arg'[u] = arg[u]
  <2>1. "c" \in DOMAIN arg /\ "c" \notin Followed
    BY ArgTypes DEF ArgLetters, CommandInv, Followed
  <2> QED BY <1>3, <2>1
<1>5. arg'["r"] = arg["r"] /\ arg'["e"] = arg["e"] /\ o # "r" /\ ~Fresh(k, "e", 2)
  <2>1. {"c", "r", "e"} \subseteq DOMAIN arg
    BY ArgTypes DEF ArgLetters, CommandInv
  <2> QED BY <1>3, <2>1 DEF Fresh
<1> DEFINE next == k + 1
<1>6. /\ next \in k + 1 .. Len(argv) + 1 /\ optind' = next
      /\ \A i \in k + 1 .. next - 1 : ~IsOption(i) \/ IsArgument(i)
  BY <1>1, <1>3
<1>7. \A u \in Followed : \A j \in Places(u) :
         arg'[u][j] = IF Fresh(k, u, j) THEN Scanned(k + j, Unset) ELSE arg[u][j]
  BY <1>2, <1>4
<1>8. arg'["r"] = (IF o = "r" THEN << ResetOf(k) >> ELSE arg["r"])
  BY <1>5
<1>9. IF Fresh(k, "e", 2)
      THEN arg'["e"][2] = 2 => <<arg'["e"][3], arg'["e"][4]>> = BlinkOf(k)
      ELSE arg'["e"] = arg["e"]
  BY <1>5
<1>10. /\ flag' = flag \cup {IF o = "S" THEN "c" ELSE o} /\ UNCHANGED <<argv, parsed>>
       /\ arg'["c"] = (IF o = "S" THEN << 1 >> ELSE arg["c"])
       /\ (next = k + 1 => ~TakesNext(k)) /\ o # "c"
  BY <1>1, <1>3, <1>4
<1> HIDE DEF next
<1> QED BY <1>6, <1>7, <1>8, <1>9, <1>10, OptionRead

(* A step that leaves the line and what was read of it alone. *)
LEMMA SameReading ==
  ASSUME UNCHANGED <<argv, optind, flag, arg>>
  PROVE  /\ AtWord' <=> AtWord
         /\ FlagsSoFar' <=> FlagsSoFar
         /\ ArgumentsSoFar' <=> ArgumentsSoFar
         /\ \A k : IsOption(k)' <=> IsOption(k)
<1>1. /\ \A k : IsOption(k)' <=> IsOption(k)
      /\ \A k : TakesNext(k)' <=> TakesNext(k)
      /\ \A k : HasOptionalArg(k)' <=> HasOptionalArg(k)
      /\ \A k : IsDigit(k)' <=> IsDigit(k)
      /\ \A o : Option(o)' = Option(o)
  BY DEF IsOption, TakesNext, HasOptionalArg, IsDigit, Option
<1>2. \A k : IsArgument(k)' <=> IsArgument(k)
  BY <1>1 DEF IsArgument
<1>3. \A o : Given(o)' = Given(o)
  BY <1>1, <1>2 DEF Given
<1>4. LegacySave' = LegacySave /\ \A o : Seen(o)' = Seen(o)
  BY <1>1, <1>3 DEF LegacySave, Seen
<1>5. SavedSoFar' = SavedSoFar /\ \A o, j : Taken(o, j)' = Taken(o, j)
  BY <1>1, <1>4 DEF SavedSoFar, Taken
<1>6. \A o, j : WrittenSoFar(o, j)' = WrittenSoFar(o, j)
  BY <1>1, <1>5 DEF WrittenSoFar, NoArguments, Scanned, IsDigit, Unset
<1>7. AtWord' <=> AtWord
  BY <1>1, <1>2, <1>3 DEF AtWord
<1>8. FlagsSoFar' <=> FlagsSoFar
  BY <1>4, <1>5 DEF FlagsSoFar
<1>9. ArgumentsSoFar' <=> ArgumentsSoFar
  BY <1>1, <1>4, <1>5, <1>6 DEF ArgumentsSoFar, ResetOf, BlinkOf, Scanned, IsDigit, Unset
<1> QED BY <1>1, <1>7, <1>8, <1>9

(* Every step of the reading. *)
LEMMA ReadCommandLineRead ==
  ASSUME CommandInv, ReadSoFar, ReadCommandLine
  PROVE  ReadSoFar'
<1>1. parsed = "reading"
  BY DEF ReadCommandLine
<1>2. CASE EndOfOptions
  <2>1. CASE Stop("usage")
    BY <2>1, StopRead
  <2>2. CASE Stop("ready") /\ \A k \in optind .. Len(argv) : ~IsOption(k)
    <3>1. UNCHANGED <<argv, optind, flag, arg>> /\ parsed' = "ready"
      BY <2>2 DEF Stop
    <3>2. AtWord' /\ FlagsSoFar' /\ ArgumentsSoFar'
      BY <1>1, <3>1, SameReading DEF ReadSoFar
    <3>3. \A k \in optind .. Len(argv) : ~IsOption(k)'
      BY <2>2, <3>1 DEF IsOption
    <3> QED BY <3>1, <3>2, <3>3 DEF ReadSoFar
  <2> QED BY <1>2, <2>1, <2>2 DEF EndOfOptions
<1>3. ASSUME NEW k \in 1 .. Len(argv), NextOption(k), GetOption(k) PROVE ReadSoFar'
  <2> DEFINE o == argv[k].letter
  <2>1. CASE o \in {"p", "s"} /\ PairOption(o, k)
    BY <1>1, <1>3, <2>1, PairRead
  <2>2. CASE o = "f" /\ OffTimeOption(k)
    BY <1>1, <1>3, <2>2, OffTimeRead
  <2>3. CASE o = "c" /\ argv[k].kind = "option" /\ ConfigOption(k)
    BY <1>1, <1>3, <2>3, ConfigRead
  <2>4. CASE o = "e" /\ LedOption(k)
    BY <1>1, <1>3, <2>4, LedRead
  <2>5. CASE o = "w" /\ WwanOption(k)
    BY <1>1, <1>3, <2>5, WwanRead
  <2>6. CASE \/ o \in {"r", "i", "g", "n"} /\ RequiredOption(o, k)
             \/ o = "d" /\ DeviceOption(k)
    BY <1>1, <1>3, <2>6, RequiredRead
  <2>7. CASE o \in {"S", "l", "t", "T", "G", "u", "j"} /\ FlagOption(o, k)
    BY <1>1, <1>3, <2>7, FlagRead
  <2>8. CASE Stop("usage")
    BY <2>8, StopRead
  <2> QED BY <1>3, <2>1, <2>2, <2>3, <2>4, <2>5, <2>6, <2>7, <2>8 DEF GetOption
<1> QED BY <1>2, <1>3 DEF ReadCommandLine

(* Nothing is passed at the start. *)
LEMMA ReadSoFarInit == ToolInit => ReadSoFar
<1> SUFFICES ASSUME ToolInit PROVE ReadSoFar
  OBVIOUS
<1>1. CommandInv /\ optind = 1 /\ flag = {} /\ arg = NoArguments /\ parsed = "reading"
  BY RunInitInv DEF RunInv, ToolInit, CommandInit
<1>2. ~IsArgument(1) /\ 1 - 1 \notin Given("c")
  BY <1>1, LineFacts DEF IsArgument, Given
<1>3. (\A o : Seen(o) = {}) /\ SavedSoFar = {} /\ \A o, j : Taken(o, j) = {}
  BY <1>1, LineFacts DEF Seen, Given, SavedSoFar, Taken
<1>4. NoArguments["c"] = <<0>> /\ NoArguments["e"][2] # 2
  BY DEF NoArguments, Unset
<1> QED BY <1>1, <1>2, <1>3, <1>4 DEF ReadSoFar, AtWord, FlagsSoFar, ArgumentsSoFar, WrittenSoFar

(* With no option left, what was passed is what is written. *)
LEMMA AllRead ==
  ASSUME CommandInv, ReadSoFar
  PROVE  ReadAsWritten
<1> SUFFICES ASSUME parsed = "ready" PROVE ReadAsWritten
  BY DEF ReadAsWritten
<1>1. /\ FlagsSoFar /\ ArgumentsSoFar
      /\ \A k \in optind .. Len(argv) : ~IsOption(k)
  BY DEF ReadSoFar
<1>2. \A o : Seen(o) = Given(o)
  BY <1>1, LineFacts DEF Seen, Given
<1>3. SavedSoFar = Given("S") \cup LegacySave
  BY <1>2 DEF SavedSoFar, LegacySave
<1>4. \A o, j : WrittenSoFar(o, j) = Written(o, j)
  <2>1. \A o, j : Taken(o, j) = {k \in Given(o) \ LegacySave :
                                  HasOptionalArg(k) /\ (j = 1 => IsDigit(k + 1))}
    BY <1>2 DEF Taken
  <2> QED BY <2>1 DEF WrittenSoFar, Written
<1>5. /\ DOMAIN arg["p"] = {1, 2} /\ DOMAIN arg["s"] = {1, 2} /\ DOMAIN arg["w"] = {1, 2, 3}
      /\ Places("p") = {1, 2} /\ Places("s") = {1, 2} /\ Places("w") = {1, 2, 3}
      /\ Places("f") = {1} /\ Places("e") = {1, 2}
  <2>1. CommandTypeOK /\ "p" \in ArgLetters /\ "s" \in ArgLetters /\ "w" \in ArgLetters
    BY DEF ArgLetters, CommandInv
  <2>2. DOMAIN arg["p"] = {1, 2} /\ DOMAIN arg["s"] = {1, 2} /\ DOMAIN arg["w"] = {1, 2, 3}
    BY <2>1, ArgTypes
  <2>3. /\ Places("p") = {1, 2} /\ Places("s") = {1, 2} /\ Places("w") = {1, 2, 3}
        /\ Places("f") = {1} /\ Places("e") = {1, 2}
    BY DEF Places
  <2> QED BY <2>2, <2>3
<1>6. \A o \in Followed : \A j \in Places(o) : arg[o][j] = Written(o, j)
  BY <1>1, <1>4 DEF ArgumentsSoFar
<1>7. arg["c"] = <<IF SaveGiven THEN 1 ELSE 0>>
  BY <1>1, <1>3 DEF ArgumentsSoFar, SaveGiven
<1>8. /\ \A o \in {"l", "p", "f", "e", "w", "r", "t", "T", "G", "u"} : (o \in flag) = (Given(o) # {})
      /\ ("s" \in flag) = (Given("s") \ LegacySave # {})
      /\ ("c" \in flag) = (SaveGiven \/ Given("c") # {})
  BY <1>1, <1>2, <1>3 DEF FlagsSoFar, SaveGiven
<1>9. /\ \A o \in {"p", "s", "w"} : \A j \in DOMAIN arg[o] : arg[o][j] = Written(o, j)
      /\ arg["f"][1] = Written("f", 1)
      /\ arg["e"][1] = Written("e", 1) /\ arg["e"][2] = Written("e", 2)
  BY <1>5, <1>6 DEF Followed
<1>10. Given("r") # {} => arg["r"][1] = WrittenReset
  BY <1>1, <1>2 DEF ArgumentsSoFar, WrittenReset
<1>11. arg["e"][2] = 2 => <<arg["e"][3], arg["e"][4]>> = WrittenBlink
  <2>1. Taken("e", 2) = {k \in Given("e") : HasOptionalArg(k)}
    BY <1>2 DEF Taken, LegacySave, Given
  <2> QED BY <1>1, <2>1 DEF ArgumentsSoFar, WrittenBlink
<1> QED BY <1>7, <1>8, <1>9, <1>10, <1>11 DEF ReadAsWritten

(* However options and words are mixed on the command line, what main has  *)
(* read is what the usage text makes of the whole line.                    *)
THEOREM LineReadAsWritten == ToolSpec => []ReadAsWritten
<1>1. ToolInit => ReadSoFar
  BY ReadSoFarInit
<1>2. RunInv /\ ReadSoFar /\ [ToolNext]_vars => ReadSoFar'
  <2> SUFFICES ASSUME RunInv, ReadSoFar, [ToolNext]_vars PROVE ReadSoFar'
    OBVIOUS
  <2>1. CASE ReadCommandLine
    BY <2>1, ReadCommandLineRead DEF RunInv
  <2>2. CASE UNCHANGED commandVars
    <3>1. UNCHANGED <<argv, optind, flag, arg>> /\ parsed' = parsed
      BY <2>2 DEF commandVars
    <3> QED BY <3>1, SameReading DEF ReadSoFar
  <2> QED BY <2>1, <2>2 DEF ToolNext, vars, OpenBoard, Show, Set, SetBootloaderMode
<1>3. RunInv /\ ReadSoFar => ReadAsWritten
  BY AllRead DEF RunInv
<1> QED BY <1>1, <1>2, <1>3, RunInvariant, PTL DEF ToolSpec

-----------------------------------------------------------------------------
(* What has passed the checks of the tool is in the ranges of the usage    *)
(* text, as far as it fits in a byte.                                      *)

(* The arguments of c are accepted, whatever the registers hold. *)
ArgumentsAccepted(c) ==
    CASE c = "p" -> Param("p", 1) \in 1 .. 3 /\ Param("p", 2) \in {0, 1}
      [] c = "s" -> /\ Param("s", 1) \in IF tool = "std" THEN {1, 2} ELSE 1 .. 3
                    /\ Param("s", 2) <= SimLimit
      [] c = "f" -> arg["f"][1] <= Uint16Max
      [] c = "e" -> /\ Param("e", 1) \in 1 .. 3 /\ arg["e"][2] <= 2
                    /\ arg["e"][2] = 2 => arg["e"][3] <= Uint16Max /\ Param("e", 4) <= 100
      [] c = "w" -> Param("w", 1) \in {1, 2} /\ Param("w", 2) \in {0, 1} /\ Param("w", 3) \in {0, 1}
      [] c = "r" -> Param("r", 1) \in {1, 2}

(* The settings before pos have passed their checks. *)
ChecksPassed ==
    \A i \in 1 .. 11 :
        i < pos /\ Order[i] \in Ranged /\ Order[i] \in flag /\ Setting(Order[i])
          => ArgumentsAccepted(Order[i])

LEMMA AcceptedArguments ==
  ASSUME NEW c \in Ranged, Accepted(c)
  PROVE  ArgumentsAccepted(c)
<1>1. CASE c = "p"
  BY <1>1 DEF Accepted, ArgumentsAccepted, Module
<1>2. CASE c = "s"
  BY <1>2 DEF Accepted, ArgumentsAccepted, Module
<1>3. CASE c = "f"
  <2>1. arg["f"][1] <= Uint16Max
    BY <1>3 DEF Accepted
  <2>2. ArgumentsAccepted("f")
    BY <2>1 DEF ArgumentsAccepted
  <2> QED BY <1>3, <2>2
<1>4. CASE c = "e"
  BY <1>4 DEF Accepted, ArgumentsAccepted, Module
<1>5. CASE c \in {"w", "r"}
  BY <1>5 DEF Accepted, ArgumentsAccepted
<1> QED BY <1>1, <1>2, <1>3, <1>4, <1>5 DEF Ranged

(* The checks of c do not depend on what a command changes. *)
LEMMA SameChecks ==
  ASSUME UNCHANGED <<commandVars, board>>
  PROVE  /\ \A c \in Ranged : ArgumentsAccepted(c)' <=> ArgumentsAccepted(c)
         /\ \A c : Setting(c)' <=> Setting(c)
         /\ flag' = flag
<1>1. /\ \A c, j : Param(c, j)' = Param(c, j)
      /\ tool' = tool /\ arg' = arg /\ flag' = flag /\ SimLimit' = SimLimit
      /\ \A c : Setting(c)' <=> Setting(c)
  BY SameArguments DEF commandVars, SimLimit
<1>2. \A c \in Ranged : ArgumentsAccepted(c)' <=> ArgumentsAccepted(c)
  BY <1>1 DEF Ranged, ArgumentsAccepted
<1> QED BY <1>1, <1>2

(* A command that has passed its checks, or needs none, lets main go on. *)
LEMMA ProceedChecks ==
  ASSUME RunInv, ChecksPassed, pos \in 0 .. 11, Proceed, UNCHANGED <<commandVars, board>>,
         \A i \in 1 .. 11 : i = pos /\ Order[i] \in Ranged /\ Setting(Order[i])
                                => ArgumentsAccepted(Order[i])
  PROVE  ChecksPassed'
<1>1. pos' \in pos + 1 .. 12 /\ \A j \in pos + 1 .. 11 : Order[j] \in flag => pos' <= j
  BY ProceedStep
<1>2. /\ \A c \in Ranged : ArgumentsAccepted(c)' <=> ArgumentsAccepted(c)
      /\ \A c : Setting(c)' <=> Setting(c)
      /\ flag' = flag
  BY SameChecks
<1> HIDE DEF Order
<1> SUFFICES ASSUME NEW i \in 1 .. 11, i < pos', Order[i] \in Ranged, Order[i] \in flag,
                    Setting(Order[i])
             PROVE  ArgumentsAccepted(Order[i])
  BY <1>2 DEF ChecksPassed
<1>3. i <= pos
  BY <1>1
<1> QED BY <1>3 DEF ChecksPassed

(* The invariant holds from the start, when no command is done. *)
LEMMA ChecksInit == ToolInit => ChecksPassed
  BY DEF ToolInit, ChecksPassed

(* Every step keeps it. *)
LEMMA ChecksStep ==
  ASSUME RunInv, ChecksPassed, [ToolNext]_vars
  PROVE  ChecksPassed'
<1>1. pos \in 0 .. 12 /\ (pos = 12 => result = "ok") /\ (pos > 0 => parsed = "ready")
  BY RunTypes DEF RunInv, StillToDo
<1>2. CASE UNCHANGED <<commandVars, board, pos>>
  BY <1>2, SameChecks DEF ChecksPassed
<1>3. CASE ReadCommandLine /\ UNCHANGED runVars
  <2>1. pos = 0 /\ pos' = 0
    BY <1>1, <1>3 DEF ReadCommandLine, runVars
  <2> QED BY <2>1 DEF ChecksPassed
<1>4. CASE OpenBoard
  <2>1. CASE Proceed
    BY <1>4, <2>1, ProceedChecks DEF OpenBoard
  <2>2. CASE UNCHANGED pos
    BY <1>2, <1>4, <2>2 DEF OpenBoard
  <2> QED BY <1>4, <2>1, <2>2 DEF OpenBoard, Fail
<1>5. ASSUME NEW i \in 1 .. 11, Show(Order[i]) PROVE ChecksPassed'
  <2>1. /\ pos \in 1 .. 11 /\ Order[pos] = Order[i] /\ ~Setting(Order[i])
        /\ UNCHANGED <<commandVars, board>> /\ (Proceed \/ UNCHANGED pos)
    BY <1>5, OrderFacts DEF Show, At, Fail
  <2> HIDE DEF Order
  <2> QED BY <1>2, <2>1, ProceedChecks
<1>6. ASSUME NEW i \in 1 .. 11, Set(Order[i]) PROVE ChecksPassed'
  <2>1. /\ pos \in 1 .. 11 /\ Order[pos] = Order[i]
        /\ UNCHANGED <<commandVars, board>>
        /\ (Proceed /\ Accepted(Order[i])) \/ UNCHANGED pos
    BY <1>6, OrderFacts DEF Set, At, Fail
  <2> HIDE DEF Order
  <2> QED BY <1>2, <2>1, ProceedChecks, AcceptedArguments
<1>7. CASE SetBootloaderMode
  <2>1. pos = 11 /\ Order[11] = "u" /\ UNCHANGED <<commandVars, board>> /\ Proceed
    BY <1>7, OrderFacts DEF SetBootloaderMode, At
  <2>2. "u" \notin Ranged
    BY DEF Ranged
  <2> HIDE DEF Order
  <2> QED BY <2>1, <2>2, ProceedChecks
<1>8. CASE UNCHANGED vars
  BY <1>2, <1>8 DEF vars, runVars
<1>9. DOMAIN Order = 1 .. 11
  BY OrderFacts
<1> QED BY <1>3, <1>4, <1>5, <1>6, <1>7, <1>8, <1>9 DEF ToolNext

(* An unsigned char holds a number up to 255 as it is. *)
LEMMA ByteExact ==
  ASSUME NEW n \in Nat, n <= 255
  PROVE  Byte(n) = n
BY DEF Byte

(* Accepted arguments of one byte are in the ranges of the usage text. *)
LEMMA AcceptedInRange ==
  ASSUME CommandInv, NEW c \in Ranged, Setting(c), ArgumentsAccepted(c),
         \A j \in Narrowed(c) : arg[c][j] <= 255, c = "s" => tool = "std"
  PROVE  InUsageRange(c)
<1>1. CASE c = "p"
  <2>1. Param("p", 1) = arg["p"][1] /\ Param("p", 2) = arg["p"][2]
    BY <1>1, SettingTypes, ByteExact DEF Narrowed, Param
  <2> QED BY <1>1, <2>1 DEF ArgumentsAccepted, InUsageRange
<1>2. CASE c = "s"
  <2>1. Param("s", 1) = arg["s"][1] /\ Param("s", 2) = arg["s"][2] /\ arg["s"][2] \in Nat
    BY <1>2, SettingTypes, ByteExact DEF Narrowed, Param
  <2>2. Param("s", 1) \in {1, 2} /\ Param("s", 2) <= SimLimit /\ tool = "std"
    BY <1>2 DEF ArgumentsAccepted
  <2>3. SimLimit = IF board = "ME10" THEN 6 ELSE 10
    BY <2>2 DEF SimLimit
  <2>4. arg["s"][1] \in 1 .. 2 /\ arg["s"][2] \in 0 .. IF board = "ME10" THEN 6 ELSE 10
    BY <2>1, <2>2, <2>3
  <2>5. InUsageRange("s")
    BY <2>4 DEF InUsageRange
  <2> QED BY <1>2, <2>5
<1>3. CASE c = "f"
  <2>1. arg["f"][1] \in Nat
    BY <1>3, SettingTypes
  <2>2. arg["f"][1] <= Uint16Max
    BY <1>3 DEF ArgumentsAccepted
  <2>3. arg["f"][1] \in 0 .. Uint16Max
    BY <2>1, <2>2, Uint16Types
  <2>4. InUsageRange("f")
    BY <2>3 DEF InUsageRange
  <2> QED BY <1>3, <2>4
<1>4. CASE c = "e"
  <2>1. /\ Param("e", 1) = arg["e"][1] /\ arg["e"][2] \in Nat
        /\ arg["e"][2] = 2 => Param("e", 4) = arg["e"][4] /\ arg["e"][3] \in Nat /\ arg["e"][4] \in Nat
    BY <1>4, SettingTypes, ByteExact DEF Narrowed, Param
  <2>2. /\ arg["e"][1] \in 1 .. 3 /\ arg["e"][2] <= 2
        /\ arg["e"][2] = 2 => arg["e"][3] <= Uint16Max /\ arg["e"][4] <= 100
    BY <1>4, <2>1 DEF ArgumentsAccepted
  <2>3. /\ arg["e"][2] \in 0 .. 2
        /\ arg["e"][2] = 2 => arg["e"][3] \in 0 .. Uint16Max /\ arg["e"][4] \in 0 .. 100
    BY <2>1, <2>2, Uint16Types
  <2>4. InUsageRange("e")
    BY <2>2, <2>3 DEF InUsageRange
  <2> QED BY <1>4, <2>4
<1>5. CASE c = "w"
  <2>1. /\ Param("w", 1) = arg["w"][1] /\ Param("w", 2) = arg["w"][2]
        /\ Param("w", 3) = arg["w"][3]
    BY <1>5, SettingTypes, ByteExact DEF Narrowed, Param
  <2> QED BY <1>5, <2>1 DEF ArgumentsAccepted, InUsageRange
<1>6. CASE c = "r"
  <2>1. Param("r", 1) = arg["r"][1]
    BY <1>6, SettingTypes, ByteExact DEF Narrowed, Param
  <2> QED BY <1>6, <2>1 DEF ArgumentsAccepted, InUsageRange
<1> QED BY <1>1, <1>2, <1>3, <1>4, <1>5, <1>6 DEF Ranged

(* Of the arguments the usage text excludes only those get through that do *)
(* not fit in a byte, and -s of the minimal tool.                          *)
THEOREM BytesAreRefused == ToolSpec => []BytesRefused
<1>1. ToolInit => ChecksPassed
  BY ChecksInit
<1>2. RunInv /\ ChecksPassed /\ [ToolNext]_vars => ChecksPassed'
  BY ChecksStep
<1>3. RunInv /\ ChecksPassed => BytesRefused
  <2> SUFFICES ASSUME RunInv, ChecksPassed, result = "ok", "l" \notin flag,
                      NEW c \in Ranged, c \in flag, Setting(c),
                      \A j \in Narrowed(c) : arg[c][j] <= 255, c = "s" => tool = "std"
               PROVE  InUsageRange(c)
    BY DEF BytesRefused
  <2>1. pos > 11 /\ pos \in Nat
    BY PrefixParts, RunTypes DEF RunInv, Parts
  <2>2. PICK i \in 1 .. 11 : Order[i] = c
    BY OrderFacts DEF Ranged
  <2> HIDE DEF Order
  <2>3. ArgumentsAccepted(c)
    BY <2>1, <2>2 DEF ChecksPassed
  <2> QED BY <2>3, AcceptedInRange DEF RunInv
<1> QED BY <1>1, <1>2, <1>3, RunInvariant, PTL DEF ToolSpec

-----------------------------------------------------------------------------
(* The run implements CommandRun.                                          *)

(* The registers as settings, one kind after the other. *)
KindsAt(f, h, d) ==
    /\ \A m \in Module : <<"p", m, 0>> \in Keys /\ f[<<"p", m, 0>>] = h.power[m]
    /\ \A m \in Module : <<"e", m, 0>> \in Keys /\ f[<<"e", m, 0>>] = LedValue(h.led[m])
    /\ \A m \in {1, 2} : <<"s", m, 0>> \in Keys /\ f[<<"s", m, 0>>] = h.sim[m]
    /\ \A m \in {1, 2} : <<"r", m, 0>> \in Keys /\ f[<<"r", m, 0>>] = h.resets[m]
    /\ \A m \in {1, 2}, s \in {0, 1} : <<"w", m, s>> \in Keys /\ f[<<"w", m, s>>] = h.wwan[<<m, s>>]
    /\ <<"f", 0, 0>> \in Keys /\ f[<<"f", 0, 0>>] = h.offTime
    /\ <<"u", 0, 0>> \in Keys /\ f[<<"u", 0, 0>>] = IF d THEN 1 ELSE 0

LEMMA RegistersAt ==
  ASSUME NEW h, NEW d
  PROVE  /\ KindsAt(Registers(h, d), h, d)
         /\ Registers(h, d) = [k \in Keys |-> Registers(h, d)[k]]
<1>1. /\ \A m \in Module : <<"p", m, 0>> \in Keys /\ <<"e", m, 0>> \in Keys
      /\ \A m \in {1, 2} : <<"s", m, 0>> \in Keys /\ <<"r", m, 0>> \in Keys
      /\ \A m \in {1, 2}, s \in {0, 1} : <<"w", m, s>> \in Keys
      /\ <<"f", 0, 0>> \in Keys /\ <<"u", 0, 0>> \in Keys
  BY DEF Keys, SavedKeys
<1>2. \A m \in Module : Registers(h, d)[<<"p", m, 0>>] = h.power[m]
  BY <1>1 DEF Registers, Register
<1>3. \A m \in Module : Registers(h, d)[<<"e", m, 0>>] = LedValue(h.led[m])
  BY <1>1 DEF Registers, Register
<1>4. \A m \in {1, 2} : Registers(h, d)[<<"s", m, 0>>] = h.sim[m]
  BY <1>1 DEF Registers, Register
<1>5. \A m \in {1, 2} : Registers(h, d)[<<"r", m, 0>>] = h.resets[m]
  BY <1>1 DEF Registers, Register
<1>6. \A m \in {1, 2}, s \in {0, 1} : Registers(h, d)[<<"w", m, s>>] = h.wwan[<<m, s>>]
  BY <1>1 DEF Registers, Register
<1>7. /\ Registers(h, d)[<<"f", 0, 0>>] = h.offTime
      /\ Registers(h, d)[<<"u", 0, 0>>] = IF d THEN 1 ELSE 0
  BY <1>1 DEF Registers, Register
<1>8. Registers(h, d) = [k \in Keys |-> Registers(h, d)[k]]
  BY DEF Registers
<1> QED BY <1>1, <1>2, <1>3, <1>4, <1>5, <1>6, <1>7, <1>8 DEF KindsAt

(* There are no other settings. *)
LEMMA KeyForms ==
  ASSUME NEW k \in Keys
  PROVE  \/ \E m \in Module : k = <<"p", m, 0>> \/ k = <<"e", m, 0>>
         \/ \E m \in {1, 2} : k = <<"s", m, 0>> \/ k = <<"r", m, 0>>
         \/ \E m \in {1, 2}, s \in {0, 1} : k = <<"w", m, s>>
         \/ k = <<"f", 0, 0>> \/ k = <<"u", 0, 0>>
  BY DEF Keys, SavedKeys

(* The registers g with e differ from h with d at most in the setting key. *)
SameBut(key, g, e, h, d) ==
    /\ \A m \in Module : key # <<"p", m, 0>> => g.power[m] = h.power[m]
    /\ \A m \in Module : key # <<"e", m, 0>> => g.led[m] = h.led[m]
    /\ \A m \in {1, 2} : key # <<"s", m, 0>> => g.sim[m] = h.sim[m]
    /\ \A m \in {1, 2} : key # <<"r", m, 0>> => g.resets[m] = h.resets[m]
    /\ \A m \in {1, 2}, s \in {0, 1} : key # <<"w", m, s>> => g.wwan[<<m, s>>] = h.wwan[<<m, s>>]
    /\ key # <<"f", 0, 0>> => g.offTime = h.offTime
    /\ key # <<"u", 0, 0>> => e = d

LEMMA OneSetting ==
  ASSUME NEW g, NEW h, NEW d, NEW e, NEW key \in Keys, SameBut(key, g, e, h, d)
  PROVE  Registers(g, e) = [Registers(h, d) EXCEPT ![key] = Registers(g, e)[key]]
<1> DEFINE G == Registers(g, e)
           H == Registers(h, d)
<1>1. KindsAt(G, g, e) /\ KindsAt(H, h, d)
  BY RegistersAt
<1>2. G = [k \in Keys |-> G[k]] /\ H = [k \in Keys |-> H[k]]
  BY RegistersAt
<1> HIDE DEF G, H
<1>3. \A k \in Keys : k # key => G[k] = H[k]
  <2> SUFFICES ASSUME NEW k \in Keys, k # key PROVE G[k] = H[k]
    OBVIOUS
  <2>1. CASE \E m \in Module : k = <<"p", m, 0>> \/ k = <<"e", m, 0>>
    BY <1>1, <2>1 DEF KindsAt, SameBut
  <2>2. CASE \E m \in {1, 2} : k = <<"s", m, 0>> \/ k = <<"r", m, 0>>
    BY <1>1, <2>2 DEF KindsAt, SameBut
  <2>3. CASE \E m \in {1, 2}, s \in {0, 1} : k = <<"w", m, s>>
    BY <1>1, <2>3 DEF KindsAt, SameBut
  <2>4. CASE k = <<"f", 0, 0>> \/ k = <<"u", 0, 0>>
    BY <1>1, <2>4 DEF KindsAt, SameBut
  <2> QED BY <2>1, <2>2, <2>3, <2>4, KeyForms
<1>4. G = [H EXCEPT ![key] = G[key]]
  BY <1>2, <1>3
<1> QED BY <1>4 DEF G, H

(* The setting that c names and the value it asks for, as main holds them. *)
ArgKey(c) ==
    CASE c = "p" -> <<"p", Param("p", 1), 0>>
      [] c = "s" -> <<"s", SimModem, 0>>
      [] c = "f" -> <<"f", 0, 0>>
      [] c = "e" -> <<"e", Param("e", 1), 0>>
      [] c = "w" -> <<"w", Param("w", 1), Param("w", 2)>>
      [] c = "r" -> <<"r", Param("r", 1), 0>>

ArgValue(c) ==
    CASE c \in {"p", "s"} -> Param(c, 2)
      [] c = "f" -> arg["f"][1]
      [] c = "e" -> LedArgument
      [] c = "w" -> Param("w", 3)
      [] c = "r" -> 1

Changers == {"p", "s", "f", "e", "w", "r"}

(* A report that is accepted changes this setting to this value. *)
LEMMA AppliedSetting ==
  ASSUME CommandInv, hw \in HwType, NEW c \in Changers, Applied(c), Untouched(c), UNCHANGED dfu
  PROVE  /\ ArgKey(c) \in Keys
         /\ board = "F229" => c \notin {"w", "r"}
         /\ Registers(hw', dfu') = [Registers(hw, dfu) EXCEPT ![ArgKey(c)] = ArgValue(c)]
<1>0. Setting(c) /\ Accepted(c) /\ hw' = After(c) /\ dfu' = dfu
  BY DEF Applied
<1>1. KindsAt(Registers(hw', dfu'), hw', dfu')
  BY RegistersAt
<1>2. CASE c = "p"
  <2> DEFINE key == <<"p", Param("p", 1), 0>>
  <2>1. /\ Param("p", 1) \in Module
        /\ hw'.power = [hw.power EXCEPT ![Param("p", 1)] = Param("p", 2)]
        /\ hw'.sim = hw.sim
        /\ hw'.offTime = hw.offTime
        /\ hw'.led = hw.led
        /\ hw'.wwan = hw.wwan
        /\ hw'.resets = hw.resets
    BY <1>0, <1>2, AfterPower
  <2>2. hw.power \in [Module -> Nat]
    BY DEF HwType
  <2>3. key \in Keys /\ Registers(hw', dfu')[key] = Param("p", 2)
    BY <1>1, <2>1, <2>2 DEF KindsAt
  <2>4. \A m \in Module : key # <<"p", m, 0>> => hw'.power[m] = hw.power[m]
    BY <2>1, <2>2
  <2>5. /\ ArgKey("p") = key /\ ArgValue("p") = Param("p", 2)
        /\ \A m : key # <<"e", m, 0>>
        /\ \A m : key # <<"s", m, 0>>
        /\ \A m : key # <<"r", m, 0>>
        /\ \A m, n : key # <<"w", m, n>>
        /\ key # <<"f", 0, 0>>
        /\ key # <<"u", 0, 0>>
    BY DEF ArgKey, ArgValue
  <2> HIDE DEF key
  <2>6. SameBut(key, hw', dfu', hw, dfu)
    BY <1>0, <2>1, <2>4, <2>5 DEF SameBut
  <2>7. Registers(hw', dfu') = [Registers(hw, dfu) EXCEPT ![key] = Registers(hw', dfu')[key]]
    BY <2>3, <2>6, OneSetting
  <2> QED BY <1>2, <2>1, <2>3, <2>5, <2>7
<1>3. CASE c = "s"
  <2> DEFINE key == <<"s", SimModem, 0>>
  <2>1. /\ SimModem \in {1, 2}
        /\ hw'.sim = [hw.sim EXCEPT ![SimModem] = Param("s", 2)]
        /\ hw'.power = hw.power
        /\ hw'.offTime = hw.offTime
        /\ hw'.led = hw.led
        /\ hw'.wwan = hw.wwan
        /\ hw'.resets = hw.resets
    BY <1>0, <1>3, AfterSim
  <2>2. hw.sim \in [{1, 2} -> Nat]
    BY DEF HwType
  <2>3. key \in Keys /\ Registers(hw', dfu')[key] = Param("s", 2)
    BY <1>1, <2>1, <2>2 DEF KindsAt
  <2>4. \A m \in {1, 2} : key # <<"s", m, 0>> => hw'.sim[m] = hw.sim[m]
    BY <2>1, <2>2
  <2>5. /\ ArgKey("s") = key /\ ArgValue("s") = Param("s", 2)
        /\ \A m : key # <<"p", m, 0>>
        /\ \A m : key # <<"e", m, 0>>
        /\ \A m : key # <<"r", m, 0>>
        /\ \A m, n : key # <<"w", m, n>>
        /\ key # <<"f", 0, 0>>
        /\ key # <<"u", 0, 0>>
    BY DEF ArgKey, ArgValue
  <2> HIDE DEF key
  <2>6. SameBut(key, hw', dfu', hw, dfu)
    BY <1>0, <2>1, <2>4, <2>5 DEF SameBut
  <2>7. Registers(hw', dfu') = [Registers(hw, dfu) EXCEPT ![key] = Registers(hw', dfu')[key]]
    BY <2>3, <2>6, OneSetting
  <2> QED BY <1>3, <2>1, <2>3, <2>5, <2>7
<1>4. CASE c = "f"
  <2> DEFINE key == <<"f", 0, 0>>
  <2>1. /\ hw'.offTime = arg["f"][1]
        /\ hw'.power = hw.power
        /\ hw'.sim = hw.sim
        /\ hw'.led = hw.led
        /\ hw'.wwan = hw.wwan
        /\ hw'.resets = hw.resets
    BY <1>0, <1>4, AfterOffTime
  <2>3. key \in Keys /\ Registers(hw', dfu')[key] = arg["f"][1]
    BY <1>1, <2>1 DEF KindsAt
  <2>4. key = <<"f", 0, 0>>
    OBVIOUS
  <2>5. /\ ArgKey("f") = key /\ ArgValue("f") = arg["f"][1]
        /\ \A m : key # <<"p", m, 0>>
        /\ \A m : key # <<"e", m, 0>>
        /\ \A m : key # <<"s", m, 0>>
        /\ \A m : key # <<"r", m, 0>>
        /\ \A m, n : key # <<"w", m, n>>
        /\ key # <<"u", 0, 0>>
    BY DEF ArgKey, ArgValue
  <2> HIDE DEF key
  <2>6. SameBut(key, hw', dfu', hw, dfu)
    BY <1>0, <2>1, <2>4, <2>5 DEF SameBut
  <2>7. Registers(hw', dfu') = [Registers(hw, dfu) EXCEPT ![key] = Registers(hw', dfu')[key]]
    BY <2>3, <2>6, OneSetting
  <2> QED BY <1>4, <2>1, <2>3, <2>5, <2>7
<1>5. CASE c = "e"
  <2> DEFINE key == <<"e", Param("e", 1), 0>>
  <2>0. PICK l : hw'.led = [hw.led EXCEPT ![Param("e", 1)] = l] /\ LedValue(l) = LedArgument
    BY <1>0, <1>5, AfterLed
  <2>1. /\ Param("e", 1) \in Module
        /\ hw'.power = hw.power
        /\ hw'.sim = hw.sim
        /\ hw'.offTime = hw.offTime
        /\ hw'.wwan = hw.wwan
        /\ hw'.resets = hw.resets
    BY <1>0, <1>5, AfterLed
  <2>2. hw.led \in [Module -> [mode : Nat, period : Nat, duty : Nat]]
    BY DEF HwType
  <2>3. key \in Keys /\ Registers(hw', dfu')[key] = LedArgument
    BY <1>1, <2>0, <2>1, <2>2 DEF KindsAt
  <2>4. \A m \in Module : key # <<"e", m, 0>> => hw'.led[m] = hw.led[m]
    BY <2>0, <2>1, <2>2
  <2>5. /\ ArgKey("e") = key /\ ArgValue("e") = LedArgument
        /\ \A m : key # <<"p", m, 0>>
        /\ \A m : key # <<"s", m, 0>>
        /\ \A m : key # <<"r", m, 0>>
        /\ \A m, n : key # <<"w", m, n>>
        /\ key # <<"f", 0, 0>>
        /\ key # <<"u", 0, 0>>
    BY DEF ArgKey, ArgValue
  <2> HIDE DEF key
  <2>6. SameBut(key, hw', dfu', hw, dfu)
    BY <1>0, <2>1, <2>4, <2>5 DEF SameBut
  <2>7. Registers(hw', dfu') = [Registers(hw, dfu) EXCEPT ![key] = Registers(hw', dfu')[key]]
    BY <2>3, <2>6, OneSetting
  <2> QED BY <1>5, <2>1, <2>3, <2>5, <2>7
<1>6. CASE c = "w"
  <2> DEFINE key == <<"w", Param("w", 1), Param("w", 2)>>
  <2>1. /\ board # "F229" /\ <<Param("w", 1), Param("w", 2)>> \in Signal
        /\ hw'.wwan = [hw.wwan EXCEPT ![<<Param("w", 1), Param("w", 2)>>] = Param("w", 3)]
        /\ hw'.power = hw.power
        /\ hw'.sim = hw.sim
        /\ hw'.offTime = hw.offTime
        /\ hw'.led = hw.led
        /\ hw'.resets = hw.resets
    BY <1>0, <1>6, AfterWwan
  <2>2. hw.wwan \in [Signal -> Nat]
    BY DEF HwType
  <2>3. key \in Keys /\ Registers(hw', dfu')[key] = Param("w", 3)
    BY <1>1, <2>1, <2>2 DEF KindsAt, Signal
  <2>4. \A m \in {1, 2}, s \in {0, 1} : key # <<"w", m, s>> => hw'.wwan[<<m, s>>] = hw.wwan[<<m, s>>]
    BY <2>1, <2>2 DEF Signal
  <2>5. /\ ArgKey("w") = key /\ ArgValue("w") = Param("w", 3)
        /\ \A m : key # <<"p", m, 0>>
        /\ \A m : key # <<"e", m, 0>>
        /\ \A m : key # <<"s", m, 0>>
        /\ \A m : key # <<"r", m, 0>>
        /\ key # <<"f", 0, 0>>
        /\ key # <<"u", 0, 0>>
    BY DEF ArgKey, ArgValue
  <2> HIDE DEF key
  <2>6. SameBut(key, hw', dfu', hw, dfu)
    BY <1>0, <2>1, <2>4, <2>5 DEF SameBut
  <2>7. Registers(hw', dfu') = [Registers(hw, dfu) EXCEPT ![key] = Registers(hw', dfu')[key]]
    BY <2>3, <2>6, OneSetting
  <2> QED BY <1>6, <2>1, <2>3, <2>5, <2>7
<1>7. CASE c = "r"
  <2> DEFINE key == <<"r", Param("r", 1), 0>>
  <2>1. /\ board # "F229" /\ Param("r", 1) \in {1, 2}
        /\ hw'.resets = [hw.resets EXCEPT ![Param("r", 1)] = @ + 1]
        /\ hw'.power = hw.power
        /\ hw'.sim = hw.sim
        /\ hw'.offTime = hw.offTime
        /\ hw'.led = hw.led
        /\ hw'.wwan = hw.wwan
    BY <1>0, <1>7, AfterReset
  <2>2. hw.resets \in [{1, 2} -> Nat]
    BY DEF HwType
  <2>8. hw.resets[Param("r", 1)] = 0
    BY <1>7, <2>1 DEF Untouched, Factory
  <2>3. key \in Keys /\ Registers(hw', dfu')[key] = 1
    BY <1>1, <2>8, <2>1, <2>2 DEF KindsAt
  <2>4. \A m \in {1, 2} : key # <<"r", m, 0>> => hw'.resets[m] = hw.resets[m]
    BY <2>1, <2>2
  <2>5. /\ ArgKey("r") = key /\ ArgValue("r") = 1
        /\ \A m : key # <<"p", m, 0>>
        /\ \A m : key # <<"e", m, 0>>
        /\ \A m : key # <<"s", m, 0>>
        /\ \A m, n : key # <<"w", m, n>>
        /\ key # <<"f", 0, 0>>
        /\ key # <<"u", 0, 0>>
    BY DEF ArgKey, ArgValue
  <2> HIDE DEF key
  <2>6. SameBut(key, hw', dfu', hw, dfu)
    BY <1>0, <2>1, <2>4, <2>5 DEF SameBut
  <2>7. Registers(hw', dfu') = [Registers(hw, dfu) EXCEPT ![key] = Registers(hw', dfu')[key]]
    BY <2>3, <2>6, OneSetting
  <2> QED BY <1>7, <2>1, <2>3, <2>5, <2>7
<1> QED BY <1>2, <1>3, <1>4, <1>5, <1>6, <1>7 DEF Changers

(* What main holds when it has read the line is the plan of the line. *)
LEMMA PlanRead ==
  ASSUME CommandInv, ReadAsWritten, parsed = "ready"
  PROVE  /\ \A i \in 1 .. 11 : Order[i] \in flag <=> Order[i] \in Asked
         /\ Asked = {Order[i] : i \in {j \in 1 .. 11 : Order[j] \in flag}}
         /\ "l" \in flag <=> Plan.list
         /\ \A c \in Asked : Setting(c) <=> c \in DOMAIN Plan.changes
<1>1. /\ \A o \in {"l", "p", "f", "e", "w", "r", "t", "T", "G", "u"} : o \in flag <=> Given(o) # {}
      /\ "s" \in flag <=> Given("s") \ LegacySave # {}
      /\ "c" \in flag <=> SaveGiven \/ Given("c") # {}
      /\ arg["c"] = <<IF SaveGiven THEN 1 ELSE 0>>
      /\ arg["f"][1] = Written("f", 1) /\ arg["e"][1] = Written("e", 1)
  BY DEF ReadAsWritten
<1>2. arg["p"][1] = Written("p", 1) /\ arg["s"][1] = Written("s", 1) /\ arg["w"][1] = Written("w", 1)
  <2>1. 1 \in DOMAIN arg["p"] /\ 1 \in DOMAIN arg["s"] /\ 1 \in DOMAIN arg["w"]
    BY ArgTypes DEF CommandInv, ArgLetters
  <2> QED BY <2>1 DEF ReadAsWritten
<1>3. \A i \in 1 .. 11 : Order[i] \in flag <=> IsAsked(Order[i])
  BY <1>1, OrderFacts DEF IsAsked
<1>4. \A c \in {Order[i] : i \in 1 .. 11} : Setting(c) <=> Changing(c)
  <2> SUFFICES ASSUME NEW i \in 1 .. 11 PROVE Setting(Order[i]) <=> Changing(Order[i])
    OBVIOUS
  <2>1. Setting("c") <=> Changing("c")
    BY <1>1 DEF Setting, Changing
  <2>2. \A c \in {"p", "s", "e", "w"} : Setting(c) <=> Changing(c)
    BY <1>1, <1>2 DEF Setting, Changing
  <2>3. \A c \in {"f", "r", "u", "t", "T", "G"} : Setting(c) <=> Changing(c)
    BY <1>1 DEF Setting, Changing
  <2> QED BY <2>1, <2>2, <2>3, OrderFacts
<1> HIDE DEF Order
<1>5. DOMAIN Order = 1 .. 11
  BY OrderFacts
<1>6. \A c : c \in Asked <=> c \in {Order[i] : i \in 1 .. 11} /\ IsAsked(c)
  BY <1>5 DEF Asked
<1>7. \A c \in Asked : Setting(c) <=> c \in DOMAIN Plan.changes
  BY <1>4, <1>6 DEF Plan
<1>8. "l" \in flag <=> Plan.list
  BY <1>1 DEF Plan
<1>9. Asked = {Order[i] : i \in {j \in 1 .. 11 : Order[j] \in flag}}
  BY <1>3, <1>6
<1> QED BY <1>3, <1>6, <1>7, <1>8, <1>9

(* In a state where it is accepted, a command changes what its words name. *)
LEMMA PlannedChange ==
  ASSUME CommandInv, ReadAsWritten, parsed = "ready",
         NEW c \in Changers, c \in flag, Setting(c), Accepted(c)
  PROVE  ChangeOf(c).key = ArgKey(c) /\ ChangeOf(c).value = ArgValue(c)
<1>1. \A o \in {"p", "s", "w"} : \A j \in DOMAIN arg[o] : arg[o][j] = Written(o, j)
  BY DEF ReadAsWritten
<1>2. /\ DOMAIN arg["p"] = {1, 2} /\ DOMAIN arg["s"] = {1, 2} /\ DOMAIN arg["w"] = {1, 2, 3}
  BY ArgTypes DEF CommandInv, ArgLetters
<1>3. /\ Param("p", 1) = WrittenByte("p", 1) /\ Param("p", 2) = WrittenByte("p", 2)
      /\ Param("s", 1) = WrittenByte("s", 1) /\ Param("s", 2) = WrittenByte("s", 2)
      /\ Param("w", 1) = WrittenByte("w", 1) /\ Param("w", 2) = WrittenByte("w", 2)
      /\ Param("w", 3) = WrittenByte("w", 3)
  BY <1>1, <1>2 DEF Param, WrittenByte
<1>4. CASE c = "p"
  BY <1>3, <1>4 DEF ChangeOf, ArgKey, ArgValue
<1>5. CASE c = "s"
  <2>1. Param("s", 1) \in IF tool = "std" THEN {1, 2} ELSE 1 .. 3
    BY <1>5 DEF Accepted, Module
  <2>2. tool \in {"std", "minimal"}
    BY DEF CommandInv, CommandTypeOK
  <2>3. SimModem = IF tool = "minimal" /\ Param("s", 1) = 3 THEN 2 ELSE Param("s", 1)
    BY <2>1, <2>2 DEF SimModem
  <2> QED BY <1>3, <1>5, <2>3 DEF ChangeOf, ArgKey, ArgValue
<1>6. CASE c = "f"
  <2>1. arg["f"][1] = Written("f", 1)
    BY DEF ReadAsWritten
  <2>2. ChangeOf("f").key = ArgKey("f") /\ ChangeOf("f").value = ArgValue("f")
    BY <2>1 DEF ChangeOf, ArgKey, ArgValue
  <2> QED BY <1>6, <2>2
<1>7. CASE c = "e"
  <2>1. /\ arg["e"][1] = Written("e", 1) /\ arg["e"][2] = Written("e", 2)
        /\ arg["e"][2] = 2 => <<arg["e"][3], arg["e"][4]>> = WrittenBlink
    BY DEF ReadAsWritten
  <2>2. LedArgument = IF Written("e", 2) = 2
                      THEN <<2, WrittenBlink[1], Byte(WrittenBlink[2])>>
                      ELSE <<Written("e", 2), 0, 0>>
    BY <2>1 DEF LedArgument, Param
  <2>3. Param("e", 1) = WrittenByte("e", 1)
    BY <2>1 DEF Param, WrittenByte
  <2> QED BY <1>7, <2>2, <2>3 DEF ChangeOf, ArgKey, ArgValue
<1>8. CASE c = "w"
  BY <1>3, <1>8 DEF ChangeOf, ArgKey, ArgValue
<1>9. CASE c = "r"
  <2>1. arg["r"][1] = WrittenReset
    BY <1>9 DEF ReadAsWritten
  <2> QED BY <1>9, <2>1 DEF ChangeOf, ArgKey, ArgValue, Param
<1> QED BY <1>4, <1>5, <1>6, <1>7, <1>8, <1>9 DEF Changers

(* The plan is that of the line, which stays as it is. *)
LEMMA SamePlan ==
  ASSUME UNCHANGED <<tool, argv>>
  PROVE  Plan' = Plan /\ Asked' = Asked
<1>1. /\ \A k : IsOption(k)' <=> IsOption(k)
      /\ \A k : TakesNext(k)' <=> TakesNext(k)
      /\ \A k : HasOptionalArg(k)' <=> HasOptionalArg(k)
      /\ \A k : IsDigit(k)' <=> IsDigit(k)
      /\ \A o : Option(o)' = Option(o)
  BY DEF IsOption, TakesNext, HasOptionalArg, IsDigit, Option
<1>2. \A k : IsArgument(k)' <=> IsArgument(k)
  BY <1>1 DEF IsArgument
<1>3. \A o : Given(o)' = Given(o)
  BY <1>1, <1>2 DEF Given
<1>4. LegacySave' = LegacySave
  BY <1>1, <1>3 DEF LegacySave
<1>5. SaveGiven' <=> SaveGiven
  BY <1>3, <1>4 DEF SaveGiven
<1>6. \A k, old : Scanned(k, old)' = Scanned(k, old)
  BY <1>1 DEF Scanned
<1>7. \A o, j : Written(o, j)' = Written(o, j)
  <2> SUFFICES ASSUME NEW o, NEW j PROVE Written(o, j)' = Written(o, j)
    OBVIOUS
  <2> DEFINE S == {k \in Given(o) \ LegacySave : HasOptionalArg(k) /\ (j = 1 => IsDigit(k + 1))}
  <2>1. S' = S
    BY <1>1, <1>3, <1>4
  <2>2. Written(o, j) = IF S = {} THEN NoArguments[o][j] ELSE Scanned(Max(S) + j, Unset)
    BY DEF Written
  <2>3. Written(o, j)' = IF S' = {} THEN NoArguments[o][j] ELSE Scanned(Max(S) + j, Unset)'
    BY Zenon DEF Written, NoArguments, Unset
  <2>4. Scanned(Max(S) + j, Unset)' = Scanned(Max(S) + j, Unset)
    BY <1>6, <2>1 DEF Scanned, IsDigit
  <2> HIDE DEF S
  <2> QED BY <2>1, <2>2, <2>3, <2>4
<1>8. WrittenReset' = WrittenReset /\ WrittenBlink' = WrittenBlink
  <2>1. Given("r")' = Given("r")
    BY <1>3
  <2> DEFINE S == {k \in Given("e") : HasOptionalArg(k)}
  <2>2. S' = S
    BY <1>1, <1>3
  <2>3. \A k : ResetOf(k)' = ResetOf(k) /\ BlinkOf(k)' = BlinkOf(k)
    BY DEF ResetOf, BlinkOf, Scanned, IsDigit, Unset
  <2>4. WrittenReset' = WrittenReset
    BY <2>1, <2>3 DEF WrittenReset
  <2>5. WrittenBlink' = WrittenBlink
    BY <2>2, <2>3 DEF WrittenBlink
  <2> QED BY <2>4, <2>5
<1>9. \A c : IsAsked(c)' <=> IsAsked(c)
  BY <1>3, <1>4, <1>5 DEF IsAsked
<1>10. Asked' = Asked
  BY <1>9 DEF Asked, Order
<1>11. \A c : Changing(c)' <=> Changing(c)
  BY <1>5, <1>7 DEF Changing
<1>12. \A c, j : WrittenByte(c, j)' = WrittenByte(c, j)
  BY <1>7 DEF WrittenByte
<1>13. \A c : ChangeOf(c)' = ChangeOf(c)
  BY <1>7, <1>8, <1>12 DEF ChangeOf
<1>14. {c \in Asked : Changing(c)}' = {c \in Asked : Changing(c)}
  BY <1>10, <1>11
<1>15. [c \in {a \in Asked : Changing(a)} |-> ChangeOf(c)]' = [c \in {a \in Asked : Changing(a)} |-> ChangeOf(c)]
  BY <1>13, <1>14
<1>16. (Given("l") # {})' <=> Given("l") # {}
  BY <1>3
<1>17. (Given("l") # {})' = (Given("l") # {})
  BY <1>16
<1> QED BY <1>10, <1>15, <1>17 DEF Plan

(* The ranges of all the registers, as far as they depend on no argument. *)
RangesOf(h) ==
    /\ \A m \in Module : h.power[m] \in {0, 1}
    /\ \A m \in Module : /\ h.led[m].mode \in 0 .. 2
                          /\ h.led[m].period \in 0 .. Uint16Max
                          /\ h.led[m].duty \in 0 .. 100
    /\ \A m \in {1, 2} : h.sim[m] \in 0 .. SimLimit
    /\ \A m \in {1, 2} : h.resets[m] \in {0, 1}
    /\ \A s \in Signal : h.wwan[s] \in {0, 1}
    /\ h.offTime \in 0 .. Uint16Max
    /\ h.sim[1] # h.sim[2] \/ h.sim[1] = 0

LEMMA LedValueParts ==
  ASSUME NEW l
  PROVE  LedValue(l)[1] = l.mode /\ LedValue(l)[2] = l.period /\ LedValue(l)[3] = l.duty
<1> DEFINE a == l.mode
           b == l.period
           c == l.duty
<1>1. LedValue(l) = <<a, b, c>>
  BY DEF LedValue
<1> HIDE DEF a, b, c
<1>2. LedValue(l)[1] = a /\ LedValue(l)[2] = b /\ LedValue(l)[3] = c
  BY <1>1
<1> QED BY <1>2 DEF a, b, c

LEMMA SameKeys == Run!Keys = Keys /\ Run!SavedKeys = SavedKeys /\ Run!Uint16Max = Uint16Max
<1>1. Run!Keys = Keys /\ Run!SavedKeys = SavedKeys
  BY DEF Run!Keys, Run!SavedKeys, Keys, SavedKeys, Module
<1>2. Run!Uint16Max = Uint16Max
  BY DEF Run!Uint16Max, Uint16Max
<1> QED BY <1>1, <1>2

(* Such registers are legal settings. *)
LEMMA LegalSettings ==
  ASSUME NEW h, NEW d, RangesOf(h)
  PROVE  Run!Legal(Registers(h, d))
<1> DEFINE f == Registers(h, d)
<1>1. KindsAt(f, h, d)
  BY RegistersAt
<1> HIDE DEF f
<1>2. ASSUME NEW k \in Keys PROVE Run!InRange(k, f[k])
  <2>1. CASE \E m \in Module : k = <<"p", m, 0>>
    BY <1>1, <2>1 DEF KindsAt, RangesOf, Run!InRange
  <2>2. CASE \E m \in Module : k = <<"e", m, 0>>
    <3>1. PICK m \in Module : k = <<"e", m, 0>> /\ f[k] = LedValue(h.led[m])
      BY <1>1, <2>2 DEF KindsAt
    <3>2. /\ f[k][1] = h.led[m].mode /\ f[k][2] = h.led[m].period /\ f[k][3] = h.led[m].duty
      BY <3>1, LedValueParts
    <3>3. f[k][1] \in 0 .. 2 /\ f[k][2] \in 0 .. Uint16Max /\ f[k][3] \in 0 .. 100
      BY <3>1, <3>2 DEF RangesOf
    <3> QED BY <3>1, <3>3, SameKeys DEF Run!InRange
  <2>3. CASE \E m \in {1, 2} : k = <<"s", m, 0>>
    BY <1>1, <2>3 DEF KindsAt, RangesOf, Run!InRange, SimLimit
  <2>4. CASE \E m \in {1, 2} : k = <<"r", m, 0>>
    BY <1>1, <2>4 DEF KindsAt, RangesOf, Run!InRange
  <2>5. CASE \E m \in {1, 2}, s \in {0, 1} : k = <<"w", m, s>>
    BY <1>1, <2>5 DEF KindsAt, RangesOf, Run!InRange, Signal
  <2>6. CASE k = <<"f", 0, 0>>
    BY <1>1, <2>6, SameKeys DEF KindsAt, RangesOf, Run!InRange
  <2>7. CASE k = <<"u", 0, 0>>
    BY <1>1, <2>7 DEF KindsAt, Run!InRange
  <2> QED BY <2>1, <2>2, <2>3, <2>4, <2>5, <2>6, <2>7, KeyForms
<1>3. f[<<"s", 1, 0>>] # f[<<"s", 2, 0>>] \/ f[<<"s", 1, 0>>] = 0
  BY <1>1 DEF KindsAt, RangesOf
<1>4. Run!Legal(f)
  BY <1>2, <1>3, SameKeys DEF Run!Legal
<1> QED BY <1>4 DEF f

(* What the refinement needs beyond the invariants above: the cards exist, *)
(* a modem is reset at most once, and -l keeps main from the commands.     *)
RefineInv ==
    /\ \A m \in {1, 2} : hw.sim[m] \in 0 .. SimLimit /\ hw.resets[m] \in {0, 1}
    /\ pos > 0 => "l" \notin flag

LEMMA Ranges ==
  RunInv /\ RefineInv => RangesOf(hw)
  BY DEF RunInv, RefineInv, RegistersInRange, RangesOf

(* main reads the line and does not change it. *)
LEMMA ReadingKeepsLine ==
  ASSUME ReadCommandLine PROVE UNCHANGED <<tool, argv>>
<1>1. CASE EndOfOptions
  BY <1>1 DEF EndOfOptions, Stop
<1>2. ASSUME NEW k \in 1 .. Len(argv), GetOption(k) PROVE UNCHANGED <<tool, argv>>
  BY <1>2 DEF GetOption, PairOption, OffTimeOption, ConfigOption, LedOption, WwanOption,
              RequiredOption, DeviceOption, FlagOption, Bare, Take, Stop
<1> QED BY <1>1, <1>2 DEF ReadCommandLine

LEMMA RefineInvInit == ToolInit => RefineInv
<1> SUFFICES ASSUME ToolInit PROVE RefineInv
  OBVIOUS
<1>1. hw = Factory /\ pos = 0
  BY DEF ToolInit
<1>2. hw.sim = <<1, 2>> /\ hw.resets = <<0, 0>>
  BY <1>1 DEF Factory
<1>3. 1 \in 0 .. SimLimit /\ 2 \in 0 .. SimLimit
  BY DEF SimLimit
<1> QED BY <1>1, <1>2, <1>3 DEF RefineInv

LEMMA RefineInvStep ==
  ASSUME RunInv, RefineInv, [ToolNext]_vars PROVE RefineInv'
<1>1. pos \in 0 .. 12 /\ (pos > 0 => parsed = "ready") /\ hw \in HwType /\ CommandInv
  BY RunTypes DEF RunInv, StillToDo
<1>2. CASE UNCHANGED <<commandVars, board, hw>> /\ (pos > 0 \/ pos' = pos)
  <2>1. SimLimit' = SimLimit /\ hw' = hw /\ flag' = flag
    BY <1>2 DEF SimLimit, commandVars
  <2> QED BY <1>1, <1>2, <2>1 DEF RefineInv
<1>3. CASE ReadCommandLine /\ UNCHANGED runVars
  <2>1. pos' = 0 /\ hw' = hw /\ SimLimit' = SimLimit
    BY <1>1, <1>3, ReadingKeepsLine DEF ReadCommandLine, runVars, SimLimit
  <2> QED BY <2>1 DEF RefineInv
<1>4. CASE OpenBoard
  <2>1. SimLimit' = SimLimit /\ hw' = hw /\ flag' = flag /\ pos = 0
        /\ (pos' = pos \/ "l" \notin flag)
    BY <1>4 DEF OpenBoard, Fail, SimLimit, commandVars
  <2> QED BY <2>1 DEF RefineInv
<1>5. ASSUME NEW i \in 1 .. 11, Show(Order[i]) PROVE RefineInv'
  <2>1. pos \in 1 .. 11 /\ UNCHANGED <<commandVars, board, hw>>
    BY <1>5, OrderFacts DEF Show, At
  <2> QED BY <1>2, <2>1
<1>6. CASE SetBootloaderMode
  <2>1. pos \in 1 .. 11 /\ UNCHANGED <<commandVars, board, hw>>
    BY <1>6, OrderFacts DEF SetBootloaderMode, At
  <2> QED BY <1>2, <2>1
<1>7. ASSUME NEW i \in 1 .. 11, Set(Order[i]) PROVE RefineInv'
  <2> DEFINE c == Order[i]
  <2>1. /\ pos \in 1 .. 11 /\ Order[pos] = c /\ result = "none" /\ Setting(c)
        /\ UNCHANGED <<commandVars, board, dfu>> /\ c \in Setters
    BY <1>7, OrderFacts DEF Set, At, Setters, Setting
  <2>2. Untouched(c)
    BY <2>1 DEF RunInv, StillToDo
  <2> HIDE DEF c
  <2>3. CASE UNCHANGED hw
    BY <1>2, <2>1, <2>3
  <2>4. CASE Applied(c)
    <3>1. SimLimit' = SimLimit /\ flag' = flag /\ hw' = After(c) /\ Accepted(c)
      BY <2>4 DEF Applied, SimLimit, commandVars
    <3>2. \A m \in {1, 2} : hw'.sim[m] \in 0 .. SimLimit
      <4>1. CASE c = "s"
        <5>1. /\ hw'.sim = [hw.sim EXCEPT ![SimModem] = Param("s", 2)]
              /\ Param("s", 2) \in Nat /\ hw.sim \in [{1, 2} -> Nat]
          BY <1>1, <2>1, <3>1, <4>1, AfterSim DEF HwType
        <5>2. Param("s", 2) <= SimLimit /\ SimLimit \in Nat
          BY <3>1, <4>1 DEF Accepted, SimLimit
        <5> QED BY <5>1, <5>2 DEF RefineInv
      <4>2. CASE c # "s"
        BY <1>1, <2>1, <2>4, <4>2, AppliedKeepsFields DEF RefineInv
      <4> QED BY <4>1, <4>2
    <3>3. \A m \in {1, 2} : hw'.resets[m] \in {0, 1}
      <4>1. CASE c = "r"
        <5>1. hw'.resets = [hw.resets EXCEPT ![Param("r", 1)] = @ + 1] /\ hw.resets = <<0, 0>>
          BY <1>1, <2>1, <2>2, <3>1, <4>1, AfterReset DEF Untouched, Factory
        <5> QED BY <5>1
      <4>2. CASE c # "r"
        BY <1>1, <2>1, <2>4, <4>2, AppliedKeepsFields DEF RefineInv
      <4> QED BY <4>1, <4>2
    <3>4. "l" \notin flag'
      BY <2>1, <3>1 DEF RefineInv
    <3> QED BY <3>1, <3>2, <3>3, <3>4 DEF RefineInv
  <2>5. Set(c) => UNCHANGED hw \/ Applied(c)
    BY <2>1 DEF Set, Applied
  <2> QED BY <1>7, <2>3, <2>4, <2>5 DEF c
<1>8. CASE UNCHANGED vars
  BY <1>2, <1>8 DEF vars, runVars
<1>9. DOMAIN Order = 1 .. 11
  BY OrderFacts
<1> QED BY <1>3, <1>4, <1>5, <1>6, <1>7, <1>8, <1>9 DEF ToolNext

(* The order of main is that of the plan. *)
LEMMA SameSequence ==
  /\ Run!Sequence = Order /\ Run!Commands = {Order[i] : i \in 1 .. 11}
  /\ \A i, j \in 1 .. 11 : Order[i] = Order[j] => i = j
<1>1. Run!Sequence = Order
  BY DEF Run!Sequence, Order
<1>2. Run!Commands = {Order[i] : i \in 1 .. 11}
  <2>1. DOMAIN Order = 1 .. 11
    BY OrderFacts
  <2> HIDE DEF Order
  <2> QED BY <1>1, <2>1 DEF Run!Commands
<1>3. \A i, j \in 1 .. 11 : Order[i] = Order[j] => i = j
  BY OrderFacts
<1> QED BY <1>1, <1>2, <1>3

(* The commands that are left are those from pos on. *)
LEMMA LeftFrom ==
  ASSUME pos \in 1 .. 12
  PROVE  /\ Left = {Order[i] : i \in {j \in pos .. 11 : Order[j] \in Asked}}
         /\ \A i \in 1 .. 11 : Order[i] \in Left <=> i >= pos /\ Order[i] \in Asked
<1>1. Left = {Order[i] : i \in {j \in pos .. 11 : Order[j] \in Asked}}
  BY OrderFacts DEF Left
<1> HIDE DEF Order
<1> QED BY <1>1, SameSequence

(* It is the turn of the command main is at. *)
LEMMA TurnAt ==
  ASSUME RunInv, ReadAsWritten, RefineInv, pos \in 1 .. 11, result = "none"
  PROVE  /\ Order[pos] \in Asked /\ Run!Turn(Order[pos]) /\ Order[pos] \in Run!Commands
         /\ Setting(Order[pos]) <=> Order[pos] \in DOMAIN Plan.changes
<1>1. parsed = "ready" /\ Order[pos] \in flag /\ "l" \notin flag /\ CommandInv
  BY DEF RunInv, StillToDo, RefineInv
<1>2. Order[pos] \in Asked /\ ~Plan.list /\ (Setting(Order[pos]) <=> Order[pos] \in DOMAIN Plan.changes)
  BY <1>1, PlanRead
<1>3. DOMAIN Order = 1 .. 11
  BY OrderFacts
<1> HIDE DEF Order
<1>4. Order[pos] \in Left /\ \A j \in 1 .. pos - 1 : Order[j] \notin Left
  BY <1>2, LeftFrom
<1>5. Run!Turn(Order[pos])
  BY <1>2, <1>3, <1>4, SameSequence DEF Run!Turn
<1> QED BY <1>2, <1>5, SameSequence

(* Once main goes on, the command is no longer left. *)
LEMMA ProceedPasses ==
  ASSUME RunInv, ReadAsWritten, pos \in 1 .. 11, result = "none", Proceed, UNCHANGED commandVars
  PROVE  Run!Pass(Order[pos])
<1>1. /\ pos' \in pos + 1 .. 12 /\ pos' \in 1 .. 12
      /\ pos' <= 11 => Order[pos'] \in flag /\ result' = "none"
      /\ pos' = 12 => result' = "ok"
      /\ \A j \in pos + 1 .. 11 : Order[j] \in flag => pos' <= j
  BY ProceedStep
<1>2. Asked' = Asked
  BY SamePlan DEF commandVars
<1>3. \A i \in 1 .. 11 : Order[i] \in flag <=> Order[i] \in Asked
  BY PlanRead DEF RunInv, StillToDo
<1>4. Left = {Order[i] : i \in {j \in pos .. 11 : Order[j] \in Asked}}
  BY LeftFrom
<1>5. Left' = {Order[i] : i \in {j \in pos' .. 11 : Order[j] \in Asked}}
  BY <1>1, <1>2, OrderFacts DEF Left
<1> HIDE DEF Order
<1>6. Left' = Left \ {Order[pos]}
  <2>1. ASSUME NEW i \in pos .. 11, Order[i] \in Asked, i # pos PROVE i \in pos' .. 11
    BY <1>1, <1>3, <2>1
  <2>2. ASSUME NEW i \in pos' .. 11, Order[i] \in Asked PROVE i \in pos .. 11 /\ Order[i] # Order[pos]
    BY <1>1, <2>2, SameSequence
  <2> QED BY <1>4, <1>5, <2>1, <2>2
<1>7. Left' = {} <=> pos' = 12
  <2>1. CASE pos' = 12
    BY <1>5, <2>1
  <2>2. CASE pos' <= 11
    <3>1. pos' \in pos' .. 11 /\ Order[pos'] \in Asked
      BY <1>1, <1>3, <2>2
    <3> QED BY <1>5, <2>2, <3>1
  <2> QED BY <1>1, <2>1, <2>2
<1> QED BY <1>1, <1>6, <1>7 DEF Run!Pass

(* A run that stays where it is has the same commands left. *)
LEMMA StaysLeft ==
  ASSUME UNCHANGED <<tool, argv, pos>> PROVE Left' = Left
<1>1. Asked' = Asked
  BY SamePlan
<1> QED BY <1>1 DEF Left, Order

(* The run starts as the plan says. *)
LEMMA RefineInit == ToolInit => Run!RunInit
<1> SUFFICES ASSUME ToolInit PROVE Run!RunInit
  OBVIOUS
<1>1. hw = Factory /\ dfu = FALSE /\ pos = 0 /\ result = "none"
  BY DEF ToolInit
<1>2. Run!Legal(Registers(hw, dfu))
  BY RunInitInv, RefineInvInit, Ranges, LegalSettings
<1>3. DOMAIN Registers(hw, dfu) = Run!Keys /\ DOMAIN Stored(flash) = Run!SavedKeys
  BY SameKeys DEF Registers, Stored
<1>4. \A k \in Run!Keys : k[1] \in {"r", "u"} => Registers(hw, dfu)[k] = 0
  <2> SUFFICES ASSUME NEW k \in Keys, k[1] \in {"r", "u"} PROVE Registers(hw, dfu)[k] = 0
    BY SameKeys
  <2>1. (\E m \in {1, 2} : k = <<"r", m, 0>>) \/ k = <<"u", 0, 0>>
    BY KeyForms
  <2>2. KindsAt(Registers(hw, dfu), hw, dfu) /\ hw.resets = <<0, 0>> /\ ~dfu
    BY <1>1, RegistersAt DEF Factory
  <2> QED BY <2>1, <2>2 DEF KindsAt
<1>5. Plan.asked = Asked /\ Left = Asked /\ DOMAIN Plan.changes \subseteq Asked
  BY <1>1 DEF Plan, Left
<1>6. Asked \subseteq Run!Commands
  BY OrderFacts, SameSequence DEF Asked
<1> QED BY <1>1, <1>2, <1>3, <1>4, <1>5, <1>6 DEF Run!RunInit

(* The next settings, of the registers after the step. *)
LEMMA SettingsPrimed ==
  /\ Registers(hw, dfu)' = Registers(hw', dfu')
  /\ Stored(flash)' = Stored(flash')
<1>1. Registers(hw, dfu)' = Registers(hw', dfu')
  BY DEF Registers, Register, LedValue, Keys, SavedKeys, Module
<1>2. Stored(flash)' = Stored(flash')
  BY DEF Stored, SavedKeys, Module
<1> QED BY <1>1, <1>2

(* What a step that reads or only goes on leaves alone. *)
LEMMA SameSettings ==
  ASSUME UNCHANGED <<commandVars, board, hw, flash, dfu>>
  PROVE  UNCHANGED <<tool, board, Plan, Registers(hw, dfu), Stored(flash)>>
<1>1. tool' = tool /\ argv' = argv /\ board' = board
  BY DEF commandVars
<1>2. Plan' = Plan
  BY <1>1, SamePlan
<1> QED BY <1>1, <1>2, SettingsPrimed

LEMMA SettingsStayLegal ==
  ASSUME RunInv', RefineInv', UNCHANGED <<tool, board>>
  PROVE  Run!Legal(Registers(hw, dfu)')
<1>1. SimLimit' = SimLimit
  BY DEF SimLimit
<1>2. RangesOf(hw')
  BY <1>1 DEF RunInv, RefineInv, RegistersInRange, RangesOf
<1> QED BY <1>2, LegalSettings, SettingsPrimed

LEMMA ReadingStutters ==
  ASSUME RunInv, ReadCommandLine, UNCHANGED runVars
  PROVE  UNCHANGED Run!planVars
<1>1. UNCHANGED <<tool, argv, board, hw, flash, dfu, pos, result>>
  BY ReadingKeepsLine DEF runVars
<1>2. Plan' = Plan /\ Left' = Left
  BY <1>1, SamePlan, StaysLeft
<1> QED BY <1>1, <1>2, SettingsPrimed DEF Run!planVars

LEMMA OpenBoardLeaves ==
  ASSUME RunInv, ReadAsWritten, OpenBoard
  PROVE  Run!Leave \/ UNCHANGED Run!planVars
<1>1. /\ parsed = "ready" /\ pos = 0 /\ result = "none" /\ CommandInv
      /\ UNCHANGED <<commandVars, board, hw, flash, dfu>>
  BY DEF OpenBoard, RunInv
<1>2. UNCHANGED <<tool, board, Plan, Registers(hw, dfu), Stored(flash)>> /\ UNCHANGED <<tool, argv>>
  BY <1>1, SameSettings DEF commandVars
<1>3. /\ \A i \in 1 .. 11 : Order[i] \in flag <=> Order[i] \in Asked
      /\ Asked = {Order[i] : i \in {j \in 1 .. 11 : Order[j] \in flag}}
      /\ "l" \in flag <=> Plan.list
  BY <1>1, PlanRead
<1>4. Left = Asked /\ Plan.asked = Asked /\ Asked' = Asked
  BY <1>1, <1>2, SamePlan DEF Left, Plan
<1>5. CASE UNCHANGED pos /\ result' = "failed"
  <2>1. Left' = Left
    BY <1>2, <1>5, StaysLeft
  <2> QED BY <1>1, <1>2, <1>4, <1>5, <2>1 DEF Run!Leave
<1>6. CASE UNCHANGED pos /\ result' = "ok" /\ "l" \in flag
  <2>1. Left' = Left
    BY <1>2, <1>6, StaysLeft
  <2> QED BY <1>1, <1>2, <1>3, <1>4, <1>6, <2>1 DEF Run!Leave
<1>7. CASE Proceed
  <2>1. /\ pos' \in 1 .. 12
        /\ pos' <= 11 => Order[pos'] \in flag /\ result' = "none"
        /\ pos' = 12 => result' = "ok"
        /\ \A j \in 1 .. 11 : Order[j] \in flag => pos' <= j
    BY <1>1, <1>7, ProceedStep
  <2>2. Left' = {Order[i] : i \in {j \in pos' .. 11 : Order[j] \in Asked}}
    BY <1>4, <2>1, OrderFacts DEF Left
  <2> HIDE DEF Order
  <2>3. Left' = Left
    <3>1. {j \in pos' .. 11 : Order[j] \in Asked} = {j \in 1 .. 11 : Order[j] \in flag}
      BY <1>3, <2>1
    <3> QED BY <1>3, <1>4, <2>2, <3>1
  <2>4. CASE pos' = 12
    <3>1. Left = {}
      BY <1>3, <1>4, <2>1, <2>4
    <3> QED BY <1>1, <1>2, <1>4, <2>1, <2>3, <2>4, <3>1 DEF Run!Leave
  <2>5. CASE pos' <= 11
    BY <1>1, <1>2, <2>1, <2>3, <2>5 DEF Run!planVars
  <2> QED BY <2>1, <2>4, <2>5
<1> QED BY <1>1, <1>5, <1>6, <1>7 DEF OpenBoard, Fail

LEMMA ShowPerforms ==
  ASSUME RunInv, ReadAsWritten, RefineInv, NEW c, Show(c)
  PROVE  c \in Run!Commands /\ Run!Perform(c)
<1>1. /\ pos \in 1 .. 11 /\ Order[pos] = c /\ result = "none" /\ ~Setting(c)
      /\ UNCHANGED <<commandVars, board, hw, flash, dfu>> /\ (Proceed \/ Fail)
  BY OrderFacts DEF Show, At
<1>2. UNCHANGED <<tool, board, Plan, Registers(hw, dfu), Stored(flash)>> /\ UNCHANGED <<tool, argv>>
  BY <1>1, SameSettings DEF commandVars
<1>3. Run!Turn(c) /\ c \in Run!Commands /\ c \notin DOMAIN Plan.changes
  BY <1>1, TurnAt
<1>4. Run!CarriedOut(c)
  BY <1>2, <1>3 DEF Run!CarriedOut
<1>5. CASE Proceed
  <2>1. Run!Pass(c)
    BY <1>1, <1>5, ProceedPasses
  <2> QED BY <1>2, <1>3, <1>4, <2>1 DEF Run!Perform
<1>6. CASE Fail
  <2>1. Left' = Left /\ result' = "failed"
    BY <1>2, <1>6, StaysLeft DEF Fail
  <2> QED BY <1>2, <1>3, <1>4, <2>1 DEF Run!Perform
<1> QED BY <1>1, <1>5, <1>6

(* A command that is accepted and changes the board does what is planned.  *)
LEMMA AppliedIsPlanned ==
  ASSUME RunInv, ReadAsWritten, RefineInv, RunInv', RefineInv',
         pos \in 1 .. 11, result = "none", NEW c \in Setters, c = Order[pos],
         Applied(c), UNCHANGED dfu
  PROVE  Run!CarriedOut(c)
<1>1. /\ c \in Asked /\ (Setting(c) <=> c \in DOMAIN Plan.changes)
      /\ Setting(c) /\ Accepted(c) /\ UNCHANGED <<commandVars, board>>
      /\ hw' = After(c) /\ flash' = IF c = "c" THEN Configuration(hw) ELSE flash
  BY TurnAt DEF Applied
<1>2. parsed = "ready" /\ CommandInv /\ c \in flag /\ Untouched(c) /\ hw \in HwType
  BY RunTypes DEF RunInv, StillToDo
<1>3. UNCHANGED <<tool, argv, board>>
  BY <1>1 DEF commandVars
<1>4. CASE c = "c"
  <2>1. hw' = hw /\ flash' = Configuration(hw)
    BY <1>1, <1>4 DEF After
  <2>2. UNCHANGED Registers(hw, dfu)
    BY <2>1, SettingsPrimed
  <2>3. Stored(flash)' = [k \in Run!SavedKeys |-> Registers(hw, dfu)[k]]
    <3> DEFINE G == Stored(flash')
               H == Registers(hw, dfu)
    <3>1. KindsAt(H, hw, dfu)
      BY RegistersAt
    <3>2. /\ G = [k \in SavedKeys |-> G[k]]
          /\ \A m \in Module : <<"p", m, 0>> \in SavedKeys => G[<<"p", m, 0>>] = hw.power[m]
          /\ \A m \in {1, 2} : <<"s", m, 0>> \in SavedKeys => G[<<"s", m, 0>>] = hw.sim[m]
          /\ <<"f", 0, 0>> \in SavedKeys => G[<<"f", 0, 0>>] = hw.offTime
      BY <2>1 DEF Stored, Configuration
    <3> HIDE DEF G, H
    <3>3. \A k \in SavedKeys : G[k] = H[k]
      <4> SUFFICES ASSUME NEW k \in SavedKeys PROVE G[k] = H[k]
        OBVIOUS
      <4>1. \/ \E m \in Module : k = <<"p", m, 0>>
            \/ \E m \in {1, 2} : k = <<"s", m, 0>>
            \/ k = <<"f", 0, 0>>
        BY DEF SavedKeys
      <4> QED BY <3>1, <3>2, <4>1 DEF KindsAt
    <3>4. G = [k \in SavedKeys |-> H[k]]
      BY <3>2, <3>3
    <3> QED BY <3>4, SettingsPrimed, SameKeys DEF G, H
  <2> QED BY <1>1, <1>4, <2>2, <2>3 DEF Run!CarriedOut, Run!Save
<1>5. CASE c # "c"
  <2>1. c \in Changers /\ flash' = flash
    BY <1>1, <1>5 DEF Setters, Changers
  <2>2. ChangeOf(c).key = ArgKey(c) /\ ChangeOf(c).value = ArgValue(c)
    BY <1>1, <1>2, <2>1, PlannedChange
  <2>3. /\ ArgKey(c) \in Keys
        /\ board = "F229" => c \notin {"w", "r"}
        /\ Registers(hw', dfu') = [Registers(hw, dfu) EXCEPT ![ArgKey(c)] = ArgValue(c)]
    BY <1>2, <2>1, AppliedSetting
  <2>4. Plan.changes[c] = ChangeOf(c)
    BY <1>1 DEF Plan
  <2>5. ArgKey(c)[1] = c
    BY <2>1 DEF ArgKey, Changers
  <2>6. ArgKey(c) \in Run!KeysOf(board)
    BY <2>3, <2>5, SameKeys DEF Run!KeysOf
  <2>7. Run!Legal(Registers(hw, dfu)')
    BY <1>3, SettingsStayLegal
  <2>8. UNCHANGED Stored(flash)
    BY <2>1, SettingsPrimed
  <2>9. Registers(hw, dfu)' = [Registers(hw, dfu) EXCEPT ![Plan.changes[c].key] = Plan.changes[c].value]
    BY <2>2, <2>3, <2>4, SettingsPrimed
  <2>10. Plan.changes[c].key \in Run!KeysOf(board)
    BY <2>2, <2>4, <2>6
  <2>11. Run!Change(c)
    BY <2>7, <2>8, <2>9, <2>10 DEF Run!Change
  <2> QED BY <1>1, <1>5, <2>11 DEF Run!CarriedOut
<1> QED BY <1>4, <1>5

LEMMA SetPerforms ==
  ASSUME RunInv, ReadAsWritten, RefineInv, RunInv', RefineInv', NEW c \in Setters, Set(c)
  PROVE  c \in Run!Commands /\ (Run!Perform(c) \/ Run!Hang)
<1>1. /\ pos \in 1 .. 11 /\ Order[pos] = c /\ result = "none" /\ Setting(c)
      /\ UNCHANGED <<commandVars, board, dfu>>
  BY OrderFacts DEF Set, At
<1>2. UNCHANGED <<tool, argv, board>> /\ Plan' = Plan
  BY <1>1, SamePlan DEF commandVars
<1>3. Run!Turn(c) /\ c \in Run!Commands
  BY <1>1, TurnAt
<1>4. CASE Fail /\ UNCHANGED <<hw, flash>>
  <2>1. UNCHANGED <<Registers(hw, dfu), Stored(flash), Left>> /\ result' = "failed"
    BY <1>1, <1>2, <1>4, SettingsPrimed, StaysLeft DEF Fail
  <2> QED BY <1>2, <1>3, <2>1 DEF Run!Perform
<1>5. CASE Applied(c)
  <2>1. Run!CarriedOut(c)
    BY <1>1, <1>5, AppliedIsPlanned
  <2>2. CASE Fail
    <3>1. Left' = Left /\ result' = "failed"
      BY <1>2, <2>2, StaysLeft DEF Fail
    <3> QED BY <1>2, <1>3, <2>1, <3>1 DEF Run!Perform
  <2>3. CASE Proceed
    <3>1. Run!Pass(c)
      BY <1>1, <2>3, ProceedPasses
    <3> QED BY <1>2, <1>3, <2>1, <3>1 DEF Run!Perform
  <2>4. CASE WaitsForEver(c) /\ result' = "waits" /\ UNCHANGED pos
    <3>1. Left' = Left /\ c = "p" /\ tool = "minimal"
      BY <1>2, <2>4, StaysLeft DEF WaitsForEver
    <3> QED BY <1>2, <1>3, <2>1, <2>4, <3>1 DEF Run!Hang
  <2> QED BY <1>3, <1>4, <2>2, <2>3, <2>4, <1>1 DEF Set
<1> QED BY <1>1, <1>4, <1>5 DEF Set, Applied

LEMMA BootloaderPerforms ==
  ASSUME RunInv, ReadAsWritten, RefineInv, RunInv', RefineInv', SetBootloaderMode
  PROVE  "u" \in Run!Commands /\ Run!Perform("u")
<1>1. /\ pos = 11 /\ pos \in 1 .. 11 /\ Order[pos] = "u" /\ result = "none" /\ Proceed
      /\ UNCHANGED <<commandVars, board, hw, flash>> /\ dfu' \in BOOLEAN
  BY OrderFacts DEF SetBootloaderMode, At
<1>2. UNCHANGED <<tool, argv, board>> /\ Plan' = Plan
  BY <1>1, SamePlan DEF commandVars
<1>3. Run!Turn("u") /\ "u" \in Run!Commands /\ "u" \in Asked /\ "u" \in DOMAIN Plan.changes
  BY <1>1, TurnAt DEF Setting
<1>4. Run!Pass("u")
  BY <1>1, ProceedPasses
<1>5. ~dfu
  BY <1>1, PrefixParts DEF RunInv, Parts
<1>6. UNCHANGED Stored(flash)
  BY <1>1, SettingsPrimed
<1>7. CASE ~dfu'
  <2>1. dfu' = dfu
    BY <1>1, <1>5, <1>7 DEF RunInv, ToolTypeOK
  <2>2. UNCHANGED Registers(hw, dfu)
    BY <1>1, <2>1, SettingsPrimed
  <2> QED BY <1>2, <1>3, <1>4, <1>6, <2>2 DEF Run!Perform
<1>8. CASE dfu'
  <2> DEFINE key == <<"u", 0, 0>>
  <2>1. KindsAt(Registers(hw', dfu'), hw', dfu')
    BY RegistersAt
  <2>2. key \in Keys /\ Registers(hw', dfu')[key] = 1
    BY <1>8, <2>1 DEF KindsAt
  <2>3. SameBut(key, hw', dfu', hw, dfu)
    BY <1>1 DEF SameBut
  <2>4. Plan.changes["u"].key = key /\ Plan.changes["u"].value = 1
    BY <1>3 DEF Plan, ChangeOf
  <2>5. key[1] = "u"
    OBVIOUS
  <2> HIDE DEF key
  <2>6. Registers(hw', dfu') = [Registers(hw, dfu) EXCEPT ![key] = Registers(hw', dfu')[key]]
    BY <2>2, <2>3, OneSetting
  <2>7. Registers(hw, dfu)' = [Registers(hw, dfu) EXCEPT ![key] = 1]
    BY <2>2, <2>6, SettingsPrimed
  <2>8. Run!Legal(Registers(hw, dfu)')
    BY <1>2, SettingsStayLegal
  <2>9. key \in Run!KeysOf(board)
    BY <2>2, <2>5, SameKeys DEF Run!KeysOf
  <2>10. Run!Change("u")
    BY <1>6, <2>4, <2>7, <2>8, <2>9 DEF Run!Change
  <2>11. Run!CarriedOut("u")
    BY <1>3, <2>10 DEF Run!CarriedOut
  <2> QED BY <1>2, <1>3, <1>4, <2>11 DEF Run!Perform
<1> QED BY <1>7, <1>8

(* Every step is one of the plan or leaves what it is about alone. *)
LEMMA RefineStep ==
  ASSUME RunInv, ReadAsWritten, RefineInv, RunInv', RefineInv', [ToolNext]_vars
  PROVE  [Run!RunNext]_Run!planVars
<1>1. CASE ReadCommandLine /\ UNCHANGED runVars
  BY <1>1, ReadingStutters
<1>2. CASE OpenBoard
  BY <1>2, OpenBoardLeaves DEF Run!RunNext
<1>3. ASSUME NEW i \in DOMAIN Order, Show(Order[i]) PROVE Run!RunNext
  BY <1>3, ShowPerforms DEF Run!RunNext
<1>4. ASSUME NEW i \in DOMAIN Order, Set(Order[i]) PROVE Run!RunNext
  <2>1. Order[i] \in Setters
    BY <1>4, OrderFacts DEF Set, Setting, Setters
  <2> QED BY <1>4, <2>1, SetPerforms DEF Run!RunNext
<1>5. CASE SetBootloaderMode
  BY <1>5, BootloaderPerforms DEF Run!RunNext
<1>6. CASE UNCHANGED vars
  <2>1. UNCHANGED <<commandVars, board, hw, flash, dfu, pos, result, tool, argv>>
    BY <1>6 DEF vars, runVars, commandVars
  <2>2. Plan' = Plan /\ Left' = Left
    BY <2>1, SamePlan, StaysLeft
  <2> QED BY <2>1, <2>2, SettingsPrimed DEF Run!planVars
<1> QED BY <1>1, <1>2, <1>3, <1>4, <1>5, <1>6 DEF ToolNext

(* The cards exist, a modem is reset at most once and -l keeps main from   *)
(* the commands, in every state.                                           *)
LEMMA RefineInvariant == ToolSpec => []RefineInv
<1>1. RunInv /\ RefineInv /\ [ToolNext]_vars => RefineInv'
  BY RefineInvStep
<1> QED BY <1>1, RefineInvInit, RunInvariant, PTL DEF ToolSpec

(* A run carries out its command line: whatever the words and their order, *)
(* each command changes the setting it names to the value it names or      *)
(* nothing, in main's order, and none comes after a failure.               *)
THEOREM ToolImplementsRun == ToolSpec => ImplementsRun
<1>1. /\ RunInv /\ ReadAsWritten /\ RefineInv /\ RunInv' /\ RefineInv' /\ [ToolNext]_vars
      => [Run!RunNext]_Run!planVars
  BY RefineStep
<1> QED
  BY <1>1, RefineInit, RunInvariant, LineReadAsWritten, RefineInvariant, PTL
  DEF ToolSpec, ImplementsRun, Run!RunSpec

=============================================================================
