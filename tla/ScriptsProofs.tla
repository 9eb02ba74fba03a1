---------------------------- MODULE ScriptsProofs ----------------------------
(***************************************************************************)
(* What the two scripts can be relied on for: the shutdown service with    *)
(* any number of boards, any off time and any time limit, and the SIM      *)
(* crawler with any number of cards and any patience.                      *)
(***************************************************************************)
EXTENDS SimCrawler, ShutdownModems, FiniteSetTheorems, SequenceTheorems,
        TLAPS

-----------------------------------------------------------------------------
(* The shutdown service.                                                   *)

Looping == {"offTime", "module1"}
After   == {"wait", "showCount", "showList", "show", "exit0"}

ShutTypeOK ==
    /\ minimal \in BOOLEAN /\ power \in {"off", "on"}
    /\ present \in SUBSET Board /\ disturbed \in SUBSET Board
    /\ on \in SUBSET (present \X Module)
    /\ pc \in {"count", "list", "module2", "killed", "exit1"} \cup Looping \cup After
    /\ targets \in Seq(Board \cup {AnyBoard, NoBoard})
    /\ elapsed \in Nat /\ late \in Nat

(* Only the standard tool lists boards before it switches, and the loops   *)
(* have something to do.                                                   *)
InLoop ==
    /\ pc \in {"count", "list"} => ~minimal
    /\ pc \in Looping \cup {"module2", "show"} => targets # <<>>

(* A call is still to come for module m of board b.  A word of the log is  *)
(* no address: the loop will not get past it.                              *)
Due(b, m) ==
    \/ pc \in {"count", "list", "killed", "exit1"}
    \/ pc \in Looping /\ \E i \in 1 .. Len(targets) : targets[i] \in {b, AnyBoard, NoBoard}
    \/ /\ pc = "module2"
       /\ \E i \in 1 .. Len(targets) :
            targets[i] \in {b, AnyBoard, NoBoard} /\ (i = 1 => m = 2)

(* Nothing is passed over: a module that has power is still to be switched *)
(* off, or its board was disturbed.                                        *)
NonePassedOver ==
    power = "off" => \A b \in Board, m \in Module : <<b, m>> \in on => b \in disturbed \/ Due(b, m)

(* The boards of this run; disturbances do not change their number. *)
Known == Cardinality(present \cup disturbed)

BoardTime == 2 * OffTime

(* The time a run has taken so far: two off times for each board done, and *)
(* what the calls of -p have taken beyond their waits.                     *)
TimeSpent ==
    /\ pc \in {"count", "list"} => elapsed = 0
    /\ pc \in Looping =>
         \/ elapsed + BoardTime * Len(targets) <= BoardTime * Known + late
         \/ elapsed = 0 /\ targets = <<AnyBoard>>
         \/ targets[1] = NoBoard
    /\ pc = "module2" => elapsed + BoardTime * Len(targets) <= BoardTime * Known + OffTime + late
    /\ pc = "wait" => elapsed <= BoardTime * Known + late

ShutInv == ShutTypeOK /\ InLoop /\ NonePassedOver /\ TimeSpent /\ KilledOnlyOverdue

(* The list of boards has each of them once, and nothing else. *)
LEMMA InBusOrderLists ==
  ASSUME NEW S \in SUBSET Board, NEW s \in InBusOrder(S)
  PROVE  /\ IsFiniteSet(S) /\ Cardinality(S) \in Nat
         /\ s \in Seq(S) /\ Len(s) = Cardinality(S)
         /\ \A b \in S : \E i \in 1 .. Len(s) : s[i] = b
<1>1. IsFiniteSet(S) /\ Cardinality(S) \in Nat
  <2>1. IsFiniteSet(Board)
    BY FS_Interval, ShutdownAssumption DEF Board
  <2> QED BY <2>1, FS_Subset, FS_CardinalityType
<1> DEFINE n == Cardinality(S)
<1>2. s \in [1 .. n -> S] /\ \A i, j \in 1 .. n : i < j => s[i] < s[j]
  BY DEF InBusOrder
<1>3. s \in Seq(S) /\ Len(s) = n
  BY <1>1, <1>2
<1>4. s \in Injection(1 .. n, S)
  <2> SUFFICES ASSUME NEW i \in 1 .. n, NEW j \in 1 .. n, s[i] = s[j] PROVE i = j
    BY <1>2 DEF Injection, IsInjective
  <2>1. s[i] \in Board /\ s[j] \in Board /\ i \in Int /\ j \in Int
    BY <1>1, <1>2
  <2>2. s[i] \in Int /\ s[j] \in Int
    BY <2>1, ShutdownAssumption DEF Board
  <2>3. ~(i < j) /\ ~(j < i)
    BY <1>2, <2>2
  <2> QED BY <2>1, <2>3
<1>5. s \in Surjection(1 .. n, S)
  <2>1. Cardinality(1 .. n) = n
    BY <1>1, FS_Interval
  <2> QED BY <1>1, <1>4, <2>1, FS_Injection
<1> QED BY <1>1, <1>3, <1>5 DEF Surjection

(* What the loops get to read as addresses. *)
LEMMA WordsOfList ==
  ASSUME ShutTypeOK, NEW words \in ModemSmbAddr
  PROVE  /\ words \in Seq(Board \cup {AnyBoard, NoBoard})
         /\ \/ words # <<>> /\ Len(words) # 1 /\ words[1] = NoBoard
            \/ minimal /\ words = <<>>
            \/ ~minimal /\ words # <<>> /\ words \in InBusOrder(present)
<1>1. CASE words = LogLine
  <2>1. words \in [1 .. 8 -> {NoBoard}]
    BY <1>1 DEF LogLine
  <2>2. Len(words) = 8 /\ \A i \in 1 .. 8 : words[i] = NoBoard
    BY <2>1
  <2>3. words \in Seq(Board \cup {AnyBoard, NoBoard})
    <3> DEFINE W == Board \cup {AnyBoard, NoBoard}
    <3> HIDE DEF W
    <3>1. NoBoard \in W
      BY DEF W
    <3>2. words \in [1 .. 8 -> W]
      BY <2>1, <3>1
    <3> QED BY <3>2, SeqDef DEF W
  <2>4. words # <<>> /\ Len(words) # 1 /\ words[1] = NoBoard
    <3>1. 8 # 0 /\ 8 # 1 /\ 1 \in 1 .. 8
      OBVIOUS
    <3> QED BY <2>2, <3>1, EmptySeq, Zenon
  <2> QED BY <2>3, <2>4, Zenon
<1>2. CASE minimal /\ words = <<>>
  BY <1>2, EmptySeq, Zenon
<1>3. CASE ~minimal /\ present # {} /\ words \in InBusOrder(present)
  <2>1. /\ words \in Seq(present) /\ \A b \in present : \E i \in 1 .. Len(words) : words[i] = b
    BY <1>3, InBusOrderLists DEF ShutTypeOK
  <2>2. words # <<>>
    BY <1>3, <2>1
  <2>3. words \in Seq(Board \cup {AnyBoard, NoBoard})
    BY <2>1, SeqMonotonic DEF ShutTypeOK
  <2> QED BY <1>3, <2>2, <2>3
<1>4. \/ words = LogLine
      \/ minimal /\ words = <<>>
      \/ ~minimal /\ present # {} /\ words \in InBusOrder(present)
  BY DEF ModemSmbAddr, ShutTypeOK
<1> QED BY <1>1, <1>2, <1>3, <1>4

(* The boards of a run stay the same ones. *)
LEMMA KnownNat ==
  ASSUME ShutTypeOK
  PROVE  Known \in Nat /\ \A S \in SUBSET (present \cup disturbed) : Cardinality(S) <= Known
<1>1. IsFiniteSet(Board)
  BY FS_Interval, ShutdownAssumption DEF Board
<1>2. IsFiniteSet(present \cup disturbed)
  BY <1>1, FS_Subset DEF ShutTypeOK
<1> QED BY <1>2, FS_Subset, FS_CardinalityType DEF Known

(* Products of the numbers of the bound on the time. *)
LEMMA Times ==
  /\ \A a, b \in Nat : a * b \in Nat
  /\ \A a, b, c \in Nat : b <= c => a * b <= a * c
  /\ \A a, b \in Nat : b > 0 => a * b = a * (b - 1) + a
<1>1. \A a, b \in Nat : a * b \in Nat
  OBVIOUS
<1>2. ASSUME NEW a \in Nat, NEW b \in Nat, NEW c \in Nat, b <= c PROVE a * b <= a * c
  BY <1>2
<1>3. ASSUME NEW a \in Nat, NEW b \in Nat PROVE a * b = a * (b - 1) + a
  OBVIOUS
<1> QED BY <1>1, <1>2, <1>3

(* A call that does not fail reaches a board, which is the one it was      *)
(* aimed at or the only one.                                               *)
LEMMA ReachedFacts ==
  ASSUME ShutTypeOK, targets # <<>>, NEW b \in Reached
  PROVE  /\ b \in Board /\ b \in present /\ targets[1] # NoBoard
         /\ targets[1] = b \/ (targets[1] = AnyBoard /\ present = {b})
         /\ Known >= 1
<1>1. Head(targets) = targets[1]
  BY DEF ShutTypeOK
<1>2. b \in Board /\ Reaches(targets[1], b)
  BY <1>1 DEF Reached
<1>3. b # NoBoard /\ b # AnyBoard
  BY <1>2, ShutdownAssumption DEF Board, NoBoard, AnyBoard
<1>4. Known >= 1
  <2>1. Cardinality({b}) = 1
    BY FS_Singleton
  <2>2. Cardinality({b}) <= Known
    BY <1>2, KnownNat DEF Reaches
  <2> QED BY <2>1, <2>2, KnownNat
<1> QED BY <1>2, <1>3, <1>4 DEF Reaches, NoBoard, AnyBoard

(* The start of the service. *)
LEMMA ShutInitInv == ShutInit => ShutInv
<1> SUFFICES ASSUME ShutInit PROVE ShutInv
  OBVIOUS
<1> USE DEF ShutInit
<1>1. ShutTypeOK
  <2>1. present \in SUBSET Board
    BY ShutdownAssumption DEF Board
  <2>2. targets \in Seq(Board \cup {AnyBoard, NoBoard})
    <3> DEFINE W == Board \cup {AnyBoard, NoBoard}
    <3>1. <<>> \in Seq(W) /\ <<AnyBoard>> \in Seq(W)
      OBVIOUS
    <3> QED BY <3>1
  <2> QED BY <2>1, <2>2 DEF ShutTypeOK, First, Looping, After
<1>2. InLoop
  BY DEF InLoop, First, Looping
<1>3. NonePassedOver
  BY DEF NonePassedOver, Due, First, Looping
<1>4. TimeSpent
  BY DEF TimeSpent, First, Looping
<1>5. KilledOnlyOverdue
  BY DEF KilledOnlyOverdue, First
<1> QED BY <1>1, <1>2, <1>3, <1>4, <1>5 DEF ShutInv

(* The boards: what a disturbance does is only about the disturbed one. *)
LEMMA BoardsStep ==
  ASSUME ShutInv, NEW b \in Board, NEW m \in Module, Vanish(b) \/ Appear(b) \/ SwitchedOn(b, m)
  PROVE  ShutInv'
<1>1. /\ UNCHANGED <<minimal, power, pc, targets, elapsed, late>>
      /\ present' \cup disturbed' = present \cup disturbed
      /\ disturbed \subseteq disturbed' /\ disturbed' \subseteq disturbed \cup {b}
      /\ present' \subseteq Board
      /\ on' \subseteq present' \X Module
      /\ \A c \in Board, n \in Module : <<c, n>> \in on' => <<c, n>> \in on \/ c \in disturbed'
  <2> USE DEF ShutInv, ShutTypeOK
  <2>1. CASE Vanish(b)
    BY <2>1 DEF Vanish, MayBeDisturbed, progress
  <2>2. CASE Appear(b)
    BY <2>2 DEF Appear, progress
  <2>3. CASE SwitchedOn(b, m)
    BY <2>3 DEF SwitchedOn, MayBeDisturbed, progress
  <2> QED BY <2>1, <2>2, <2>3
<1>2. ShutTypeOK'
  BY <1>1 DEF ShutInv, ShutTypeOK
<1>3. Known' = Known
  BY <1>1 DEF Known
<1>4. NonePassedOver'
  BY <1>1 DEF ShutInv, NonePassedOver, Due
<1>5. TimeSpent' /\ InLoop'
  BY <1>1, <1>3 DEF ShutInv, TimeSpent, InLoop, BoardTime
<1>6. KilledOnlyOverdue'
  BY <1>1 DEF ShutInv, KilledOnlyOverdue
<1> QED BY <1>2, <1>4, <1>5, <1>6 DEF ShutInv

(* The lists before the first loop. *)
LEMMA ListingStep ==
  ASSUME ShutInv, Count \/ List
  PROVE  ShutInv'
<1> USE DEF ShutInv
<1>1. /\ UNCHANGED <<minimal, power, present, on, disturbed, elapsed, late>> /\ elapsed = 0
      /\ ~minimal /\ Known' = Known /\ late \in Nat
  BY DEF Count, List, Env, boards, TimeSpent, InLoop, Known, ShutTypeOK
<1>2. \/ pc' = "list" /\ UNCHANGED targets
      \/ pc' = First /\ targets' = <<AnyBoard>>
      \/ pc' = First /\ targets' # <<>> /\ targets' \in ModemSmbAddr
  <2>1. CASE Count
    BY <2>1 DEF Count
  <2>2. CASE List
    <3>1. targets' \in ModemSmbAddr /\ (targets' # <<>> => pc' = First)
      BY <2>2 DEF List
    <3>2. targets' # <<>>
      BY <1>1, <3>1, WordsOfList
    <3> QED BY <3>1, <3>2
  <2> QED BY <2>1, <2>2
<1>3. First \in Looping
  BY DEF First, Looping
<1>4. CASE pc' = "list" /\ UNCHANGED targets
  <2>1. ShutTypeOK' /\ InLoop' /\ TimeSpent' /\ KilledOnlyOverdue'
    BY <1>1, <1>4 DEF ShutTypeOK, InLoop, TimeSpent, KilledOnlyOverdue, Looping
  <2>2. NonePassedOver'
    BY <1>4 DEF NonePassedOver, Due
  <2> QED BY <2>1, <2>2
<1>5. CASE pc' = First /\ targets' = <<AnyBoard>>
  <2>1. ShutTypeOK'
    <3>1. <<AnyBoard>> \in Seq(Board \cup {AnyBoard, NoBoard})
      <4> DEFINE W == Board \cup {AnyBoard, NoBoard}
      <4>1. <<AnyBoard>> \in Seq(W)
        OBVIOUS
      <4> QED BY <4>1
    <3> QED BY <1>1, <1>3, <1>5, <3>1 DEF ShutTypeOK
  <2>2. InLoop' /\ TimeSpent' /\ KilledOnlyOverdue'
    BY <1>1, <1>3, <1>5 DEF InLoop, TimeSpent, KilledOnlyOverdue, Looping
  <2>3. NonePassedOver'
    BY <1>3, <1>5 DEF NonePassedOver, Due
  <2> QED BY <2>1, <2>2, <2>3
<1>6. CASE pc' = First /\ targets' # <<>> /\ targets' \in ModemSmbAddr
  <2>1. targets' \in Seq(Board \cup {AnyBoard, NoBoard})
    BY <1>6, WordsOfList
  <2>2. ShutTypeOK'
    BY <1>1, <1>3, <1>6, <2>1 DEF ShutTypeOK
  <2>3. \/ targets'[1] = NoBoard
        \/ targets' \in InBusOrder(present)
    BY <1>1, <1>6, WordsOfList
  <2>4. InLoop' /\ KilledOnlyOverdue'
    BY <1>1, <1>3, <1>6 DEF InLoop, KilledOnlyOverdue, Looping
  <2>5. CASE targets'[1] = NoBoard
    <3>1. 1 \in 1 .. Len(targets')
      BY <1>6, <2>1
    <3>2. NonePassedOver'
      BY <1>3, <1>6, <2>5, <3>1 DEF NonePassedOver, Due
    <3>3. TimeSpent'
      BY <1>3, <1>6, <2>5 DEF TimeSpent, Looping
    <3> QED BY <2>2, <2>4, <3>2, <3>3
  <2>6. CASE targets' \in InBusOrder(present)
    <3>1. /\ Len(targets') = Cardinality(present) /\ Len(targets') \in Nat
          /\ \A b \in present : \E i \in 1 .. Len(targets') : targets'[i] = b
      BY <2>6, InBusOrderLists DEF ShutTypeOK
    <3>2. NonePassedOver'
      BY <1>1, <1>3, <1>6, <3>1 DEF NonePassedOver, Due, ShutTypeOK
    <3>3. Len(targets') <= Known /\ Known \in Nat
      BY <3>1, KnownNat
    <3>4. BoardTime \in Nat
      BY ShutdownAssumption DEF BoardTime
    <3>5. BoardTime * Len(targets') <= BoardTime * Known
      BY <3>1, <3>3, <3>4, Times
    <3>6. elapsed' + BoardTime * Len(targets') = BoardTime * Len(targets')
      BY <1>1, <3>1, <3>4, Times
    <3>7. TimeSpent'
      <4> DEFINE all  == BoardTime * Len(targets')
                 most == BoardTime * Known
      <4>1. all \in Nat /\ most \in Nat
        BY <3>1, <3>3, <3>4, Times
      <4>2. elapsed' + all = all /\ all <= most
        BY <3>5, <3>6
      <4> HIDE DEF all, most
      <4>3. elapsed' + all <= most + late
        BY <1>1, <4>1, <4>2
      <4>4. elapsed' + BoardTime * Len(targets') <= BoardTime * Known' + late'
        BY <1>1, <4>3 DEF all, most
      <4> QED BY <1>3, <1>6, <4>4 DEF TimeSpent, Looping, BoardTime
    <3> QED BY <2>2, <2>4, <3>2, <3>7
  <2> QED BY <2>3, <2>5, <2>6
<1> QED BY <1>2, <1>4, <1>5, <1>6

(* A call that fails ends the script. *)
LEMMA FailingStep ==
  ASSUME ShutInv, CallFails, UNCHANGED <<Env, late>>
  PROVE  ShutInv'
<1> USE DEF ShutInv, CallFails, Env, boards
<1>1. ShutTypeOK' /\ InLoop'
  BY DEF ShutTypeOK, InLoop, Looping
<1>2. NonePassedOver'
  BY DEF NonePassedOver, Due
<1>3. TimeSpent' /\ KilledOnlyOverdue'
  BY DEF TimeSpent, KilledOnlyOverdue, Looping
<1> QED BY <1>1, <1>2, <1>3

(* -f changes nothing the invariant tells apart. *)
LEMMA OffTimeStep ==
  ASSUME ShutInv, SetOffTime
  PROVE  ShutInv'
<1>1. CASE CallFails
  BY <1>1, FailingStep DEF SetOffTime
<1>2. CASE pc' = "module1" /\ UNCHANGED <<boards, targets, elapsed>>
  <2> USE <1>2 DEF ShutInv, SetOffTime, Env, boards
  <2>1. pc \in Looping /\ pc' \in Looping /\ Known' = Known
    BY DEF Looping, Known
  <2>2. ShutTypeOK' /\ InLoop'
    BY <2>1 DEF ShutTypeOK, InLoop
  <2>3. NonePassedOver'
    BY <2>1 DEF NonePassedOver, Due, Looping
  <2>4. TimeSpent' /\ KilledOnlyOverdue'
    BY <2>1 DEF TimeSpent, KilledOnlyOverdue, Looping, BoardTime
  <2> QED BY <2>2, <2>3, <2>4
<1> QED BY <1>1, <1>2 DEF SetOffTime

(* What a call that switches module m of the board it reaches leaves on.   *)
LEMMA SwitchedFacts ==
  ASSUME ShutTypeOK, targets # <<>>, NEW b \in Reached, NEW m \in Module, on' = Switched(b, m)
  PROVE  /\ on' \in SUBSET (present \X Module)
         /\ power = "off" =>
              /\ on' \subseteq on
              /\ \A c \in Board : targets[1] \in {c, AnyBoard, NoBoard} => <<c, m>> \notin on'
<1>1. /\ b \in Board /\ b \in present /\ targets[1] # NoBoard
      /\ targets[1] = b \/ (targets[1] = AnyBoard /\ present = {b})
  BY ReachedFacts
<1>2. on' \in SUBSET (present \X Module)
  BY <1>1 DEF Switched, ShutTypeOK
<1>3. ASSUME power = "off", NEW c \in Board, targets[1] \in {c, AnyBoard, NoBoard}
      PROVE  <<c, m>> \notin on'
  <2>1. on' = on \ {<<b, m>>}
    BY <1>3 DEF Switched
  <2>2. c # AnyBoard /\ b # AnyBoard
    BY <1>1, ShutdownAssumption DEF Board, AnyBoard
  <2>3. c = b \/ c \notin present
    BY <1>1, <1>3, <2>2
  <2> QED BY <2>1, <2>3 DEF ShutTypeOK
<1>4. power = "off" => on' \subseteq on
  BY DEF Switched
<1> QED BY <1>2, <1>3, <1>4

(* -p takes at most one off time. *)
LEMMA DurationBound ==
  ASSUME ShutTypeOK, NEW b, NEW m, NEW d \in Durations(b, m)
  PROVE  d \in Nat /\ d <= OffTime
BY ShutdownAssumption DEF Durations, ShutTypeOK

(* What the first call of a board that is reached may count on. *)
LEMMA LoopTime ==
  ASSUME ShutInv, pc \in Looping, NEW b \in Reached
  PROVE  elapsed + BoardTime * Len(targets) <= BoardTime * Known + late
<1> USE DEF ShutInv
<1>1. /\ targets # <<>> /\ elapsed \in Nat /\ late \in Nat
  BY DEF InLoop, ShutTypeOK
<1>2. targets[1] # NoBoard /\ Known >= 1 /\ Known \in Nat
  BY <1>1, ReachedFacts, KnownNat
<1>3. BoardTime \in Nat
  BY ShutdownAssumption DEF BoardTime
<1>4. CASE elapsed = 0 /\ targets = <<AnyBoard>>
  <2> DEFINE all  == BoardTime * Len(targets)
             most == BoardTime * Known
  <2>1. Len(targets) = 1
    BY <1>4
  <2>2. all \in Nat /\ most \in Nat /\ all <= most
    BY <1>2, <1>3, <2>1, Times
  <2> HIDE DEF all, most
  <2>3. elapsed + all <= most + late
    BY <1>1, <1>4, <2>2
  <2> QED BY <2>3 DEF all, most
<1> QED BY <1>2, <1>4 DEF TimeSpent

(* A part of a sum is no greater than the bound of the sum. *)
LEMMA PartOfSum ==
  \A x, y, a, b, c \in Nat :
    /\ x + y <= a + b => x <= a + b
    /\ x + y <= a + b + c => x <= a + b + c
OBVIOUS

(* -p 1 *)
LEMMA Module1Step ==
  ASSUME ShutInv, Module1
  PROVE  ShutInv'
<1>1. CASE CallFails
  BY <1>1, FailingStep DEF Module1
<1>2. ASSUME NEW b \in Reached, NEW d \in Durations(b, 1),
             on' = Switched(b, 1), Spend(d, "module2"), UNCHANGED <<present, targets>>
      PROVE  ShutInv'
  <2> USE DEF ShutInv
  <2>1. /\ pc \in Looping /\ targets # <<>> /\ UNCHANGED <<minimal, power, disturbed, late>>
        /\ Known' = Known /\ Len(targets) \in Nat /\ Len(targets) > 0
    BY <1>2 DEF Module1, Env, InLoop, Looping, Known, ShutTypeOK
  <2>2. d \in Nat /\ d <= OffTime /\ elapsed' = elapsed + d /\ elapsed \in Nat
    BY <1>2, DurationBound DEF Spend, ShutTypeOK
  <2>3. /\ pc' \in {"module2", "killed"}
        /\ pc' = "killed" => elapsed' >= Limit
    BY <1>2 DEF Spend
  <2>4. /\ on' \in SUBSET (present \X Module)
        /\ power = "off" =>
             /\ on' \subseteq on
             /\ \A c \in Board : targets[1] \in {c, AnyBoard, NoBoard} => <<c, 1>> \notin on'
    BY <1>2, <2>1, SwitchedFacts DEF Module
  <2>5. ShutTypeOK' /\ InLoop'
    BY <1>2, <2>1, <2>2, <2>3, <2>4 DEF ShutTypeOK, InLoop, Looping
  <2>6. NonePassedOver'
    <3> SUFFICES ASSUME power = "off", pc' = "module2", NEW c \in Board, NEW m \in Module,
                        <<c, m>> \in on', c \notin disturbed
                 PROVE  \E i \in 1 .. Len(targets) :
                          targets[i] \in {c, AnyBoard, NoBoard} /\ (i = 1 => m = 2)
      BY <1>2, <2>1, <2>3 DEF NonePassedOver, Due
    <3>1. PICK i \in 1 .. Len(targets) : targets[i] \in {c, AnyBoard, NoBoard}
      BY <2>1, <2>4 DEF NonePassedOver, Due, Looping
    <3>2. i = 1 => m = 2
      BY <2>4, <3>1 DEF Module
    <3> QED BY <3>1, <3>2
  <2>7. elapsed + BoardTime * Len(targets) <= BoardTime * Known + late /\ late \in Nat
    BY <1>2, <2>1, LoopTime DEF ShutTypeOK
  <2>8. BoardTime * Len(targets) \in Nat /\ BoardTime * Known \in Nat
        /\ BoardTime * Len(targets) >= OffTime
    <3>1. BoardTime \in Nat /\ BoardTime >= OffTime
      BY ShutdownAssumption DEF BoardTime
    <3>2. BoardTime * Len(targets) = BoardTime * (Len(targets) - 1) + BoardTime
      BY <2>1, <3>1, Times
    <3>3. Len(targets) - 1 \in Nat
      BY <2>1
    <3>4. BoardTime * (Len(targets) - 1) \in Nat
      BY <3>1, <3>3, Times
    <3>5. BoardTime * Known \in Nat
      BY <3>1, KnownNat, Times
    <3> DEFINE all == BoardTime * Len(targets)
               rest == BoardTime * (Len(targets) - 1)
    <3> HIDE DEF all, rest
    <3>6. all = rest + BoardTime /\ rest \in Nat
      BY <3>2, <3>4 DEF all, rest
    <3>7. all \in Nat /\ all >= OffTime
      BY <3>1, <3>6, ShutdownAssumption
    <3> QED BY <3>5, <3>7 DEF all
  <2>9. elapsed' + BoardTime * Len(targets) <= BoardTime * Known + OffTime + late
    BY <2>2, <2>7, <2>8, ShutdownAssumption
  <2>10. TimeSpent'
    BY <1>2, <2>1, <2>3, <2>9 DEF TimeSpent, Looping, BoardTime
  <2>11. KilledOnlyOverdue'
    <3> DEFINE all  == BoardTime * Len(targets)
               most == BoardTime * Known
    <3>1. all \in Nat /\ most \in Nat /\ elapsed' + all <= most + OffTime + late
      BY <2>8, <2>9
    <3>2. elapsed' \in Nat /\ late \in Nat /\ Limit \in Nat /\ OffTime \in Nat
      BY <2>2, <2>7, ShutdownAssumption
    <3> HIDE DEF all, most
    <3>3. pc' = "killed" => most + OffTime + late >= Limit
      <4>1. elapsed' <= most + OffTime + late
        BY <3>1, <3>2, PartOfSum
      <4> QED BY <2>3, <3>1, <3>2, <4>1
    <3> QED BY <2>1, <3>3, KnownNat DEF KilledOnlyOverdue, BoardTime, Known, most
  <2> QED BY <2>5, <2>6, <2>10, <2>11
<1> QED BY <1>1, <1>2 DEF Module1

(* -p 2, with which a board is done. *)
LEMMA Module2Step ==
  ASSUME ShutInv, Module2
  PROVE  ShutInv'
<1>1. CASE CallFails
  BY <1>1, FailingStep DEF Module2
<1>2. ASSUME NEW b \in Reached, NEW d \in Durations(b, 2), on' = Switched(b, 2),
             Spend(d, IF Len(targets) > 1 THEN First ELSE "wait"),
             targets' = Tail(targets), UNCHANGED present
      PROVE  ShutInv'
  <2> USE DEF ShutInv
  <2>1. /\ pc = "module2" /\ targets # <<>> /\ UNCHANGED <<minimal, power, disturbed, late>>
        /\ Known' = Known /\ Len(targets) \in Nat /\ Len(targets) > 0
    BY <1>2 DEF Module2, Env, InLoop, Looping, Known, ShutTypeOK
  <2>2. d \in Nat /\ d <= OffTime /\ elapsed' = elapsed + d /\ elapsed \in Nat
    BY <1>2, DurationBound DEF Spend, ShutTypeOK
  <2>3. /\ pc' \in Looping \cup {"wait", "killed"}
        /\ pc' = "killed" => elapsed' >= Limit
        /\ pc' \in Looping => Len(targets) > 1
        /\ pc' = "wait" => Len(targets) = 1
    <3>1. pc' = IF elapsed' >= Limit THEN "killed"
                ELSE IF Len(targets) > 1 THEN First ELSE "wait"
      BY <1>2 DEF Spend
    <3>2. First \in Looping /\ First # "wait" /\ "wait" \notin Looping /\ "killed" \notin Looping
      BY DEF First, Looping
    <3>3. CASE elapsed' >= Limit
      BY <3>1, <3>2, <3>3
    <3>4. CASE ~(elapsed' >= Limit) /\ Len(targets) > 1
      BY <3>1, <3>2, <3>4
    <3>5. CASE ~(elapsed' >= Limit) /\ ~(Len(targets) > 1)
      <4>1. pc' = "wait" /\ Len(targets) = 1
        BY <2>1, <3>1, <3>5
      <4> QED BY <3>2, <4>1
    <3> QED BY <3>3, <3>4, <3>5
  <2>4. /\ on' \in SUBSET (present \X Module)
        /\ power = "off" =>
             /\ on' \subseteq on
             /\ \A c \in Board : targets[1] \in {c, AnyBoard, NoBoard} => <<c, 2>> \notin on'
    BY <1>2, <2>1, SwitchedFacts DEF Module
  <2>5. /\ targets' \in Seq(Board \cup {AnyBoard, NoBoard})
        /\ Len(targets') = Len(targets) - 1
        /\ \A i \in 1 .. Len(targets') : targets'[i] = targets[i + 1]
    BY <1>2, <2>1, HeadTailProperties DEF ShutTypeOK
  <2>6. ShutTypeOK'
    BY <1>2, <2>1, <2>2, <2>3, <2>4, <2>5 DEF ShutTypeOK, Looping, After
  <2>7. InLoop'
    <3>1. pc' \in Looping => targets' # <<>>
      BY <2>1, <2>3, <2>5
    <3> QED BY <2>3, <3>1 DEF InLoop, Looping
  <2>8. NonePassedOver'
    <3> SUFFICES ASSUME power = "off", pc' # "killed", NEW c \in Board, NEW m \in Module,
                        <<c, m>> \in on', c \notin disturbed
                 PROVE  /\ pc' # "wait"
                        /\ \E i \in 1 .. Len(targets') : targets'[i] \in {c, AnyBoard, NoBoard}
      BY <1>2, <2>1, <2>3 DEF NonePassedOver, Due
    <3>1. PICK i \in 1 .. Len(targets) :
            targets[i] \in {c, AnyBoard, NoBoard} /\ (i = 1 => m = 2)
      BY <2>1, <2>4 DEF NonePassedOver, Due, Looping
    <3>2. i # 1
      BY <2>4, <3>1
    <3>3. i - 1 \in 1 .. Len(targets') /\ targets'[i - 1] = targets[i] /\ Len(targets) # 1
      BY <2>1, <2>5, <3>1, <3>2
    <3> QED BY <2>3, <3>1, <3>3
  <2>9. elapsed' + BoardTime * Len(targets') <= BoardTime * Known + late
    <3>1. BoardTime \in Nat /\ BoardTime = OffTime + OffTime
      BY ShutdownAssumption DEF BoardTime
    <3>2. BoardTime * Len(targets) = BoardTime * Len(targets') + BoardTime
      BY <2>1, <2>5, <3>1, Times
    <3> DEFINE all == BoardTime * Len(targets)
               rest == BoardTime * Len(targets')
               most == BoardTime * Known
    <3>3. rest \in Nat /\ most \in Nat /\ late \in Nat
      BY <2>1, <2>5, <3>1, KnownNat, Times DEF ShutTypeOK
    <3>4. elapsed + all <= most + OffTime + late
      BY <2>1 DEF TimeSpent, Looping
    <3>5. all = rest + BoardTime
      BY <3>2
    <3> HIDE DEF all, rest, most
    <3>6. elapsed' + rest <= most + late
      BY <2>2, <3>1, <3>3, <3>4, <3>5, ShutdownAssumption
    <3> QED BY <3>6 DEF rest, most
  <2>10. elapsed' <= BoardTime * Known + late /\ late \in Nat
    <3> DEFINE rest == BoardTime * Len(targets')
               most == BoardTime * Known
    <3>1. BoardTime \in Nat /\ Len(targets') \in Nat /\ Known \in Nat
      BY <2>1, <2>5, KnownNat, ShutdownAssumption DEF BoardTime
    <3>2. elapsed' + rest <= most + late
      BY <2>9
    <3>3. rest \in Nat /\ most \in Nat
      BY <3>1, Times
    <3> HIDE DEF rest, most
    <3>5. elapsed' \in Nat /\ late \in Nat
      BY <2>2 DEF ShutTypeOK
    <3>6. elapsed' <= most + late
      BY <3>2, <3>3, <3>5, PartOfSum
    <3> QED BY <3>5, <3>6 DEF most
  <2>11. TimeSpent'
    BY <2>1, <2>3, <2>9, <2>10 DEF TimeSpent, Looping, BoardTime
  <2>12. KilledOnlyOverdue'
    <3> DEFINE most == BoardTime * Known
    <3>1. most \in Nat
      BY KnownNat, Times, ShutdownAssumption DEF BoardTime
    <3>2. elapsed' <= most + late /\ late \in Nat
      BY <2>10
    <3> HIDE DEF most
    <3>3. pc' = "killed" => most + OffTime + late >= Limit
      BY <2>2, <2>3, <3>1, <3>2, ShutdownAssumption
    <3> QED BY <2>1, <3>3 DEF KilledOnlyOverdue, BoardTime, Known, most
  <2> QED BY <2>6, <2>7, <2>8, <2>11, <2>12
<1> QED BY <1>1, <1>2 DEF Module2

(* One more second of a call of -p: both sides of the account grow. *)
LEMMA ReadBackAgainStep ==
  ASSUME ShutInv, ReadBackAgain
  PROVE  ShutInv'
<1> USE DEF ShutInv
<1>1. /\ UNCHANGED <<minimal, power, present, on, targets, disturbed>> /\ Known' = Known
      /\ elapsed' = elapsed + 1 /\ late' = late + 1 /\ elapsed \in Nat /\ late \in Nat
      /\ pc \in {"module1", "module2"}
      /\ pc' = pc \/ (pc' = "killed" /\ elapsed' >= Limit)
  BY DEF ReadBackAgain, Env, boards, Spend, Known, ShutTypeOK
<1>2. ShutTypeOK' /\ InLoop'
  BY <1>1 DEF ShutTypeOK, InLoop, Looping
<1>3. NonePassedOver'
  BY <1>1 DEF NonePassedOver, Due, Looping
<1> DEFINE all  == BoardTime * Len(targets)
           most == BoardTime * Known
<1>4. all \in Nat /\ most \in Nat /\ OffTime \in Nat
  <2>1. BoardTime \in Nat /\ Len(targets) \in Nat
    BY ShutdownAssumption DEF BoardTime, ShutTypeOK
  <2> QED BY <2>1, KnownNat, Times, ShutdownAssumption
<1>5. /\ pc = "module1" => elapsed + all <= most + late
      /\ pc = "module2" => elapsed + all <= most + OffTime + late
  <2>1. pc = "module1" => elapsed + all <= most + late
    <3>1. Reached # {}
      BY DEF ReadBackAgain
    <3> QED BY <3>1, LoopTime DEF Looping
  <2> QED BY <2>1 DEF TimeSpent
<1> HIDE DEF all, most
<1>6. /\ pc = "module1" => elapsed' + all <= most + late'
      /\ pc = "module2" => elapsed' + all <= most + OffTime + late'
      /\ elapsed' <= most + OffTime + late'
  BY <1>1, <1>4, <1>5
<1>7. TimeSpent'
  BY <1>1, <1>6 DEF TimeSpent, Looping, BoardTime, all, most
<1>8. KilledOnlyOverdue'
  <2>1. pc' = "killed" => most + OffTime + late' >= Limit
    BY <1>1, <1>4, <1>6, ShutdownAssumption
  <2> QED BY <1>1, <2>1 DEF KilledOnlyOverdue, BoardTime, Known, most
<1> QED BY <1>2, <1>3, <1>7, <1>8

(* The wait, and the listing at the end, which only reads. *)
LEMMA EndingStep ==
  ASSUME ShutInv, WaitForReaction \/ ShowCount \/ ShowList \/ Show
  PROVE  ShutInv'
<1> USE DEF ShutInv
<1>1. CASE Show /\ CallFails
  BY <1>1, FailingStep DEF Show
<1>2. CASE WaitForReaction \/ ShowCount \/ ShowList \/ (Show /\ ~CallFails)
  <2>1. /\ UNCHANGED <<minimal, power, present, on, disturbed, late>> /\ Known' = Known
        /\ pc \in After /\ pc' \in After \cup {"killed"} /\ pc' # "wait"
    BY <1>2 DEF WaitForReaction, ShowCount, ShowList, Show, Env, boards, Spend, After, Known
  <2>2. targets' \in Seq(Board \cup {AnyBoard, NoBoard}) /\ (pc' = "show" => targets' # <<>>)
    <3>1. CASE WaitForReaction
      <4>1. UNCHANGED targets /\ pc' # "show"
        BY <3>1 DEF WaitForReaction, Spend
      <4> QED BY <4>1 DEF ShutTypeOK
    <3>2. CASE ShowCount
      <4> DEFINE W == Board \cup {AnyBoard, NoBoard}
      <4>1. <<AnyBoard>> \in Seq(W) /\ <<AnyBoard>> # <<>>
        OBVIOUS
      <4>2. \/ targets' = <<AnyBoard>>
            \/ pc' = "showList" /\ UNCHANGED targets
        BY <3>2 DEF ShowCount
      <4> QED BY <4>1, <4>2 DEF ShutTypeOK
    <3>3. CASE ShowList
      BY <3>3, WordsOfList DEF ShowList
    <3>4. CASE Show /\ ~CallFails
      <4>1. targets' = Tail(targets) /\ targets # <<>> /\ (pc' = "show" => Len(targets) > 1)
        BY <3>4 DEF Show, InLoop
      <4>2. targets' \in Seq(Board \cup {AnyBoard, NoBoard}) /\ Len(targets') = Len(targets) - 1
        BY <4>1, HeadTailProperties DEF ShutTypeOK
      <4>3. pc' = "show" => targets' # <<>>
        <5>1. Len(targets) \in Nat
          BY DEF ShutTypeOK
        <5>2. pc' = "show" => Len(targets') # 0
          <6>1. \A x, y \in Nat : x > 1 /\ y = x - 1 => y # 0
            OBVIOUS
          <6>2. Len(targets') \in Nat /\ Len(targets') = Len(targets) - 1
            BY <4>2, LenProperties
          <6> QED BY <4>1, <5>1, <6>1, <6>2
        <5>3. Len(<<>>) = 0
          BY EmptySeq
        <5> QED BY <5>2, <5>3, Zenon
      <4> QED BY <4>2, <4>3
    <3> QED BY <1>2, <3>1, <3>2, <3>3, <3>4
  <2>3. elapsed' \in Nat /\ (pc' = "killed" => pc = "wait" /\ elapsed' = elapsed + OffTime /\ elapsed' >= Limit)
    BY <1>2, ShutdownAssumption
       DEF WaitForReaction, ShowCount, ShowList, Show, boards, Spend, Wait, ShutTypeOK
  <2>4. ShutTypeOK' /\ InLoop'
    BY <2>1, <2>2, <2>3 DEF ShutTypeOK, InLoop, After, Looping
  <2>5. NonePassedOver'
    BY <2>1 DEF NonePassedOver, Due, After, Looping
  <2>6. TimeSpent'
    BY <2>1 DEF TimeSpent, After, Looping
  <2>7. KilledOnlyOverdue'
    <3> DEFINE most == BoardTime * Known
    <3>1. most \in Nat
      BY KnownNat, Times, ShutdownAssumption DEF BoardTime
    <3>2. pc = "wait" => elapsed <= most + late
      BY DEF TimeSpent
    <3> HIDE DEF most
    <3>3. pc' = "killed" => most + OffTime + late >= Limit
      BY <2>3, <3>1, <3>2, ShutdownAssumption DEF ShutTypeOK
    <3> QED BY <2>1, <3>3 DEF KilledOnlyOverdue, BoardTime, Known, most
  <2> QED BY <2>4, <2>5, <2>6, <2>7
<1> QED BY <1>1, <1>2

(* Every step of the service, of its boards and of other runs keeps the    *)
(* invariant.                                                              *)
LEMMA ShutInvInductive ==
  ASSUME ShutInv, [ShutNext]_shutVars
  PROVE  ShutInv'
<1>1. CASE Count \/ List
  BY <1>1, ListingStep
<1>2. CASE SetOffTime
  BY <1>2, OffTimeStep
<1>3. CASE Module1
  BY <1>3, Module1Step
<1>4. CASE Module2
  BY <1>4, Module2Step
<1>5. CASE WaitForReaction \/ ShowCount \/ ShowList \/ Show
  BY <1>5, EndingStep
<1>6. CASE \E b \in Board : Vanish(b) \/ Appear(b)
  BY <1>6, BoardsStep DEF Module
<1>7. CASE \E b \in Board, m \in Module : SwitchedOn(b, m)
  BY <1>7, BoardsStep
<1>9. CASE ReadBackAgain
  BY <1>9, ReadBackAgainStep
<1>8. CASE UNCHANGED shutVars
  BY <1>8 DEF shutVars, boards, progress, ShutInv, ShutTypeOK, InLoop, NonePassedOver, Due,
              TimeSpent, Known, BoardTime, KilledOnlyOverdue
<1> QED BY <1>1, <1>2, <1>3, <1>4, <1>5, <1>6, <1>7, <1>8, <1>9 DEF ShutNext

(* The invariant of the service, for any boards, times and disturbances. *)
THEOREM ShutInvariant == ShutSpec => []ShutInv
<1>1. ShutInv /\ [ShutNext]_shutVars => ShutInv'
  BY ShutInvInductive
<1> QED BY ShutInitInv, <1>1, PTL DEF ShutSpec

(* A service that reports success has switched off both modules of every   *)
(* board that nobody disturbed, although its two listings may differ, fail *)
(* or be taken from the log.                                               *)
THEOREM SuccessSwitchesOff == ShutSpec => []ExitZeroMeansOff
<1>1. ShutInv => ExitZeroMeansOff
  BY DEF ShutInv, NonePassedOver, Due, ExitZeroMeansOff, Looping
<1> QED BY <1>1, ShutInvariant, PTL

(* systemd stops the script only where the waits for the boards and the    *)
(* seconds that calls of -p take beyond their waits fill the whole time.   *)
THEOREM StoppedOnlyOverdue == ShutSpec => []KilledOnlyOverdue
<1>1. ShutInv => KilledOnlyOverdue
  BY DEF ShutInv
<1> QED BY <1>1, ShutInvariant, PTL

-----------------------------------------------------------------------------
(* The SIM crawler.                                                        *)

Waiting == {"baseline", "poll", "ids", "info"}
Rows    == {"row1", "row2"}

(* All that ModemManager may ever list. *)
AllModems == ({Own} \X Modem) \cup OtherModems

CrawlTypeOK ==
    /\ fitted \in SUBSET Modem \ {{}} /\ powered \in SUBSET Modem
    /\ card \in [Modem -> 0 .. SimMax] /\ shows \in [Modem -> 0 .. SimMax]
    /\ listing \in [Modem -> {"in", "leaving", "out"}]
    /\ at \in {"power", "none2", "switch1", "switch2", "done", "timeout"} \cup Waiting \cup Rows
    /\ step \in 1 .. 4 /\ simNum \in 0 .. SimMax
    /\ single \in BOOLEAN /\ lost \in BOOLEAN
    /\ others \in SUBSET OtherModems /\ back \in SUBSET AllModems
    /\ bus \in Int /\ known \in SUBSET Modem
    /\ prev \in Nat /\ polls \in Nat
    /\ outs \in [Modem -> (0 .. SimMax) \cup {Elsewhere}]
    /\ printed \in SUBSET (0 .. SimMax)
    /\ had \in [Modem -> SUBSET (0 .. SimMax)]
    /\ refused \in SUBSET (Modem \X (1 .. SimMax))

(* With two modems the cards are taken in pairs, and sim_num is the second *)
(* of its pair from the second switch on.                                  *)
SimNumAt ==
    /\ at \in {"power", "ids"} => simNum = 0
    /\ at \in {"info", "none2", "switch1", "switch2", "done"} \cup Rows => simNum > 0
    /\ at = "none2" => single /\ simNum = 1
    /\ at = "switch2" => ~single
    /\ at = "row2" => ~single
    /\ ~single /\ at # "done" => simNum % 2 = IF at = "switch1" THEN 1 ELSE 0

(* Only a modem that is there is listed, and one of the board that was     *)
(* listed anew stays listed with the number of its card as long as the     *)
(* wait lasts.                                                             *)
ListedTruly ==
    /\ \A m \in Modem : listing[m] # "out" => m \in fitted
    /\ at \in {"poll", "ids", "info"} =>
         \A m \in Modem : << Own, m >> \in back =>
           m \in fitted /\ listing[m] = "in" /\ shows[m] = card[m]

(* As long as no modem was listed anew the list does not grow. *)
ListShrinks == at = "poll" /\ back = {} => Cardinality(Listed) <= prev

(* A modem that is alone on the bus of the board is found, and its number  *)
(* is that of its card as long as no other board's is listed anew.         *)
AloneIsRight ==
    bus = Own =>
        \A m \in Modem : fitted = {m} =>
            /\ simNum > 0 => known = {m}
            /\ at \in Rows /\ ~CameElsewhere => outs[m] = card[m]

(* No number is one of a card the modem never had, unless all are those of *)
(* another board; and there is none before the bus is known.               *)
NumbersKnown ==
    /\ \A m \in Modem : card[m] \in had[m] /\ shows[m] \in had[m]
    /\ \A m \in Modem : outs[m] \in (IF bus = Own THEN had[m] ELSE {Elsewhere}) \cup {0}
    /\ simNum = 0 => \A m \in Modem : outs[m] = 0

RefusedCards == {call[2] : call \in refused}

(* With one modem the other has no card and every switch succeeds. *)
SingleCards ==
    ~lost /\ single /\ simNum > 0 =>
        /\ at # "none2" => card[2] = 0
        /\ at \in Waiting \cup Rows => card[1] = simNum
        /\ 1 .. simNum - 1 \subseteq printed

(* With two, what the switches of a round have done, and what is printed.  *)
PairCards ==
    ~lost /\ ~single /\ simNum > 0 =>
        /\ at = "switch1" =>
             /\ IF simNum = 1 THEN refused = {} ELSE card[2] < simNum
             /\ (1 .. simNum - 1) \ RefusedCards \subseteq printed
        /\ at = "switch2" =>
             /\ <<2, simNum>> \notin refused
             /\ \/ card[1] = simNum - 1
                \/ simNum = 2 /\ <<1, 1>> \in refused /\ card[2] = 1
             /\ (1 .. simNum - 2) \ RefusedCards \subseteq printed
        /\ at \in Waiting \cup Rows =>
             /\ card[1] = simNum - 1 \/ simNum - 1 \in RefusedCards
             /\ card[2] = simNum \/ simNum \in RefusedCards
             /\ card[2] <= simNum
             /\ (1 .. IF at = "row2" THEN simNum - 1 ELSE simNum - 2) \ RefusedCards
                  \subseteq printed

CrawlInv ==
    /\ CrawlTypeOK /\ SimNumAt /\ ListedTruly /\ ListShrinks /\ WaitSound
    /\ AloneIsRight /\ NumbersKnown
    /\ ~lost /\ simNum = 0 => refused = {}
    /\ RefusedOnlyFirst /\ SingleCards /\ PairCards /\ CardsCovered

(* There are two modems, and each is the other one of the other. *)
LEMMA ModemFacts ==
  /\ 1 \in Modem /\ 2 \in Modem /\ Other(1) = 2 /\ Other(2) = 1
  /\ \A m \in Modem : m = 1 \/ m = 2
BY DEF Modem, Other

(* A modem is of the board or of another one. *)
LEMMA BusFacts ==
  /\ Own \in Int /\ NoBus \in Int /\ NoBus # Own
  /\ \A x \in OtherModems : x[1] \in Int /\ x[1] # Own
  /\ \A x \in OtherModems, n \in Modem : x # << Own, n >>
  /\ \A n \in Modem : << Own, n >> \in AllModems /\ << Own, n >>[1] = Own /\ << Own, n >>[2] = n
<1> USE CrawlAssumption DEF Own, NoBus
<1>1. \A x \in OtherModems : x[1] \in Nat \ {Own} /\ x[2] \in Modem /\ x = << x[1], x[2] >>
  OBVIOUS
<1>2. \A n \in Modem : << Own, n >> \in AllModems /\ << Own, n >>[1] = Own /\ << Own, n >>[2] = n
  BY DEF AllModems
<1>3. \A x \in OtherModems, n \in Modem : x # << Own, n >>
  BY <1>1, <1>2
<1> QED BY <1>1, <1>2, <1>3

(* What is listed are modems of this board and of others. *)
LEMMA ListedType ==
  ASSUME CrawlTypeOK
  PROVE  Listed \in SUBSET AllModems
BY DEF CrawlTypeOK, Listed, AllModems

(* The length of the list of modems. *)
LEMMA ListedCount ==
  ASSUME NEW S \in SUBSET AllModems
  PROVE  /\ Cardinality(S) \in Nat
         /\ \A T \in SUBSET S : Cardinality(T) <= Cardinality(S)
<1>1. IsFiniteSet({Own})
  BY FS_Singleton, Zenon
<1>2. IsFiniteSet(Modem)
  <2>1. IsFiniteSet({1} \cup {2})
    BY FS_Singleton, FS_AddElement, Zenon
  <2>2. Modem = {1} \cup {2}
    BY DEF Modem
  <2> QED BY <2>1, <2>2, Zenon
<1>3. IsFiniteSet({Own} \X Modem)
  BY <1>1, <1>2, FS_Product, Zenon
<1>4. IsFiniteSet(OtherModems)
  BY CrawlAssumption, Zenon
<1>5. IsFiniteSet(AllModems)
  BY <1>3, <1>4, FS_Union, Zenon DEF AllModems
<1> QED BY <1>5, FS_Subset, FS_CardinalityType

(* The start of the script. *)
LEMMA CrawlInitInv == CrawlInit => CrawlInv
<1> SUFFICES ASSUME CrawlInit PROVE CrawlInv
  OBVIOUS
<1> USE CrawlAssumption, ModemFacts DEF CrawlInit
<1>1. CrawlTypeOK
  <2>1. /\ fitted \in SUBSET Modem \ {{}} /\ powered \in SUBSET Modem
        /\ card \in [Modem -> 0 .. SimMax] /\ shows \in [Modem -> 0 .. SimMax]
        /\ listing \in [Modem -> {"in", "leaving", "out"}]
    OBVIOUS
  <2>2. /\ outs \in [Modem -> (0 .. SimMax) \cup {Elsewhere}]
        /\ had \in [Modem -> SUBSET (0 .. SimMax)]
    BY <2>1
  <2>3. bus \in Int /\ others \in SUBSET OtherModems
    BY BusFacts
  <2>4. single \in BOOLEAN /\ lost \in BOOLEAN
    BY Zenon
  <2>5. /\ at = "power" /\ step \in 1 .. 4 /\ simNum \in 0 .. SimMax
        /\ known \in SUBSET Modem /\ back \in SUBSET AllModems
        /\ prev \in Nat /\ polls \in Nat
    OBVIOUS
  <2>6. printed \in SUBSET (0 .. SimMax) /\ refused \in SUBSET (Modem \X (1 .. SimMax))
    OBVIOUS
  <2> QED BY <2>1, <2>2, <2>3, <2>4, <2>5, <2>6 DEF CrawlTypeOK, Waiting, Rows
<1>2. SimNumAt /\ WaitSound /\ ListShrinks
  BY DEF SimNumAt, WaitSound, ListShrinks, Waiting, Rows
<1>3. ListedTruly
  BY DEF ListedTruly
<1>4. AloneIsRight /\ NumbersKnown
  BY BusFacts DEF AloneIsRight, NumbersKnown, Rows
<1>5. RefusedOnlyFirst /\ SingleCards /\ PairCards /\ CardsCovered
  BY DEF RefusedOnlyFirst, SingleCards, PairCards, CardsCovered
<1> QED BY <1>1, <1>2, <1>3, <1>4, <1>5 DEF CrawlInv

(* ModemManager finds out that a modem has gone.                           *)
LEMMA LeaveStep ==
  ASSUME CrawlInv, NEW m \in Modem, Leave(m)
  PROVE  CrawlInv'
<1> USE CrawlAssumption, ModemFacts DEF CrawlInv, Leave, board, manager, script, history
<1>1. CrawlTypeOK'
  BY DEF CrawlTypeOK, Waiting, Rows
<1>2. SimNumAt'
  BY DEF SimNumAt, CrawlTypeOK, Waiting, Rows
<1>3. ListedTruly'
  BY DEF ListedTruly, CrawlTypeOK
<1>4. ListShrinks'
  <2>1. Listed \in SUBSET AllModems /\ Listed' \in SUBSET Listed
    BY ListedType DEF Listed, CrawlTypeOK
  <2>2. Cardinality(Listed') <= Cardinality(Listed)
        /\ Cardinality(Listed') \in Nat /\ Cardinality(Listed) \in Nat
    BY <2>1, ListedCount
  <2> QED BY <2>2 DEF ListShrinks, CrawlTypeOK
<1>5. WaitSound'
  BY DEF WaitSound, CrawlTypeOK
<1>6. AloneIsRight'
  BY DEF AloneIsRight, CameElsewhere, CrawlTypeOK, SimNumAt, Rows
<1>7. NumbersKnown'
  BY DEF NumbersKnown, CrawlTypeOK
<1>8. RefusedOnlyFirst' /\ (~lost /\ simNum = 0 => refused = {})'
  BY DEF RefusedOnlyFirst, CrawlTypeOK, SimNumAt, Rows
<1>9. SingleCards'
  BY DEF SingleCards, CrawlTypeOK, SimNumAt, Waiting, Rows
<1>10. PairCards'
  BY DEF PairCards, RefusedCards, CrawlTypeOK, SimNumAt, Waiting, Rows
<1>11. CardsCovered'
  BY DEF CardsCovered, CrawlTypeOK, RefusedCards
<1> QED BY <1>1, <1>2, <1>3, <1>4, <1>5, <1>6, <1>7, <1>8, <1>9, <1>10, <1>11

(* A modem is listed anew.                                                 *)
LEMMA ReturnStep ==
  ASSUME CrawlInv, NEW m \in Modem, Return(m)
  PROVE  CrawlInv'
<1> USE CrawlAssumption, ModemFacts DEF CrawlInv, Return, board, manager, script, history
<1>1. CrawlTypeOK'
  BY BusFacts DEF CrawlTypeOK, Waiting, Rows
<1>2. SimNumAt'
  BY DEF SimNumAt, CrawlTypeOK, Waiting, Rows
<1>3. ListedTruly'
  <2> SUFFICES ASSUME NEW n \in Modem, << Own, n >> \in back', at \in {"poll", "ids", "info"}
               PROVE  n \in fitted /\ listing'[n] = "in" /\ shows'[n] = card[n]
    BY DEF ListedTruly, CrawlTypeOK
  <2>1. CASE n = m
    BY <2>1 DEF CrawlTypeOK
  <2>2. CASE n # m
    <3>1. << Own, n >> \in back
      BY <2>2, BusFacts
    <3> QED BY <2>2, <3>1 DEF ListedTruly, CrawlTypeOK
  <2> QED BY <2>1, <2>2
<1>4. ListShrinks'
  BY DEF ListShrinks, CrawlTypeOK, Listed
<1>5. WaitSound'
  BY DEF WaitSound, CrawlTypeOK
<1>6. AloneIsRight'
  BY DEF AloneIsRight, CameElsewhere, CrawlTypeOK, SimNumAt, Rows
<1>7. NumbersKnown'
  BY DEF NumbersKnown, CrawlTypeOK
<1>8. RefusedOnlyFirst' /\ (~lost /\ simNum = 0 => refused = {})'
  BY DEF RefusedOnlyFirst, CrawlTypeOK, SimNumAt, Rows
<1>9. SingleCards'
  BY DEF SingleCards, CrawlTypeOK, SimNumAt, Waiting, Rows
<1>10. PairCards'
  BY DEF PairCards, RefusedCards, CrawlTypeOK, SimNumAt, Waiting, Rows
<1>11. CardsCovered'
  BY DEF CardsCovered, CrawlTypeOK, RefusedCards
<1> QED BY <1>1, <1>2, <1>3, <1>4, <1>5, <1>6, <1>7, <1>8, <1>9, <1>10, <1>11

(* A modem of another board leaves the list.                               *)
LEMMA GoesElsewhereStep ==
  ASSUME CrawlInv, NEW m \in OtherModems, GoesElsewhere(m)
  PROVE  CrawlInv'
<1> USE CrawlAssumption, ModemFacts DEF CrawlInv, GoesElsewhere, board, manager, script, history
<1>1. CrawlTypeOK'
  BY DEF CrawlTypeOK, Waiting, Rows
<1>2. SimNumAt'
  BY DEF SimNumAt, CrawlTypeOK, Waiting, Rows
<1>3. ListedTruly'
  BY DEF ListedTruly, CrawlTypeOK
<1>4. ListShrinks'
  <2>1. Listed \in SUBSET AllModems /\ Listed' \in SUBSET Listed
    BY ListedType DEF Listed, CrawlTypeOK
  <2>2. Cardinality(Listed') <= Cardinality(Listed)
        /\ Cardinality(Listed') \in Nat /\ Cardinality(Listed) \in Nat
    BY <2>1, ListedCount
  <2> QED BY <2>2 DEF ListShrinks, CrawlTypeOK
<1>5. WaitSound'
  BY DEF WaitSound, CrawlTypeOK
<1>6. AloneIsRight'
  BY DEF AloneIsRight, CameElsewhere, CrawlTypeOK, SimNumAt, Rows
<1>7. NumbersKnown'
  BY DEF NumbersKnown, CrawlTypeOK
<1>8. RefusedOnlyFirst' /\ (~lost /\ simNum = 0 => refused = {})'
  BY DEF RefusedOnlyFirst, CrawlTypeOK, SimNumAt, Rows
<1>9. SingleCards'
  BY DEF SingleCards, CrawlTypeOK, SimNumAt, Waiting, Rows
<1>10. PairCards'
  BY DEF PairCards, RefusedCards, CrawlTypeOK, SimNumAt, Waiting, Rows
<1>11. CardsCovered'
  BY DEF CardsCovered, CrawlTypeOK, RefusedCards
<1> QED BY <1>1, <1>2, <1>3, <1>4, <1>5, <1>6, <1>7, <1>8, <1>9, <1>10, <1>11

(* A modem of another board is listed anew.                                *)
LEMMA ComesElsewhereStep ==
  ASSUME CrawlInv, NEW m \in OtherModems, ComesElsewhere(m)
  PROVE  CrawlInv'
<1> USE CrawlAssumption, ModemFacts DEF CrawlInv, ComesElsewhere, board, manager, script, history
<1>1. CrawlTypeOK'
  BY DEF CrawlTypeOK, AllModems, Waiting, Rows
<1>2. SimNumAt'
  BY DEF SimNumAt, CrawlTypeOK, Waiting, Rows
<1>3. ListedTruly'
  BY BusFacts DEF ListedTruly, CrawlTypeOK
<1>4. ListShrinks'
  BY DEF ListShrinks, CrawlTypeOK, Listed
<1>5. WaitSound'
  BY DEF WaitSound, CrawlTypeOK
<1>6. AloneIsRight'
  BY DEF AloneIsRight, CameElsewhere, CrawlTypeOK, SimNumAt, Rows
<1>7. NumbersKnown'
  BY DEF NumbersKnown, CrawlTypeOK
<1>8. RefusedOnlyFirst' /\ (~lost /\ simNum = 0 => refused = {})'
  BY DEF RefusedOnlyFirst, CrawlTypeOK, SimNumAt, Rows
<1>9. SingleCards'
  BY DEF SingleCards, CrawlTypeOK, SimNumAt, Waiting, Rows
<1>10. PairCards'
  BY DEF PairCards, RefusedCards, CrawlTypeOK, SimNumAt, Waiting, Rows
<1>11. CardsCovered'
  BY DEF CardsCovered, CrawlTypeOK, RefusedCards
<1> QED BY <1>1, <1>2, <1>3, <1>4, <1>5, <1>6, <1>7, <1>8, <1>9, <1>10, <1>11

(* The count with which a wait begins.                                     *)
LEMMA BaselineStep ==
  ASSUME CrawlInv, Baseline
  PROVE  CrawlInv'
<1> USE CrawlAssumption, ModemFacts DEF CrawlInv, Baseline, board, manager, script, history
<1>1. CrawlTypeOK'
  <2>1. Cardinality(Listed) \in Nat
    BY ListedType, ListedCount
  <2> QED BY <2>1 DEF CrawlTypeOK, Waiting, Rows
<1>2. SimNumAt'
  BY DEF SimNumAt, CrawlTypeOK, Waiting, Rows
<1>3. ListedTruly'
  BY DEF ListedTruly, CrawlTypeOK
<1>4. ListShrinks'
  <2>1. Cardinality(Listed) \in Nat
    BY ListedType, ListedCount
  <2>2. Listed' = Listed
    BY DEF Listed
  <2> QED BY <2>1, <2>2 DEF ListShrinks
<1>5. WaitSound'
  BY DEF WaitSound, CrawlTypeOK
<1>6. AloneIsRight'
  BY DEF AloneIsRight, CameElsewhere, CrawlTypeOK, SimNumAt, Rows
<1>7. NumbersKnown'
  BY DEF NumbersKnown, CrawlTypeOK
<1>8. RefusedOnlyFirst' /\ (~lost /\ simNum = 0 => refused = {})'
  BY DEF RefusedOnlyFirst, CrawlTypeOK, SimNumAt, Rows
<1>9. SingleCards'
  BY DEF SingleCards, CrawlTypeOK, SimNumAt, Waiting, Rows
<1>10. PairCards'
  BY DEF PairCards, RefusedCards, CrawlTypeOK, SimNumAt, Waiting, Rows
<1>11. CardsCovered'
  BY DEF CardsCovered, CrawlTypeOK, RefusedCards
<1> QED BY <1>1, <1>2, <1>3, <1>4, <1>5, <1>6, <1>7, <1>8, <1>9, <1>10, <1>11

(* One more look at the list, or the end of the patience.                  *)
LEMMA PollStep ==
  ASSUME CrawlInv, Poll
  PROVE  CrawlInv'
<1> USE CrawlAssumption, ModemFacts DEF CrawlInv, Poll, PollOnce, AfterWait, board, manager, script, history
<1>1. CrawlTypeOK'
  <2>1. Cardinality(Listed) \in Nat
    BY ListedType, ListedCount
  <2>2. /\ prev' \in Nat /\ polls' \in Nat
        /\ at' \in {"timeout", "ids", "info", "poll"}
    BY <2>1 DEF CrawlTypeOK
  <2> QED BY <2>2 DEF CrawlTypeOK, Waiting, Rows
<1>2. SimNumAt'
  BY DEF SimNumAt, CrawlTypeOK, Waiting, Rows
<1>3. ListedTruly'
  BY DEF ListedTruly, CrawlTypeOK
<1>4. ListShrinks'
  <2>1. Cardinality(Listed) \in Nat
    BY ListedType, ListedCount
  <2>2. Listed' = Listed
    BY DEF Listed
  <2> QED BY <2>1, <2>2 DEF ListShrinks
<1>5. WaitSound'
  <2>1. Cardinality(Listed) \in Nat
    BY ListedType, ListedCount
  <2> QED BY <2>1 DEF WaitSound, ListShrinks, CrawlTypeOK
<1>6. AloneIsRight'
  BY DEF AloneIsRight, CameElsewhere, CrawlTypeOK, SimNumAt, Rows
<1>7. NumbersKnown'
  BY DEF NumbersKnown, CrawlTypeOK
<1>8. RefusedOnlyFirst' /\ (~lost /\ simNum = 0 => refused = {})'
  BY DEF RefusedOnlyFirst, CrawlTypeOK, SimNumAt, Rows
<1>9. SingleCards'
  BY DEF SingleCards, CrawlTypeOK, SimNumAt, Waiting, Rows
<1>10. PairCards'
  BY DEF PairCards, RefusedCards, CrawlTypeOK, SimNumAt, Waiting, Rows
<1>11. CardsCovered'
  BY DEF CardsCovered, CrawlTypeOK, RefusedCards
<1> QED BY <1>1, <1>2, <1>3, <1>4, <1>5, <1>6, <1>7, <1>8, <1>9, <1>10, <1>11

(* The modems that are there now, which are known from here on.            *)
LEMMA IdsStep ==
  ASSUME CrawlInv, GetEquipmentIds
  PROVE  CrawlInv'
<1> USE CrawlAssumption, ModemFacts DEF CrawlInv, GetEquipmentIds, board, manager, script, history
<1>1. CrawlTypeOK'
  <2>1. bus' \in Int /\ known' \in SUBSET Modem
    <3>1. \A x \in AllModems : x[1] \in Int
      BY BusFacts DEF AllModems
    <3> QED BY <3>1, BusFacts, ListedType DEF SlotsOn
  <2>2. single' \in BOOLEAN /\ simNum' \in 0 .. SimMax /\ at' \in {"none2", "switch1"}
    BY DEF CrawlTypeOK
  <2> QED BY <2>1, <2>2 DEF CrawlTypeOK, Waiting, Rows
<1>2. SimNumAt'
  BY DEF SimNumAt, CrawlTypeOK, Waiting, Rows
<1>3. ListedTruly'
  BY DEF ListedTruly, CrawlTypeOK
<1>4. ListShrinks'
  BY DEF ListShrinks, CrawlTypeOK, Listed
<1>5. WaitSound'
  BY DEF WaitSound, CrawlTypeOK
<1>6. AloneIsRight'
  <2> SUFFICES ASSUME NEW m \in Modem, fitted = {m}, bus' = Own PROVE known' = {m}
    BY DEF AloneIsRight, Rows
  <2>1. \A n \in Modem : << Own, n >> \in Listed => n = m
    BY BusFacts DEF Listed, ListedTruly, CrawlTypeOK
  <2>2. PICK x \in Listed : x[1] = Own
    BY BusFacts
  <2>3. x \in {Own} \X Modem
    BY <2>2, BusFacts, ListedType DEF AllModems
  <2>4. << Own, m >> \in Listed
    <3>1. PICK n \in Modem : x = << Own, n >>
      BY <2>3
    <3> QED BY <2>1, <2>2, <3>1
  <2> QED BY <2>1, <2>4 DEF SlotsOn
<1>7. NumbersKnown'
  <2>1. \A m \in Modem : outs[m] = 0
    BY DEF NumbersKnown, SimNumAt
  <2> QED BY <2>1 DEF NumbersKnown
<1>8. RefusedOnlyFirst' /\ (~lost /\ simNum = 0 => refused = {})'
  <2>1. ~lost => refused = {}
    BY DEF SimNumAt
  <2> QED BY <2>1 DEF RefusedOnlyFirst
<1>9. SingleCards'
  BY DEF SingleCards, CrawlTypeOK, SimNumAt, Waiting, Rows
<1>10. PairCards'
  BY DEF PairCards, RefusedCards, CrawlTypeOK, SimNumAt, Waiting, Rows
<1>11. CardsCovered'
  BY DEF CardsCovered, CrawlTypeOK, RefusedCards
<1> QED BY <1>1, <1>2, <1>3, <1>4, <1>5, <1>6, <1>7, <1>8, <1>9, <1>10, <1>11

(* The numbers as they are shown now.                                      *)
LEMMA InfoStep ==
  ASSUME CrawlInv, GetModemInfo
  PROVE  CrawlInv'
<1> USE CrawlAssumption, ModemFacts DEF CrawlInv, GetModemInfo, InfoOf, NumberOf, board, manager, script, history
<1>1. CrawlTypeOK'
  BY DEF CrawlTypeOK, Waiting, Rows
<1>2. SimNumAt'
  BY DEF SimNumAt, CrawlTypeOK, Waiting, Rows
<1>3. ListedTruly'
  BY DEF ListedTruly, CrawlTypeOK
<1>4. ListShrinks'
  BY DEF ListShrinks, CrawlTypeOK, Listed
<1>5. WaitSound'
  BY DEF WaitSound, CrawlTypeOK
<1>6. AloneIsRight'
  <2> SUFFICES ASSUME NEW m \in Modem, fitted = {m}, bus = Own
               PROVE  known = {m} /\ (~CameElsewhere => outs'[m] = card[m])
    BY DEF AloneIsRight, CameElsewhere, SimNumAt
  <2>1. known = {m}
    BY DEF AloneIsRight, SimNumAt
  <2>2. ASSUME ~CameElsewhere PROVE outs'[m] = card[m]
    <3>1. PICK x \in back : x \in {Own} \X Modem
      BY <2>2 DEF WaitSound, CameElsewhere, CrawlTypeOK, AllModems
    <3>2. PICK n \in Modem : x = << Own, n >>
      BY <3>1
    <3>3. listing[m] = "in" /\ shows[m] = card[m]
      BY <3>1, <3>2 DEF ListedTruly
    <3>4. m \in SlotsOn(bus)
      BY <3>3, BusFacts DEF SlotsOn, Listed
    <3> QED BY <2>1, <3>3, <3>4
  <2> QED BY <2>1, <2>2
<1>7. NumbersKnown'
  BY DEF NumbersKnown, CrawlTypeOK, SimNumAt
<1>8. RefusedOnlyFirst' /\ (~lost /\ simNum = 0 => refused = {})'
  BY DEF RefusedOnlyFirst, CrawlTypeOK, SimNumAt, Rows
<1>9. SingleCards'
  BY DEF SingleCards, CrawlTypeOK, SimNumAt, Waiting, Rows
<1>10. PairCards'
  BY DEF PairCards, RefusedCards, CrawlTypeOK, SimNumAt, Waiting, Rows
<1>11. CardsCovered'
  BY DEF CardsCovered, CrawlTypeOK, RefusedCards
<1> QED BY <1>1, <1>2, <1>3, <1>4, <1>5, <1>6, <1>7, <1>8, <1>9, <1>10, <1>11

(* What a call of -p does, unless it fails. *)
LEMMA SetPowerFacts ==
  ASSUME CrawlTypeOK, NEW m \in Modem, NEW state, SetPower(m, state)
  PROVE  /\ UNCHANGED <<fitted, card, shows, others, had, refused>>
         /\ powered' \in SUBSET Modem /\ lost' \in BOOLEAN /\ (lost => lost')
         /\ listing' \in [Modem -> {"in", "leaving", "out"}]
         /\ \A n \in Modem : listing'[n] # "out" => listing[n] # "out"
<1> USE DEF CrawlTypeOK, board, manager, history
<1>1. CASE CallLost
  BY <1>1 DEF CallLost
<1>2. CASE /\ powered' = IF state = 1 THEN powered \cup {m} ELSE powered \ {m}
           /\ listing' = Restarted({m} \cap (powered \ powered'))
           /\ UNCHANGED <<fitted, card, shows, others, history>>
  BY <1>2 DEF Restarted
<1> QED BY <1>1, <1>2 DEF SetPower

(* What a call of -s does: it fails, is refused or gives the card. *)
LEMMA SetSimFacts ==
  ASSUME CrawlTypeOK, NEW m \in Modem, NEW k \in 0 .. SimMax, SetSim(m, k)
  PROVE  /\ UNCHANGED <<fitted, powered, shows, others>>
         /\ lost' \in BOOLEAN /\ (lost => lost')
         /\ listing' \in [Modem -> {"in", "leaving", "out"}]
         /\ \A n \in Modem : listing'[n] # "out" => listing[n] # "out"
         /\ card' \in [Modem -> 0 .. SimMax]
         /\ had' \in [Modem -> SUBSET (0 .. SimMax)]
         /\ \A n \in Modem : had[n] \subseteq had'[n] /\ (card'[n] = card[n] \/ card'[n] \in had'[n])
         /\ refused' \in SUBSET (Modem \X (1 .. SimMax))
         /\ \/ lost'
            \/ k # 0 /\ card[Other(m)] = k /\ card' = card /\ refused' = refused \cup {<<m, k>>}
            \/ /\ k # 0 => card[Other(m)] # k
               /\ card' = [card EXCEPT ![m] = k] /\ refused' = refused
<1> USE CrawlAssumption DEF CrawlTypeOK, board, manager, history
<1>1. CASE CallLost
  BY <1>1 DEF CallLost
<1>2. CASE /\ k # 0 /\ card[Other(m)] = k
           /\ refused' = refused \cup {<<m, k>>}
           /\ UNCHANGED <<board, manager, had, lost>>
  BY <1>2
<1>3. CASE /\ k # 0 => card[Other(m)] # k
           /\ card' = [card EXCEPT ![m] = k]
           /\ had' = [had EXCEPT ![m] = @ \cup {k}]
           /\ \E S \in IF card[m] = k THEN {{}, {m}} ELSE {{m}} : listing' = Restarted(S)
           /\ UNCHANGED <<fitted, powered, shows, others, refused, lost>>
  <2>1. /\ listing' \in [Modem -> {"in", "leaving", "out"}]
        /\ \A n \in Modem : listing'[n] # "out" => listing[n] # "out"
    BY <1>3 DEF Restarted
  <2>2. card' \in [Modem -> 0 .. SimMax]
    BY <1>3
  <2>3. had' \in [Modem -> SUBSET (0 .. SimMax)]
    BY <1>3
  <2>4. \A n \in Modem : had[n] \subseteq had'[n] /\ (card'[n] = card[n] \/ card'[n] \in had'[n])
    BY <1>3
  <2> QED BY <1>3, <2>1, <2>2, <2>3, <2>4
<1> QED BY <1>1, <1>2, <1>3 DEF SetSim

(* The modems are switched off and on.                                     *)
LEMMA PowerCycleStep ==
  ASSUME CrawlInv, PowerCycle
  PROVE  CrawlInv'
<1> USE CrawlAssumption, ModemFacts DEF CrawlInv, PowerCycle
<1>0. /\ UNCHANGED <<fitted, card, shows, others, had, refused>>
      /\ powered' \in SUBSET Modem /\ lost' \in BOOLEAN /\ (lost => lost')
      /\ listing' \in [Modem -> {"in", "leaving", "out"}]
      /\ \A n \in Modem : listing'[n] # "out" => listing[n] # "out"
  <2>1. PowerCycleCalls[step][1] \in Modem
    BY DEF PowerCycleCalls, CrawlTypeOK
  <2> QED BY <2>1, SetPowerFacts
<1> USE <1>0
<1>1. CrawlTypeOK'
  BY DEF CrawlTypeOK, Waiting, Rows
<1>2. SimNumAt'
  BY DEF SimNumAt, CrawlTypeOK, Waiting, Rows
<1>3. ListedTruly'
  BY DEF ListedTruly, CrawlTypeOK
<1>4. ListShrinks'
  BY DEF ListShrinks, CrawlTypeOK, Listed
<1>5. WaitSound'
  BY DEF WaitSound, CrawlTypeOK
<1>6. AloneIsRight'
  BY DEF AloneIsRight, CameElsewhere, CrawlTypeOK, SimNumAt, Rows
<1>7. NumbersKnown'
  BY DEF NumbersKnown, CrawlTypeOK
<1>8. RefusedOnlyFirst' /\ (~lost /\ simNum = 0 => refused = {})'
  BY DEF RefusedOnlyFirst, CrawlTypeOK, SimNumAt, Rows
<1>9. SingleCards'
  BY DEF SingleCards, CrawlTypeOK, SimNumAt, Waiting, Rows
<1>10. PairCards'
  BY DEF PairCards, RefusedCards, CrawlTypeOK, SimNumAt, Waiting, Rows
<1>11. CardsCovered'
  BY DEF CardsCovered, CrawlTypeOK, RefusedCards
<1> QED BY <1>1, <1>2, <1>3, <1>4, <1>5, <1>6, <1>7, <1>8, <1>9, <1>10, <1>11

(* With one modem the other one loses its card.                            *)
LEMMA AssignNoneStep ==
  ASSUME CrawlInv, AssignNone
  PROVE  CrawlInv'
<1> USE CrawlAssumption, ModemFacts DEF CrawlInv, AssignNone
<1>0. /\ UNCHANGED <<fitted, powered, shows, others>>
      /\ lost' \in BOOLEAN /\ (lost => lost')
      /\ listing' \in [Modem -> {"in", "leaving", "out"}]
      /\ \A n \in Modem : listing'[n] # "out" => listing[n] # "out"
      /\ card' \in [Modem -> 0 .. SimMax]
      /\ had' \in [Modem -> SUBSET (0 .. SimMax)]
      /\ \A n \in Modem : had[n] \subseteq had'[n] /\ (card'[n] = card[n] \/ card'[n] \in had'[n])
      /\ refused' \in SUBSET (Modem \X (1 .. SimMax))
      /\ \/ lost'
         \/ 0 # 0 /\ card[1] = 0 /\ card' = card /\ refused' = refused \cup {<<2, 0>>}
         \/ /\ 0 # 0 => card[1] # 0
            /\ card' = [card EXCEPT ![2] = 0] /\ refused' = refused
  <2>1. 0 \in 0 .. SimMax
    BY DEF CrawlTypeOK
  <2> QED BY <2>1, SetSimFacts DEF NoSimForModem2
<1> USE <1>0
<1>1. CrawlTypeOK'
  BY DEF CrawlTypeOK, Waiting, Rows
<1>2. SimNumAt'
  BY DEF SimNumAt, CrawlTypeOK, Waiting, Rows
<1>3. ListedTruly'
  BY DEF ListedTruly, CrawlTypeOK
<1>4. ListShrinks'
  BY DEF ListShrinks, CrawlTypeOK, Listed
<1>5. WaitSound'
  BY DEF WaitSound, CrawlTypeOK
<1>6. AloneIsRight'
  BY DEF AloneIsRight, CameElsewhere, CrawlTypeOK, SimNumAt, Rows
<1>7. NumbersKnown'
  BY DEF NumbersKnown, CrawlTypeOK
<1>8. RefusedOnlyFirst' /\ (~lost /\ simNum = 0 => refused = {})'
  BY DEF RefusedOnlyFirst, CrawlTypeOK, SimNumAt, Rows
<1>9. SingleCards'
  BY DEF SingleCards, CrawlTypeOK, SimNumAt, Waiting, Rows
<1>10. PairCards'
  BY DEF PairCards, RefusedCards, CrawlTypeOK, SimNumAt, Waiting, Rows
<1>11. CardsCovered'
  BY DEF CardsCovered, CrawlTypeOK, RefusedCards
<1> QED BY <1>1, <1>2, <1>3, <1>4, <1>5, <1>6, <1>7, <1>8, <1>9, <1>10, <1>11

(* The first switch of a round.                                            *)
LEMMA Switch1Step ==
  ASSUME CrawlInv, Switch1
  PROVE  CrawlInv'
<1> USE CrawlAssumption, ModemFacts DEF CrawlInv, Switch1
<1>0. /\ UNCHANGED <<fitted, powered, shows, others>>
      /\ lost' \in BOOLEAN /\ (lost => lost')
      /\ listing' \in [Modem -> {"in", "leaving", "out"}]
      /\ \A n \in Modem : listing'[n] # "out" => listing[n] # "out"
      /\ card' \in [Modem -> 0 .. SimMax]
      /\ had' \in [Modem -> SUBSET (0 .. SimMax)]
      /\ \A n \in Modem : had[n] \subseteq had'[n] /\ (card'[n] = card[n] \/ card'[n] \in had'[n])
      /\ refused' \in SUBSET (Modem \X (1 .. SimMax))
      /\ \/ lost'
         \/ simNum # 0 /\ card[2] = simNum /\ card' = card /\ refused' = refused \cup {<<1, simNum>>}
         \/ /\ simNum # 0 => card[2] # simNum
            /\ card' = [card EXCEPT ![1] = simNum] /\ refused' = refused
  <2>1. simNum \in 0 .. SimMax
    BY DEF CrawlTypeOK
  <2> QED BY <2>1, SetSimFacts
<1> USE <1>0
<1>1. CrawlTypeOK'
  <2>1. simNum' \in 0 .. SimMax
    BY DEF CrawlTypeOK, SimNumAt
  <2> QED BY <2>1 DEF CrawlTypeOK, Waiting, Rows
<1>2. SimNumAt'
  BY DEF SimNumAt, CrawlTypeOK, Waiting, Rows
<1>3. ListedTruly'
  BY DEF ListedTruly, CrawlTypeOK
<1>4. ListShrinks'
  BY DEF ListShrinks, CrawlTypeOK, Listed
<1>5. WaitSound'
  BY DEF WaitSound, CrawlTypeOK
<1>6. AloneIsRight'
  BY DEF AloneIsRight, CameElsewhere, CrawlTypeOK, SimNumAt, Rows
<1>7. NumbersKnown'
  BY DEF NumbersKnown, CrawlTypeOK
<1>8. RefusedOnlyFirst' /\ (~lost /\ simNum = 0 => refused = {})'
  <2> SUFFICES ASSUME ~lost', refused' # refused PROVE refused' = {<<1, 1>>} /\ ~single
    BY DEF RefusedOnlyFirst, SimNumAt, CrawlTypeOK
  <2>1. card[2] = simNum /\ refused' = refused \cup {<<1, simNum>>} /\ simNum \in Nat /\ simNum > 0
    BY DEF SimNumAt, CrawlTypeOK
  <2>2. ~single
    BY <2>1 DEF SingleCards
  <2>3. simNum = 1 /\ refused = {}
    BY <2>1, <2>2 DEF PairCards
  <2> QED BY <2>1, <2>2, <2>3
<1>9. SingleCards'
  BY DEF SingleCards, CrawlTypeOK, SimNumAt, Waiting, Rows
<1>10. PairCards'
  <2> SUFFICES ASSUME ~lost', ~single
               PROVE  /\ <<2, simNum + 1>> \notin refused'
                      /\ card'[1] = simNum \/ (simNum = 1 /\ <<1, 1>> \in refused' /\ card'[2] = 1)
                      /\ (1 .. simNum - 1) \ RefusedCards' \subseteq printed
    BY DEF PairCards, CrawlTypeOK, SimNumAt, Waiting, Rows
  <2>1. simNum \in Nat /\ simNum > 0 /\ refused \subseteq refused'
    BY DEF SimNumAt, CrawlTypeOK
  <2>2. (1 .. simNum - 1) \ RefusedCards' \subseteq printed
    BY <2>1 DEF PairCards, RefusedCards
  <2>3. <<2, simNum + 1>> \notin refused
    BY <2>1 DEF PairCards, RefusedOnlyFirst
  <2>4. CASE card[2] = simNum /\ card' = card /\ refused' = refused \cup {<<1, simNum>>}
    <3>1. simNum = 1
      BY <2>1, <2>4 DEF PairCards
    <3> QED BY <2>2, <2>3, <2>4, <3>1
  <2>5. CASE card' = [card EXCEPT ![1] = simNum] /\ refused' = refused
    BY <2>2, <2>3, <2>5 DEF CrawlTypeOK
  <2> QED BY <2>1, <2>4, <2>5
<1>11. CardsCovered'
  BY DEF CardsCovered, CrawlTypeOK, RefusedCards
<1> QED BY <1>1, <1>2, <1>3, <1>4, <1>5, <1>6, <1>7, <1>8, <1>9, <1>10, <1>11

(* The second switch of a round.                                           *)
LEMMA Switch2Step ==
  ASSUME CrawlInv, Switch2
  PROVE  CrawlInv'
<1> USE CrawlAssumption, ModemFacts DEF CrawlInv, Switch2
<1>0. /\ UNCHANGED <<fitted, powered, shows, others>>
      /\ lost' \in BOOLEAN /\ (lost => lost')
      /\ listing' \in [Modem -> {"in", "leaving", "out"}]
      /\ \A n \in Modem : listing'[n] # "out" => listing[n] # "out"
      /\ card' \in [Modem -> 0 .. SimMax]
      /\ had' \in [Modem -> SUBSET (0 .. SimMax)]
      /\ \A n \in Modem : had[n] \subseteq had'[n] /\ (card'[n] = card[n] \/ card'[n] \in had'[n])
      /\ refused' \in SUBSET (Modem \X (1 .. SimMax))
      /\ \/ lost'
         \/ simNum # 0 /\ card[1] = simNum /\ card' = card /\ refused' = refused \cup {<<2, simNum>>}
         \/ /\ simNum # 0 => card[1] # simNum
            /\ card' = [card EXCEPT ![2] = simNum] /\ refused' = refused
  <2>1. simNum \in 0 .. SimMax
    BY DEF CrawlTypeOK
  <2> QED BY <2>1, SetSimFacts
<1> USE <1>0
<1>1. CrawlTypeOK'
  BY DEF CrawlTypeOK, Waiting, Rows
<1>2. SimNumAt'
  BY DEF SimNumAt, CrawlTypeOK, Waiting, Rows
<1>3. ListedTruly'
  BY DEF ListedTruly, CrawlTypeOK
<1>4. ListShrinks'
  BY DEF ListShrinks, CrawlTypeOK, Listed
<1>5. WaitSound'
  BY DEF WaitSound, CrawlTypeOK
<1>6. AloneIsRight'
  BY DEF AloneIsRight, CameElsewhere, CrawlTypeOK, SimNumAt, Rows
<1>7. NumbersKnown'
  BY DEF NumbersKnown, CrawlTypeOK
<1>8. RefusedOnlyFirst' /\ (~lost /\ simNum = 0 => refused = {})'
  <2> SUFFICES ASSUME ~lost', refused' # refused
               PROVE  refused' = refused \cup {<<2, 2>>} /\ <<1, 1>> \in refused /\ ~single
    BY DEF RefusedOnlyFirst, SimNumAt, CrawlTypeOK
  <2>1. card[1] = simNum /\ refused' = refused \cup {<<2, simNum>>} /\ simNum \in Nat /\ simNum > 0 /\ ~single
    BY DEF SimNumAt, CrawlTypeOK
  <2>2. simNum = 2 /\ <<1, 1>> \in refused
    BY <2>1 DEF PairCards
  <2> QED BY <2>1, <2>2
<1>9. SingleCards'
  BY DEF SingleCards, CrawlTypeOK, SimNumAt, Waiting, Rows
<1>10. PairCards'
  BY DEF PairCards, RefusedCards, CrawlTypeOK, SimNumAt, Waiting, Rows
<1>11. CardsCovered'
  BY DEF CardsCovered, CrawlTypeOK, RefusedCards
<1> QED BY <1>1, <1>2, <1>3, <1>4, <1>5, <1>6, <1>7, <1>8, <1>9, <1>10, <1>11

(* The row printed for modem m: with the card it has, or none if the call  *)
(* of the tool fails.                                                      *)
LEMMA PrintRowFacts ==
  ASSUME CrawlTypeOK, NEW m \in Modem, PrintRow(m)
  PROVE  /\ UNCHANGED <<fitted, card, powered, listing, shows, others, had, refused>>
         /\ lost' \in BOOLEAN /\ (lost => lost')
         /\ printed \subseteq printed' /\ printed' \in SUBSET (0 .. SimMax)
         /\ ~lost' => printed' = printed \cup {card[m]}
<1> USE CrawlAssumption DEF CrawlTypeOK, board, manager, history
<1>1. CASE CallLost /\ UNCHANGED printed
  <2>1. lost' = TRUE /\ UNCHANGED <<fitted, card, powered, listing, shows, others, had, refused>>
    BY <1>1, Zenon DEF CallLost
  <2>2. lost' \in BOOLEAN /\ (lost => lost')
    BY <2>1, Zenon
  <2>3. printed \subseteq printed' /\ printed' \in SUBSET (0 .. SimMax)
    BY <1>1
  <2> QED BY <2>1, <2>2, <2>3, Zenon
<1>2. CASE /\ printed' = printed \cup {card[m]}
           /\ UNCHANGED <<board, manager, history>>
  <2>1. UNCHANGED <<fitted, card, powered, listing, shows, others, had, refused, lost>>
    BY <1>2
  <2>2. lost' \in BOOLEAN /\ (lost => lost')
    BY <2>1, Zenon
  <2>3. printed \subseteq printed' /\ printed' \in SUBSET (0 .. SimMax)
    <3>1. card[m] \in 0 .. SimMax /\ printed \in SUBSET (0 .. SimMax)
      OBVIOUS
    <3>2. printed' = printed \cup {card[m]}
      BY <1>2, Zenon
    <3> QED BY <3>1, <3>2
  <2> QED BY <1>2, <2>1, <2>2, <2>3, Zenon
<1> QED BY <1>1, <1>2 DEF PrintRow

(* The row of the first modem.                                             *)
LEMMA Row1Step ==
  ASSUME CrawlInv, Row1
  PROVE  CrawlInv'
<1> USE CrawlAssumption, ModemFacts DEF CrawlInv, Row1, NextSim
<1>0. /\ UNCHANGED <<fitted, card, powered, listing, shows, others, had, refused>>
      /\ lost' \in BOOLEAN /\ (lost => lost')
      /\ printed \subseteq printed' /\ printed' \in SUBSET (0 .. SimMax)
      /\ ~lost' => printed' = printed \cup {card[1]}
  BY PrintRowFacts
<1> USE <1>0
<1>1. CrawlTypeOK'
  BY DEF CrawlTypeOK, Waiting, Rows
<1>2. SimNumAt'
  BY DEF SimNumAt, CrawlTypeOK, Waiting, Rows
<1>3. ListedTruly'
  BY DEF ListedTruly, CrawlTypeOK
<1>4. ListShrinks'
  BY DEF ListShrinks, CrawlTypeOK, Listed
<1>5. WaitSound'
  BY DEF WaitSound, CrawlTypeOK
<1>6. AloneIsRight'
  BY DEF AloneIsRight, CameElsewhere, CrawlTypeOK, SimNumAt, Rows
<1>7. NumbersKnown'
  BY DEF NumbersKnown, CrawlTypeOK
<1>8. RefusedOnlyFirst' /\ (~lost /\ simNum = 0 => refused = {})'
  BY DEF RefusedOnlyFirst, CrawlTypeOK, SimNumAt, Rows
<1>9. SingleCards'
  BY DEF SingleCards, CrawlTypeOK, SimNumAt, Waiting, Rows
<1>10. PairCards'
  BY DEF PairCards, RefusedCards, CrawlTypeOK, SimNumAt, Waiting, Rows
<1>11. CardsCovered'
  <2> SUFFICES ASSUME at' = "done", ~lost'
               PROVE  (1 .. SimMax) \ RefusedCards \subseteq printed'
    BY DEF CardsCovered, RefusedCards
  <2>1. single /\ simNum = SimMax
    BY DEF SimNumAt, CrawlTypeOK
  <2>2. card[1] = simNum /\ 1 .. simNum - 1 \subseteq printed
    BY <2>1 DEF SingleCards, SimNumAt, Rows
  <2> QED BY <2>1, <2>2
<1> QED BY <1>1, <1>2, <1>3, <1>4, <1>5, <1>6, <1>7, <1>8, <1>9, <1>10, <1>11

(* The row of the second modem.                                            *)
LEMMA Row2Step ==
  ASSUME CrawlInv, Row2
  PROVE  CrawlInv'
<1> USE CrawlAssumption, ModemFacts DEF CrawlInv, Row2, NextSim
<1>0. /\ UNCHANGED <<fitted, card, powered, listing, shows, others, had, refused>>
      /\ lost' \in BOOLEAN /\ (lost => lost')
      /\ printed \subseteq printed' /\ printed' \in SUBSET (0 .. SimMax)
      /\ ~lost' => printed' = printed \cup {card[2]}
  BY PrintRowFacts
<1> USE <1>0
<1>a. simNum \in Nat /\ simNum > 0 /\ ~single /\ simNum % 2 = 0 /\ simNum <= SimMax
  BY DEF SimNumAt, CrawlTypeOK, Rows
<1>b. ~lost' => (1 .. simNum) \ RefusedCards \subseteq printed' /\ card[2] <= simNum
  <2> SUFFICES ASSUME ~lost' PROVE (1 .. simNum) \ RefusedCards \subseteq printed' /\ card[2] <= simNum
    OBVIOUS
  <2>1. /\ card[2] = simNum \/ simNum \in RefusedCards
        /\ card[2] <= simNum
        /\ (1 .. simNum - 1) \ RefusedCards \subseteq printed
    BY <1>a DEF PairCards, Rows
  <2> QED BY <1>a, <2>1
<1>c. RefusedCards' = RefusedCards
  BY DEF RefusedCards
<1>1. CrawlTypeOK'
  BY DEF CrawlTypeOK, Waiting, Rows
<1>2. SimNumAt'
  BY DEF SimNumAt, CrawlTypeOK, Waiting, Rows
<1>3. ListedTruly'
  BY DEF ListedTruly, CrawlTypeOK
<1>4. ListShrinks'
  BY DEF ListShrinks, CrawlTypeOK, Listed
<1>5. WaitSound'
  BY DEF WaitSound, CrawlTypeOK
<1>6. AloneIsRight'
  BY DEF AloneIsRight, CameElsewhere, CrawlTypeOK, SimNumAt, Rows
<1>7. NumbersKnown'
  BY DEF NumbersKnown, CrawlTypeOK
<1>8. RefusedOnlyFirst' /\ (~lost /\ simNum = 0 => refused = {})'
  BY DEF RefusedOnlyFirst, CrawlTypeOK, SimNumAt, Rows
<1>9. SingleCards'
  BY DEF SingleCards, CrawlTypeOK, SimNumAt, Waiting, Rows
<1>10. PairCards'
  <2>1. CASE at' = "done"
    BY <1>a, <2>1 DEF PairCards, Waiting, Rows
  <2>2. CASE at' = "switch1" /\ simNum' = simNum + 1
    BY <1>a, <1>b, <1>c, <2>2 DEF PairCards, Waiting, Rows, CrawlTypeOK
  <2> QED BY <1>a, <2>1, <2>2
<1>11. CardsCovered'
  <2> SUFFICES ASSUME at' = "done", ~lost'
               PROVE  (1 .. SimMax) \ RefusedCards \subseteq printed'
    BY DEF CardsCovered, RefusedCards
  <2>1. simNum = SimMax
    BY <1>a
  <2> QED BY <1>b, <2>1
<1> QED BY <1>1, <1>2, <1>3, <1>4, <1>5, <1>6, <1>7, <1>8, <1>9, <1>10, <1>11

(* Every step of the script and of ModemManager keeps the invariant.       *)
LEMMA CrawlInvInductive == CrawlInv /\ [CrawlNext]_crawlVars => CrawlInv'
<1> SUFFICES ASSUME CrawlInv, [CrawlNext]_crawlVars PROVE CrawlInv'
  OBVIOUS
<1>1. CASE PowerCycle
  BY <1>1, PowerCycleStep
<1>2. CASE Baseline
  BY <1>2, BaselineStep
<1>3. CASE Poll
  BY <1>3, PollStep
<1>4. CASE GetEquipmentIds
  BY <1>4, IdsStep
<1>5. CASE AssignNone
  BY <1>5, AssignNoneStep
<1>6. CASE Switch1
  BY <1>6, Switch1Step
<1>7. CASE Switch2
  BY <1>7, Switch2Step
<1>8. CASE GetModemInfo
  BY <1>8, InfoStep
<1>9. CASE Row1
  BY <1>9, Row1Step
<1>10. CASE Row2
  BY <1>10, Row2Step
<1>11. CASE \E m \in Modem : Leave(m) \/ Return(m)
  BY <1>11, LeaveStep, ReturnStep
<1>12. CASE \E m \in OtherModems : GoesElsewhere(m) \/ ComesElsewhere(m)
  BY <1>12, GoesElsewhereStep, ComesElsewhereStep
<1>13. CASE UNCHANGED crawlVars
  BY <1>13 DEF CrawlInv, CrawlTypeOK, SimNumAt, ListedTruly, ListShrinks, WaitSound,
     AloneIsRight, NumbersKnown, RefusedOnlyFirst, SingleCards, PairCards, CardsCovered,
     RefusedCards, CameElsewhere, Listed, Waiting, Rows, crawlVars, board, manager, script, history
<1> QED BY <1>1, <1>2, <1>3, <1>4, <1>5, <1>6, <1>7, <1>8, <1>9, <1>10, <1>11, <1>12, <1>13
        DEF CrawlNext, Script

(* The invariant of the script, for every number of cards and every length *)
(* of the wait.                                                            *)
THEOREM CrawlInvariant == CrawlSpec => []CrawlInv
BY CrawlInitInv, CrawlInvInductive, PTL DEF CrawlSpec

(* wait_for_modem returns well only after a modem was listed anew: the     *)
(* list does not grow while none was, so a late departure is not taken for *)
(* an arrival.                                                             *)
THEOREM WaitIsSound == CrawlSpec => []WaitSound
BY CrawlInvariant, PTL DEF CrawlInv

(* The tool refuses at most the two switches of the first round, and none  *)
(* with one modem.                                                         *)
THEOREM LaterRoundsAccepted == CrawlSpec => []RefusedOnlyFirst
BY CrawlInvariant, PTL DEF CrawlInv

(* A script that ends has printed every card that was not refused.         *)
THEOREM EveryCardPrinted == CrawlSpec => []CardsCovered
BY CrawlInvariant, PTL DEF CrawlInv

(* The number in a row is that of the card beside it; it is one of a card  *)
(* the modem had before, or none, only with two modems or after a modem of *)
(* another board came; and it is one of another board only where the bus   *)
(* was taken from that board's modem.                                      *)
THEOREM RowsAreTruthful == CrawlSpec => []RowTruthful
<1>1. CrawlInv => RowTruthful
  <2> SUFFICES ASSUME CrawlInv, NEW m \in fitted, at = RowOf(m), outs[m] # card[m]
               PROVE  \/ outs[m] \in had[m] \cup {0} /\ (fitted = Modem \/ CameElsewhere)
                      \/ outs[m] \in {Elsewhere, 0} /\ bus # Own
    BY DEF RowTruthful
  <2>1. m \in Modem /\ fitted \in SUBSET Modem
    BY DEF CrawlInv, CrawlTypeOK
  <2>2. CASE bus # Own
    BY <2>1, <2>2 DEF CrawlInv, NumbersKnown
  <2>3. CASE bus = Own
    <3>1. outs[m] \in had[m] \cup {0}
      BY <2>1, <2>3 DEF CrawlInv, NumbersKnown
    <3>2. at \in Rows
      BY DEF RowOf, Rows
    <3>3. fitted # {m} \/ CameElsewhere
      BY <2>1, <2>3, <3>2 DEF CrawlInv, AloneIsRight
    <3>4. fitted # {m} => fitted = Modem
      BY <2>1 DEF Modem
    <3> QED BY <3>1, <3>3, <3>4
  <2> QED BY <2>2, <2>3
<1> QED BY <1>1, CrawlInvariant, PTL

=============================================================================
