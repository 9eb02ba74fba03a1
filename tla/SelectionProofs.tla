--------------------------- MODULE SelectionProofs ---------------------------
(***************************************************************************)
(* A run of either tool reaches the board it was asked for, with any       *)
(* number of boards, serial numbers, addresses and firmware, and any       *)
(* number of boards that restart during the run.                           *)
(***************************************************************************)
EXTENDS Selection, FiniteSetTheorems, SequenceTheorems, WellFoundedInduction,
        TLAPS

-----------------------------------------------------------------------------
(* The invariant.                                                          *)

Entries == [board : Board, pid : 1 .. 3, release : Releases, strings : Strings]

StdSteps     == {"enumerate", "check", "select", "reopen", "openPath"}
MinimalSteps == {"scan", "open"}
Ended        == {"ok", "failed", "crashed"}

SelTypeOK ==
    /\ kind \in Kinds /\ up \in SUBSET Board /\ disturbed \in SUBSET Board
    /\ release \in [Board -> Releases]
    /\ tool = "minimal" => node \in [Board -> Node \cup {NoNode}]
    /\ tool \in {"std", "minimal"} /\ ask \in Asks(tool)
    /\ at \in {"commands"} \cup Ended \cup IF tool = "std" THEN StdSteps ELSE MinimalSteps
    /\ pass \in Nat /\ list \in Seq(Entries) /\ sel \in Nat
    /\ opened \in up \cup {NoBoard}
    /\ excuse \in BOOLEAN

(* A hidraw number belongs to one board at a time; the standard tool does  *)
(* not look at them.                                                       *)
NodesDistinct ==
    tool = "minimal" => \A b, c \in Board : b # c /\ node[b] # NoNode => node[b] # node[c]

(* An entry of the list is true of its board until that restarts. *)
EntriesTrue ==
    \A i \in DOMAIN list :
        /\ list[i].pid = 2 => kind = "ME10"
        /\ list[i].pid = 3 => kind = "G239"
        /\ \/ list[i].board \in disturbed
           \/ list[i].pid = Pid(list[i].board) /\ list[i].release = release[list[i].board]

(* What CheckAvailableDevices and the name found before the selection are  *)
(* worth: no string is missing but geographical addresses.                 *)
Checked ==
    at \in {"select", "reopen", "openPath"} =>
        /\ \A i \in DOMAIN list : HasProduct(list[i]) /\ HasSerial(list[i])
        /\ list # <<>> /\ name = kind /\ kind # "G227"

(* The device selected is the one that was meant, and so is the one that   *)
(* hid_open finds; that may be another only with -n.                       *)
SelectedMeant ==
    at \in {"reopen", "openPath"} =>
        /\ sel \in DOMAIN list /\ Meant(list[sel].board) /\ Meant(path)
        /\ path \in Board
        /\ path = list[sel].board \/ ask.by = "serial"
        /\ at = "reopen" => ask.by = "serial"

(* The hidraw number noted by the scan is that of the board that was       *)
(* counted, or of one that got it during the run.                          *)
NotedMeant ==
    at \in {"scan", "open"} =>
        /\ ask.by = "index" /\ ask.arg \in DOMAIN list =>
             \A b \in Board \ disturbed : node[b] = sel => list[ask.arg].board = b
        /\ ask.by = "only" /\ list = <<>> => sel = 0
        /\ ask.by = "only" /\ Len(list) = 1 =>
             \A b \in Board \ disturbed : node[b] = sel => list[1].board = b

(* The boards of a run in which none was disturbed. *)
Undisturbed ==
    disturbed = {} => node = [b \in Board |-> IF b \in up THEN b - 1 ELSE NoNode]

(* The boards that the enumerations, or the scan, have met so far. *)
Met == CASE at = "enumerate" -> {b \in up : Pid(b) < pass}
         [] at = "scan"      -> {b \in up : node[b] < pass}
         [] OTHER            -> up

(* Without a disturbance the list has each of them once, with its strings. *)
ListComplete ==
    /\ at = "enumerate" => pass \in 1 .. 3
    /\ at = "scan" => pass \in Node
    /\ at = "scan" => ask.by # "path"
    /\ ~excuse /\ disturbed = {} /\ at \notin Ended \cup {"commands"} /\ ask.by # "path" =>
         /\ \A i \in DOMAIN list : list[i].strings = "all"
         /\ \A i, j \in DOMAIN list : list[i].board = list[j].board => i = j
         /\ {list[i].board : i \in DOMAIN list} = Met

SelInv ==
    /\ SelTypeOK /\ NodesDistinct /\ EntriesTrue /\ Checked /\ SelectedMeant /\ NotedMeant
    /\ Undisturbed /\ ListComplete
    /\ RightBoard /\ VersionOfOpened /\ NameIsKind /\ CrashOnlyWithoutGeo /\ FailsForAReason

-----------------------------------------------------------------------------
(* Lemmas on the operators of the model.                                   *)

(* Boards are numbers, and sets of them can be counted. *)
LEMMA BoardFacts ==
  /\ IsFiniteSet(Board) /\ Board \subseteq Nat \ {0} /\ NoBoard \notin Board
  /\ \A S \in SUBSET Board : IsFiniteSet(S) /\ Cardinality(S) \in Nat
<1>1. IsFiniteSet(1 .. BoardMax)
  BY SelectionAssumption, FS_Interval
<1>2. \A S \in SUBSET Board : IsFiniteSet(S) /\ Cardinality(S) \in Nat
  BY <1>1, FS_Subset, FS_CardinalityType DEF Board
<1> QED BY <1>1, <1>2, SelectionAssumption DEF Board, NoBoard

(* Product ids other than the first one tell the type of a board. *)
LEMMA PidFacts ==
  ASSUME NEW b \in Board
  PROVE  /\ Pid(b) \in 1 .. 3
         /\ Pid(b) = 2 => kind = "ME10"
         /\ Pid(b) = 3 => kind = "G239"
<1>1. CASE kind = "ME10" /\ GetFwVersionAsInt(release[b]) >= 200
  BY <1>1 DEF Pid
<1>2. CASE kind = "G239" /\ GetFwVersionAsInt(release[b]) >= 200
  BY <1>2 DEF Pid
<1>3. CASE ~(kind = "ME10" /\ GetFwVersionAsInt(release[b]) >= 200)
           /\ ~(kind = "G239" /\ GetFwVersionAsInt(release[b]) >= 200)
  BY <1>3 DEF Pid
<1> QED BY <1>1, <1>2, <1>3

(* Which board is meant, by the option of the user. *)
LEMMA MeantFacts ==
  ASSUME NEW b
  PROVE  /\ ask.by = "serial" => (Meant(b) <=> Serials[b] = ask.arg)
         /\ ask.by = "geo" => (Meant(b) <=> Geos[b] = ask.arg)
         /\ ask.by = "index" => (Meant(b) <=> ask.arg \in DOMAIN list /\ list[ask.arg].board = b)
         /\ ask.by = "only" => (Meant(b) <=> Len(list) = 1 /\ list[1].board = b)
         /\ ask.by \notin {"serial", "geo", "index", "only"} => Meant(b)
BY DEF Meant

(* The name of the first device is the type of the boards. *)
LEMMA NameFacts ==
  ASSUME NEW d, d.pid = 2 => kind = "ME10", d.pid = 3 => kind = "G239"
  PROVE  BoardName(d) = kind
BY DEF BoardName

(* The fields of the entries of the list. *)
LEMMA EntryTypes ==
  ASSUME SelTypeOK, NEW i \in DOMAIN list
  PROVE  /\ list[i] \in Entries /\ i \in Nat
         /\ list[i].board \in Board /\ list[i].pid \in 1 .. 3
         /\ list[i].release \in Releases /\ list[i].strings \in Strings
<1>1. list[i] \in Entries /\ i \in Nat
  BY DEF SelTypeOK
<1> QED BY <1>1 DEF Entries

(* Min picks the first of the places in a list. *)
LEMMA MinFacts ==
  ASSUME NEW S \in SUBSET Nat, S # {}
  PROVE  Min(S) \in S /\ \A i \in S : Min(S) <= i
<1>1. \E m \in S : \A i \in Nat : <<i, m>> \in OpToRel(<, Nat) => i \notin S
  BY WFMin, NatLessThanWellFounded, Zenon
<1>2. \E m \in S : \A i \in S : m <= i
  <2>1. PICK m \in S : \A i \in Nat : <<i, m>> \in OpToRel(<, Nat) => i \notin S
    BY <1>1
  <2>2. \A i \in S : i < m => <<i, m>> \in OpToRel(<, Nat)
    BY DEF OpToRel
  <2>3. \A i \in S : ~(i < m)
    BY <2>1, <2>2
  <2> QED BY <2>3
<1> QED BY <1>2 DEF Min

(* The list of a set of boards has each of them once, and nothing else. *)
LEMMA InBusOrderLists ==
  ASSUME NEW S \in SUBSET Board, NEW s \in InBusOrder(S)
  PROVE  /\ s \in Seq(S)
         /\ \A i, j \in DOMAIN s : s[i] = s[j] => i = j
         /\ \A b \in S : \E i \in DOMAIN s : s[i] = b
<1> DEFINE n == Cardinality(S)
<1>1. IsFiniteSet(S) /\ n \in Nat
  BY BoardFacts
<1>2. s \in [1 .. n -> S] /\ \A i, j \in 1 .. n : i < j => s[i] < s[j]
  BY DEF InBusOrder
<1>3. \A i, j \in 1 .. n : s[i] = s[j] => i = j
  <2> SUFFICES ASSUME NEW i \in 1 .. n, NEW j \in 1 .. n, s[i] = s[j] PROVE i = j
    OBVIOUS
  <2>1. s[i] \in Board /\ s[j] \in Board /\ i \in Int /\ j \in Int
    BY <1>1, <1>2
  <2>2. s[i] \in Int /\ s[j] \in Int
    BY <2>1, SelectionAssumption DEF Board
  <2>3. ~(i < j) /\ ~(j < i)
    BY <1>2, <2>2
  <2> QED BY <2>1, <2>3
<1>4. s \in Injection(1 .. n, S)
  BY <1>2, <1>3 DEF Injection, IsInjective
<1>5. s \in Surjection(1 .. n, S)
  <2>1. Cardinality(1 .. n) = n
    BY <1>1, FS_Interval
  <2> QED BY <1>1, <1>4, <2>1, FS_Injection
<1> QED BY <1>1, <1>2, <1>3, <1>5 DEF Surjection

(* A list that has each of the boards of S once is as long as S is large. *)
LEMMA ListCount ==
  ASSUME NEW l \in Seq(Entries), NEW S \in SUBSET Board,
         \A i, j \in DOMAIN l : l[i].board = l[j].board => i = j,
         {l[i].board : i \in DOMAIN l} = S
  PROVE  Len(l) = Cardinality(S)
<1> DEFINE f == [i \in 1 .. Len(l) |-> l[i].board]
<1>1. f \in Bijection(1 .. Len(l), S)
  BY DEF Bijection, Injection, Surjection, IsInjective
<1>2. Len(l) \in Nat
  OBVIOUS
<1> QED BY <1>1, <1>2, FS_CountingElements DEF ExistsBijection

(* hid_enumerate lists the boards with one product id, each once, with     *)
(* what they are at that moment.                                           *)
LEMMA EnumerateFacts ==
  ASSUME SelTypeOK, NEW pid, NEW devices \in HidEnumerate(pid)
  PROVE  /\ devices \in Seq(Entries)
         /\ \A i \in DOMAIN devices :
              /\ devices[i].board \in up /\ Pid(devices[i].board) = pid
              /\ devices[i].pid = pid /\ devices[i].release = release[devices[i].board]
         /\ \A i, j \in DOMAIN devices : devices[i].board = devices[j].board => i = j
         /\ \A b \in up : Pid(b) = pid => \E i \in DOMAIN devices : devices[i].board = b
<1> DEFINE S == {b \in up : Pid(b) = pid}
<1>1. PICK found \in InBusOrder(S) :
        \E read \in Readings(DOMAIN found) :
           devices = [i \in DOMAIN found |-> Info(found[i], read[i])]
  BY DEF HidEnumerate
<1>r. PICK read \in Readings(DOMAIN found) :
        devices = [i \in DOMAIN found |-> Info(found[i], read[i])]
  BY <1>1
<1>2. S \in SUBSET Board
  BY DEF SelTypeOK
<1>3. /\ found \in Seq(S)
      /\ \A i, j \in DOMAIN found : found[i] = found[j] => i = j
      /\ \A b \in S : \E i \in DOMAIN found : found[i] = b
  BY <1>2, InBusOrderLists
<1>4. \A i \in DOMAIN found : found[i] \in S /\ read[i] \in Strings
  BY <1>3 DEF Readings
<1>5. \A i \in DOMAIN found : Info(found[i], read[i]) \in Entries
  BY <1>2, <1>4, PidFacts DEF Info, Entries, SelTypeOK
<1> QED BY <1>r, <1>3, <1>4, <1>5 DEF Info

-----------------------------------------------------------------------------
(* The first state, and the boards that come and go.                       *)

(* The invariant holds when a tool starts. *)
LEMMA SelInitInv == SelectionInit => SelInv
<1> SUFFICES ASSUME SelectionInit PROVE SelInv
  OBVIOUS
<1> USE SelectionAssumption DEF SelectionInit
<1>1. SelTypeOK
  <2>1. tool = "minimal" => node \in [Board -> Node \cup {NoNode}]
    BY DEF Board, Node
  <2>2. excuse \in BOOLEAN
    BY Zenon
  <2>3. list \in Seq(Entries)
    OBVIOUS
  <2> QED BY <2>1, <2>2, <2>3 DEF SelTypeOK, StdSteps, MinimalSteps
<1>2. NodesDistinct /\ Undisturbed
  BY DEF NodesDistinct, Undisturbed, Board, NoNode
<1>3. EntriesTrue /\ Checked /\ SelectedMeant /\ NotedMeant
  BY DEF EntriesTrue, Checked, SelectedMeant, NotedMeant
<1>4. ListComplete
  <2>1. \A b \in up : Pid(b) \in 1 .. 3
    BY PidFacts
  <2>2. \A b \in up : node[b] \in Nat
    BY DEF Board
  <2>3. at \in {"enumerate", "scan"} => Met = {}
    <3>1. ASSUME at = "enumerate" PROVE Met = {}
      <4>1. Met = {b \in up : Pid(b) < pass} /\ pass = 1
        BY <3>1 DEF Met
      <4> QED BY <2>1, <4>1
    <3>2. ASSUME at = "scan" PROVE Met = {}
      <4>1. Met = {b \in up : node[b] < pass} /\ pass = 0
        BY <3>2 DEF Met
      <4> HIDE DEF SelectionInit
      <4>2. \A b \in up : ~(node[b] < pass)
        BY ONLY <2>2, <4>1
      <4> QED BY <4>1, <4>2
    <3> QED BY <3>1, <3>2
  <2> QED BY <2>3 DEF ListComplete, Node
<1>5. RightBoard /\ VersionOfOpened /\ NameIsKind /\ CrashOnlyWithoutGeo /\ FailsForAReason
  BY DEF RightBoard, VersionOfOpened, NameIsKind, CrashOnlyWithoutGeo, FailsForAReason
<1> QED BY <1>1, <1>2, <1>3, <1>4, <1>5 DEF SelInv

(* What the run knows of the other boards stays true when board b is       *)
(* disturbed.                                                              *)
LEMMA Disturbance ==
  ASSUME SelInv, NEW b \in Board,
         UNCHANGED <<kind, tool, ask, at, pass, list, sel, path, name, version, excuse>>,
         up' \in SUBSET Board, disturbed' = disturbed \cup {b},
         release' \in [Board -> Releases], \A c \in Board \ {b} : release'[c] = release[c],
         tool = "minimal" =>
            /\ node' \in [Board -> Node \cup {NoNode}]
            /\ \A c \in Board \ {b} : node'[c] = node[c] /\ (node'[b] # NoNode => node'[b] # node[c]),
         opened' = NoBoard \/ (opened' = opened /\ opened # b /\ opened \in up')
  PROVE  SelInv'
<1> USE DEF SelInv
<1>1. SelTypeOK'
  BY DEF SelTypeOK, Asks, Entries
<1>2. NodesDistinct'
  BY DEF NodesDistinct
<1>3. \A c \in Board \ {b} : Pid(c)' = Pid(c)
  BY DEF Pid
<1>4. \A c : Meant(c)' = Meant(c)
  BY DEF Meant
<1>5. \A i \in DOMAIN list : list[i].board \in Board
  BY EntryTypes
<1>6. EntriesTrue'
  BY <1>3, <1>5 DEF EntriesTrue
<1>7. Checked' /\ SelectedMeant'
  BY <1>4 DEF Checked, SelectedMeant, HasProduct, HasSerial
<1>8. NotedMeant'
  BY DEF NotedMeant, SelTypeOK, StdSteps, Ended
<1>9. Undisturbed' /\ ListComplete' /\ FailsForAReason'
  BY DEF Undisturbed, ListComplete, FailsForAReason
<1>10. RightBoard'
  BY <1>4 DEF RightBoard
<1>11. VersionOfOpened'
  BY DEF VersionOfOpened, SelTypeOK
<1>12. NameIsKind' /\ CrashOnlyWithoutGeo'
  BY <1>3 DEF NameIsKind, CrashOnlyWithoutGeo, SelTypeOK
<1> QED BY <1>1, <1>2, <1>6, <1>7, <1>8, <1>9, <1>10, <1>11, <1>12

(* A board is unplugged or restarted. *)
LEMMA VanishStep ==
  ASSUME SelInv, NEW b \in Board, Vanish(b)
  PROVE  SelInv'
<1> USE DEF Vanish, HandleLost, args
<1>1. up' \in SUBSET Board /\ release' \in [Board -> Releases]
  BY DEF SelInv, SelTypeOK
<1>2. tool = "minimal" =>
        /\ node' \in [Board -> Node \cup {NoNode}]
        /\ \A c \in Board \ {b} : node'[c] = node[c] /\ (node'[b] # NoNode => node'[b] # node[c])
  BY DEF SelInv, SelTypeOK
<1>3. opened' = NoBoard \/ (opened' = opened /\ opened # b /\ opened \in up')
  BY DEF SelInv, SelTypeOK
<1> QED BY <1>1, <1>2, <1>3, Disturbance

(* A board is plugged in, or one of another kind at its place. *)
LEMMA AppearStep ==
  ASSUME SelInv, NEW b \in Board, Appear(b)
  PROVE  SelInv'
<1> USE DEF Appear, args, run
<1>1. up' \in SUBSET Board /\ disturbed' = disturbed \cup {b}
      /\ release' \in [Board -> Releases] /\ \A c \in Board \ {b} : release'[c] = release[c]
  BY DEF SelInv, SelTypeOK
<1>2. tool = "minimal" =>
        /\ node' \in [Board -> Node \cup {NoNode}]
        /\ \A c \in Board \ {b} : node'[c] = node[c] /\ (node'[b] # NoNode => node'[b] # node[c])
  <2> SUFFICES ASSUME tool = "minimal", NEW n \in Node \ {node[c] : c \in Board},
                      node' = [node EXCEPT ![b] = n]
               PROVE  /\ node' \in [Board -> Node \cup {NoNode}]
                      /\ \A c \in Board \ {b} :
                           node'[c] = node[c] /\ (node'[b] # NoNode => node'[b] # node[c])
    BY DEF FreeNodes
  <2> QED BY DEF SelInv, SelTypeOK
<1>3. opened' = NoBoard \/ (opened' = opened /\ opened # b /\ opened \in up')
  BY DEF SelInv, SelTypeOK
<1> QED BY <1>1, <1>2, <1>3, Disturbance

(* A board gets another hidraw number. *)
LEMMA RebindStep ==
  ASSUME SelInv, NEW b \in Board, Rebind(b)
  PROVE  SelInv'
<1> USE DEF Rebind, HandleLost, args
<1>1. up' \in SUBSET Board /\ release' \in [Board -> Releases]
  BY DEF SelInv, SelTypeOK
<1>2. tool = "minimal" =>
        /\ node' \in [Board -> Node \cup {NoNode}]
        /\ \A c \in Board \ {b} : node'[c] = node[c] /\ (node'[b] # NoNode => node'[b] # node[c])
  <2> SUFFICES ASSUME NEW n \in (Node \ {node[c] : c \in Board}) \cup {NoNode},
                      node' = [node EXCEPT ![b] = n]
               PROVE  /\ node' \in [Board -> Node \cup {NoNode}]
                      /\ \A c \in Board \ {b} :
                           node'[c] = node[c] /\ (node'[b] # NoNode => node'[b] # node[c])
    BY DEF FreeNodes
  <2> QED BY DEF SelInv, SelTypeOK
<1>3. opened' = NoBoard \/ (opened' = opened /\ opened # b /\ opened \in up')
  BY DEF SelInv, SelTypeOK
<1> QED BY <1>1, <1>2, <1>3, Disturbance

-----------------------------------------------------------------------------
(* The standard tool.                                                      *)

(* A run may end at any time, as long as it crashes or fails for a reason. *)
LEMMA EndsKeeps ==
  ASSUME SelInv, NEW how \in Ended, Stays, Ends(how), excuse' \in BOOLEAN,
         how = "crashed" => \E i \in DOMAIN list : list[i].strings = "noGeo",
         how = "failed" /\ ~excuse' /\ disturbed = {} =>
            \/ up = {} \/ kind = "G227"
            \/ ask.by = "serial" /\ (kind = "ME10" \/ \A b \in up : Serials[b] # ask.arg)
            \/ ask.by = "geo" /\ \A b \in up : Geos[b] # ask.arg
            \/ ask.by = "index" /\ ask.arg > Cardinality(up)
            \/ ask.by = "only" /\ Cardinality(up) # 1
  PROVE  SelInv'
<1> USE DEF SelInv, Stays, Ends, bus, args, Ended
<1>1. SelTypeOK'
  BY DEF SelTypeOK, Asks, Entries
<1>2. NodesDistinct' /\ EntriesTrue' /\ Undisturbed'
  BY DEF NodesDistinct, EntriesTrue, Undisturbed, Pid
<1>3. Checked' /\ SelectedMeant' /\ NotedMeant' /\ ListComplete'
  BY DEF Checked, SelectedMeant, NotedMeant, ListComplete
<1>4. RightBoard' /\ VersionOfOpened' /\ NameIsKind' /\ CrashOnlyWithoutGeo' /\ FailsForAReason'
  BY DEF RightBoard, VersionOfOpened, NameIsKind, CrashOnlyWithoutGeo, FailsForAReason
<1> QED BY <1>1, <1>2, <1>3, <1>4

(* A device that is what the user asked for may be selected. *)
LEMMA ChosenKeeps ==
  ASSUME SelInv, at = "select", Stays, UNCHANGED excuse,
         NEW i \in DOMAIN list, Meant(list[i].board),
         NEW next \in {"reopen", "openPath"}, next = "reopen" => ask.by = "serial",
         Chosen(i, next)
  PROVE  SelInv'
<1> USE DEF SelInv, Stays, Chosen, bus, args
<1>1. tool = "std" /\ i \in Nat /\ list[i].board \in Board
  BY EntryTypes DEF SelTypeOK, MinimalSteps, Ended
<1>2. SelTypeOK'
  BY <1>1 DEF SelTypeOK, Asks, Entries, StdSteps, Ended
<1>3. NodesDistinct' /\ EntriesTrue' /\ Undisturbed'
  BY DEF NodesDistinct, EntriesTrue, Undisturbed, Pid
<1>4. \A c : Meant(c)' = Meant(c)
  BY DEF Meant
<1>5. Checked' /\ SelectedMeant' /\ NotedMeant'
  BY <1>1, <1>4 DEF Checked, SelectedMeant, NotedMeant
<1>6. ListComplete'
  BY DEF ListComplete, Met, Ended
<1>7. RightBoard' /\ VersionOfOpened' /\ NameIsKind' /\ CrashOnlyWithoutGeo' /\ FailsForAReason'
  BY DEF RightBoard, VersionOfOpened, NameIsKind, CrashOnlyWithoutGeo, FailsForAReason
<1> QED BY <1>1, <1>2, <1>3, <1>5, <1>6, <1>7

(* The boards of the list are those that are there, if none was disturbed. *)
LEMMA ListedBoards ==
  ASSUME SelInv, ~excuse, disturbed = {}, ask.by # "path",
         at \in {"check", "select", "reopen", "openPath", "open"}
  PROVE  /\ \A i \in DOMAIN list : list[i].strings = "all" /\ list[i].board \in up
         /\ \A b \in up : \E i \in DOMAIN list : list[i].board = b
         /\ Len(list) = Cardinality(up) /\ Len(list) \in Nat
<1>1. /\ \A i \in DOMAIN list : list[i].strings = "all"
      /\ \A i, j \in DOMAIN list : list[i].board = list[j].board => i = j
      /\ {list[i].board : i \in DOMAIN list} = up
  BY DEF SelInv, ListComplete, Met, Ended
<1>2. list \in Seq(Entries) /\ up \in SUBSET Board
  BY DEF SelInv, SelTypeOK
<1>3. Len(list) = Cardinality(up)
  BY <1>1, <1>2, ListCount
<1> QED BY <1>1, <1>2, <1>3

(* The devices of one product id are appended. *)
LEMMA EnumerateStep ==
  ASSUME SelInv, Enumerate
  PROVE  SelInv'
<1> USE DEF SelInv, Stays, bus, args, Enumerate
<1>1. PICK devices \in HidEnumerate(pass) :
         /\ list' = list \o devices
         /\ excuse' = (excuse \/ \E i \in DOMAIN devices : devices[i].strings # "all")
  BY DEF Join
<1>2. /\ devices \in Seq(Entries)
      /\ \A i \in DOMAIN devices :
           /\ devices[i].board \in up /\ Pid(devices[i].board) = pass
           /\ devices[i].pid = pass /\ devices[i].release = release[devices[i].board]
      /\ \A i, j \in DOMAIN devices : devices[i].board = devices[j].board => i = j
      /\ \A b \in up : Pid(b) = pass => \E i \in DOMAIN devices : devices[i].board = b
  BY EnumerateFacts
<1>3. list \in Seq(Entries) /\ list' \in Seq(Entries) /\ Len(list') = Len(list) + Len(devices)
      /\ Len(list) \in Nat /\ Len(devices) \in Nat
  BY <1>1, <1>2 DEF SelTypeOK
<1>4. /\ \A i \in 1 .. Len(list) : list'[i] = list[i]
      /\ \A i \in 1 .. Len(devices) : list'[i + Len(list)] = devices[i]
      /\ \A i \in DOMAIN list' :
           \/ i \in DOMAIN list /\ list'[i] = list[i]
           \/ i - Len(list) \in DOMAIN devices /\ list'[i] = devices[i - Len(list)]
      /\ \A i \in DOMAIN list' :
           i - Len(list) \in DOMAIN devices => list'[i] = devices[i - Len(list)]
  BY <1>1, <1>2, <1>3
<1>5. tool = "std" /\ pass \in 1 .. 3 /\ at' \in {"enumerate", "check"}
  BY DEF SelTypeOK, ListComplete, MinimalSteps, Ended
<1>6. SelTypeOK'
  <2>1. excuse' \in BOOLEAN
    BY <1>1, Zenon
  <2> QED BY <1>3, <1>5, <2>1 DEF SelTypeOK, Asks, Entries, StdSteps
<1>7. NodesDistinct' /\ Undisturbed'
  BY DEF NodesDistinct, Undisturbed
<1>8. EntriesTrue'
  <2> SUFFICES ASSUME NEW i \in DOMAIN list'
               PROVE  /\ list'[i].pid = 2 => kind = "ME10"
                      /\ list'[i].pid = 3 => kind = "G239"
                      /\ \/ list'[i].board \in disturbed
                         \/ /\ list'[i].pid = Pid(list'[i].board)
                            /\ list'[i].release = release[list'[i].board]
    BY DEF EntriesTrue, Pid
  <2>1. CASE i \in DOMAIN list
    BY <1>3, <1>4, <2>1 DEF EntriesTrue
  <2>2. CASE i - Len(list) \in DOMAIN devices
    <3>1. list'[i] = devices[i - Len(list)]
      BY <1>3, <1>4, <2>2
    <3> QED BY <1>2, <2>2, <3>1, PidFacts DEF SelTypeOK
  <2> QED BY <1>4, <2>1, <2>2
<1>9. Checked' /\ SelectedMeant' /\ NotedMeant'
  BY <1>5 DEF Checked, SelectedMeant, NotedMeant
<1>10. ListComplete'
  <2>1. at' = "enumerate" => pass' \in 1 .. 3
    BY <1>5
  <2> SUFFICES ASSUME ~excuse', disturbed = {}, ask.by # "path"
               PROVE  /\ \A i \in DOMAIN list' : list'[i].strings = "all"
                      /\ \A i, j \in DOMAIN list' : list'[i].board = list'[j].board => i = j
                      /\ {list'[i].board : i \in DOMAIN list'} = Met'
    BY <1>5, <2>1 DEF ListComplete
  <2>2. /\ \A i \in DOMAIN list : list[i].strings = "all"
        /\ \A i, j \in DOMAIN list : list[i].board = list[j].board => i = j
        /\ {list[i].board : i \in DOMAIN list} = {b \in up : Pid(b) < pass}
    BY <1>1 DEF ListComplete, Met, Ended
  <2>3. \A i \in DOMAIN devices : devices[i].strings = "all"
    BY <1>1
  <2>4. Met' = {b \in up : Pid(b) < pass + 1}
    <3>1. \A b \in up : Pid(b) \in 1 .. 3 /\ Pid(b)' = Pid(b)
      BY PidFacts DEF SelTypeOK, Pid
    <3>2. CASE pass = 3
      BY <1>5, <3>1, <3>2 DEF Met
    <3>3. CASE pass # 3
      BY <1>5, <3>1, <3>3 DEF Met
    <3> QED BY <3>2, <3>3
  <2>5. \A i \in DOMAIN list' : list'[i].strings = "all"
    BY <1>3, <1>4, <2>2, <2>3
  <2>6. \A i, j \in DOMAIN list' : list'[i].board = list'[j].board => i = j
    <3> SUFFICES ASSUME NEW i \in DOMAIN list', NEW j \in DOMAIN list',
                        list'[i].board = list'[j].board
                 PROVE  i = j
      OBVIOUS
    <3> DEFINE n == Len(list)
    <3>1. \A k \in DOMAIN list : list'[k] = list[k] /\ Pid(list[k].board) < pass
      BY <1>3, <1>4, <2>2
    <3>2. \A k \in DOMAIN list' : k - n \in DOMAIN devices =>
             list'[k] = devices[k - n] /\ Pid(devices[k - n].board) = pass
      BY <1>2, <1>3, <1>4
    <3>3. i \in Nat /\ j \in Nat /\ n \in Nat /\ pass \in Nat
      BY <1>3, <1>5
    <3>4. CASE i \in DOMAIN list /\ j \in DOMAIN list
      BY <2>2, <3>1, <3>4
    <3>5. CASE i - n \in DOMAIN devices /\ j - n \in DOMAIN devices
      BY <1>2, <3>2, <3>3, <3>5
    <3>6. CASE i \in DOMAIN list /\ j - n \in DOMAIN devices
      BY <3>1, <3>2, <3>3, <3>6
    <3>7. CASE i - n \in DOMAIN devices /\ j \in DOMAIN list
      BY <3>1, <3>2, <3>3, <3>7
    <3> QED BY <1>4, <3>4, <3>5, <3>6, <3>7
  <2>7. {list'[i].board : i \in DOMAIN list'} = {b \in up : Pid(b) < pass + 1}
    <3> DEFINE n == Len(list)
    <3>1. \A k \in DOMAIN list : list'[k] = list[k] /\ k \in DOMAIN list'
      BY <1>3, <1>4
    <3>2. \A k \in DOMAIN devices : list'[k + n] = devices[k] /\ k + n \in DOMAIN list'
      BY <1>2, <1>3, <1>4
    <3>3. \A i \in DOMAIN list' : list'[i].board \in up /\ Pid(list'[i].board) < pass + 1
      <4> SUFFICES ASSUME NEW i \in DOMAIN list'
                   PROVE  list'[i].board \in up /\ Pid(list'[i].board) < pass + 1
        OBVIOUS
      <4>1. CASE i \in DOMAIN list
        <5>1. list[i].board \in up /\ Pid(list[i].board) < pass
          BY <2>2, <4>1
        <5>2. Pid(list[i].board) \in 1 .. 3
          BY <5>1, PidFacts DEF SelTypeOK
        <5> QED BY <1>5, <3>1, <4>1, <5>1, <5>2
      <4>2. CASE i - n \in DOMAIN devices
        <5>1. list'[i] = devices[i - n]
          BY <1>3, <1>4, <4>2
        <5> QED BY <1>2, <1>5, <4>2, <5>1
      <4> QED BY <1>4, <4>1, <4>2
    <3>4. ASSUME NEW b \in up, Pid(b) < pass + 1 PROVE \E i \in DOMAIN list' : list'[i].board = b
      <4>1. Pid(b) \in 1 .. 3
        BY PidFacts DEF SelTypeOK
      <4>2. CASE Pid(b) < pass
        BY <2>2, <3>1, <4>2
      <4>3. CASE Pid(b) = pass
        BY <1>2, <3>2, <4>3
      <4> QED BY <1>5, <3>4, <4>1, <4>2, <4>3
    <3> QED BY <3>3, <3>4
  <2> QED BY <2>4, <2>5, <2>6, <2>7
<1>11. RightBoard' /\ VersionOfOpened' /\ NameIsKind' /\ CrashOnlyWithoutGeo' /\ FailsForAReason'
  BY <1>5 DEF RightBoard, VersionOfOpened, NameIsKind, CrashOnlyWithoutGeo, FailsForAReason
<1> QED BY <1>6, <1>7, <1>8, <1>9, <1>10, <1>11

(* The names and strings are checked once the list is there. *)
LEMMA CheckStep ==
  ASSUME SelInv, Check
  PROVE  SelInv'
<1> USE DEF Check
<1>1. tool = "std" /\ list \in Seq(Entries) /\ UNCHANGED excuse /\ excuse' \in BOOLEAN
      /\ ask.by # "path"
  BY DEF SelInv, SelTypeOK, MinimalSteps, Ended, Asks
<1>2. \A i \in DOMAIN list : BoardName(list[i]) = kind
  BY NameFacts DEF SelInv, EntriesTrue
<1>3. CASE CheckAvailableDevices /\ BoardName(list[1]) # "G227"
  <2> USE <1>1, <1>3 DEF SelInv, Stays, bus, args, CheckAvailableDevices
  <2>1. list # <<>> /\ 1 \in DOMAIN list /\ name' = kind /\ kind # "G227"
    BY <1>2
  <2>2. SelTypeOK'
    BY DEF SelTypeOK, Asks, Entries, StdSteps, Ended
  <2>3. NodesDistinct' /\ EntriesTrue' /\ Undisturbed'
    BY DEF NodesDistinct, EntriesTrue, Undisturbed, Pid
  <2>4. Checked' /\ SelectedMeant' /\ NotedMeant'
    BY <2>1 DEF Checked, SelectedMeant, NotedMeant, HasProduct, HasSerial
  <2>5. ListComplete'
    BY DEF ListComplete, Met, Ended
  <2>6. RightBoard' /\ VersionOfOpened' /\ NameIsKind' /\ CrashOnlyWithoutGeo' /\ FailsForAReason'
    BY DEF RightBoard, VersionOfOpened, NameIsKind, CrashOnlyWithoutGeo, FailsForAReason
  <2> QED BY <2>2, <2>3, <2>4, <2>5, <2>6
<1>4. CASE ~(CheckAvailableDevices /\ BoardName(list[1]) # "G227")
  <2>1. Ends("failed") /\ Stays
    BY <1>4
  <2>2. ~excuse /\ disturbed = {} => up = {} \/ kind = "G227"
    <3> SUFFICES ASSUME ~excuse, disturbed = {}, up # {} PROVE kind = "G227"
      OBVIOUS
    <3>1. /\ \A i \in DOMAIN list : list[i].strings = "all"
          /\ \A b \in up : \E i \in DOMAIN list : list[i].board = b
      BY <1>1, ListedBoards
    <3>2. list # <<>> /\ 1 \in DOMAIN list
      BY <1>1, <3>1
    <3>3. CheckAvailableDevices
      BY <3>1, <3>2 DEF CheckAvailableDevices, HasProduct, HasSerial
    <3> QED BY <1>2, <1>4, <3>2, <3>3
  <2> QED BY <1>1, <2>1, <2>2, EndsKeeps DEF Ended
<1> QED BY <1>3, <1>4

(* The walk along the list crashes, fails or selects one of the hits. *)
LEMMA WalkFacts ==
  ASSUME SelInv, NEW known \in SUBSET DOMAIN list, NEW hits \in SUBSET known,
         NEW next, Walk(known, hits, next)
  PROVE  \/ Ends("crashed") /\ \E i \in DOMAIN list : i \notin known
         \/ Ends("failed") /\ hits = {}
         \/ \E i \in hits : Chosen(i, next)
<1>1. DOMAIN list \subseteq Nat
  BY DEF SelInv, SelTypeOK
<1>2. hits # {} => Min(hits) \in hits
  BY <1>1, MinFacts
<1> QED BY <1>2 DEF Walk

(* All ways to select a device. *)
LEMMA SelectStep ==
  ASSUME SelInv, Select
  PROVE  SelInv'
<1> USE DEF Select
<1>1. /\ tool = "std" /\ list \in Seq(Entries) /\ UNCHANGED excuse /\ excuse' \in BOOLEAN
      /\ ask.by # "path" /\ Stays
      /\ ask.by = "index" => ask.arg \in Nat \ {0}
  BY SelectionAssumption DEF SelInv, SelTypeOK, MinimalSteps, Ended, Asks
<1>2. /\ \A i \in DOMAIN list : HasProduct(list[i]) /\ HasSerial(list[i])
      /\ list # <<>> /\ name = kind
  BY DEF SelInv, Checked
<1>3. \A i \in DOMAIN list : ~HasGeo(list[i]) => list[i].strings = "noGeo"
  BY <1>2 DEF HasProduct, HasGeo
<1>4. ~excuse /\ disturbed = {} =>
        /\ \A b \in up : \E i \in DOMAIN list : list[i].board = b /\ HasGeo(list[i])
        /\ Len(list) = Cardinality(up) /\ Len(list) \in Nat
  <2> SUFFICES ASSUME ~excuse, disturbed = {}
               PROVE  /\ \A b \in up : \E i \in DOMAIN list : list[i].board = b /\ HasGeo(list[i])
                      /\ Len(list) = Cardinality(up) /\ Len(list) \in Nat
    OBVIOUS
  <2>1. /\ \A i \in DOMAIN list : list[i].strings = "all"
        /\ \A b \in up : \E i \in DOMAIN list : list[i].board = b
        /\ Len(list) = Cardinality(up) /\ Len(list) \in Nat
    BY <1>1, ListedBoards
  <2> QED BY <2>1 DEF HasGeo
<1>5. ASSUME NEW i \in DOMAIN list, Meant(list[i].board), Chosen(i, "openPath") PROVE SelInv'
  BY <1>1, <1>5, ChosenKeeps
<1>6. CASE PrintDeviceList
  <2>1. \/ Ends("ok")
        \/ Ends("crashed") /\ \E i \in DOMAIN list : list[i].strings = "noGeo"
    BY <1>2, <1>3, <1>6 DEF PrintDeviceList
  <2> QED BY <1>1, <2>1, EndsKeeps DEF Ended
<1>7. CASE SelectBySerial
  <2> DEFINE known == {i \in DOMAIN list : HasSerial(list[i])}
             hits  == {i \in known : Serials[list[i].board] = ask.arg}
  <2>1. ask.by = "serial"
    BY <1>7 DEF SelectBySerial
  <2>2. CASE name = "ME10"
    <3>1. Ends("failed") /\ kind = "ME10"
      BY <1>2, <1>7, <2>2 DEF SelectBySerial
    <3> QED BY <1>1, <2>1, <3>1, EndsKeeps DEF Ended
  <2>3. CASE name # "ME10"
    <3>1. Walk(known, hits, "reopen")
      BY <1>7, <2>3 DEF SelectBySerial
    <3>2. known = DOMAIN list
      BY <1>2
    <3>3. \/ Ends("failed") /\ hits = {}
          \/ \E i \in hits : Chosen(i, "reopen")
      <4> HIDE DEF known, hits
      <4>1. known \in SUBSET DOMAIN list /\ hits \in SUBSET known
        BY DEF known, hits
      <4> QED BY <3>1, <3>2, <4>1, WalkFacts
    <3>4. CASE Ends("failed") /\ hits = {}
      <4>1. ~excuse' /\ disturbed = {} => \A b \in up : Serials[b] # ask.arg
        BY <1>1, <1>4, <3>2, <3>4
      <4> QED BY <1>1, <2>1, <3>4, <4>1, EndsKeeps DEF Ended
    <3>5. ASSUME NEW i \in hits, Chosen(i, "reopen") PROVE SelInv'
      <4>1. i \in DOMAIN list /\ Meant(list[i].board)
        BY <2>1, MeantFacts
      <4> QED BY <1>1, <2>1, <3>5, <4>1, ChosenKeeps
    <3> QED BY <3>3, <3>4, <3>5
  <2> QED BY <2>2, <2>3
<1>8. CASE SelectByGeo
  <2> DEFINE known == {i \in DOMAIN list : HasGeo(list[i])}
             hits  == {i \in known : Geos[list[i].board] = ask.arg}
  <2>1. ask.by = "geo" /\ Walk(known, hits, "openPath")
    BY <1>8 DEF SelectByGeo
  <2>2. \/ Ends("crashed") /\ \E i \in DOMAIN list : i \notin known
        \/ Ends("failed") /\ hits = {}
        \/ \E i \in hits : Chosen(i, "openPath")
    <3> HIDE DEF known, hits
    <3>1. known \in SUBSET DOMAIN list /\ hits \in SUBSET known
      BY DEF known, hits
    <3> QED BY <2>1, <3>1, WalkFacts
  <2>3. CASE Ends("crashed") /\ \E i \in DOMAIN list : i \notin known
    BY <1>1, <1>3, <2>3, EndsKeeps DEF Ended
  <2>4. CASE Ends("failed") /\ hits = {}
    <3>1. ~excuse' /\ disturbed = {} => \A b \in up : Geos[b] # ask.arg
      BY <1>1, <1>4, <2>4
    <3> QED BY <1>1, <2>1, <2>4, <3>1, EndsKeeps DEF Ended
  <2>5. ASSUME NEW i \in hits, Chosen(i, "openPath") PROVE SelInv'
    <3>1. i \in DOMAIN list /\ Meant(list[i].board)
      BY <2>1, MeantFacts
    <3> QED BY <1>5, <2>5, <3>1
  <2> QED BY <2>2, <2>3, <2>4, <2>5
<1>9. CASE SelectByIndex
  <2>1. ask.by = "index"
    BY <1>9 DEF SelectByIndex
  <2>2. CASE ask.arg \in DOMAIN list
    <3>1. Chosen(ask.arg, "openPath") /\ Meant(list[ask.arg].board)
      BY <1>9, <2>1, <2>2, MeantFacts DEF SelectByIndex
    <3> QED BY <1>5, <2>2, <3>1
  <2>3. CASE ask.arg \notin DOMAIN list
    <3>1. Ends("failed") /\ (~excuse' /\ disturbed = {} => ask.arg > Cardinality(up))
      BY <1>1, <1>4, <1>9, <2>1, <2>3 DEF SelectByIndex
    <3> QED BY <1>1, <2>1, <3>1, EndsKeeps DEF Ended
  <2> QED BY <2>2, <2>3
<1>10. CASE SelectOnly
  <2>1. ask.by = "only"
    BY <1>10 DEF SelectOnly
  <2>2. CASE Len(list) = 1
    <3>1. Chosen(1, "openPath") /\ 1 \in DOMAIN list /\ Meant(list[1].board)
      BY <1>1, <1>10, <2>1, <2>2, MeantFacts DEF SelectOnly
    <3> QED BY <1>5, <3>1
  <2>3. CASE Len(list) # 1
    <3>1. Ends("failed")
      BY <1>10, <2>3 DEF SelectOnly
    <3>2. ~excuse' /\ disturbed = {} => Cardinality(up) # 1
      BY <1>1, <1>4, <2>3
    <3> QED BY <1>1, <2>1, <3>1, <3>2, EndsKeeps DEF Ended
  <2> QED BY <2>2, <2>3
<1> QED BY <1>6, <1>7, <1>8, <1>9, <1>10

(* hid_open finds a board with the serial number that was asked for. *)
LEMMA HidOpenStep ==
  ASSUME SelInv, HidOpen
  PROVE  SelInv'
<1> USE DEF HidOpen
<1>1. /\ tool = "std" /\ sel \in DOMAIN list /\ Stays /\ ask.by = "serial"
      /\ Meant(list[sel].board)
  BY DEF SelInv, SelTypeOK, MinimalSteps, Ended, SelectedMeant
<1>2. PICK devices \in HidEnumerate(list[sel].pid) :
         LET same == {i \in DOMAIN devices :
                        /\ HasSerial(devices[i])
                        /\ Serials[devices[i].board] = Serials[list[sel].board]}
         IN /\ excuse' = (excuse \/ \E i \in DOMAIN devices : devices[i].strings # "all")
            /\ IF same = {}
               THEN Ends("failed")
               ELSE /\ path' = devices[Min(same)].board
                    /\ at' = "openPath"
                    /\ UNCHANGED <<pass, list, sel, opened, name, version>>
  OBVIOUS
<1> DEFINE same == {i \in DOMAIN devices :
                      /\ HasSerial(devices[i])
                      /\ Serials[devices[i].board] = Serials[list[sel].board]}
<1>3. excuse' \in BOOLEAN
  BY <1>2, Zenon
<1>4. /\ devices \in Seq(Entries)
      /\ \A i \in DOMAIN devices : devices[i].board \in up
      /\ \A b \in up : Pid(b) = list[sel].pid => \E i \in DOMAIN devices : devices[i].board = b
  BY EnumerateFacts DEF SelInv
<1>5. CASE same = {}
  <2>1. Ends("failed")
    BY <1>2, <1>5
  <2>2. excuse' \/ disturbed # {}
    <3> SUFFICES ASSUME ~excuse', disturbed = {} PROVE FALSE
      OBVIOUS
    <3>1. ~excuse /\ \A i \in DOMAIN devices : devices[i].strings = "all"
      BY <1>2
    <3>2. list[sel].board \in up /\ Pid(list[sel].board) = list[sel].pid
      <4>1. list[sel].board \in up
        BY <1>1, <3>1, ListedBoards
      <4> QED BY <1>1, <4>1 DEF SelInv, EntriesTrue
    <3>3. PICK i \in DOMAIN devices : devices[i].board = list[sel].board
      BY <1>4, <3>2
    <3>4. i \in same
      BY <3>1, <3>3 DEF HasSerial
    <3> QED BY <1>5, <3>4
  <2> QED BY <1>1, <1>3, <2>1, <2>2, EndsKeeps DEF Ended
<1>6. CASE same # {}
  <2>1. Min(same) \in same
    <3>1. same \in SUBSET Nat
      BY <1>4
    <3> HIDE DEF same
    <3> QED BY <1>6, <3>1, MinFacts
  <2>2. /\ path' = devices[Min(same)].board /\ at' = "openPath"
        /\ UNCHANGED <<pass, list, sel, opened, name, version>>
    BY <1>2, <1>6
  <2>3. path' \in up /\ Serials[path'] = Serials[list[sel].board]
    BY <1>4, <2>1, <2>2
  <2> USE <1>1, <2>2 DEF SelInv, Stays, bus, args
  <2>4. SelTypeOK'
    BY <1>3 DEF SelTypeOK, Asks, Entries, StdSteps, Ended
  <2>5. NodesDistinct' /\ EntriesTrue' /\ Undisturbed'
    BY DEF NodesDistinct, EntriesTrue, Undisturbed, Pid
  <2>6. Checked' /\ NotedMeant'
    BY DEF Checked, NotedMeant
  <2>7. SelectedMeant'
    <3>1. Serials[list[sel].board] = ask.arg
      BY MeantFacts
    <3>2. Meant(list[sel].board)' /\ Meant(path)'
      BY <2>3, <3>1 DEF Meant
    <3> QED BY <2>3, <3>2 DEF SelectedMeant, SelTypeOK
  <2>8. ListComplete'
    <3>1. excuse => excuse'
      BY <1>2
    <3> QED BY <3>1 DEF ListComplete, Met, Ended
  <2>9. RightBoard' /\ VersionOfOpened' /\ NameIsKind' /\ CrashOnlyWithoutGeo' /\ FailsForAReason'
    BY DEF RightBoard, VersionOfOpened, NameIsKind, CrashOnlyWithoutGeo, FailsForAReason
  <2> QED BY <2>4, <2>5, <2>6, <2>7, <2>8, <2>9
<1> QED BY <1>5, <1>6

(* The path is opened, and the version is that of the device selected. *)
LEMMA HidOpenPathStep ==
  ASSUME SelInv, HidOpenPath
  PROVE  SelInv'
<1> USE DEF HidOpenPath
<1>1. /\ tool = "std" /\ sel \in DOMAIN list /\ Stays /\ at = "openPath"
      /\ Meant(list[sel].board) /\ Meant(path) /\ path \in Board
      /\ path = list[sel].board \/ ask.by = "serial"
      /\ name = kind
      /\ HasProduct(list[sel]) /\ HasSerial(list[sel])
  BY DEF SelInv, SelTypeOK, MinimalSteps, Ended, SelectedMeant, Checked
<1>2. CASE Ends("failed") /\ excuse' = TRUE
  BY <1>1, <1>2, EndsKeeps DEF Ended
<1>3. CASE path \in up /\ UNCHANGED excuse /\ ask.by = "index" /\ ~HasGeo(list[sel]) /\ Ends("crashed")
  <2>1. list[sel].strings = "noGeo" /\ excuse' \in BOOLEAN
    BY <1>1, <1>3 DEF HasProduct, HasGeo, SelInv, SelTypeOK
  <2> QED BY <1>1, <1>3, <2>1, EndsKeeps DEF Ended
<1>4. CASE /\ path \in up /\ UNCHANGED excuse
           /\ opened' = path /\ version' = VersionOfSelected /\ at' = "commands"
           /\ UNCHANGED <<pass, list, sel, path, name>>
  <2> USE <1>1, <1>4 DEF SelInv, Stays, bus, args
  <2>1. SelTypeOK'
    BY DEF SelTypeOK, Asks, Entries
  <2>2. NodesDistinct' /\ EntriesTrue' /\ Undisturbed'
    BY DEF NodesDistinct, EntriesTrue, Undisturbed, Pid
  <2>3. Checked' /\ SelectedMeant' /\ NotedMeant' /\ ListComplete'
    BY DEF Checked, SelectedMeant, NotedMeant, ListComplete
  <2>4. RightBoard'
    BY DEF RightBoard, Meant
  <2>5. VersionOfOpened'
    <3> SUFFICES ASSUME path \notin disturbed, path # NoBoard
                 PROVE  \/ version' = StoredFwVersion(release[path])
                        \/ ask.by = "serial" /\ \E b \in Board \ {path} : Serials[b] = ask.arg
      BY DEF VersionOfOpened
    <3>1. CASE path = list[sel].board
      BY <3>1 DEF EntriesTrue, VersionOfSelected
    <3>2. CASE path # list[sel].board
      <4>1. ask.by = "serial" /\ Serials[list[sel].board] = ask.arg /\ list[sel].board \in Board
        BY <3>2, MeantFacts, EntryTypes
      <4> QED BY <3>2, <4>1
    <3> QED BY <3>1, <3>2
  <2>6. NameIsKind' /\ CrashOnlyWithoutGeo' /\ FailsForAReason'
    BY DEF NameIsKind, CrashOnlyWithoutGeo, FailsForAReason
  <2> QED BY <2>1, <2>2, <2>3, <2>4, <2>5, <2>6
<1> QED BY <1>2, <1>3, <1>4

-----------------------------------------------------------------------------
(* The minimal tool.                                                       *)

(* One more hidraw number is scanned. *)
LEMMA ScanStep ==
  ASSUME SelInv, Scan
  PROVE  SelInv'
<1> USE DEF SelInv, Stays, bus, args, Scan
<1>1. /\ tool = "minimal" /\ pass \in Node /\ pass \in Nat /\ ask.by # "path"
      /\ list \in Seq(Entries) /\ Len(list) \in Nat /\ up \in SUBSET Board
      /\ node \in [Board -> Node \cup {NoNode}] /\ sel \in Nat
      /\ ask.by = "index" => ask.arg \in Nat \ {0}
  BY SelectionAssumption DEF SelTypeOK, ListComplete, StdSteps, Ended, Asks
<1>2. PICK b \in OpenDevice(pass) :
         IF b = NoBoard
         THEN /\ excuse' = (excuse \/ \E c \in up : node[c] = pass)
              /\ UNCHANGED <<list, sel, name>>
         ELSE /\ list' = Append(list, Info(b, "all"))
              /\ sel' = Selected(pass, Len(list) + 1)
              /\ name' = NameByPid(Info(b, "all"))
              /\ UNCHANGED excuse
  OBVIOUS
<1>3. at' \in {"scan", "open", "ok"} /\ (at' = "scan" => pass' \in Node)
      /\ pass' \in Nat /\ (at' = "ok" => ask.by = "list")
      /\ (at' = "scan" => pass' = pass + 1)
      /\ (at' # "scan" => pass = NodeMax)
  <2>1. CASE pass = NodeMax
    BY <1>1, <2>1
  <2>2. CASE pass # NodeMax
    <3>1. pass' = pass + 1 /\ at' = "scan"
      BY <2>2
    <3>2. pass + 1 \in 0 .. NodeMax
      BY <1>1, <2>2, SelectionAssumption DEF Node
    <3> QED BY <1>1, <2>2, <3>1, <3>2 DEF Node
  <2> QED BY <2>1, <2>2
<1>4. NodesDistinct' /\ Undisturbed'
  BY DEF NodesDistinct, Undisturbed
<1>5. Checked' /\ SelectedMeant'
  BY <1>3 DEF Checked, SelectedMeant
<1>6. RightBoard' /\ VersionOfOpened' /\ NameIsKind' /\ CrashOnlyWithoutGeo' /\ FailsForAReason'
  BY <1>3 DEF RightBoard, VersionOfOpened, NameIsKind, CrashOnlyWithoutGeo, FailsForAReason
<1>7. Met' = IF at' = "scan" THEN {c \in up : node[c] < pass + 1} ELSE up
  BY <1>3 DEF Met
<1>8. ~excuse' /\ disturbed = {} => \A c \in up : node[c] < pass + 1 \/ at' = "scan"
  <2> SUFFICES ASSUME disturbed = {}, NEW c \in up, pass = NodeMax PROVE node[c] < pass + 1
    BY <1>3
  <2>1. node[c] = c - 1 /\ c \in Board
    BY <1>1 DEF Undisturbed
  <2> QED BY <2>1, SelectionAssumption DEF Board
<1>9. CASE b = NoBoard
  <2> USE <1>1, <1>2, <1>3, <1>9
  <2>1. UNCHANGED <<list, sel, name>> /\ (excuse => excuse')
    OBVIOUS
  <2>2. excuse' \in BOOLEAN
    BY Zenon
  <2>3. SelTypeOK'
    BY <2>1, <2>2 DEF SelTypeOK, Asks, Entries, MinimalSteps, Ended
  <2>4. EntriesTrue'
    BY <2>1 DEF EntriesTrue, Pid
  <2>5. NotedMeant'
    BY <2>1 DEF NotedMeant
  <2>6. ListComplete'
    <3> SUFFICES ASSUME ~excuse', disturbed = {}
                 PROVE  /\ \A i \in DOMAIN list : list[i].strings = "all"
                        /\ \A i, j \in DOMAIN list : list[i].board = list[j].board => i = j
                        /\ {list[i].board : i \in DOMAIN list} = Met'
      BY <2>1 DEF ListComplete
    <3>1. /\ \A i \in DOMAIN list : list[i].strings = "all"
          /\ \A i, j \in DOMAIN list : list[i].board = list[j].board => i = j
          /\ {list[i].board : i \in DOMAIN list} = {c \in up : node[c] < pass}
      BY <2>1 DEF ListComplete, Met, Ended
    <3>2. \A c \in up : node[c] # pass /\ node[c] \in Int
      <4>1. excuse' = (excuse \/ \E c \in up : node[c] = pass)
        BY <1>2, <1>9, Zenon
      <4>2. \A c \in up : node[c] # pass
        BY <4>1, Zenon
      <4>3. \A c \in Board : node[c] \in Int
        BY DEF Node, NoNode
      <4> QED BY <4>2, <4>3
    <3>3. Met' = {c \in up : node[c] < pass}
      BY <1>7, <1>8, <3>2
    <3> QED BY <3>1, <3>3
  <2> QED BY <1>4, <1>5, <1>6, <2>3, <2>4, <2>5, <2>6
<1>10. CASE b # NoBoard
  <2>1. b \in up /\ b \in Board /\ node[b] = pass
    BY <1>1, <1>10 DEF OpenDevice
  <2> DEFINE d == Info(b, "all")
  <2>2. d \in Entries /\ d.board = b /\ d.pid = Pid(b) /\ d.release = release[b] /\ d.strings = "all"
    BY <2>1, PidFacts DEF Info, Entries, Strings, SelTypeOK
  <2>3. list' = Append(list, d) /\ UNCHANGED excuse /\ sel' = Selected(pass, Len(list) + 1)
    BY <1>2, <1>10
  <2> HIDE DEF d
  <2>4. /\ list' \in Seq(Entries) /\ Len(list') = Len(list) + 1
        /\ list'[Len(list) + 1] = d /\ \A i \in DOMAIN list : list'[i] = list[i] /\ i \in DOMAIN list'
        /\ \A i \in DOMAIN list' : i \in DOMAIN list \/ i = Len(list) + 1
        /\ Len(list) + 1 \notin DOMAIN list /\ Len(list) + 1 \in DOMAIN list'
    BY <1>1, <2>2, <2>3
  <2>5. SelTypeOK'
    <3>1. sel' \in Nat
      BY <1>1, <2>3 DEF Selected
    <3> QED BY <1>1, <1>3, <2>3, <2>4, <3>1 DEF SelTypeOK, Asks, Entries, MinimalSteps, Ended
  <2>6. EntriesTrue'
    <3> SUFFICES ASSUME NEW i \in DOMAIN list'
                 PROVE  /\ list'[i].pid = 2 => kind = "ME10"
                        /\ list'[i].pid = 3 => kind = "G239"
                        /\ \/ list'[i].board \in disturbed
                           \/ /\ list'[i].pid = Pid(list'[i].board)
                              /\ list'[i].release = release[list'[i].board]
      BY DEF EntriesTrue, Pid
    <3>1. CASE i \in DOMAIN list
      BY <2>4, <3>1 DEF EntriesTrue
    <3>2. CASE i = Len(list) + 1
      BY <2>1, <2>2, <2>4, <3>2, PidFacts
    <3> QED BY <2>4, <3>1, <3>2
  <2>7. \A c \in Board : node[c] = pass => c = b
    BY <1>1, <2>1 DEF NodesDistinct, NoNode
  <2>8. NotedMeant'
    <3>1. ASSUME ask.by = "index", ask.arg \in DOMAIN list', NEW c \in Board \ disturbed, node[c] = sel'
          PROVE  list'[ask.arg].board = c
      <4>1. CASE ask.arg = Len(list) + 1
        BY <1>1, <2>1, <2>2, <2>3, <2>4, <2>7, <3>1, <4>1 DEF Selected
      <4>2. CASE ask.arg # Len(list) + 1
        <5>1. sel' = sel /\ ask.arg \in DOMAIN list
          BY <2>3, <2>4, <3>1, <4>2 DEF Selected
        <5> QED BY <2>4, <3>1, <5>1 DEF NotedMeant
      <4> QED BY <4>1, <4>2
    <3>2. ASSUME ask.by = "only", Len(list') = 1, NEW c \in Board \ disturbed, node[c] = sel'
          PROVE  list'[1].board = c
      <4>1. Len(list) = 0 /\ list = <<>>
        BY <1>1, <2>4, <3>2
      <4>2. sel' = pass
        BY <2>3, <3>2, <4>1 DEF NotedMeant, Selected
      <4>3. list'[1] = d
        BY <2>4, <4>1
      <4> QED BY <2>2, <2>7, <3>2, <4>2, <4>3
    <3>3. list' # <<>>
      BY <2>4
    <3> QED BY <3>1, <3>2, <3>3 DEF NotedMeant
  <2>9. ListComplete'
    <3> SUFFICES ASSUME ~excuse, disturbed = {}
                 PROVE  /\ \A i \in DOMAIN list' : list'[i].strings = "all"
                        /\ \A i, j \in DOMAIN list' : list'[i].board = list'[j].board => i = j
                        /\ {list'[i].board : i \in DOMAIN list'} = Met'
      BY <1>1, <1>3, <2>3 DEF ListComplete
    <3>1. /\ \A i \in DOMAIN list : list[i].strings = "all"
          /\ \A i, j \in DOMAIN list : list[i].board = list[j].board => i = j
          /\ {list[i].board : i \in DOMAIN list} = {c \in up : node[c] < pass}
      BY <1>1 DEF ListComplete, Met, Ended
    <3>2. \A i \in DOMAIN list : list[i].board # b
      BY <1>1, <2>1, <3>1
    <3>3. \A i \in DOMAIN list' : list'[i].strings = "all"
      BY <2>2, <2>4, <3>1
    <3>4. \A i, j \in DOMAIN list' : list'[i].board = list'[j].board => i = j
      BY <2>2, <2>4, <3>1, <3>2
    <3>5. Met' = {c \in up : node[c] < pass} \cup {b}
      <4>1. \A c \in up : node[c] \in Int /\ (node[c] = pass => c = b)
        BY <1>1, <2>7 DEF Node, NoNode
      <4>2. Met' = {c \in up : node[c] < pass + 1}
        BY <1>7, <1>8, <2>3
      <4> QED BY <1>1, <2>1, <4>1, <4>2
    <3>6. {list'[i].board : i \in DOMAIN list'} = {list[i].board : i \in DOMAIN list} \cup {b}
      <4>1. list'[Len(list) + 1].board = b
        BY <2>2, <2>4
      <4> QED BY <2>4, <4>1
    <3> QED BY <3>1, <3>3, <3>4, <3>5, <3>6
  <2> QED BY <1>4, <1>5, <1>6, <2>5, <2>6, <2>8, <2>9
<1> QED BY <1>9, <1>10

(* The board that was noted, or given by its path, is opened. *)
LEMMA OpenStep ==
  ASSUME SelInv, Open
  PROVE  SelInv'
<1> USE DEF Open
<1>1. /\ tool = "minimal" /\ Stays /\ at = "open"
      /\ list \in Seq(Entries) /\ Len(list) \in Nat /\ up \in SUBSET Board /\ excuse \in BOOLEAN
      /\ ask.by = "index" => ask.arg \in Nat \ {0}
  BY SelectionAssumption DEF SelInv, SelTypeOK, StdSteps, Ended, Asks
<1>2. ASSUME NEW n, NEW b \in OpenDevice(n), Proceeds(b),
             b # NoBoard => Meant(b) \/ b \in disturbed
      PROVE  SelInv'
  <2> USE <1>1, <1>2 DEF SelInv, Stays, bus, args, Proceeds
  <2>1. b \in up \cup {NoBoard}
    BY DEF OpenDevice
  <2>2. SelTypeOK'
    <3>1. excuse' \in BOOLEAN
      BY Zenon
    <3> QED BY <2>1, <3>1 DEF SelTypeOK, Asks, Entries
  <2>3. NodesDistinct' /\ EntriesTrue' /\ Undisturbed'
    BY DEF NodesDistinct, EntriesTrue, Undisturbed, Pid
  <2>4. Checked' /\ SelectedMeant' /\ NotedMeant' /\ ListComplete'
    BY DEF Checked, SelectedMeant, NotedMeant, ListComplete, Ended
  <2>5. RightBoard' /\ VersionOfOpened'
    BY DEF RightBoard, VersionOfOpened, Meant
  <2>6. NameIsKind'
    <3> SUFFICES ASSUME b # NoBoard
                 PROVE  NameByPid(Info(b, "all")) = kind
                        \/ (NameByPid(Info(b, "all")) = "F229" /\ Pid(b) = 1)
      BY DEF NameIsKind, Pid
    <3>1. b \in Board
      BY <2>1
    <3> QED BY <3>1, PidFacts DEF NameByPid, Info
  <2>7. CrashOnlyWithoutGeo' /\ FailsForAReason'
    BY DEF CrashOnlyWithoutGeo, FailsForAReason
  <2> QED BY <2>2, <2>3, <2>4, <2>5, <2>6, <2>7
<1>3. CASE /\ ask.by = "path"
           /\ \E b \in OpenDevice(ask.arg) :
                IF b = NoBoard THEN Ends("failed") /\ excuse' = TRUE ELSE Proceeds(b)
  <2>1. PICK b \in OpenDevice(ask.arg) :
           IF b = NoBoard THEN Ends("failed") /\ excuse' = TRUE ELSE Proceeds(b)
    BY <1>3
  <2>2. CASE b = NoBoard
    BY <1>1, <2>1, <2>2, EndsKeeps DEF Ended
  <2>3. CASE b # NoBoard
    BY <1>2, <1>3, <2>1, <2>3, MeantFacts
  <2> QED BY <2>2, <2>3
<1>4. CASE ask.by = "index" /\ ask.arg <= Len(list) /\ \E b \in OpenDevice(sel) : Proceeds(b)
  <2>1. PICK b \in OpenDevice(sel) : Proceeds(b)
    BY <1>4
  <2>2. b # NoBoard => Meant(b) \/ b \in disturbed
    BY <1>1, <1>4, MeantFacts DEF OpenDevice, SelInv, NotedMeant
  <2> QED BY <1>2, <2>1, <2>2
<1>5. CASE ask.by = "only" /\ Len(list) = 1 /\ \E b \in OpenDevice(sel) : Proceeds(b)
  <2>1. PICK b \in OpenDevice(sel) : Proceeds(b)
    BY <1>5
  <2>2. b # NoBoard => Meant(b) \/ b \in disturbed
    BY <1>1, <1>5, MeantFacts DEF OpenDevice, SelInv, NotedMeant
  <2> QED BY <1>2, <2>1, <2>2
<1>6. CASE /\ \/ ask.by = "index" /\ ask.arg > Len(list)
              \/ ask.by = "only" /\ Len(list) # 1
           /\ Ends("failed") /\ UNCHANGED excuse
  <2>1. ~excuse /\ disturbed = {} => Len(list) = Cardinality(up)
    BY <1>1, <1>6, ListedBoards
  <2> QED BY <1>1, <1>6, <2>1, EndsKeeps DEF Ended
<1> QED BY <1>3, <1>4, <1>5, <1>6

-----------------------------------------------------------------------------
(* The theorems.                                                           *)

(* Every step of a run, and of the boards, keeps the invariant.            *)
LEMMA SelInvInductive == SelInv /\ [SelectionNext]_vars => SelInv'
<1> SUFFICES ASSUME SelInv, [SelectionNext]_vars PROVE SelInv'
  OBVIOUS
<1>1. CASE Enumerate \/ Check \/ Select \/ HidOpen \/ HidOpenPath
  BY <1>1, EnumerateStep, CheckStep, SelectStep, HidOpenStep, HidOpenPathStep
<1>2. CASE Scan \/ Open
  BY <1>2, ScanStep, OpenStep
<1>3. CASE \E b \in Board : Vanish(b) \/ Appear(b) \/ Rebind(b)
  BY <1>3, VanishStep, AppearStep, RebindStep
<1>4. CASE UNCHANGED vars
  <2> USE <1>4 DEF SelInv, vars, bus, args, run
  <2>1. SelTypeOK' /\ NodesDistinct' /\ EntriesTrue' /\ Checked' /\ Undisturbed'
    BY DEF SelTypeOK, NodesDistinct, EntriesTrue, Checked, Undisturbed, Pid, Asks, Entries,
       HasProduct, HasSerial
  <2>2. SelectedMeant' /\ NotedMeant' /\ ListComplete' /\ RightBoard'
    BY DEF SelectedMeant, NotedMeant, ListComplete, RightBoard, Meant, Met, Pid
  <2>3. VersionOfOpened' /\ NameIsKind' /\ CrashOnlyWithoutGeo' /\ FailsForAReason'
    BY DEF VersionOfOpened, NameIsKind, CrashOnlyWithoutGeo, FailsForAReason, Pid
  <2> QED BY <2>1, <2>2, <2>3
<1> QED BY <1>1, <1>2, <1>3, <1>4 DEF SelectionNext

(* The invariant of a run, for any number of boards and of disturbances.   *)
THEOREM SelectionInvariant == SelectionSpec => []SelInv
BY SelInitInv, SelInvInductive, PTL DEF SelectionSpec

(* The commands of -n, -g, -i and of a run for the only board reach the    *)
(* board that was meant; only the minimal tool may reach another, which    *)
(* took over its hidraw number during the run.                             *)
THEOREM ReachesRightBoard == SelectionSpec => []RightBoard
BY SelectionInvariant, PTL DEF SelInv

(* The version that decides on the workarounds of -p and -r is that of the *)
(* board opened.                                                           *)
THEOREM VersionIsOfOpened == SelectionSpec => []VersionOfOpened
BY SelectionInvariant, PTL DEF SelInv

(* The board name is right whatever firmware the boards have; the minimal  *)
(* tool takes old boards for an F229 and makes no other mistake.           *)
THEOREM NameIsOfOpened == SelectionSpec => []NameIsKind
BY SelectionInvariant, PTL DEF SelInv

(* CheckAvailableDevices leaves the missing geographical address as the    *)
(* only null pointer of a run.                                             *)
THEOREM OnlyGeoCrashes == SelectionSpec => []CrashOnlyWithoutGeo
BY SelectionInvariant, PTL DEF SelInv

(* A run that fails without a disturbance was asked for what is not there. *)
THEOREM FailureHasReason == SelectionSpec => []FailsForAReason
BY SelectionInvariant, PTL DEF SelInv

=============================================================================
