----------------------------- MODULE JsonProofs -----------------------------
(***************************************************************************)
(* What holds of cJSON for all its inputs.                                 *)
(*                                                                         *)
(* The linked lists, for any number of items: whatever sequence of calls   *)
(* the client makes, every item is held or has one place under one parent, *)
(* and the pointers walk exactly the children.                             *)
(*                                                                         *)
(* The print buffer: no sequence of pieces, of any sizes and into any      *)
(* buffer, is written past the end, as long as each piece asks for its     *)
(* characters and leaves its null character to the one more that ensure()  *)
(* adds.  And an escape sequence \uXXXX gives the UTF-8 of its code point. *)
(***************************************************************************)
EXTENDS JsonTree, PrintBuffer, Utf16, WellFoundedInduction, TLAPS

(* Nobody is its own ancestor: every set of items has one that is held or  *)
(* whose parent is not in the set.                                         *)
Rooted ==
    \A S \in SUBSET used : S # {} =>
        \E n \in S : n \in held \/ \E p \in used \ S : IsChild(n, p)

TreeInv == TreeTypeOK /\ Forest /\ Linked /\ Rooted

-----------------------------------------------------------------------------
(* Facts about one state.                                                  *)

(* The places of a sequence of items. *)
LEMMA KidsSeq ==
  ASSUME TreeTypeOK, NEW p \in Node
  PROVE  /\ kids[p] \in Seq(Node) /\ Len(kids[p]) \in Nat
         /\ DOMAIN kids[p] = 1 .. Len(kids[p])
         /\ \A i \in 1 .. Len(kids[p]) : kids[p][i] \in Node
  BY DEF TreeTypeOK

LEMMA ChildFacts ==
  ASSUME TreeInv, NEW p \in used, NEW n, IsChild(n, p)
  PROVE  /\ n \in used /\ n \notin held /\ n \in Node /\ p \in Node
         /\ \A q \in used : IsChild(n, q) => q = p
  BY DEF TreeInv, TreeTypeOK, Forest, IsChild

LEMMA PlaceFacts ==
  ASSUME TreeInv, NEW p \in used, NEW n, IsChild(n, p)
  PROVE  /\ PlaceOf(n, p) \in 1 .. Len(kids[p])
         /\ kids[p][PlaceOf(n, p)] = n
         /\ \A i \in 1 .. Len(kids[p]) : kids[p][i] = n => i = PlaceOf(n, p)
<1>1. DOMAIN kids[p] = 1 .. Len(kids[p])
  BY KidsSeq DEF TreeInv, TreeTypeOK
<1>2. PlaceOf(n, p) \in DOMAIN kids[p] /\ kids[p][PlaceOf(n, p)] = n
  BY DEF IsChild, PlaceOf
<1> QED BY <1>1, <1>2 DEF TreeInv, Forest

(* An item is held or has a parent. *)
LEMMA HeldOrChild ==
  ASSUME TreeInv, NEW n \in used
  PROVE  n \in held \/ \E p \in used : IsChild(n, p)
  BY DEF TreeInv, Forest

(* What the pointers of the children of one parent are. *)
LEMMA ChildPointers ==
  ASSUME TreeInv, NEW p \in used, NEW i \in 1 .. Len(kids[p])
  PROVE  /\ kids[p][i] \in used /\ IsChild(kids[p][i], p)
         /\ child[p] = kids[p][1] /\ IsChild(child[p], p)
         /\ next[kids[p][i]] = IF i = Len(kids[p]) THEN Nil ELSE kids[p][i + 1]
         /\ prev[kids[p][i]] = IF i = 1 THEN kids[p][Len(kids[p])] ELSE kids[p][i - 1]
<1>1. p \in Node /\ DOMAIN kids[p] = 1 .. Len(kids[p]) /\ Len(kids[p]) \in Nat
  BY KidsSeq DEF TreeInv, TreeTypeOK
<1>2. kids[p][i] \in used /\ Represents(p)
  BY <1>1 DEF TreeInv, Forest, Linked
<1>3. kids[p] # <<>> /\ 1 \in DOMAIN kids[p]
  BY <1>1
<1> QED BY <1>1, <1>2, <1>3 DEF Represents, IsChild

(* The child and the next of an item are items, and related as they seem.  *)
LEMMA FirstChild ==
  ASSUME TreeInv, NEW p \in used
  PROVE  child[p] = Nil \/ (child[p] \in used /\ IsChild(child[p], p))
<1>1. CASE kids[p] = <<>>
  BY <1>1 DEF TreeInv, Linked, Represents
<1>2. CASE kids[p] # <<>>
  <2>1. 1 \in 1 .. Len(kids[p])
    BY <1>2, KidsSeq DEF TreeInv, TreeTypeOK
  <2> QED BY <2>1, ChildPointers
<1> QED BY <1>1, <1>2

LEMMA NextSibling ==
  ASSUME TreeInv, NEW n \in used
  PROVE  /\ next[n] = Nil \/ next[n] \in used
         /\ n \in held => next[n] = Nil
         /\ \A p \in used : IsChild(n, p) /\ next[n] # Nil => IsChild(next[n], p)
<1>1. n \in held => next[n] = Nil
  BY DEF TreeInv, Linked
<1>2. ASSUME NEW p \in used, IsChild(n, p)
      PROVE  next[n] = Nil \/ (next[n] \in used /\ IsChild(next[n], p))
  <2>1. PICK i \in 1 .. Len(kids[p]) : kids[p][i] = n
    BY <1>2, PlaceFacts
  <2>2. Len(kids[p]) \in Nat
    BY KidsSeq DEF TreeInv, TreeTypeOK
  <2>3. CASE i = Len(kids[p])
    BY <2>1, <2>3, ChildPointers
  <2>4. CASE i # Len(kids[p])
    <3>1. i + 1 \in 1 .. Len(kids[p])
      BY <2>2, <2>4
    <3> QED BY <2>1, <2>4, <3>1, ChildPointers
  <2> QED BY <2>3, <2>4
<1> QED BY <1>1, <1>2, HeldOrChild

(* A set of numbers that is not empty has a least element. *)
LEMMA LeastNumber ==
  ASSUME NEW T \in SUBSET Nat, T # {}
  PROVE  \E i \in T : \A j \in T : ~(j < i)
<1>1. PICK i \in T : \A j \in T : ~(<<j, i>> \in OpToRel(<, Nat))
  BY WFMin, NatLessThanWellFounded, Zenon
<1>2. ASSUME NEW j \in T, j < i PROVE <<j, i>> \in OpToRel(<, Nat)
  BY <1>2, Zenon DEF OpToRel
<1> QED BY <1>1, <1>2

(* Whoever has the first child and follows next has all children. *)
LEMMA AllChildren ==
  ASSUME TreeInv, NEW p \in used, NEW S, child[p] # Nil => child[p] \in S,
         \A m \in S : next[m] \in S \cup {Nil},
         NEW n, IsChild(n, p)
  PROVE  n \in S
<1> DEFINE Missing == {i \in 1 .. Len(kids[p]) : kids[p][i] \notin S}
<1>1. Len(kids[p]) \in Nat /\ Missing \in SUBSET Nat
  BY KidsSeq DEF TreeInv, TreeTypeOK
<1>2. ASSUME Missing # {} PROVE FALSE
  <2>1. PICK i \in Missing : \A j \in Missing : ~(j < i)
    BY <1>1, <1>2, LeastNumber, Zenon
  <2>2. i \in 1 .. Len(kids[p]) /\ kids[p][i] \notin S
    BY <2>1
  <2>3. i # 1
    BY <2>2, ChildPointers, ChildFacts, TreeAssumption
  <2>4. i - 1 \in 1 .. Len(kids[p]) /\ i - 1 < i
    BY <1>1, <2>2, <2>3
  <2>5. kids[p][i - 1] \in S
    BY <2>1, <2>4
  <2>6. next[kids[p][i - 1]] = kids[p][i] /\ kids[p][i] \in Node
    BY <1>1, <2>2, <2>3, <2>4, ChildPointers, ChildFacts
  <2> QED BY <2>2, <2>5, <2>6, TreeAssumption
<1>3. PICK i \in 1 .. Len(kids[p]) : kids[p][i] = n
  BY PlaceFacts
<1> QED BY <1>2, <1>3

-----------------------------------------------------------------------------
(* Trees.                                                                  *)

LEMMA TreeClosed ==
  ASSUME TreeInv, NEW z \in used
  PROVE  z \in Tree(z) /\ Tree(z) \subseteq used /\ Closed(Tree(z))
<1>1. z \in Tree(z) /\ Tree(z) \subseteq used
  BY DEF Tree
<1>2. ASSUME NEW n \in Tree(z) PROVE child[n] \in Tree(z) \cup {Nil} /\ next[n] \in Tree(z) \cup {Nil}
  <2>1. n \in used /\ child[n] \in used \cup {Nil} /\ next[n] \in used \cup {Nil}
    BY <1>1, <1>2, FirstChild, NextSibling
  <2>2. ASSUME NEW S \in SUBSET used, z \in S, Closed(S)
        PROVE  child[n] \in S \cup {Nil} /\ next[n] \in S \cup {Nil}
    BY <1>2, <2>2 DEF Tree, Closed
  <2> QED BY <2>1, <2>2 DEF Tree
<1> QED BY <1>1, <1>2 DEF Closed

(* Everything in the list and below z is a child of something below, or in *)
(* the list of z.                                                          *)
LEMMA TreeParents ==
  ASSUME TreeInv, NEW z \in used, NEW D \in SUBSET used, Tree(z) \subseteq D,
         z \in held \/ \E q \in D : IsChild(z, q),
         NEW n \in Tree(z)
  PROVE  (n = z /\ z \in held) \/ \E q \in D : IsChild(n, q)
<1> DEFINE S == {m \in Tree(z) : (m = z /\ z \in held) \/ \E q \in D : IsChild(m, q)}
<1>1. S \in SUBSET used /\ z \in S
  BY TreeClosed
<1>2. ASSUME NEW m \in S PROVE child[m] \in S \cup {Nil} /\ next[m] \in S \cup {Nil}
  <2>1. m \in Tree(z) /\ m \in used /\ m \in D
    BY <1>1, <1>2
  <2>2. child[m] \in Tree(z) \cup {Nil} /\ next[m] \in Tree(z) \cup {Nil}
    BY <2>1, TreeClosed DEF Closed
  <2>3. child[m] \in S \cup {Nil}
    BY <2>1, <2>2, FirstChild
  <2>4. next[m] \in S \cup {Nil}
    <3>1. CASE m = z /\ z \in held
      BY <2>1, <3>1, NextSibling
    <3>2. CASE \E q \in D : IsChild(m, q)
      BY <2>1, <2>2, <3>2, NextSibling
    <3> QED BY <1>2, <3>1, <3>2
  <2> QED BY <2>3, <2>4
<1>3. Closed(S)
  BY <1>2 DEF Closed
<1>4. n \in S
  BY <1>1, <1>3 DEF Tree
<1> QED BY <1>4

(* What is deleted with y: y, and what is below it. *)
LEMMA DeletedFacts ==
  ASSUME TreeInv, NEW y \in used
  PROVE  /\ y \in Deleted(y) /\ Deleted(y) \subseteq used
         /\ \A q \in Deleted(y) : \A n : IsChild(n, q) => n \in Deleted(y)
         /\ \A n \in Deleted(y) \ {y} : \E q \in Deleted(y) : IsChild(n, q)
<1> DEFINE D == Deleted(y)
<1>1. CASE child[y] = Nil
  <2>1. D = {y}
    BY <1>1 DEF Deleted
  <2>2. ASSUME NEW n, IsChild(n, y) PROVE FALSE
    <3>1. child[y] = kids[y][1] /\ IsChild(child[y], y)
      BY <2>2, PlaceFacts, ChildPointers
    <3> QED BY <1>1, <3>1, ChildFacts, TreeAssumption
  <2> QED BY <2>1, <2>2
<1>2. CASE child[y] # Nil
  <2>1. child[y] \in used /\ IsChild(child[y], y)
    BY <1>2, FirstChild
  <2>2. D = {y} \cup Tree(child[y]) /\ D \subseteq used
    BY <1>2, <2>1, TreeClosed DEF Deleted
  <2>3. Tree(child[y]) \subseteq D /\ child[y] \in Tree(child[y]) /\ Closed(Tree(child[y]))
    BY <2>1, <2>2, TreeClosed
  <2>4. ASSUME NEW q \in D, NEW n, IsChild(n, q) PROVE n \in D
    <3>1. q \in used /\ (child[q] # Nil => child[q] \in Tree(child[y]))
      BY <2>2, <2>3 DEF Closed
    <3>2. n \in Tree(child[y])
      BY <2>3, <2>4, <3>1, AllChildren DEF Closed
    <3> QED BY <2>3, <3>2
  <2>5. ASSUME NEW n \in D \ {y} PROVE \E q \in D : IsChild(n, q)
    <3>1. n \in Tree(child[y]) /\ Tree(child[y]) \subseteq D /\ D \in SUBSET used /\ y \in D
      BY <2>2, <2>5
    <3>2. child[y] \notin held
      BY <2>1, ChildFacts
    <3> HIDE DEF D
    <3> QED BY <2>1, <3>1, <3>2, TreeParents
  <2> QED BY <2>2, <2>4, <2>5
<1> QED BY <1>1, <1>2

-----------------------------------------------------------------------------
(* Steps.                                                                  *)

LEMMA SeqOfFunction ==
  ASSUME NEW S, NEW n \in Nat, NEW s \in [1 .. n -> S]
  PROVE  s \in Seq(S) /\ Len(s) = n /\ DOMAIN s = 1 .. n
  OBVIOUS

(* The list of p is as it was. *)
LEMMA RepresentsFrame ==
  ASSUME NEW p, Represents(p), kids'[p] = kids[p], child'[p] = child[p],
         \A i \in DOMAIN kids[p] : /\ next'[kids[p][i]] = next[kids[p][i]]
                                   /\ prev'[kids[p][i]] = prev[kids[p][i]]
  PROVE  Represents(p)'
  BY DEF Represents

LEMMA InitInv == TreeInit => TreeInv
<1> SUFFICES ASSUME TreeInit PROVE TreeInv
  OBVIOUS
<1>1. TreeTypeOK
  BY DEF TreeInit, TreeTypeOK, Pointer
<1>2. Forest /\ Linked /\ Rooted
  BY DEF TreeInit, Forest, Linked, Rooted
<1> QED BY <1>1, <1>2 DEF TreeInv

LEMMA CreateInv ==
  ASSUME TreeInv, NEW x \in Node, NEW k \in Kind, Create(x, k)
  PROVE  TreeInv'
<1>1. TreeTypeOK'
  BY DEF TreeInv, TreeTypeOK, Create, Pointer
<1>2. \A p \in used : /\ p # x /\ p \in Node /\ kids'[p] = kids[p] /\ child'[p] = child[p]
                      /\ \A i \in DOMAIN kids[p] : kids[p][i] \in used
  BY DEF TreeInv, TreeTypeOK, Forest, Create
<1>3. kids'[x] = <<>> /\ child'[x] = Nil /\ used' = used \cup {x} /\ held' = held \cup {x}
  BY DEF TreeInv, TreeTypeOK, Create
<1>4. Forest'
  BY <1>2, <1>3 DEF TreeInv, Forest, IsChild, Create
<1>5. ASSUME NEW p \in used PROVE Represents(p)'
  <2>1. \A n \in used : next'[n] = next[n] /\ prev'[n] = prev[n]
    BY <1>2 DEF TreeInv, TreeTypeOK, Create
  <2> QED BY <1>2, <1>5, <2>1, RepresentsFrame DEF TreeInv, Linked
<1>6. Represents(x)'
  BY <1>3 DEF Represents
<1>7. Linked'
  BY <1>3, <1>5, <1>6 DEF TreeInv, TreeTypeOK, Linked, Create
<1>8. Rooted'
  BY <1>2, <1>3 DEF TreeInv, Rooted, IsChild
<1> QED BY <1>1, <1>4, <1>7, <1>8 DEF TreeInv

(* Items that get a new parent p outside of their own tree, and the items  *)
(* of D that are deleted with all their children, leave no cycle.          *)
LEMMA AdoptRooted ==
  ASSUME TreeInv, NEW p, NEW x, MayAdd(p, x), NEW D \in SUBSET used, p \notin D,
         \A q \in D : \A n : IsChild(n, q) => n \in D,
         used' = used \ D, held \ {x} \subseteq held',
         \A q, n \in used \ D : IsChild(n, q) => IsChild(n, q)',
         IsChild(x, p)'
  PROVE  Rooted'
<1>1. x \in used /\ x \in held /\ p \in used' /\ p \notin Tree(x)
  BY DEF MayAdd, Container, TreeInv, TreeTypeOK
<1> SUFFICES ASSUME NEW S \in SUBSET used', S # {}
             PROVE  \E n \in S : n \in held' \/ \E q \in used' \ S : IsChild(n, q)'
  BY DEF Rooted
<1>2. S \in SUBSET used /\ S \cap D = {}
  OBVIOUS
<1>3. ASSUME NEW R \in SUBSET S, NEW n \in R, n # x \/ p \notin S,
             n \in held \/ \E q \in used \ R : IsChild(n, q),
             \A q \in S \ R : ~IsChild(n, q)
      PROVE  n \in held' \/ \E q \in used' \ S : IsChild(n, q)'
  <2>1. CASE n = x
    BY <1>1, <1>3, <2>1
  <2>2. CASE n # x /\ n \in held
    BY <2>2
  <2>3. CASE \E q \in used \ R : IsChild(n, q)
    <3>1. PICK q \in used \ R : IsChild(n, q)
      BY <2>3
    <3>2. q \notin S /\ q \notin D
      BY <1>2, <1>3, <3>1
    <3> QED BY <1>2, <3>1, <3>2
  <2> QED BY <1>3, <2>1, <2>2, <2>3
<1>4. CASE p \notin S
  <2>1. PICK n \in S : n \in held \/ \E q \in used \ S : IsChild(n, q)
    BY <1>2 DEF TreeInv, Rooted
  <2> QED BY <1>3, <1>4, <2>1
<1>5. CASE p \in S
  <2> DEFINE R == S \ Tree(x)
  <2>1. R # {} /\ R \in SUBSET used
    BY <1>1, <1>2, <1>5
  <2>2. PICK n \in R : n \in held \/ \E q \in used \ R : IsChild(n, q)
    BY <2>1 DEF TreeInv, Rooted
  <2>3. x \in Tree(x) /\ Closed(Tree(x)) /\ Tree(x) \subseteq used
    BY <1>1, TreeClosed
  <2>4. ASSUME NEW q \in S \ R, IsChild(n, q) PROVE FALSE
    <3>1. q \in used /\ q \in Tree(x)
      BY <1>2, <2>4
    <3>2. n \in Tree(x)
      BY <2>3, <2>4, <3>1, AllChildren DEF Closed
    <3> QED BY <2>2, <3>2
  <2> QED BY <1>3, <2>2, <2>3, <2>4
<1> QED BY <1>4, <1>5

LEMMA AdoptAllRooted ==
  ASSUME TreeInv, NEW p, NEW x, MayAdd(p, x), used' = used, held' = held \ {x},
         \A q, n \in used : IsChild(n, q) => IsChild(n, q)',
         IsChild(x, p)'
  PROVE  Rooted'
<1> DEFINE D == {}
<1>1. /\ D \in SUBSET used /\ p \notin D /\ \A q \in D : \A n : IsChild(n, q) => n \in D
      /\ used' = used \ D /\ used \ D = used
  OBVIOUS
<1> HIDE DEF D
<1>2. \A q, n \in used \ D : IsChild(n, q) => IsChild(n, q)'
  BY <1>1
<1> QED BY <1>1, <1>2, AdoptRooted

(* What an item that may be added to p is. *)
LEMMA MayAddFacts ==
  ASSUME TreeInv, NEW p, NEW x, MayAdd(p, x)
  PROVE  /\ p \in used /\ p \in Node /\ x \in used /\ x \in Node /\ x \in held /\ x # p
         /\ next[x] = Nil /\ prev[x] = Nil /\ x # Nil
         /\ \A q \in used : ~IsChild(x, q)
         /\ \A q \in used : \A i \in 1 .. Len(kids[q]) : kids[q][i] # x
<1>1. /\ p \in used /\ p \in Node /\ x \in used /\ x \in Node /\ x \in held /\ x # p
      /\ next[x] = Nil /\ prev[x] = Nil /\ x # Nil
  BY TreeAssumption DEF MayAdd, Container, TreeInv, TreeTypeOK, Linked
<1>2. \A q \in used : ~IsChild(x, q)
  BY <1>1, ChildFacts
<1>3. \A q \in used : \A i \in 1 .. Len(kids[q]) : kids[q][i] # x
  BY <1>2, KidsSeq DEF IsChild, TreeInv, TreeTypeOK
<1> QED BY <1>1, <1>2, <1>3

(* The last child of p. *)
LEMMA LastChild ==
  ASSUME TreeInv, NEW p \in used, child[p] # Nil
  PROVE  /\ Len(kids[p]) \in 1 .. Len(kids[p])
         /\ kids[p][1] = child[p]
         /\ prev[child[p]] = kids[p][Len(kids[p])]
         /\ prev[child[p]] \in used /\ prev[child[p]] \in Node /\ child[p] \in Node
<1>1. p \in Node /\ Len(kids[p]) \in Nat /\ kids[p] # <<>>
  BY KidsSeq DEF TreeInv, TreeTypeOK, Linked, Represents
<1>2. Len(kids[p]) \in 1 .. Len(kids[p]) /\ 1 \in 1 .. Len(kids[p])
  BY <1>1, KidsSeq DEF TreeInv
<1> QED BY <1>1, <1>2, ChildPointers, ChildFacts

(* The places under p and q are different places. *)
LEMMA Places ==
  ASSUME TreeInv, NEW p \in used, NEW q \in used,
         NEW i \in 1 .. Len(kids[p]), NEW j \in 1 .. Len(kids[q]), kids[p][i] = kids[q][j]
  PROVE  p = q /\ i = j
  BY KidsSeq DEF TreeInv, TreeTypeOK, Forest

(* A place under p, now and after the step. *)
LEMMA ChildPlace ==
  ASSUME NEW p, NEW n, kids[p] \in Seq(Node)
  PROVE  IsChild(n, p) <=> \E i \in 1 .. Len(kids[p]) : kids[p][i] = n
  BY DEF IsChild

LEMMA NewChildPlace ==
  ASSUME NEW p, NEW n, kids'[p] \in Seq(Node)
  PROVE  IsChild(n, p)' <=> \E i \in 1 .. Len(kids'[p]) : kids'[p][i] = n
  BY DEF IsChild

LEMMA AddItemInv ==
  ASSUME TreeInv, NEW p \in Node, NEW x \in Node, NEW name, AddItem(p, x, name)
  PROVE  TreeInv'
<1> DEFINE L == Len(kids[p])
<1>1. /\ MayAdd(p, x) /\ AppendLinks(p, x) /\ used' = used /\ held' = held \ {x}
      /\ kids' = [kids EXCEPT ![p] = Append(@, x)]
  BY DEF AddItem
<1>2. /\ p \in used /\ x \in used /\ x \in held /\ x # p /\ next[x] = Nil /\ x # Nil
      /\ \A q \in used : \A i \in 1 .. Len(kids[q]) : kids[q][i] # x
  BY <1>1, MayAddFacts
<1>3. /\ kids[p] \in Seq(Node) /\ L \in Nat /\ kids'[p] \in Seq(Node) /\ Len(kids'[p]) = L + 1
      /\ DOMAIN kids'[p] = 1 .. L + 1 /\ kids'[p][L + 1] = x
      /\ \A i \in 1 .. L : kids'[p][i] = kids[p][i]
      /\ \A q \in Node \ {p} : kids'[q] = kids[q]
      /\ kids' \in [Node -> Seq(Node)]
  <2>1. kids[p] \in Seq(Node) /\ L \in Nat /\ kids \in [Node -> Seq(Node)]
    BY KidsSeq DEF TreeInv, TreeTypeOK
  <2> QED BY <1>1, <2>1
<1>4. \A q \in used : /\ q \in Node /\ kids[q] \in Seq(Node) /\ Len(kids[q]) \in Nat
                      /\ DOMAIN kids[q] = 1 .. Len(kids[q])
                      /\ DOMAIN kids'[q] = IF q = p THEN 1 .. L + 1 ELSE 1 .. Len(kids[q])
  BY <1>3, KidsSeq DEF TreeInv, TreeTypeOK
<1>4a. ASSUME NEW q \in used, NEW n \in used, IsChild(n, q) PROVE IsChild(n, q)'
  <2>1. PICK i \in 1 .. Len(kids[q]) : kids[q][i] = n
    BY <1>4, <1>4a, ChildPlace
  <2>2. i \in DOMAIN kids'[q] /\ kids'[q][i] = n
    <3>1. CASE q = p
      BY <1>3, <2>1, <3>1
    <3>2. CASE q # p
      BY <1>3, <1>4, <2>1, <3>2
    <3> QED BY <3>1, <3>2
  <2> QED BY <2>2 DEF IsChild
<1>5. TreeTypeOK'
  <2>1. /\ child' \in [Node -> Pointer] /\ next' \in [Node -> Pointer] /\ prev' \in [Node -> Pointer]
    <3>1. child[p] # Nil => prev[child[p]] \in Node /\ child[p] \in Node
      BY <1>2, LastChild
    <3> QED BY <1>1, <3>1 DEF AppendLinks, TreeInv, TreeTypeOK, Pointer
  <2> QED BY <1>1, <1>3, <2>1 DEF AddItem, TreeInv, TreeTypeOK
<1>6. Forest'
  <2>1. \A q \in used' : \A i \in DOMAIN kids'[q] : kids'[q][i] \in used' \ held'
    BY <1>1, <1>2, <1>3, <1>4 DEF TreeInv, Forest
  <2>2. \A n \in used' \ held' : \E q \in used' : IsChild(n, q)'
    <3>1. IsChild(x, p)'
      BY <1>2, <1>3, NewChildPlace
    <3>2. \A n \in used \ held : \E q \in used : IsChild(n, q)
      BY HeldOrChild
    <3>3. \A q \in used, n \in used : IsChild(n, q) => IsChild(n, q)'
      BY <1>4a
    <3> QED BY <1>1, <1>2, <3>1, <3>2, <3>3
  <2>3. ASSUME NEW q \in used, NEW r \in used, NEW i \in DOMAIN kids'[q], NEW j \in DOMAIN kids'[r],
               kids'[q][i] = kids'[r][j]
        PROVE  q = r /\ i = j
    <3>1. \/ i \in 1 .. Len(kids[q]) /\ kids'[q][i] = kids[q][i] /\ kids[q][i] # x
          \/ q = p /\ i = L + 1 /\ kids'[q][i] = x
      <4>1. CASE q = p
        <5>1. i \in 1 .. L + 1
          BY <1>3, <4>1
        <5>2. CASE i = L + 1
          BY <1>3, <4>1, <5>2
        <5>3. CASE i \in 1 .. L
          BY <1>2, <1>3, <4>1, <5>3
        <5>4. L \in Nat
          BY <1>3
        <5> QED BY <5>1, <5>2, <5>3, <5>4
      <4>2. CASE q # p
        BY <1>2, <1>3, <1>4, <4>2
      <4> QED BY <4>1, <4>2
    <3>2. \/ j \in 1 .. Len(kids[r]) /\ kids'[r][j] = kids[r][j] /\ kids[r][j] # x
          \/ r = p /\ j = L + 1 /\ kids'[r][j] = x
      <4>1. CASE r = p
        <5>1. j \in 1 .. L + 1
          BY <1>3, <4>1
        <5>2. CASE j = L + 1
          BY <1>3, <4>1, <5>2
        <5>3. CASE j \in 1 .. L
          BY <1>2, <1>3, <4>1, <5>3
        <5>4. L \in Nat
          BY <1>3
        <5> QED BY <5>1, <5>2, <5>3, <5>4
      <4>2. CASE r # p
        BY <1>2, <1>3, <1>4, <4>2
      <4> QED BY <4>1, <4>2
    <3> QED BY <2>3, <3>1, <3>2, Places
  <2> QED BY <1>1, <2>1, <2>2, <2>3 DEF Forest
<1>7. \A q \in used : q # p => child'[q] = child[q]
  BY <1>1, <1>4 DEF AppendLinks, TreeInv, TreeTypeOK
<1>8. \A n \in used : n # x /\ ~IsChild(n, p) => next'[n] = next[n] /\ prev'[n] = prev[n]
  <2>1. child[p] # Nil => IsChild(child[p], p) /\ IsChild(prev[child[p]], p)
    BY <1>2, <1>4, LastChild DEF IsChild
  <2> QED BY <1>1, <2>1 DEF AppendLinks, TreeInv, TreeTypeOK
<1>9. ASSUME NEW q \in used, q # p PROVE Represents(q)'
  <2>1. \A i \in DOMAIN kids[q] : kids[q][i] \in used /\ kids[q][i] # x /\ ~IsChild(kids[q][i], p)
    <3>1. ASSUME NEW i \in 1 .. Len(kids[q]) PROVE kids[q][i] \in used /\ ~IsChild(kids[q][i], p)
      BY <1>2, <1>9, <3>1, ChildPointers, ChildFacts
    <3> QED BY <1>2, <1>4, <3>1
  <2> QED BY <1>3, <1>4, <1>7, <1>8, <1>9, <2>1, RepresentsFrame DEF TreeInv, Linked
<1>10. Represents(p)'
  <2>1. CASE child[p] = Nil
    <3>1. L = 0
      <4>1. ASSUME 1 \in 1 .. L PROVE FALSE
        BY <1>2, <2>1, <4>1, ChildPointers, ChildFacts, TreeAssumption
      <4> QED BY <1>3, <4>1
    <3>2. child'[p] = x /\ next'[x] = Nil /\ prev'[x] = x
      BY <1>1, <2>1 DEF AppendLinks, TreeInv, TreeTypeOK
    <3>3. kids'[p] = <<x>>
      BY <1>1, <1>3, <1>4, <3>1
    <3> QED BY <3>2, <3>3 DEF Represents
  <2>2. CASE child[p] # Nil
    <3>1. /\ L \in 1 .. L /\ kids[p][1] = child[p] /\ prev[child[p]] = kids[p][L]
          /\ kids[p][L] \in Node /\ kids[p][1] \in Node
      BY <1>2, <2>2, LastChild
    <3>2. /\ next' = [next EXCEPT ![kids[p][L]] = x] /\ child' = child
          /\ prev' = [prev EXCEPT ![x] = kids[p][L], ![kids[p][1]] = x]
      BY <1>1, <2>2, <3>1 DEF AppendLinks
    <3>3. /\ child'[p] = kids'[p][1] /\ kids'[p] # <<>>
      <4>1. child'[p] = kids[p][1]
        BY <3>1, <3>2
      <4> QED BY <1>3, <3>1, <4>1
    <3>4. ASSUME NEW i \in 1 .. L + 1
          PROVE  next'[kids'[p][i]] = IF i = L + 1 THEN Nil ELSE kids'[p][i + 1]
      <4>1. CASE i = L + 1
        BY <1>2, <1>3, <3>1, <3>2, <4>1 DEF TreeInv, TreeTypeOK
      <4>2. CASE i = L
        BY <1>3, <3>1, <3>2, <4>2 DEF TreeInv, TreeTypeOK
      <4>3. CASE i < L
        <5>1. i \in 1 .. L /\ i + 1 \in 1 .. L /\ i # L /\ kids[p][i] # kids[p][L] /\ kids[p][i] \in Node
          <6>1. L \in Nat /\ p \in used
            BY <1>2, <1>3
          <6>2. i \in 1 .. L /\ i + 1 \in 1 .. L /\ i # L /\ L \in 1 .. L
            BY <4>3, <6>1
          <6>3. kids[p][i] # kids[p][L]
            BY <6>1, <6>2, Places
          <6> QED BY <6>1, <6>2, <6>3, KidsSeq DEF TreeInv
        <5>2. next[kids[p][i]] = kids[p][i + 1]
          BY <1>2, <5>1, ChildPointers
        <5>3. next'[kids[p][i]] = next[kids[p][i]]
          BY <3>2, <5>1 DEF TreeInv, TreeTypeOK
        <5>4. kids'[p][i] = kids[p][i] /\ kids'[p][i + 1] = kids[p][i + 1] /\ L \in Nat
          BY <1>3, <5>1
        <5> QED BY <4>3, <5>1, <5>2, <5>3, <5>4
      <4> QED BY <1>3, <4>1, <4>2, <4>3
    <3>5. ASSUME NEW i \in 1 .. L + 1
          PROVE  prev'[kids'[p][i]] = IF i = 1 THEN kids'[p][L + 1] ELSE kids'[p][i - 1]
      <4>1. CASE i = L + 1
        BY <1>2, <1>3, <3>1, <3>2, <4>1 DEF TreeInv, TreeTypeOK
      <4>2. CASE i = 1
        BY <1>3, <3>1, <3>2, <4>2 DEF TreeInv, TreeTypeOK
      <4>3. CASE i # 1 /\ i # L + 1
        <5>1. /\ i \in 1 .. L /\ i - 1 \in 1 .. L /\ kids[p][i] # kids[p][1] /\ kids[p][i] \in Node
              /\ kids[p][i] # x
          <6>1. i \in 1 .. L /\ i - 1 \in 1 .. L /\ 1 \in 1 .. L
            BY <1>3, <4>3
          <6>2. kids[p][i] # kids[p][1]
            BY <1>2, <4>3, <6>1, Places
          <6> QED BY <1>2, <6>1, <6>2, KidsSeq DEF TreeInv
        <5>2. prev[kids[p][i]] = kids[p][i - 1]
          BY <1>2, <4>3, <5>1, ChildPointers
        <5> QED BY <1>3, <3>2, <4>3, <5>1, <5>2 DEF TreeInv, TreeTypeOK
      <4> QED BY <1>3, <4>1, <4>2, <4>3
    <3> QED BY <1>3, <3>3, <3>4, <3>5 DEF Represents
  <2> QED BY <2>1, <2>2
<1>11. Linked'
  <2>1. ASSUME NEW n \in held' PROVE next'[n] = Nil /\ prev'[n] = Nil
    <3>1. n \in held /\ n # x /\ n \in used
      BY <1>1 DEF TreeInv, TreeTypeOK
    <3>2. ~IsChild(n, p)
      BY <1>2, <3>1, ChildFacts
    <3> QED BY <1>8, <3>1, <3>2 DEF TreeInv, Linked
  <2> QED BY <1>1, <1>9, <1>10, <2>1 DEF Linked
<1>12. Rooted'
  <2>1. L + 1 \in 1 .. L + 1
    BY <1>3
  <2>2. IsChild(x, p)'
    BY <1>3, <2>1 DEF IsChild
  <2> QED BY <1>1, <1>4a, <2>2, AdoptAllRooted
<1> QED BY <1>5, <1>6, <1>11, <1>12 DEF TreeInv

(* A sequence with x before place k is a sequence. *)
LEMMA InsertedPlaces ==
  ASSUME NEW s \in Seq(Node), NEW x \in Node, NEW k \in 1 .. Len(s)
  PROVE  /\ InsertedAt(s, k, x) \in Seq(Node)
         /\ Len(InsertedAt(s, k, x)) = Len(s) + 1
<1> DEFINE t == InsertedAt(s, k, x)
<1>1. Len(s) + 1 \in Nat /\ \A j \in 1 .. Len(s) : s[j] \in Node
  OBVIOUS
<1>2. ASSUME NEW j \in 1 .. Len(s) + 1
      PROVE  (IF j < k THEN s[j] ELSE IF j = k THEN x ELSE s[j - 1]) \in Node
  <2>1. CASE j < k
    BY <1>1, <2>1
  <2>2. CASE j = k
    BY <2>2
  <2>3. CASE k < j
    <3>1. j - 1 \in 1 .. Len(s)
      BY <1>1, <2>3
    <3> QED BY <1>1, <2>3, <3>1
  <2> QED BY <1>1, <2>1, <2>2, <2>3
<1>3. t \in [1 .. Len(s) + 1 -> Node]
  BY <1>2, Zenon DEF InsertedAt
<1> QED BY <1>1, <1>3, SeqOfFunction

LEMMA InsertItemInv ==
  ASSUME TreeInv, NEW p \in Node, NEW y \in Node, NEW x \in Node, InsertItem(p, y, x)
  PROVE  TreeInv'
<1> DEFINE L == Len(kids[p])
           k == PlaceOf(y, p)
<1>1. /\ MayAdd(p, x) /\ IsChild(y, p) /\ used' = used /\ held' = held \ {x}
      /\ kids' = [kids EXCEPT ![p] = InsertedAt(kids[p], k, x)]
  BY DEF InsertItem
<1>2. /\ p \in used /\ x \in used /\ x \in held /\ x # p /\ next[x] = Nil /\ x # Nil
      /\ \A q \in used : \A i \in 1 .. Len(kids[q]) : kids[q][i] # x
  BY <1>1, MayAddFacts
<1>3. /\ L \in Nat /\ k \in 1 .. L /\ kids[p][k] = y /\ y # x
      /\ \A i \in 1 .. L : kids[p][i] = y => i = k
  BY <1>1, <1>2, PlaceFacts, KidsSeq DEF TreeInv
<1>4. /\ kids'[p] \in Seq(Node) /\ Len(kids'[p]) = L + 1
      /\ DOMAIN kids'[p] = 1 .. L + 1 /\ kids'[p][k] = x
      /\ \A j \in 1 .. L + 1 : j < k => kids'[p][j] = kids[p][j]
      /\ \A j \in 1 .. L + 1 : k < j => kids'[p][j] = kids[p][j - 1]
      /\ \A q \in Node \ {p} : kids'[q] = kids[q]
      /\ kids' \in [Node -> Seq(Node)]
  <2>1. kids[p] \in Seq(Node) /\ kids \in [Node -> Seq(Node)]
    BY KidsSeq DEF TreeInv, TreeTypeOK
  <2> DEFINE t == InsertedAt(kids[p], k, x)
  <2>2. /\ t \in Seq(Node) /\ Len(t) = L + 1 /\ DOMAIN t = 1 .. L + 1 /\ t[k] = x
        /\ \A j \in 1 .. L + 1 : j < k => t[j] = kids[p][j]
        /\ \A j \in 1 .. L + 1 : k < j => t[j] = kids[p][j - 1]
    <3>1. k \in 1 .. Len(kids[p])
      BY <1>3
    <3>2. t \in Seq(Node) /\ Len(t) = L + 1
      BY <2>1, <3>1, InsertedPlaces
    <3>3. \A j \in 1 .. L + 1 : t[j] = IF j < k THEN kids[p][j] ELSE IF j = k THEN x ELSE kids[p][j - 1]
      BY DEF InsertedAt
    <3>4. k \in 1 .. L + 1 /\ L \in Nat
      BY <1>3
    <3> HIDE DEF t, L, k
    <3> QED BY <3>2, <3>3, <3>4
  <2>3. kids' = [kids EXCEPT ![p] = t]
    BY <1>1
  <2> HIDE DEF t
  <2> QED BY <2>1, <2>2, <2>3
<1>5. \A q \in used : /\ q \in Node /\ kids[q] \in Seq(Node) /\ Len(kids[q]) \in Nat
                      /\ DOMAIN kids[q] = 1 .. Len(kids[q])
                      /\ q # p => kids'[q] = kids[q]
  BY <1>4, KidsSeq DEF TreeInv, TreeTypeOK
<1>6. /\ child[p] = kids[p][1] /\ (y = child[p] <=> k = 1)
      /\ prev[y] = (IF k = 1 THEN kids[p][L] ELSE kids[p][k - 1])
      /\ prev[y] \in used /\ prev[y] \in Node /\ IsChild(prev[y], p) /\ child[p] \in Node
      /\ prev[y] # x
  <2>1. 1 \in 1 .. L /\ L \in 1 .. L /\ (k # 1 => k - 1 \in 1 .. L)
    BY <1>3
  <2>2. child[p] = kids[p][1] /\ child[p] \in Node
    BY <1>2, <2>1, ChildPointers, ChildFacts
  <2>3. prev[y] = (IF k = 1 THEN kids[p][L] ELSE kids[p][k - 1])
    BY <1>2, <1>3, ChildPointers
  <2>4. PICK i \in 1 .. L : prev[y] = kids[p][i]
    BY <2>1, <2>3
  <2> QED BY <1>2, <1>3, <2>1, <2>2, <2>3, <2>4, ChildPointers, ChildFacts
<1>7. /\ child' = [child EXCEPT ![p] = IF k = 1 THEN x ELSE child[p]]
      /\ prev' = [prev EXCEPT ![x] = prev[y], ![y] = x]
      /\ next'[x] = y /\ (k # 1 => next'[prev[y]] = x)
      /\ \A n \in Node : n # x /\ (k # 1 => n # prev[y]) => next'[n] = next[n]
      /\ next' \in [Node -> Pointer]
  BY <1>6 DEF InsertItem, TreeInv, TreeTypeOK, Pointer
<1>8. TreeTypeOK'
  <2>1. child' \in [Node -> Pointer] /\ prev' \in [Node -> Pointer]
    BY <1>6, <1>7 DEF TreeInv, TreeTypeOK, Pointer
  <2> QED BY <1>1, <1>4, <1>7, <2>1 DEF InsertItem, TreeInv, TreeTypeOK
<1>9. ASSUME NEW q \in used, NEW n \in used, IsChild(n, q) PROVE IsChild(n, q)'
  <2>1. PICK i \in 1 .. Len(kids[q]) : kids[q][i] = n
    BY <1>5, <1>9, ChildPlace
  <2>2. CASE q # p
    BY <1>5, <1>9, <2>2 DEF IsChild
  <2>3. CASE q = p /\ i < k
    <3>1. i \in 1 .. L + 1 /\ kids'[p][i] = n
      BY <1>3, <1>4, <2>1, <2>3
    <3> QED BY <1>4, <2>3, <3>1 DEF IsChild
  <2>4. CASE q = p /\ ~(i < k)
    <3>1. i + 1 \in 1 .. L + 1 /\ k < i + 1 /\ (i + 1) - 1 = i
      BY <1>3, <2>1, <2>4
    <3>2. kids'[p][i + 1] = n
      BY <1>4, <2>1, <2>4, <3>1
    <3> QED BY <1>4, <2>4, <3>1, <3>2 DEF IsChild
  <2> QED BY <2>2, <2>3, <2>4
<1>10. IsChild(x, p)'
  <2>1. k \in 1 .. L + 1
    BY <1>3
  <2> QED BY <1>4, <2>1 DEF IsChild
<1>11. ASSUME NEW q \in used, NEW j \in DOMAIN kids'[q]
       PROVE  \/ q = p /\ j = k /\ kids'[q][j] = x
              \/ q # p /\ j \in 1 .. Len(kids[q]) /\ kids'[q][j] = kids[q][j]
              \/ q = p /\ j < k /\ j \in 1 .. L /\ kids'[q][j] = kids[p][j]
              \/ q = p /\ k < j /\ j - 1 \in 1 .. L /\ kids'[q][j] = kids[p][j - 1]
  <2>1. CASE q # p
    BY <1>5, <2>1
  <2>2. CASE q = p
    <3>1. j \in 1 .. L + 1
      BY <1>4, <2>2
    <3>2. j = k \/ (j < k /\ j \in 1 .. L) \/ (k < j /\ j - 1 \in 1 .. L)
      BY <1>3, <3>1
    <3> QED BY <1>4, <2>2, <3>1, <3>2
  <2> QED BY <2>1, <2>2
<1>11a. \A q \in used : \A j \in DOMAIN kids'[q] : kids'[q][j] = x <=> (q = p /\ j = k)
  <2>1. ASSUME NEW q \in used, NEW j \in DOMAIN kids'[q], kids'[q][j] = x PROVE q = p /\ j = k
    BY <1>2, <1>11, <2>1
  <2> QED BY <1>4, <2>1
<1>12. Forest'
  <2>1. \A q \in used' : \A j \in DOMAIN kids'[q] : kids'[q][j] \in used' \ held'
    BY <1>1, <1>2, <1>11, ChildPointers, ChildFacts
  <2>2. \A n \in used' \ held' : \E q \in used' : IsChild(n, q)'
    BY <1>1, <1>2, <1>9, <1>10, HeldOrChild
  <2>3. ASSUME NEW q \in used, NEW r \in used, NEW i \in DOMAIN kids'[q], NEW j \in DOMAIN kids'[r],
               kids'[q][i] = kids'[r][j]
        PROVE  q = r /\ i = j
    <3>1. CASE q = p /\ i = k
      BY <1>11a, <2>3, <3>1
    <3>2. CASE r = p /\ j = k
      BY <1>11a, <2>3, <3>2
    <3>3. CASE q # p /\ ~(r = p /\ j = k)
      BY <1>2, <1>11, <2>3, <3>3, Places
    <3>4. CASE r # p /\ ~(q = p /\ i = k)
      BY <1>2, <1>11, <2>3, <3>4, Places
    <3>5. CASE q = p /\ r = p /\ i # k /\ j # k
      <4>1. i \in 1 .. L + 1 /\ j \in 1 .. L + 1
        BY <1>4, <3>5
      <4> DEFINE a == IF i < k THEN i ELSE i - 1
                 b == IF j < k THEN j ELSE j - 1
      <4>2. a \in 1 .. L /\ b \in 1 .. L /\ (a = b => i = j)
        BY <1>3, <3>5, <4>1
      <4>3. kids'[q][i] = kids[p][a] /\ kids'[r][j] = kids[p][b]
        <5>1. i < k => kids'[p][i] = kids[p][i]
          BY <1>4, <4>1
        <5>2. j < k => kids'[p][j] = kids[p][j]
          BY <1>4, <4>1
        <5>3. k < i => kids'[p][i] = kids[p][i - 1]
          BY <1>4, <4>1
        <5>4. k < j => kids'[p][j] = kids[p][j - 1]
          BY <1>4, <4>1
        <5>5. (i < k \/ k < i) /\ (j < k \/ k < j) /\ ~(i < k /\ k < i) /\ ~(j < k /\ k < j)
          BY <1>3, <3>5, <4>1
        <5> QED BY <3>5, <5>1, <5>2, <5>3, <5>4, <5>5
      <4> HIDE DEF a, b
      <4>4. a = b
        <5>1. kids[p][a] = kids[p][b]
          BY <2>3, <4>3
        <5> QED BY <1>2, <4>2, <5>1, Places
      <4> QED BY <3>5, <4>2, <4>4
    <3> QED BY <3>1, <3>2, <3>3, <3>4, <3>5
  <2> QED BY <1>1, <2>1, <2>2, <2>3 DEF Forest
<1>13. \A n \in used : n # x /\ ~IsChild(n, p) => next'[n] = next[n] /\ prev'[n] = prev[n]
  BY <1>1, <1>6, <1>7 DEF TreeInv, TreeTypeOK
<1>14. ASSUME NEW q \in used, q # p PROVE Represents(q)'
  <2>1. \A i \in DOMAIN kids[q] : kids[q][i] \in used /\ kids[q][i] # x /\ ~IsChild(kids[q][i], p)
    <3>1. ASSUME NEW i \in 1 .. Len(kids[q]) PROVE kids[q][i] \in used /\ ~IsChild(kids[q][i], p)
      BY <1>2, <1>14, <3>1, ChildPointers, ChildFacts
    <3> QED BY <1>2, <1>5, <3>1
  <2>2. child'[q] = child[q]
    BY <1>5, <1>7, <1>14 DEF TreeInv, TreeTypeOK
  <2> QED BY <1>5, <1>13, <1>14, <2>1, <2>2, RepresentsFrame DEF TreeInv, Linked
<1>15. Represents(p)'
  <2>1. child'[p] = kids'[p][1] /\ kids'[p] # <<>>
    <3>1. 1 \in 1 .. L + 1
      BY <1>3
    <3>2. CASE k = 1
      BY <1>4, <1>7, <3>1, <3>2 DEF TreeInv, TreeTypeOK
    <3>3. CASE k # 1
      <4>1. 1 < k
        BY <1>3, <3>3
      <4>2. kids'[p][1] = kids[p][1]
        BY <1>4, <3>1, <4>1
      <4>3. child'[p] = child[p]
        BY <1>7, <3>3 DEF TreeInv, TreeTypeOK
      <4>4. kids'[p] # <<>>
        BY <1>3, <1>4
      <4> QED BY <1>6, <4>2, <4>3, <4>4
    <3> QED BY <3>2, <3>3
  <2>2. ASSUME NEW j \in 1 .. L + 1
        PROVE  next'[kids'[p][j]] = IF j = L + 1 THEN Nil ELSE kids'[p][j + 1]
    <3>1. CASE j = k
      <4>1. k + 1 \in 1 .. L + 1 /\ k < k + 1 /\ (k + 1) - 1 = k /\ k # L + 1
        BY <1>3
      <4>2. kids'[p][k + 1] = y
        BY <1>3, <1>4, <4>1
      <4> QED BY <1>4, <1>7, <3>1, <4>1, <4>2
    <3>2. CASE j + 1 = k
      <4>1. j < k /\ k # 1 /\ k - 1 = j /\ j # L + 1
        BY <1>3, <3>2
      <4>2. kids'[p][j] = prev[y]
        BY <1>4, <1>6, <4>1
      <4> QED BY <1>4, <1>7, <3>2, <4>1, <4>2
    <3>3. CASE j + 1 < k
      <4>1. j \in 1 .. L /\ j + 1 \in 1 .. L + 1 /\ j < k /\ j # L + 1 /\ j # L /\ k # 1 /\ k - 1 \in 1 .. L /\ j # k - 1
        BY <1>3, <3>3
      <4>2. kids'[p][j] = kids[p][j] /\ kids'[p][j + 1] = kids[p][j + 1]
        BY <1>4, <3>3, <4>1
      <4>3. kids[p][j] # prev[y] /\ kids[p][j] # x /\ kids[p][j] \in Node
        BY <1>2, <1>6, <4>1, Places, KidsSeq DEF TreeInv
      <4>4. next[kids[p][j]] = kids[p][j + 1]
        BY <1>2, <4>1, ChildPointers
      <4> QED BY <1>7, <4>1, <4>2, <4>3, <4>4
    <3>4. CASE k < j
      <4>1. j - 1 \in 1 .. L /\ (k # 1 => k - 1 \in 1 .. L /\ k - 1 # j - 1)
        BY <1>3, <3>4
      <4>2. kids'[p][j] = kids[p][j - 1]
        BY <1>4, <3>4
      <4>3. (k # 1 => kids[p][j - 1] # prev[y]) /\ kids[p][j - 1] # x /\ kids[p][j - 1] \in Node
        BY <1>2, <1>6, <4>1, Places, KidsSeq DEF TreeInv
      <4>4. next'[kids'[p][j]] = next[kids[p][j - 1]]
        BY <1>7, <4>2, <4>3
      <4>5. CASE j = L + 1
        <5>1. j - 1 = L
          BY <1>3, <4>5
        <5> QED BY <1>2, <4>1, <4>4, <4>5, <5>1, ChildPointers
      <4>6. CASE j # L + 1
        <5>1. j - 1 # L /\ j + 1 \in 1 .. L + 1 /\ k < j + 1 /\ (j + 1) - 1 = (j - 1) + 1
          BY <1>3, <3>4, <4>6
        <5>2. next[kids[p][j - 1]] = kids[p][(j - 1) + 1]
          BY <1>2, <4>1, <5>1, ChildPointers
        <5>3. kids'[p][j + 1] = kids[p][(j + 1) - 1]
          BY <1>4, <5>1
        <5> QED BY <4>4, <4>6, <5>1, <5>2, <5>3
      <4> QED BY <4>5, <4>6
    <3>5. j = k \/ j + 1 = k \/ j + 1 < k \/ k < j
      BY <1>3
    <3> QED BY <3>1, <3>2, <3>3, <3>4, <3>5
  <2>3. ASSUME NEW j \in 1 .. L + 1
        PROVE  prev'[kids'[p][j]] = IF j = 1 THEN kids'[p][L + 1] ELSE kids'[p][j - 1]
    <3>1. L + 1 \in 1 .. L + 1 /\ k < L + 1 /\ (L + 1) - 1 = L /\ L \in 1 .. L
      BY <1>3
    <3>2. kids'[p][L + 1] = kids[p][L]
      BY <1>4, <3>1
    <3>3. \A n \in Node : n # x /\ n # y => prev'[n] = prev[n]
      BY <1>7 DEF TreeInv, TreeTypeOK
    <3>4. prev'[x] = prev[y] /\ prev'[y] = x
      BY <1>3, <1>7 DEF TreeInv, TreeTypeOK
    <3>5. CASE j = k
      <4>1. CASE k = 1
        BY <1>4, <1>6, <3>2, <3>4, <3>5, <4>1
      <4>2. CASE k # 1
        <5>1. k - 1 \in 1 .. L + 1 /\ k - 1 < k
          BY <1>3, <4>2
        <5> QED BY <1>4, <1>6, <3>4, <3>5, <4>2, <5>1
      <4> QED BY <4>1, <4>2
    <3>6. CASE j = k + 1
      <4>1. k < j /\ j - 1 = k /\ j # 1
        BY <1>3, <3>6
      <4>2. kids'[p][j] = y
        BY <1>3, <1>4, <4>1
      <4> QED BY <1>4, <3>4, <4>1, <4>2
    <3>7. CASE j < k
      <4>1. j \in 1 .. L
        BY <1>3, <3>7
      <4>2. kids'[p][j] = kids[p][j] /\ kids[p][j] # y /\ kids[p][j] # x /\ kids[p][j] \in Node
        BY <1>2, <1>3, <1>4, <3>7, <4>1, KidsSeq DEF TreeInv
      <4>3. prev'[kids'[p][j]] = prev[kids[p][j]]
        BY <3>3, <4>2
      <4>4. CASE j = 1
        BY <1>2, <3>2, <4>1, <4>3, <4>4, ChildPointers
      <4>5. CASE j # 1
        <5>1. j - 1 \in 1 .. L + 1 /\ j - 1 < k
          BY <1>3, <3>7, <4>5
        <5>2. j - 1 \in 1 .. L + 1 /\ kids'[p][j - 1] = kids[p][j - 1]
          BY <1>4, <5>1
        <5>3. prev[kids[p][j]] = kids[p][j - 1]
          BY <1>2, <4>1, <4>5, ChildPointers
        <5> QED BY <4>3, <4>5, <5>2, <5>3
      <4> QED BY <4>4, <4>5
    <3>8. CASE k + 1 < j
      <4>1. j - 1 \in 1 .. L /\ j - 1 # 1 /\ j # 1 /\ j - 1 # k /\ k < j /\ j - 1 \in 1 .. L + 1 /\ k < j - 1
        BY <1>3, <3>8
      <4>2. kids'[p][j] = kids[p][j - 1]
        BY <1>4, <4>1
      <4>3. kids[p][j - 1] # y /\ kids[p][j - 1] # x /\ kids[p][j - 1] \in Node
        BY <1>2, <1>3, <4>1, KidsSeq DEF TreeInv
      <4>4. prev'[kids'[p][j]] = prev[kids[p][j - 1]]
        BY <3>3, <4>2, <4>3
      <4>5. prev[kids[p][j - 1]] = kids[p][(j - 1) - 1]
        BY <1>2, <4>1, ChildPointers
      <4>6. kids'[p][j - 1] = kids[p][(j - 1) - 1]
        BY <1>4, <4>1
      <4> QED BY <4>1, <4>4, <4>5, <4>6
    <3>9. j = k \/ j = k + 1 \/ j < k \/ k + 1 < j
      BY <1>3
    <3> QED BY <3>5, <3>6, <3>7, <3>8, <3>9
  <2> QED BY <1>4, <2>1, <2>2, <2>3 DEF Represents
<1>16. Linked'
  <2>1. ASSUME NEW n \in held' PROVE next'[n] = Nil /\ prev'[n] = Nil
    <3>1. n \in held /\ n # x /\ n \in used
      BY <1>1 DEF TreeInv, TreeTypeOK
    <3>2. ~IsChild(n, p)
      BY <1>2, <3>1, ChildFacts
    <3> QED BY <1>13, <3>1, <3>2 DEF TreeInv, Linked
  <2> QED BY <1>1, <1>14, <1>15, <2>1 DEF Linked
<1>17. Rooted'
  BY <1>1, <1>9, <1>10, AdoptAllRooted
<1> QED BY <1>8, <1>12, <1>16, <1>17 DEF TreeInv

(* A sequence without place k is a sequence. *)
LEMMA WithoutPlaces ==
  ASSUME NEW s \in Seq(Node), NEW k \in 1 .. Len(s)
  PROVE  /\ Without(s, k) \in Seq(Node)
         /\ Len(Without(s, k)) = Len(s) - 1
<1> DEFINE t == Without(s, k)
<1>1. Len(s) - 1 \in Nat /\ \A j \in 1 .. Len(s) : s[j] \in Node
  OBVIOUS
<1>2. ASSUME NEW j \in 1 .. Len(s) - 1
      PROVE  (IF j < k THEN s[j] ELSE s[j + 1]) \in Node
  <2>1. j \in 1 .. Len(s) /\ j + 1 \in 1 .. Len(s)
    BY <1>1
  <2> QED BY <1>1, <2>1
<1>3. t \in [1 .. Len(s) - 1 -> Node]
  BY <1>2, Zenon DEF Without
<1> QED BY <1>1, <1>3, SeqOfFunction

LEMMA DetachInv ==
  ASSUME TreeInv, NEW p \in Node, NEW x \in Node, Detach(p, x)
  PROVE  TreeInv'
<1> DEFINE L == Len(kids[p])
           k == PlaceOf(x, p)
<1>1. /\ p \in used /\ IsChild(x, p) /\ used' = used /\ held' = held \cup {x}
      /\ kids' = [kids EXCEPT ![p] = Without(kids[p], k)]
  BY DEF Detach
<1>2. /\ L \in Nat /\ k \in 1 .. L /\ kids[p][k] = x
      /\ \A i \in 1 .. L : kids[p][i] = x => i = k
      /\ x \in used /\ x \notin held /\ x # Nil
      /\ \A q \in used : IsChild(x, q) => q = p
  BY <1>1, PlaceFacts, ChildFacts, KidsSeq, TreeAssumption DEF TreeInv
<1>3. /\ kids'[p] \in Seq(Node) /\ Len(kids'[p]) = L - 1
      /\ DOMAIN kids'[p] = 1 .. L - 1
      /\ \A j \in 1 .. L - 1 : j < k => kids'[p][j] = kids[p][j]
      /\ \A j \in 1 .. L - 1 : ~(j < k) => kids'[p][j] = kids[p][j + 1]
      /\ \A q \in Node \ {p} : kids'[q] = kids[q]
      /\ kids' \in [Node -> Seq(Node)]
  <2>1. kids[p] \in Seq(Node) /\ kids \in [Node -> Seq(Node)]
    BY KidsSeq DEF TreeInv, TreeTypeOK
  <2> DEFINE t == Without(kids[p], k)
  <2>2. k \in 1 .. Len(kids[p])
    BY <1>2
  <2>3. t \in Seq(Node) /\ Len(t) = L - 1
    BY <2>1, <2>2, WithoutPlaces
  <2>4. \A j \in 1 .. L - 1 : t[j] = IF j < k THEN kids[p][j] ELSE kids[p][j + 1]
    BY DEF Without
  <2>5. kids' = [kids EXCEPT ![p] = t]
    BY <1>1
  <2> HIDE DEF t, k, L
  <2> QED BY <1>2, <2>1, <2>3, <2>4, <2>5
<1>4. \A q \in used : /\ q \in Node /\ kids[q] \in Seq(Node) /\ Len(kids[q]) \in Nat
                      /\ DOMAIN kids[q] = 1 .. Len(kids[q])
                      /\ q # p => kids'[q] = kids[q]
  BY <1>3, KidsSeq DEF TreeInv, TreeTypeOK
<1>5. /\ child[p] = kids[p][1] /\ (x = child[p] <=> k = 1)
      /\ child[p] \in Node /\ IsChild(child[p], p)
      /\ prev[x] = (IF k = 1 THEN kids[p][L] ELSE kids[p][k - 1])
      /\ prev[x] \in Node /\ IsChild(prev[x], p) /\ (k # 1 => prev[x] # x)
      /\ next[x] = (IF k = L THEN Nil ELSE kids[p][k + 1])
      /\ (k # L => next[x] \in Node /\ next[x] # Nil /\ next[x] # x /\ IsChild(next[x], p))
  <2>1. 1 \in 1 .. L /\ L \in 1 .. L /\ (k # 1 => k - 1 \in 1 .. L) /\ (k # L => k + 1 \in 1 .. L)
    BY <1>2
  <2>2. child[p] = kids[p][1] /\ child[p] \in Node /\ IsChild(child[p], p)
    BY <1>1, <2>1, ChildPointers, ChildFacts
  <2>3. prev[x] = (IF k = 1 THEN kids[p][L] ELSE kids[p][k - 1])
    BY <1>1, <1>2, ChildPointers
  <2>4. next[x] = (IF k = L THEN Nil ELSE kids[p][k + 1])
    BY <1>1, <1>2, ChildPointers
  <2>5. prev[x] \in Node /\ IsChild(prev[x], p) /\ (k # 1 => prev[x] # x)
    <3>1. CASE k = 1
      BY <1>1, <2>1, <2>3, <3>1, ChildPointers, ChildFacts
    <3>2. CASE k # 1
      <4>1. k - 1 \in 1 .. L /\ k - 1 # k
        BY <1>2, <2>1, <3>2
      <4> QED BY <1>1, <1>2, <2>3, <3>2, <4>1, ChildPointers, ChildFacts
    <3> QED BY <3>1, <3>2
  <2>6. ASSUME k # L PROVE next[x] \in Node /\ next[x] # Nil /\ next[x] # x /\ IsChild(next[x], p)
    <3>1. k + 1 \in 1 .. L /\ k + 1 # k
      BY <1>2, <2>1, <2>6
    <3> QED BY <1>1, <1>2, <2>4, <2>6, <3>1, ChildPointers, ChildFacts, TreeAssumption
  <2>7. x = child[p] <=> k = 1
    BY <1>2, <2>1, <2>2
  <2> QED BY <2>2, <2>3, <2>4, <2>5, <2>6, <2>7
<1>6. /\ child' = [child EXCEPT ![p] = IF k = 1 THEN next[x] ELSE child[p]]
      /\ next' = IF k # 1 THEN [next EXCEPT ![prev[x]] = next[x], ![x] = Nil]
                          ELSE [next EXCEPT ![x] = Nil]
      /\ prev' = IF k # L THEN [prev EXCEPT ![next[x]] = prev[x], ![x] = Nil]
                 ELSE IF k # 1 THEN [prev EXCEPT ![child[p]] = prev[x], ![x] = Nil]
                 ELSE [prev EXCEPT ![x] = Nil]
  BY <1>5 DEF Detach, DetachedNext, DetachedPrev, TreeInv, TreeTypeOK
<1>7. /\ next'[x] = Nil /\ prev'[x] = Nil
      /\ k # 1 => next'[prev[x]] = next[x]
      /\ \A n \in Node : n # x /\ (k # 1 => n # prev[x]) => next'[n] = next[n]
      /\ k # L => prev'[next[x]] = prev[x]
      /\ k = L /\ k # 1 => prev'[child[p]] = prev[x]
      /\ \A n \in Node : n # x /\ (k # L => n # next[x]) /\ (k = L => n # child[p])
                           => prev'[n] = prev[n]
  BY <1>5, <1>6 DEF TreeInv, TreeTypeOK
<1>8. TreeTypeOK'
  <2>1. next[x] \in Pointer /\ Nil \in Pointer /\ prev[x] \in Pointer
    BY DEF TreeInv, TreeTypeOK, Pointer
  <2>2. child' \in [Node -> Pointer] /\ next' \in [Node -> Pointer] /\ prev' \in [Node -> Pointer]
    BY <1>6, <2>1 DEF TreeInv, TreeTypeOK
  <2> QED BY <1>1, <1>2, <1>3, <2>2 DEF Detach, TreeInv, TreeTypeOK
<1>9. ASSUME NEW q \in used, NEW n \in used, n # x, IsChild(n, q) PROVE IsChild(n, q)'
  <2>1. PICK i \in 1 .. Len(kids[q]) : kids[q][i] = n
    BY <1>4, <1>9, ChildPlace
  <2>2. CASE q # p
    BY <1>4, <1>9, <2>2 DEF IsChild
  <2>3. CASE q = p /\ i < k
    <3>1. i \in 1 .. L - 1
      BY <1>2, <2>1, <2>3
    <3> QED BY <1>3, <2>1, <2>3, <3>1 DEF IsChild
  <2>4. CASE q = p /\ ~(i < k)
    <3>1. i # k
      BY <1>2, <1>9, <2>1, <2>4
    <3>2. i - 1 \in 1 .. L - 1 /\ ~(i - 1 < k) /\ (i - 1) + 1 = i
      BY <1>2, <2>1, <2>4, <3>1
    <3>3. kids'[p][i - 1] = n
      BY <1>3, <2>1, <2>4, <3>2
    <3> QED BY <1>3, <2>4, <3>2, <3>3 DEF IsChild
  <2> QED BY <2>2, <2>3, <2>4
<1>10. ASSUME NEW q \in used, NEW j \in DOMAIN kids'[q]
       PROVE  \/ q # p /\ j \in 1 .. Len(kids[q]) /\ kids'[q][j] = kids[q][j]
              \/ q = p /\ j < k /\ j \in 1 .. L /\ kids'[q][j] = kids[p][j]
              \/ q = p /\ ~(j < k) /\ j + 1 \in 1 .. L /\ j + 1 # k /\ kids'[q][j] = kids[p][j + 1]
  <2>1. CASE q # p
    BY <1>4, <2>1
  <2>2. CASE q = p
    <3>1. j \in 1 .. L - 1
      BY <1>3, <2>2
    <3>2. (j < k /\ j \in 1 .. L) \/ (~(j < k) /\ j + 1 \in 1 .. L /\ j + 1 # k)
      BY <1>2, <3>1
    <3> QED BY <1>3, <2>2, <3>1, <3>2
  <2> QED BY <2>1, <2>2
<1>11. Forest'
  <2>1. ASSUME NEW q \in used, NEW j \in DOMAIN kids'[q] PROVE kids'[q][j] \in used \ (held \cup {x})
    <3>1. CASE q # p
      BY <1>2, <1>10, <3>1, ChildPointers, ChildFacts
    <3>2. CASE q = p /\ j < k
      <4>1. j \in 1 .. L /\ kids'[q][j] = kids[p][j] /\ j # k
        BY <1>2, <1>10, <3>2
      <4> QED BY <1>1, <1>2, <4>1, ChildPointers, ChildFacts
    <3>3. CASE q = p /\ ~(j < k)
      <4>1. j + 1 \in 1 .. L /\ kids'[q][j] = kids[p][j + 1] /\ j + 1 # k
        BY <1>2, <1>10, <3>3
      <4> QED BY <1>1, <1>2, <4>1, ChildPointers, ChildFacts
    <3> QED BY <3>1, <3>2, <3>3
  <2>2. \A n \in used' \ held' : \E q \in used' : IsChild(n, q)'
    BY <1>1, <1>9, HeldOrChild
  <2>3. ASSUME NEW q \in used, NEW r \in used, NEW i \in DOMAIN kids'[q], NEW j \in DOMAIN kids'[r],
               kids'[q][i] = kids'[r][j]
        PROVE  q = r /\ i = j
    <3>1. CASE q # p
      BY <1>1, <1>10, <2>3, <3>1, Places
    <3>2. CASE r # p
      BY <1>1, <1>10, <2>3, <3>2, Places
    <3>3. CASE q = p /\ r = p
      <4> DEFINE a == IF i < k THEN i ELSE i + 1
                 b == IF j < k THEN j ELSE j + 1
      <4>1. i \in 1 .. L - 1 /\ j \in 1 .. L - 1
        BY <1>3, <3>3
      <4>2. a \in 1 .. L /\ b \in 1 .. L /\ (a = b => i = j)
        BY <1>2, <4>1
      <4>3. kids'[p][i] = kids[p][a] /\ kids'[p][j] = kids[p][b]
        <5>1. kids'[p][i] = IF i < k THEN kids[p][i] ELSE kids[p][i + 1]
          BY <1>3, <4>1
        <5>2. kids'[p][j] = IF j < k THEN kids[p][j] ELSE kids[p][j + 1]
          BY <1>3, <4>1
        <5> QED BY <5>1, <5>2
      <4> HIDE DEF a, b
      <4>4. kids[p][a] = kids[p][b]
        BY <2>3, <3>3, <4>3
      <4>5. a = b
        BY <1>1, <4>2, <4>4, Places
      <4> QED BY <3>3, <4>2, <4>5
    <3> QED BY <3>1, <3>2, <3>3
  <2> QED BY <1>1, <2>1, <2>2, <2>3 DEF Forest
<1>12. \A n \in used : n # x /\ ~IsChild(n, p) => next'[n] = next[n] /\ prev'[n] = prev[n]
  BY <1>4, <1>5, <1>7 DEF TreeInv, TreeTypeOK
<1>13. ASSUME NEW q \in used, q # p PROVE Represents(q)'
  <2>1. \A i \in DOMAIN kids[q] : kids[q][i] \in used /\ kids[q][i] # x /\ ~IsChild(kids[q][i], p)
    <3>1. ASSUME NEW i \in 1 .. Len(kids[q]) PROVE kids[q][i] \in used /\ ~IsChild(kids[q][i], p)
      BY <1>1, <1>13, <3>1, ChildPointers, ChildFacts
    <3> QED BY <1>1, <1>4, <3>1
  <2>2. child'[q] = child[q]
    BY <1>4, <1>6, <1>13 DEF TreeInv, TreeTypeOK
  <2> QED BY <1>4, <1>12, <1>13, <2>1, <2>2, RepresentsFrame DEF TreeInv, Linked
<1>14. Represents(p)'
  <2>1. child'[p] = IF kids'[p] = <<>> THEN Nil ELSE kids'[p][1]
    <3>1. child'[p] = IF k = 1 THEN next[x] ELSE child[p]
      BY <1>6 DEF TreeInv, TreeTypeOK
    <3>2. CASE L = 1
      <4>1. kids'[p] = <<>> /\ k = 1 /\ k = L
        BY <1>2, <1>3, <3>2
      <4> QED BY <1>5, <3>1, <4>1
    <3>3. CASE L # 1 /\ k = 1
      <4>1. 1 \in 1 .. L - 1 /\ ~(1 < k) /\ k # L
        <5>1. L \in Nat /\ k \in 1 .. L /\ L # 1 /\ k = 1
          BY <1>2, <3>3
        <5> HIDE DEF k, L
        <5> QED BY <5>1
      <4>2. kids'[p] # <<>> /\ kids'[p][1] = kids[p][1 + 1]
        BY <1>3, <4>1
      <4> QED BY <1>5, <3>1, <3>3, <4>1, <4>2
    <3>4. CASE L # 1 /\ k # 1
      <4>1. 1 \in 1 .. L - 1 /\ 1 < k
        BY <1>2, <3>4
      <4>2. kids'[p] # <<>> /\ kids'[p][1] = kids[p][1]
        BY <1>3, <4>1
      <4> QED BY <1>5, <3>1, <3>4, <4>2
    <3> QED BY <3>2, <3>3, <3>4
  <2>2. ASSUME NEW j \in 1 .. L - 1
        PROVE  next'[kids'[p][j]] = IF j = L - 1 THEN Nil ELSE kids'[p][j + 1]
    <3>1. CASE j + 1 = k
      <4>1. j < k /\ k # 1 /\ k - 1 = j
        BY <1>2, <3>1
      <4>2. next'[kids'[p][j]] = next[x]
        BY <1>3, <1>5, <1>7, <4>1
      <4>3. CASE k = L
        <5>1. j = L - 1
          BY <1>2, <3>1, <4>3
        <5> QED BY <1>5, <4>2, <4>3, <5>1
      <4>4. CASE k # L
        <5>1. j + 1 \in 1 .. L - 1 /\ ~(j + 1 < k) /\ (j + 1) + 1 = k + 1 /\ j # L - 1
          BY <1>2, <3>1, <4>4
        <5>2. kids'[p][j + 1] = kids[p][(j + 1) + 1]
          BY <1>3, <5>1
        <5> QED BY <1>5, <4>2, <4>4, <5>1, <5>2
      <4> QED BY <4>3, <4>4
    <3>2. CASE j + 1 < k
      <4>1. /\ j \in 1 .. L /\ j # k /\ j < k /\ j + 1 \in 1 .. L - 1 /\ j + 1 < k /\ k - 1 \in 1 .. L
            /\ j # k - 1 /\ j # L /\ j # L - 1 /\ k # 1
        BY <1>2, <3>2
      <4>2. kids'[p][j] = kids[p][j] /\ kids'[p][j + 1] = kids[p][j + 1]
        BY <1>3, <4>1
      <4>3. kids[p][j] # x /\ kids[p][j] # prev[x] /\ kids[p][j] \in Node
        BY <1>1, <1>2, <1>5, <4>1, Places, KidsSeq DEF TreeInv
      <4>4. next[kids[p][j]] = kids[p][j + 1]
        BY <1>1, <4>1, ChildPointers
      <4> QED BY <1>7, <4>1, <4>2, <4>3, <4>4
    <3>3. CASE ~(j < k)
      <4>1. j + 1 \in 1 .. L /\ j + 1 # k /\ (k # 1 => k - 1 \in 1 .. L /\ k - 1 # j + 1)
        BY <1>2, <3>3
      <4>2. kids'[p][j] = kids[p][j + 1]
        BY <1>3, <3>3
      <4>3. kids[p][j + 1] # x /\ (k # 1 => kids[p][j + 1] # prev[x]) /\ kids[p][j + 1] \in Node
        BY <1>1, <1>2, <1>5, <4>1, Places, KidsSeq DEF TreeInv
      <4>4. next'[kids'[p][j]] = next[kids[p][j + 1]]
        BY <1>7, <4>2, <4>3
      <4>5. next[kids[p][j + 1]] = IF j + 1 = L THEN Nil ELSE kids[p][(j + 1) + 1]
        BY <1>1, <4>1, ChildPointers
      <4>6. CASE j + 1 = L
        <5>1. j = L - 1
          BY <1>2, <4>6
        <5> QED BY <4>4, <4>5, <4>6, <5>1
      <4>7. CASE j + 1 # L
        <5>1. j # L - 1 /\ j + 1 \in 1 .. L - 1 /\ ~(j + 1 < k)
          BY <1>2, <3>3, <4>7
        <5>2. kids'[p][j + 1] = kids[p][(j + 1) + 1]
          BY <1>3, <5>1
        <5> QED BY <4>4, <4>5, <4>7, <5>1, <5>2
      <4> QED BY <4>6, <4>7
    <3>4. j + 1 = k \/ j + 1 < k \/ ~(j < k)
      BY <1>2
    <3> QED BY <3>1, <3>2, <3>3, <3>4
  <2>3. ASSUME NEW j \in 1 .. L - 1
        PROVE  prev'[kids'[p][j]] = IF j = 1 THEN kids'[p][L - 1] ELSE kids'[p][j - 1]
    <3>1. L - 1 \in 1 .. L - 1 /\ 1 \in 1 .. L - 1 /\ 1 \in 1 .. L
      BY <1>2
    <3>2. kids'[p][L - 1] = IF k = L THEN kids[p][k - 1] ELSE kids[p][L]
      <4>1. CASE k = L
        <5>1. L - 1 < k /\ L - 1 = k - 1
          BY <1>2, <4>1
        <5> QED BY <1>3, <3>1, <4>1, <5>1
      <4>2. CASE k # L
        <5>1. ~(L - 1 < k) /\ (L - 1) + 1 = L
          BY <1>2, <4>2
        <5> QED BY <1>3, <3>1, <4>2, <5>1
      <4> QED BY <4>1, <4>2
    <3>3. CASE j = 1 /\ k = 1
      <4>1. k # L /\ ~(j < k) /\ 1 + 1 = k + 1
        BY <1>2, <3>3
      <4>2. kids'[p][j] = next[x]
        BY <1>3, <1>5, <3>3, <4>1
      <4> QED BY <1>5, <1>7, <3>2, <3>3, <4>1, <4>2
    <3>4. CASE j = 1 /\ k # 1 /\ k = L
      <4>1. j < k
        BY <1>2, <3>4
      <4>2. kids'[p][j] = child[p]
        BY <1>3, <1>5, <3>4, <4>1
      <4> QED BY <1>5, <1>7, <3>2, <3>4, <4>2
    <3>5. CASE j = 1 /\ k # 1 /\ k # L
      <4>1. j < k /\ k + 1 \in 1 .. L /\ k + 1 # 1 /\ 1 # k
        BY <1>2, <3>5
      <4>2. kids'[p][j] = kids[p][1]
        BY <1>3, <3>5, <4>1
      <4>3. kids[p][1] # x /\ kids[p][1] # next[x] /\ kids[p][1] \in Node
        BY <1>1, <1>2, <1>5, <3>1, <3>5, <4>1, Places, KidsSeq DEF TreeInv
      <4>4. prev[kids[p][1]] = kids[p][L]
        BY <1>1, <3>1, ChildPointers
      <4> QED BY <1>7, <3>2, <3>5, <4>2, <4>3, <4>4
    <3>6. CASE j # 1 /\ j < k
      <4>1. /\ j \in 1 .. L /\ j # k /\ j - 1 \in 1 .. L - 1 /\ j - 1 < k /\ (k # L => k + 1 \in 1 .. L)
            /\ k + 1 # j
        BY <1>2, <3>6
      <4>2. kids'[p][j] = kids[p][j] /\ kids'[p][j - 1] = kids[p][j - 1]
        BY <1>3, <3>6, <4>1
      <4>3. /\ kids[p][j] # x /\ kids[p][j] # child[p] /\ kids[p][j] \in Node
            /\ k # L => kids[p][j] # next[x]
        BY <1>1, <1>2, <1>5, <3>1, <3>6, <4>1, Places, KidsSeq DEF TreeInv
      <4>4. prev[kids[p][j]] = kids[p][j - 1]
        BY <1>1, <3>6, <4>1, ChildPointers
      <4> QED BY <1>7, <3>6, <4>2, <4>3, <4>4
    <3>7. CASE j # 1 /\ j = k
      <4>1. ~(j < k) /\ k # L /\ k # 1 /\ j - 1 \in 1 .. L - 1 /\ j - 1 < k /\ j - 1 = k - 1
        BY <1>2, <3>7
      <4>2. kids'[p][j] = next[x] /\ kids'[p][j - 1] = kids[p][k - 1]
        BY <1>3, <1>5, <3>7, <4>1
      <4> QED BY <1>5, <1>7, <3>7, <4>1, <4>2
    <3>8. CASE k < j
      <4>1. /\ ~(j < k) /\ j + 1 \in 1 .. L /\ j + 1 # 1 /\ j + 1 # k /\ j + 1 # k + 1 /\ k # L
            /\ k + 1 \in 1 .. L /\ j # 1
            /\ j - 1 \in 1 .. L - 1 /\ ~(j - 1 < k) /\ (j - 1) + 1 = (j + 1) - 1
        BY <1>2, <3>8
      <4>2. kids'[p][j] = kids[p][j + 1] /\ kids'[p][j - 1] = kids[p][(j - 1) + 1]
        BY <1>3, <4>1
      <4>3. kids[p][j + 1] # x /\ kids[p][j + 1] # next[x] /\ kids[p][j + 1] \in Node
        BY <1>1, <1>2, <1>5, <4>1, Places, KidsSeq DEF TreeInv
      <4>4. prev[kids[p][j + 1]] = kids[p][(j + 1) - 1]
        BY <1>1, <4>1, ChildPointers
      <4>5. prev'[kids[p][j + 1]] = prev[kids[p][j + 1]]
        BY <1>7, <4>1, <4>3
      <4> QED BY <4>1, <4>2, <4>4, <4>5
    <3>9. (j = 1 /\ k = 1) \/ (j = 1 /\ k # 1 /\ k = L) \/ (j = 1 /\ k # 1 /\ k # L)
            \/ (j # 1 /\ j < k) \/ (j # 1 /\ j = k) \/ k < j
      BY <1>2
    <3> QED BY <3>3, <3>4, <3>5, <3>6, <3>7, <3>8, <3>9
  <2> QED BY <1>3, <2>1, <2>2, <2>3 DEF Represents
<1>15. Linked'
  <2>1. ASSUME NEW n \in held' PROVE next'[n] = Nil /\ prev'[n] = Nil
    <3>1. CASE n = x
      BY <1>7, <3>1
    <3>2. CASE n # x
      <4>1. n \in held /\ n \in used /\ ~IsChild(n, p)
        BY <1>1, <3>2, ChildFacts DEF TreeInv, TreeTypeOK
      <4> QED BY <1>12, <3>2, <4>1 DEF TreeInv, Linked
    <3> QED BY <3>1, <3>2
  <2> QED BY <1>1, <1>13, <1>14, <2>1 DEF Linked
<1>16. Rooted'
  BY <1>1, <1>9 DEF TreeInv, Rooted
<1> QED BY <1>8, <1>11, <1>15, <1>16 DEF TreeInv

(* What is deleted with y is not held, but for y, and is no child of what  *)
(* remains, but for y again.                                               *)
LEMMA DeletedAlone ==
  ASSUME TreeInv, NEW y \in used
  PROVE  /\ \A n \in Deleted(y) \ {y} : n \notin held
         /\ \A q \in used \ Deleted(y) : \A n \in Deleted(y) : IsChild(n, q) => n = y
<1>1. /\ Deleted(y) \subseteq used
      /\ \A n \in Deleted(y) \ {y} : \E q \in Deleted(y) : IsChild(n, q)
  BY DeletedFacts
<1>2. \A n \in Deleted(y) \ {y} : n \notin held
  BY <1>1, ChildFacts
<1>3. \A q \in used \ Deleted(y) : \A n \in Deleted(y) : IsChild(n, q) => n = y
  BY <1>1, ChildFacts
<1> QED BY <1>2, <1>3

(* What was said of D is forgotten, the rest is as it was.                 *)
LEMMA ForgottenFacts ==
  ASSUME NEW g, NEW D, NEW nothing
  PROVE  \A n \in Node \ D : Forgotten(g, D, nothing)[n] = g[n]
  BY DEF Forgotten

LEMMA DeleteInv ==
  ASSUME TreeInv, NEW x \in Node, Delete(x)
  PROVE  TreeInv'
<1> DEFINE D == Deleted(x)
<1>1. /\ x \in held /\ x \in used /\ used' = used \ D /\ held' = held \ {x}
      /\ child' = Forgotten(child, D, Nil) /\ next' = Forgotten(next, D, Nil)
      /\ prev' = Forgotten(prev, D, Nil) /\ kids' = Forgotten(kids, D, <<>>)
      /\ kind' = Forgotten(kind, D, NoKind) /\ key' = Forgotten(key, D, NoKey)
  BY DEF Delete, TreeInv, TreeTypeOK
<1>2. /\ x \in D /\ D \subseteq used
      /\ \A q \in D : \A n : IsChild(n, q) => n \in D
      /\ \A n \in D \ {x} : n \notin held
      /\ \A q \in used \ D : \A n \in D : ~IsChild(n, q)
  <2>1. \A q \in used : ~IsChild(x, q)
    BY <1>1, ChildFacts
  <2> QED BY <1>1, <2>1, DeletedFacts, DeletedAlone
<1> HIDE DEF D
<1>3. /\ child \in [Node -> Pointer] /\ next \in [Node -> Pointer] /\ prev \in [Node -> Pointer]
      /\ kids \in [Node -> Seq(Node)] /\ kind \in [Node -> Kind \cup {NoKind}]
      /\ key \in [Node -> Key \cup {NoKey}] /\ used \subseteq Node
      /\ Nil \in Pointer /\ <<>> \in Seq(Node) /\ held \subseteq used
  BY DEF TreeInv, TreeTypeOK, Pointer
<1>4. \A n \in Node \ D : child'[n] = child[n] /\ next'[n] = next[n] /\ prev'[n] = prev[n]
  BY <1>1, <1>3, ForgottenFacts
<1>5. \A n \in Node \ D : kids'[n] = kids[n]
  BY <1>1, <1>3, ForgottenFacts
<1>6. TreeTypeOK'
  <2>1. child' \in [Node -> Pointer] /\ next' \in [Node -> Pointer] /\ prev' \in [Node -> Pointer]
    BY <1>1, <1>3 DEF Forgotten
  <2>2. kids' \in [Node -> Seq(Node)]
    BY <1>1, <1>3 DEF Forgotten
  <2>3. kind' \in [Node -> Kind \cup {NoKind}] /\ key' \in [Node -> Key \cup {NoKey}]
    BY <1>1, <1>3 DEF Forgotten
  <2>4. held' \subseteq used'
    BY <1>1, <1>2, <1>3
  <2> QED BY <1>1, <1>3, <2>1, <2>2, <2>3, <2>4 DEF TreeTypeOK
<1>7. \A q \in used' : q \in used \ D /\ q \in Node /\ kids'[q] = kids[q]
  BY <1>1, <1>3, <1>5
<1>8. \A q \in used' : \A n : IsChild(n, q)' <=> IsChild(n, q)
  BY <1>7 DEF IsChild
<1>9. \A q \in used' : \A i \in DOMAIN kids[q] : kids[q][i] \in used \ held /\ kids[q][i] \notin D
  BY <1>2, <1>7 DEF IsChild, TreeInv, Forest
<1>10. Forest'
  <2>1. \A q \in used' : \A i \in DOMAIN kids'[q] : kids'[q][i] \in used' \ held'
    BY <1>1, <1>7, <1>9
  <2>2. \A n \in used' \ held' : \E q \in used' : IsChild(n, q)'
    <3>1. ASSUME NEW n \in used' \ held' PROVE \E q \in used' : IsChild(n, q)'
      <4>1. n \in used \ D /\ n \notin held
        BY <1>1, <1>2
      <4>2. PICK q \in used : IsChild(n, q)
        BY <4>1, HeldOrChild
      <4> QED BY <1>1, <1>2, <1>8, <4>1, <4>2
    <3> QED BY <3>1
  <2>3. \A p, q \in used' : \A i \in DOMAIN kids'[p], j \in DOMAIN kids'[q] :
          kids'[p][i] = kids'[q][j] => p = q /\ i = j
    BY <1>7 DEF TreeInv, Forest
  <2> QED BY <2>1, <2>2, <2>3 DEF Forest
<1>11. Linked'
  <2>1. ASSUME NEW q \in used' PROVE Represents(q)'
    BY <1>3, <1>4, <1>7, <1>9, RepresentsFrame DEF TreeInv, Linked
  <2>2. ASSUME NEW n \in held' PROVE next'[n] = Nil /\ prev'[n] = Nil
    <3>1. n \in held /\ n \in Node /\ n \notin D
      BY <1>1, <1>2, <1>3
    <3> QED BY <1>4, <3>1 DEF TreeInv, Linked
  <2> QED BY <2>1, <2>2 DEF Linked
<1>12. Rooted'
  <2> SUFFICES ASSUME NEW S \in SUBSET used', S # {}
               PROVE  \E n \in S : n \in held' \/ \E q \in used' \ S : IsChild(n, q)'
    BY DEF Rooted
  <2>1. PICK n \in S : n \in held \/ \E q \in used \ S : IsChild(n, q)
    BY <1>1 DEF TreeInv, Rooted
  <2>2. n \notin D
    BY <1>1
  <2> QED BY <1>1, <1>2, <1>8, <2>1, <2>2
<1> QED BY <1>6, <1>10, <1>11, <1>12 DEF TreeInv

(* The parent of y is not deleted with it. *)
LEMMA ParentRemains ==
  ASSUME TreeInv, NEW p \in used, NEW y, IsChild(y, p)
  PROVE  p \notin Deleted(y)
<1>1. y \in used /\ y \notin held /\ \A q \in used : IsChild(y, q) => q = p
  BY ChildFacts
<1>2. y \in Deleted(y) /\ Deleted(y) \subseteq used
  BY <1>1, DeletedFacts
<1>3. PICK n \in Deleted(y) : n \in held \/ \E q \in used \ Deleted(y) : IsChild(n, q)
  BY <1>2 DEF TreeInv, Rooted
<1>4. n = y
  BY <1>1, <1>3, DeletedAlone
<1> QED BY <1>1, <1>3, <1>4

LEMMA ReplaceInv ==
  ASSUME TreeInv, NEW p \in Node, NEW y \in Node, NEW x \in Node, NEW name, Replace(p, y, x, name)
  PROVE  TreeInv'
<1> DEFINE L == Len(kids[p])
           k == PlaceOf(y, p)
           D == Deleted(y)
<1>1. /\ IsChild(y, p) /\ MayAdd(p, x) /\ name \in {key[x], key[y]}
      /\ used' = used \ D /\ held' = held \ {x}
      /\ kind' = Forgotten(kind, D, NoKind)
      /\ key' = Forgotten([key EXCEPT ![x] = name], D, NoKey)
      /\ child' = Forgotten(IF child[p] = y THEN [child EXCEPT ![p] = x] ELSE child, D, Nil)
      /\ next' = Forgotten(ReplacedNext(p, y, x), D, Nil)
      /\ prev' = Forgotten(ReplacedPrev(p, y, x), D, Nil)
      /\ kids' = Forgotten([kids EXCEPT ![p][k] = x], D, <<>>)
  BY DEF Replace
<1>2. /\ p \in used /\ x \in used /\ x \in held /\ x # p /\ next[x] = Nil /\ x # Nil
      /\ \A q \in used : \A i \in 1 .. Len(kids[q]) : kids[q][i] # x
  BY <1>1, MayAddFacts
<1>3. /\ L \in Nat /\ k \in 1 .. L /\ kids[p][k] = y /\ y # x
      /\ \A i \in 1 .. L : kids[p][i] = y => i = k
      /\ y \in used /\ y \notin held /\ y # Nil
      /\ \A q \in used : IsChild(y, q) => q = p
  BY <1>1, <1>2, PlaceFacts, ChildFacts, KidsSeq, TreeAssumption DEF TreeInv
<1>4. /\ y \in D /\ D \subseteq used /\ p \notin D /\ x \notin D
      /\ \A q \in D : \A n : IsChild(n, q) => n \in D
      /\ \A n \in D : n \notin held
      /\ \A q \in used \ D : \A n \in D : IsChild(n, q) => n = y /\ q = p
  <2>1. \A n \in D : n \notin held
    BY <1>3, DeletedAlone
  <2>2. \A q \in used \ D : \A n \in D : IsChild(n, q) => n = y
    BY <1>3, DeletedAlone
  <2>3. p \notin D
    BY <1>1, <1>2, ParentRemains
  <2> QED BY <1>2, <1>3, <2>1, <2>2, <2>3, DeletedFacts
<1> HIDE DEF D
<1>5. /\ child \in [Node -> Pointer] /\ next \in [Node -> Pointer] /\ prev \in [Node -> Pointer]
      /\ kids \in [Node -> Seq(Node)] /\ kind \in [Node -> Kind \cup {NoKind}]
      /\ key \in [Node -> Key \cup {NoKey}] /\ used \subseteq Node
      /\ Nil \in Pointer /\ x \in Pointer /\ <<>> \in Seq(Node) /\ held \subseteq used
  BY DEF TreeInv, TreeTypeOK, Pointer
<1>6. /\ child[p] = kids[p][1] /\ (child[p] = y <=> k = 1)
      /\ prev[y] = (IF k = 1 THEN kids[p][L] ELSE kids[p][k - 1])
      /\ next[y] = (IF k = L THEN Nil ELSE kids[p][k + 1])
      /\ IsChild(child[p], p) /\ IsChild(prev[y], p) /\ (next[y] = Nil \/ IsChild(next[y], p))
  <2>1. 1 \in 1 .. L /\ L \in 1 .. L /\ (k # 1 => k - 1 \in 1 .. L) /\ (k # L => k + 1 \in 1 .. L)
    BY <1>3
  <2>2. child[p] = kids[p][1] /\ IsChild(child[p], p)
    BY <1>2, <2>1, ChildPointers
  <2>3. prev[y] = (IF k = 1 THEN kids[p][L] ELSE kids[p][k - 1])
    BY <1>2, <1>3, ChildPointers
  <2>4. next[y] = (IF k = L THEN Nil ELSE kids[p][k + 1])
    BY <1>2, <1>3, ChildPointers
  <2>5. IsChild(prev[y], p) /\ (next[y] = Nil \/ IsChild(next[y], p))
    BY <1>2, <2>1, <2>3, <2>4, ChildPointers
  <2>6. child[p] = y <=> k = 1
    BY <1>3, <2>1, <2>2
  <2> QED BY <2>2, <2>3, <2>4, <2>5, <2>6
<1>7. /\ \A n \in Node \ D : child'[n] = IF n = p /\ child[p] = y THEN x ELSE child[n]
      /\ \A n \in Node \ D : next'[n] = ReplacedNext(p, y, x)[n]
      /\ \A n \in Node \ D : prev'[n] = ReplacedPrev(p, y, x)[n]
      /\ \A n \in Node \ D : kids'[n] = IF n = p THEN [kids[p] EXCEPT ![k] = x] ELSE kids[n]
  <2>1. \A n \in Node \ D : child'[n] = IF n = p /\ child[p] = y THEN x ELSE child[n]
    BY <1>1, <1>5 DEF Forgotten
  <2>2. \A n \in Node \ D : next'[n] = ReplacedNext(p, y, x)[n] /\ prev'[n] = ReplacedPrev(p, y, x)[n]
    BY <1>1 DEF Forgotten
  <2>3. \A n \in Node \ D : kids'[n] = IF n = p THEN [kids[p] EXCEPT ![k] = x] ELSE kids[n]
    BY <1>1, <1>5 DEF Forgotten
  <2> QED BY <2>1, <2>2, <2>3
<1>8. /\ next'[x] = next[y]
      /\ prev'[x] = IF child[p] = y /\ prev[y] = y THEN x ELSE prev[y]
      /\ \A n \in Node \ D : n # x =>
           /\ next'[n] = IF child[p] # y /\ n = prev[y] THEN x ELSE next[n]
           /\ prev'[n] = IF n = next[y] \/ (n = child[p] /\ next[y] = Nil) THEN x ELSE prev[n]
  BY <1>4, <1>7 DEF ReplacedNext, ReplacedPrev
<1>9. /\ kids'[p] \in Seq(Node) /\ Len(kids'[p]) = L /\ DOMAIN kids'[p] = 1 .. L
      /\ kids'[p][k] = x
      /\ \A j \in 1 .. L : j # k => kids'[p][j] = kids[p][j]
      /\ \A q \in used \ D : q # p => kids'[q] = kids[q]
  <2>1. kids'[p] = [kids[p] EXCEPT ![k] = x] /\ kids[p] \in Seq(Node)
    BY <1>4, <1>5, <1>7
  <2>2. \A q \in used \ D : q # p => kids'[q] = kids[q]
    BY <1>5, <1>7
  <2> QED BY <1>3, <2>1, <2>2
<1>10. \A q \in used : /\ q \in Node /\ kids[q] \in Seq(Node) /\ Len(kids[q]) \in Nat
                       /\ DOMAIN kids[q] = 1 .. Len(kids[q])
  BY KidsSeq DEF TreeInv, TreeTypeOK
<1>11. TreeTypeOK'
  <2>1. child' \in [Node -> Pointer]
    BY <1>1, <1>5 DEF Forgotten
  <2>2. next[y] \in Pointer /\ prev[y] \in Pointer
    BY <1>5
  <2>3. /\ ReplacedNext(p, y, x) \in [Node -> Pointer]
        /\ ReplacedPrev(p, y, x) \in [Node -> Pointer]
    BY <1>5, <2>2 DEF ReplacedNext, ReplacedPrev
  <2>4. next' \in [Node -> Pointer] /\ prev' \in [Node -> Pointer]
    BY <1>1, <1>5, <2>3 DEF Forgotten
  <2>5. [kids EXCEPT ![p][k] = x] \in [Node -> Seq(Node)]
    BY <1>3, <1>5
  <2>6. kids' \in [Node -> Seq(Node)]
    BY <1>1, <1>5, <2>5 DEF Forgotten
  <2>7. name \in Key \cup {NoKey}
    BY <1>1, <1>5
  <2>8. kind' \in [Node -> Kind \cup {NoKind}] /\ key' \in [Node -> Key \cup {NoKey}]
    BY <1>1, <1>5, <2>7 DEF Forgotten
  <2>9. held' \subseteq used' /\ used' \subseteq Node
    BY <1>1, <1>4, <1>5
  <2> QED BY <2>1, <2>4, <2>6, <2>8, <2>9 DEF TreeTypeOK
<1>12. ASSUME NEW q \in used \ D, NEW n \in used \ D, IsChild(n, q) PROVE IsChild(n, q)'
  <2>1. PICK i \in 1 .. Len(kids[q]) : kids[q][i] = n
    BY <1>10, <1>12, ChildPlace
  <2>2. CASE q # p
    BY <1>9, <1>12, <2>2 DEF IsChild
  <2>3. CASE q = p
    <3>1. i # k
      BY <1>3, <1>4, <2>1, <2>3
    <3> QED BY <1>9, <2>1, <2>3, <3>1 DEF IsChild
  <2> QED BY <2>2, <2>3
<1>13. IsChild(x, p)'
  BY <1>3, <1>9 DEF IsChild
<1>14. ASSUME NEW q \in used \ D, NEW j \in DOMAIN kids'[q]
       PROVE  /\ j \in 1 .. Len(kids[q])
              /\ (q = p /\ j = k /\ kids'[q][j] = x) \/ ((q # p \/ j # k) /\ kids'[q][j] = kids[q][j])
  <2>1. CASE q # p
    BY <1>9, <1>10, <2>1
  <2>2. CASE q = p
    BY <1>9, <2>2
  <2> QED BY <2>1, <2>2
<1>15. \A q \in used \ D : \A j \in 1 .. Len(kids[q]) :
         q # p \/ j # k => kids[q][j] \in used \ D /\ kids[q][j] \notin held /\ kids[q][j] # y
  <2>1. ASSUME NEW q \in used \ D, NEW j \in 1 .. Len(kids[q]), q # p \/ j # k
        PROVE  kids[q][j] \in used \ D /\ kids[q][j] \notin held /\ kids[q][j] # y
    <3>1. kids[q][j] \in used /\ IsChild(kids[q][j], q) /\ kids[q][j] \notin held
      BY ChildPointers, ChildFacts
    <3>2. kids[q][j] # y
      BY <1>2, <1>3, <2>1, Places
    <3> QED BY <1>4, <3>1, <3>2
  <2> QED BY <2>1
<1>16. Forest'
  <2>1. \A q \in used' : \A j \in DOMAIN kids'[q] : kids'[q][j] \in used' \ held'
    <3>1. ASSUME NEW q \in used \ D, NEW j \in DOMAIN kids'[q]
          PROVE  kids'[q][j] \in (used \ D) \ (held \ {x})
      <4>1. CASE kids'[q][j] = x
        BY <1>2, <1>4, <4>1
      <4>2. CASE kids'[q][j] # x
        <5>1. j \in 1 .. Len(kids[q]) /\ (q # p \/ j # k) /\ kids'[q][j] = kids[q][j]
          BY <1>14, <4>2
        <5> QED BY <1>15, <5>1
      <4> QED BY <4>1, <4>2
    <3> QED BY <1>1, <3>1
  <2>2. ASSUME NEW n \in used' \ held' PROVE \E q \in used' : IsChild(n, q)'
    <3>1. CASE n = x
      BY <1>1, <1>2, <1>4, <1>13, <3>1
    <3>2. CASE n # x
      <4>1. PICK q \in used : IsChild(n, q)
        BY <1>1, <3>2, HeldOrChild
      <4>2. n \in used \ D /\ q \notin D
        BY <1>1, <1>4, <4>1
      <4> QED BY <1>1, <1>12, <4>1, <4>2
    <3> QED BY <3>1, <3>2
  <2>3. ASSUME NEW q \in used \ D, NEW r \in used \ D, NEW i \in DOMAIN kids'[q], NEW j \in DOMAIN kids'[r],
               kids'[q][i] = kids'[r][j]
        PROVE  q = r /\ i = j
    <3>1. i \in 1 .. Len(kids[q]) /\ j \in 1 .. Len(kids[r])
      BY <1>14
    <3>2. CASE q = p /\ i = k
      BY <1>2, <1>14, <2>3, <3>1, <3>2
    <3>3. CASE r = p /\ j = k
      BY <1>2, <1>14, <2>3, <3>1, <3>3
    <3>4. CASE ~(q = p /\ i = k) /\ ~(r = p /\ j = k)
      <4>1. kids[q][i] = kids[r][j]
        BY <1>14, <2>3, <3>4
      <4> QED BY <3>1, <4>1, Places
    <3> QED BY <3>2, <3>3, <3>4
  <2> QED BY <1>1, <2>1, <2>2, <2>3 DEF Forest
<1>17. \A n \in used \ D : n # x /\ ~IsChild(n, p) => next'[n] = next[n] /\ prev'[n] = prev[n]
  BY <1>5, <1>6, <1>8, TreeAssumption
<1>18. ASSUME NEW q \in used \ D, q # p PROVE Represents(q)'
  <2>1. \A i \in DOMAIN kids[q] : kids[q][i] \in used \ D /\ kids[q][i] # x /\ ~IsChild(kids[q][i], p)
    <3>1. ASSUME NEW i \in 1 .. Len(kids[q]) PROVE ~IsChild(kids[q][i], p)
      BY <1>2, <1>18, <3>1, ChildPointers, ChildFacts
    <3> QED BY <1>2, <1>10, <1>15, <1>18, <3>1
  <2>2. child'[q] = child[q]
    BY <1>5, <1>7, <1>18
  <2> QED BY <1>9, <1>17, <1>18, <2>1, <2>2, RepresentsFrame DEF TreeInv, Linked
<1>19. Represents(p)'
  <2>1. child'[p] = kids'[p][1] /\ kids'[p] # <<>>
    <3>1. 1 \in 1 .. L
      BY <1>3
    <3>2. child'[p] = IF k = 1 THEN x ELSE kids[p][1]
      BY <1>2, <1>4, <1>5, <1>6, <1>7
    <3>3. kids'[p][1] = IF k = 1 THEN x ELSE kids[p][1]
      BY <1>9, <3>1
    <3> QED BY <1>3, <1>9, <3>2, <3>3
  <2>2. ASSUME NEW j \in 1 .. L
        PROVE  next'[kids'[p][j]] = IF j = L THEN Nil ELSE kids'[p][j + 1]
    <3>1. CASE j = k
      <4>1. CASE k = L
        BY <1>6, <1>8, <1>9, <3>1, <4>1
      <4>2. CASE k # L
        <5>1. k + 1 \in 1 .. L /\ k + 1 # k
          BY <1>3, <4>2
        <5> QED BY <1>6, <1>8, <1>9, <3>1, <4>2, <5>1
      <4> QED BY <4>1, <4>2
    <3>2. CASE j # k
      <4>1. /\ kids'[p][j] = kids[p][j] /\ kids[p][j] \in Node \ D /\ kids[p][j] # x
            /\ next[kids[p][j]] = IF j = L THEN Nil ELSE kids[p][j + 1]
        BY <1>2, <1>4, <1>5, <1>9, <1>15, <3>2, ChildPointers
      <4>2. CASE j + 1 = k
        <5>1. k # 1 /\ k - 1 = j /\ j # L
          BY <1>3, <4>2
        <5>2. kids[p][j] = prev[y] /\ child[p] # y
          BY <1>6, <5>1
        <5> QED BY <1>8, <1>9, <4>1, <4>2, <5>1, <5>2
      <4>3. CASE j + 1 # k
        <5>1. k # 1 => k - 1 \in 1 .. L /\ k - 1 # j
          BY <1>3, <4>3
        <5>2. child[p] = y \/ kids[p][j] # prev[y]
          BY <1>2, <1>6, <5>1, Places
        <5>3. next'[kids[p][j]] = next[kids[p][j]]
          BY <1>8, <4>1, <5>2
        <5>4. j # L => kids'[p][j + 1] = kids[p][j + 1]
          <6>1. j # L => j + 1 \in 1 .. L
            BY <1>3
          <6> QED BY <1>9, <4>3, <6>1
        <5> QED BY <4>1, <5>3, <5>4
      <4> QED BY <4>2, <4>3
    <3> QED BY <3>1, <3>2
  <2>3. ASSUME NEW j \in 1 .. L
        PROVE  prev'[kids'[p][j]] = IF j = 1 THEN kids'[p][L] ELSE kids'[p][j - 1]
    <3>1. 1 \in 1 .. L /\ L \in 1 .. L
      BY <1>3
    <3>2. CASE j = k
      <4>1. CASE k = 1 /\ L = 1
        BY <1>3, <1>6, <1>8, <1>9, <3>2, <4>1
      <4>2. CASE k = 1 /\ L # 1
        <5>1. kids[p][L] # y
          BY <1>3, <3>1, <4>2
        <5> QED BY <1>6, <1>8, <1>9, <3>1, <3>2, <4>2, <5>1
      <4>3. CASE k # 1
        <5>1. k - 1 \in 1 .. L /\ k - 1 # k
          BY <1>3, <4>3
        <5> QED BY <1>6, <1>8, <1>9, <3>2, <4>3, <5>1
      <4> QED BY <4>1, <4>2, <4>3
    <3>3. CASE j # k
      <4>1. /\ kids'[p][j] = kids[p][j] /\ kids[p][j] \in Node \ D /\ kids[p][j] # x
            /\ kids[p][j] # Nil
            /\ prev[kids[p][j]] = IF j = 1 THEN kids[p][L] ELSE kids[p][j - 1]
          <5>1. kids'[p][j] = kids[p][j]
            BY <1>9, <3>3
          <5>2. kids[p][j] \in Node \ D /\ kids[p][j] # x
            BY <1>2, <1>4, <1>5, <1>15, <3>3
          <5>3. prev[kids[p][j]] = IF j = 1 THEN kids[p][L] ELSE kids[p][j - 1]
            BY <1>2, ChildPointers
          <5> QED BY <5>1, <5>2, <5>3, TreeAssumption
      <4>2. CASE j = k + 1
        <5>1. k # L /\ j # 1 /\ j - 1 = k
          BY <1>3, <4>2
        <5>2. kids[p][j] = next[y]
          BY <1>6, <4>2, <5>1
        <5> QED BY <1>8, <1>9, <4>1, <5>1, <5>2
      <4>3. CASE j = 1 /\ k = L
        BY <1>6, <1>8, <1>9, <4>1, <4>3
      <4>4. CASE j # k + 1 /\ ~(j = 1 /\ k = L)
        <5>1. k # L => k + 1 \in 1 .. L
          BY <1>3
        <5>2. kids[p][j] # next[y]
          BY <1>2, <1>6, <4>1, <4>4, <5>1, Places
        <5>3. ~(kids[p][j] = child[p] /\ next[y] = Nil)
          <6>1. ASSUME next[y] = Nil PROVE k = L
            <7>1. k # L => kids[p][k + 1] \in Node
              BY <1>2, <5>1, KidsSeq DEF TreeInv
            <7> QED BY <1>6, <6>1, <7>1, TreeAssumption
          <6>2. ASSUME kids[p][j] = child[p] PROVE j = 1
            BY <1>2, <1>6, <3>1, <6>2, Places
          <6> QED BY <4>4, <6>1, <6>2
        <5>4. prev'[kids[p][j]] = prev[kids[p][j]]
          BY <1>8, <4>1, <5>2, <5>3
        <5>5. CASE j = 1
          BY <1>9, <3>1, <4>1, <4>4, <5>4, <5>5
        <5>6. CASE j # 1
          <6>1. j - 1 \in 1 .. L /\ j - 1 # k
            BY <1>3, <4>4, <5>6
          <6> QED BY <1>9, <4>1, <5>4, <5>6, <6>1
        <5> QED BY <5>5, <5>6
      <4> QED BY <4>2, <4>3, <4>4
    <3> QED BY <3>2, <3>3
  <2> QED BY <1>9, <2>1, <2>2, <2>3 DEF Represents
<1>20. Linked'
  <2>1. ASSUME NEW n \in held' PROVE next'[n] = Nil /\ prev'[n] = Nil
    <3>1. n \in held /\ n # x /\ n \in used \ D
      BY <1>1, <1>4, <1>5
    <3>2. ~IsChild(n, p)
      BY <1>2, <3>1, ChildFacts
    <3> QED BY <1>17, <3>1, <3>2 DEF TreeInv, Linked
  <2> QED BY <1>1, <1>18, <1>19, <2>1 DEF Linked
<1>21. Rooted'
  BY <1>1, <1>4, <1>12, <1>13, AdoptRooted
<1> QED BY <1>11, <1>16, <1>20, <1>21 DEF TreeInv

(* The tree under an item that is held: all below it are children in it.   *)
LEMMA HeldTree ==
  ASSUME TreeInv, NEW x \in held
  PROVE  /\ x \in Tree(x) /\ Tree(x) \subseteq used /\ x \in used
         /\ \A n \in Tree(x) : n = x \/ (n \notin held /\ \E q \in Tree(x) : IsChild(n, q))
         /\ \A q \in Tree(x) : \A n : IsChild(n, q) => n \in Tree(x)
         /\ \A n \in Tree(x) : /\ child[n] \in Tree(x) \cup {Nil}
                               /\ next[n] \in Tree(x) \cup {Nil}
                               /\ prev[n] \in Tree(x) \cup {Nil}
<1>1. x \in used /\ prev[x] = Nil
  BY DEF TreeInv, TreeTypeOK, Linked
<1>2. x \in Tree(x) /\ Tree(x) \subseteq used /\ Closed(Tree(x))
  BY <1>1, TreeClosed
<1>3. \A q \in Tree(x) : \A n : IsChild(n, q) => n \in Tree(x)
  BY <1>2, AllChildren DEF Closed
<1>4. \A n \in Tree(x) : n = x \/ (n \notin held /\ \E q \in Tree(x) : IsChild(n, q))
  <2>1. ASSUME NEW n \in Tree(x), n # x PROVE \E q \in Tree(x) : IsChild(n, q)
    <3> DEFINE D == Tree(x)
    <3>1. D \in SUBSET used /\ Tree(x) \subseteq D
      BY <1>2
    <3> HIDE DEF D
    <3>2. \E q \in D : IsChild(n, q)
      BY <1>1, <2>1, <3>1, TreeParents
    <3> QED BY <3>2 DEF D
  <2> QED BY <1>2, <2>1, ChildFacts
<1>5. ASSUME NEW n \in Tree(x) PROVE prev[n] \in Tree(x) \cup {Nil}
  <2>1. CASE n = x
    BY <1>1, <2>1
  <2>2. CASE n # x
    <3>1. PICK q \in Tree(x) : IsChild(n, q)
      BY <1>4, <2>2
    <3>2. q \in used
      BY <1>2
    <3>3. PICK i \in 1 .. Len(kids[q]) : kids[q][i] = n
      BY <3>1, <3>2, PlaceFacts
    <3>4. Len(kids[q]) \in Nat
      BY <3>2, KidsSeq DEF TreeInv, TreeTypeOK
    <3>5. \A j \in 1 .. Len(kids[q]) : kids[q][j] \in Tree(x)
      BY <1>3, <3>2, ChildPointers
    <3>6. Len(kids[q]) \in 1 .. Len(kids[q]) /\ (i # 1 => i - 1 \in 1 .. Len(kids[q]))
      BY <3>4
    <3> QED BY <3>2, <3>3, <3>5, <3>6, ChildPointers
  <2> QED BY <2>1, <2>2
<1> QED BY <1>1, <1>2, <1>3, <1>4, <1>5 DEF Closed

LEMMA DuplicateInv ==
  ASSUME TreeInv, NEW x \in held, NEW f \in [Tree(x) -> Node \ used], Duplicate(x, f)
  PROVE  TreeInv'
<1> DEFINE T == Tree(x)
           C == {f[n] : n \in T}
           Src(m) == CHOOSE n \in T : f[n] = m
           Image(p) == IF p = Nil THEN Nil ELSE f[p]
<1>1. /\ \A m, n \in T : f[m] = f[n] => m = n
      /\ used' = used \cup C /\ held' = held \cup {f[x]}
      /\ kind' = [m \in Node |-> IF m \in C THEN kind[Src(m)] ELSE kind[m]]
      /\ key' = [m \in Node |-> IF m \in C THEN key[Src(m)] ELSE key[m]]
      /\ child' = [m \in Node |-> IF m \in C THEN Image(child[Src(m)]) ELSE child[m]]
      /\ next' = [m \in Node |-> IF m \in C THEN Image(next[Src(m)]) ELSE next[m]]
      /\ prev' = [m \in Node |-> IF m \in C THEN Image(prev[Src(m)]) ELSE prev[m]]
      /\ kids' = [m \in Node |-> IF m \in C
                                 THEN [i \in DOMAIN kids[Src(m)] |-> f[kids[Src(m)][i]]]
                                 ELSE kids[m]]
  BY DEF Duplicate
<1>2. /\ x \in T /\ T \subseteq used /\ x \in used
      /\ \A n \in T : n = x \/ (n \notin held /\ \E q \in T : IsChild(n, q))
      /\ \A q \in T : \A n : IsChild(n, q) => n \in T
      /\ \A n \in T : child[n] \in T \cup {Nil} /\ next[n] \in T \cup {Nil} /\ prev[n] \in T \cup {Nil}
  BY HeldTree
<1> HIDE DEF T
<1>3. /\ f \in [T -> Node \ used]
      /\ \A n \in T : f[n] \in Node /\ f[n] \notin used /\ f[n] \in C /\ f[n] # Nil
      /\ \A m \in C : Src(m) \in T /\ f[Src(m)] = m
  BY TreeAssumption DEF T
<1>4. \A n \in T : Src(f[n]) = n
  BY <1>1, <1>3
<1> HIDE DEF Src, C
<1>5. /\ \A m \in C : m \in Node /\ m \notin used
      /\ \A m \in C : \E n \in T : m = f[n]
  BY <1>3
<1>6. /\ child \in [Node -> Pointer] /\ next \in [Node -> Pointer] /\ prev \in [Node -> Pointer]
      /\ kids \in [Node -> Seq(Node)] /\ kind \in [Node -> Kind \cup {NoKind}]
      /\ key \in [Node -> Key \cup {NoKey}] /\ used \subseteq Node /\ held \subseteq used
      /\ Nil \in Pointer /\ \A n \in Node : n \in Pointer /\ n # Nil
  BY TreeAssumption DEF TreeInv, TreeTypeOK, Pointer
<1>7. \A n \in T : /\ child'[f[n]] = Image(child[n]) /\ next'[f[n]] = Image(next[n])
                   /\ prev'[f[n]] = Image(prev[n])
                   /\ kids'[f[n]] = [i \in DOMAIN kids[n] |-> f[kids[n][i]]]
  BY <1>1, <1>3, <1>4
<1>8. \A n \in used : /\ child'[n] = child[n] /\ next'[n] = next[n] /\ prev'[n] = prev[n]
                      /\ kids'[n] = kids[n]
  BY <1>1, <1>5, <1>6
<1>9. \A n \in T : /\ n \in used /\ n \in Node /\ kids[n] \in Seq(Node) /\ Len(kids[n]) \in Nat
                   /\ DOMAIN kids[n] = 1 .. Len(kids[n])
                   /\ \A i \in 1 .. Len(kids[n]) : kids[n][i] \in T
  <2>1. ASSUME NEW n \in T
        PROVE  /\ n \in used /\ n \in Node /\ kids[n] \in Seq(Node) /\ Len(kids[n]) \in Nat
               /\ DOMAIN kids[n] = 1 .. Len(kids[n])
               /\ \A i \in 1 .. Len(kids[n]) : kids[n][i] \in T
    BY <1>2, <1>6, ChildPointers
  <2> QED BY <2>1
<1>10. \A n \in T : /\ kids'[f[n]] \in Seq(Node) /\ Len(kids'[f[n]]) = Len(kids[n])
                    /\ DOMAIN kids'[f[n]] = 1 .. Len(kids[n])
                    /\ \A i \in 1 .. Len(kids[n]) : kids'[f[n]][i] = f[kids[n][i]]
  <2>1. ASSUME NEW n \in T
        PROVE  /\ kids'[f[n]] \in [1 .. Len(kids[n]) -> Node]
               /\ \A i \in 1 .. Len(kids[n]) : kids'[f[n]][i] = f[kids[n][i]]
    <3>1. kids'[f[n]] = [i \in 1 .. Len(kids[n]) |-> f[kids[n][i]]]
      BY <1>7, <1>9
    <3>2. \A i \in 1 .. Len(kids[n]) : f[kids[n][i]] \in Node
      BY <1>3, <1>9
    <3> QED BY <3>1, <3>2
  <2>2. ASSUME NEW n \in T
        PROVE  /\ kids'[f[n]] \in Seq(Node) /\ Len(kids'[f[n]]) = Len(kids[n])
               /\ DOMAIN kids'[f[n]] = 1 .. Len(kids[n])
    BY <1>9, <2>1, SeqOfFunction
  <2> QED BY <2>1, <2>2
<1>11. TreeTypeOK'
  <2>1. \A m \in C : /\ Image(child[Src(m)]) \in Pointer /\ Image(next[Src(m)]) \in Pointer
                     /\ Image(prev[Src(m)]) \in Pointer
    BY <1>2, <1>3, <1>6
  <2>2. child' \in [Node -> Pointer] /\ next' \in [Node -> Pointer] /\ prev' \in [Node -> Pointer]
    BY <1>1, <1>6, <2>1
  <2>3. kids' \in [Node -> Seq(Node)]
    <3>1. \A m \in C : [i \in DOMAIN kids[Src(m)] |-> f[kids[Src(m)][i]]] \in Seq(Node)
      BY <1>3, <1>7, <1>10
    <3> QED BY <1>1, <1>6, <3>1
  <2>4. \A m \in C : Src(m) \in Node
    BY <1>3, <1>9
  <2>5. kind' \in [Node -> Kind \cup {NoKind}] /\ key' \in [Node -> Key \cup {NoKey}]
    BY <1>1, <1>6, <2>4
  <2>6. held' \subseteq used' /\ used' \subseteq Node
    BY <1>1, <1>2, <1>3, <1>5, <1>6
  <2> QED BY <2>2, <2>3, <2>5, <2>6 DEF TreeTypeOK
<1>12. \A q, n \in T : IsChild(n, q) => IsChild(f[n], f[q])'
  <2>1. ASSUME NEW q \in T, NEW n \in T, IsChild(n, q) PROVE IsChild(f[n], f[q])'
    <3>1. PICK i \in 1 .. Len(kids[q]) : kids[q][i] = n
      BY <1>9, <2>1, ChildPlace
    <3> QED BY <1>10, <3>1 DEF IsChild
  <2> QED BY <2>1
<1>13. \A q \in used : \A n : IsChild(n, q)' <=> IsChild(n, q)
  BY <1>8 DEF IsChild
<1>14. Forest'
  <2>1. ASSUME NEW q \in used', NEW i \in DOMAIN kids'[q] PROVE kids'[q][i] \in used' \ held'
    <3>1. CASE q \in used
      <4>1. kids'[q][i] \in used \ held
        BY <1>8, <3>1 DEF TreeInv, Forest
      <4> QED BY <1>1, <1>2, <1>3, <4>1
    <3>2. CASE q \in C
      <4>1. PICK n \in T : q = f[n]
        BY <1>5, <3>2
      <4>2. i \in 1 .. Len(kids[n]) /\ kids'[q][i] = f[kids[n][i]] /\ kids[n][i] \in T
        BY <1>9, <1>10, <4>1
      <4>3. IsChild(kids[n][i], n) /\ kids[n][i] # x
        BY <1>9, <4>2, ChildPointers, ChildFacts
      <4> QED BY <1>1, <1>2, <1>3, <1>6, <4>2, <4>3
    <3> QED BY <1>1, <3>1, <3>2
  <2>2. ASSUME NEW n \in used' \ held' PROVE \E q \in used' : IsChild(n, q)'
    <3>1. CASE n \in used
      BY <1>1, <1>13, <3>1, HeldOrChild
    <3>2. CASE n \in C
      <4>1. PICK m \in T : n = f[m]
        BY <1>5, <3>2
      <4>2. m # x
        BY <1>1, <4>1
      <4>3. PICK q \in T : IsChild(m, q)
        BY <1>2, <4>2
      <4> QED BY <1>1, <1>3, <1>12, <4>1, <4>3
    <3> QED BY <1>1, <3>1, <3>2
  <2>3. ASSUME NEW q \in used', NEW r \in used', NEW i \in DOMAIN kids'[q], NEW j \in DOMAIN kids'[r],
               kids'[q][i] = kids'[r][j]
        PROVE  q = r /\ i = j
    <3>1. \A s \in used : \A o \in DOMAIN kids'[s] : kids'[s][o] \in used
      BY <1>8 DEF TreeInv, Forest
    <3>2. \A s \in C : \A o \in DOMAIN kids'[s] : kids'[s][o] \notin used
      <4>1. ASSUME NEW s \in C, NEW o \in DOMAIN kids'[s] PROVE kids'[s][o] \notin used
        <5>1. PICK m \in T : s = f[m]
          BY <1>5
        <5>2. o \in 1 .. Len(kids[m]) /\ kids'[s][o] = f[kids[m][o]] /\ kids[m][o] \in T
          BY <1>9, <1>10, <5>1
        <5> QED BY <1>3, <5>2
      <4> QED BY <4>1
    <3>3. CASE q \in used /\ r \in used
      BY <1>8, <2>3, <3>3 DEF TreeInv, Forest
    <3>4. CASE q \in C /\ r \in C
      <4>1. PICK m \in T, n \in T : q = f[m] /\ r = f[n]
        BY <1>5, <3>4
      <4>2. /\ i \in 1 .. Len(kids[m]) /\ j \in 1 .. Len(kids[n])
            /\ kids[m][i] \in T /\ kids[n][j] \in T
            /\ f[kids[m][i]] = f[kids[n][j]]
        BY <1>9, <1>10, <2>3, <4>1
      <4>3. kids[m][i] = kids[n][j]
        BY <1>1, <4>2
      <4> QED BY <1>9, <4>1, <4>2, <4>3, Places
    <3>5. CASE (q \in used /\ r \in C) \/ (q \in C /\ r \in used)
      <4>1. q \in used => kids'[q][i] \in used
        BY <3>1
      <4>2. r \in used => kids'[r][j] \in used
        BY <3>1
      <4>3. q \in C => kids'[q][i] \notin used
        BY <3>2
      <4>4. r \in C => kids'[r][j] \notin used
        BY <3>2
      <4> QED BY <2>3, <3>5, <4>1, <4>2, <4>3, <4>4
    <3>6. (q \in used \/ q \in C) /\ (r \in used \/ r \in C)
      BY <1>1
    <3> QED BY <3>3, <3>4, <3>5, <3>6
  <2> QED BY <2>1, <2>2, <2>3 DEF Forest
<1>15. Linked'
  <2>1. ASSUME NEW q \in used PROVE Represents(q)'
    <3>1. \A i \in DOMAIN kids[q] : kids[q][i] \in used
      BY DEF TreeInv, Forest
    <3> QED BY <1>8, <3>1, RepresentsFrame DEF TreeInv, Linked
  <2>2. ASSUME NEW n \in T PROVE Represents(f[n])'
    <3> DEFINE L == Len(kids[n])
    <3>1. L \in Nat /\ n \in used
      BY <1>9
    <3>2. ASSUME NEW i \in 1 .. L
          PROVE  /\ next'[kids'[f[n]][i]] = IF i = L THEN Nil ELSE kids'[f[n]][i + 1]
                 /\ prev'[kids'[f[n]][i]] = IF i = 1 THEN kids'[f[n]][L] ELSE kids'[f[n]][i - 1]
                 /\ child'[f[n]] = kids'[f[n]][1]
      <4>1. kids[n][i] \in T /\ kids'[f[n]][i] = f[kids[n][i]]
        BY <1>9, <1>10
      <4>2. /\ next[kids[n][i]] = IF i = L THEN Nil ELSE kids[n][i + 1]
            /\ prev[kids[n][i]] = IF i = 1 THEN kids[n][L] ELSE kids[n][i - 1]
            /\ child[n] = kids[n][1]
        BY <3>1, ChildPointers
      <4>3. 1 \in 1 .. L /\ L \in 1 .. L /\ (i # L => i + 1 \in 1 .. L) /\ (i # 1 => i - 1 \in 1 .. L)
        BY <3>1
      <4>4. \A j \in 1 .. L : Image(kids[n][j]) = kids'[f[n]][j]
        BY <1>6, <1>9, <1>10
      <4>5. /\ next'[kids'[f[n]][i]] = Image(next[kids[n][i]])
            /\ prev'[kids'[f[n]][i]] = Image(prev[kids[n][i]])
            /\ child'[f[n]] = Image(child[n])
        BY <1>7, <4>1
      <4>6. Image(Nil) = Nil
        OBVIOUS
      <4> HIDE DEF Image, L
      <4> QED BY <4>2, <4>3, <4>4, <4>5, <4>6
    <3>3. L = 0 => child'[f[n]] = Nil
      <4>1. L = 0 => kids[n] = <<>>
        BY <1>9
      <4>2. L = 0 => child[n] = Nil
        BY <3>1, <4>1 DEF TreeInv, Linked, Represents
      <4> QED BY <1>7, <4>2
    <3>4. kids'[f[n]] = <<>> <=> L = 0
      BY <1>10, <3>1
    <3>5. L # 0 => 1 \in 1 .. L
      BY <3>1
    <3> QED BY <1>10, <3>2, <3>3, <3>4, <3>5 DEF Represents
  <2>3. ASSUME NEW n \in held' PROVE next'[n] = Nil /\ prev'[n] = Nil
    <3>1. CASE n \in held
      BY <1>6, <1>8, <3>1 DEF TreeInv, Linked
    <3>2. CASE n = f[x]
      <4>1. next[x] = Nil /\ prev[x] = Nil
        BY DEF TreeInv, Linked
      <4> QED BY <1>2, <1>7, <3>2, <4>1
    <3> QED BY <1>1, <3>1, <3>2
  <2> QED BY <1>1, <1>5, <2>1, <2>2, <2>3 DEF Linked
<1>16. Rooted'
  <2> SUFFICES ASSUME NEW S \in SUBSET used', S # {}
               PROVE  \E n \in S : n \in held' \/ \E q \in used' \ S : IsChild(n, q)'
    BY DEF Rooted
  <2>1. CASE S \cap used # {}
    <3>1. PICK n \in S \cap used : n \in held \/ \E q \in used \ (S \cap used) : IsChild(n, q)
      BY <2>1 DEF TreeInv, Rooted
    <3> QED BY <1>1, <1>13, <3>1
  <2>2. CASE S \cap used = {}
    <3> DEFINE R == {n \in T : f[n] \in S}
    <3>1. R \in SUBSET used /\ R # {}
      BY <1>1, <1>2, <1>5, <2>2
    <3>2. PICK n \in R : n \in held \/ \E q \in used \ R : IsChild(n, q)
      BY <3>1 DEF TreeInv, Rooted
    <3>3. n \in T /\ f[n] \in S /\ n \in used
      BY <1>2
    <3>4. CASE n = x
      BY <1>1, <3>3, <3>4
    <3>5. CASE n # x
      <4>1. n \notin held
        BY <1>2, <3>3, <3>5
      <4>2. PICK q \in T : IsChild(n, q)
        BY <1>2, <3>3, <3>5
      <4>3. q \notin R
        BY <1>2, <3>2, <3>3, <4>1, <4>2, ChildFacts
      <4>4. f[q] \in used' \ S
        BY <1>1, <1>3, <4>3
      <4> QED BY <1>12, <3>3, <4>2, <4>4
    <3> QED BY <3>4, <3>5
  <2> QED BY <2>1, <2>2
<1> QED BY <1>11, <1>14, <1>15, <1>16 DEF TreeInv

-----------------------------------------------------------------------------
(* The theorems.                                                           *)

LEMMA NextInv == TreeInv /\ [TreeNext]_treeVars => TreeInv'
<1> SUFFICES ASSUME TreeInv, [TreeNext]_treeVars PROVE TreeInv'
  OBVIOUS
<1>1. CASE \E x \in Node, k \in Kind : Create(x, k)
  BY <1>1, CreateInv
<1>2. CASE \E p, x \in Node, name \in Key \cup {NoKey} : AddItem(p, x, name)
  BY <1>2, AddItemInv
<1>3. CASE \E p, y, x \in Node : InsertItem(p, y, x)
  BY <1>3, InsertItemInv
<1>4. CASE \E p, x \in Node : Detach(p, x)
  BY <1>4, DetachInv
<1>5. CASE \E p, y, x \in Node, name \in Key \cup {NoKey} : Replace(p, y, x, name)
  BY <1>5, ReplaceInv
<1>6. CASE \E x \in Node : Delete(x)
  BY <1>6, DeleteInv
<1>7. CASE \E x \in held : \E f \in [Tree(x) -> Node \ used] : Duplicate(x, f)
  BY <1>7, DuplicateInv
<1>8. CASE UNCHANGED treeVars
  <2>1. /\ used' = used /\ kind' = kind /\ key' = key /\ child' = child /\ next' = next
        /\ prev' = prev /\ kids' = kids /\ held' = held
    BY <1>8 DEF treeVars, links
  <2>2. TreeTypeOK'
    BY <2>1 DEF TreeInv, TreeTypeOK
  <2>3. Forest' /\ Rooted'
    BY <2>1 DEF TreeInv, Forest, Rooted, IsChild
  <2>4. Linked'
    BY <2>1 DEF TreeInv, Linked, Represents
  <2> QED BY <2>2, <2>3, <2>4 DEF TreeInv
<1> QED BY <1>1, <1>2, <1>3, <1>4, <1>5, <1>6, <1>7, <1>8 DEF TreeNext

(* The trees are well formed whatever calls are made, for any number of    *)
(* items; that nobody is its own ancestor is what deleting needs to end.   *)
THEOREM TreeInvariant == TreeSpec => []TreeInv
<1> QED BY InitInv, NextInv, PTL DEF TreeSpec

(* The types of the items and their pointers. *)
THEOREM TreeTypes == TreeSpec => []TreeTypeOK
<1>1. TreeInv => TreeTypeOK
  BY DEF TreeInv
<1> QED BY <1>1, TreeInvariant, PTL

(* No item is lost, and none has two places: cJSON_Delete frees each once. *)
THEOREM TreeForest == TreeSpec => []Forest
<1>1. TreeInv => Forest
  BY DEF TreeInv
<1> QED BY <1>1, TreeInvariant, PTL

(* The pointers of every parent walk its children, in both directions. *)
THEOREM TreeLinked == TreeSpec => []Linked
<1>1. TreeInv => Linked
  BY DEF TreeInv
<1> QED BY <1>1, TreeInvariant, PTL

-----------------------------------------------------------------------------
(* The print buffer and the escape sequences.                              *)

(* ensure() returns a buffer with room for the piece and a null character, *)
(* which is no larger than INT_MAX unless the caller's was.                *)
LEMMA EnsureRoom ==
  ASSUME NEW b \in PrintBuffers, NEW needed \in Nat, Ensure(b, needed).ok
  PROVE  LET e == Ensure(b, needed)
         IN /\ e.offset = b.offset /\ e.overrun = b.overrun
            /\ e.offset + needed + 1 <= e.length
            /\ b.length <= e.length
            /\ e.length <= IntMax \/ e.length = b.length
<1> USE IntMaxAssumption DEF PrintBuffers
<1> DEFINE wanted == needed + b.offset + 1
<1>1. wanted \in Nat /\ b.ok /\ Ensure(b, needed) # Fail(b)
  <2>1. ~Fail(b).ok
    BY DEF Fail
  <2>2. ~b.ok => Ensure(b, needed) = Fail(b)
    BY DEF Ensure
  <2> QED BY <2>1, <2>2
<1>2. CASE wanted <= b.length
  <2>1. Ensure(b, needed) = b
    BY <1>1, <1>2 DEF Ensure
  <2> QED BY <1>2, <2>1
<1>3. CASE wanted > b.length
  <2>1. wanted <= IntMax
        /\ Ensure(b, needed) =
             [b EXCEPT !.length = IF wanted > IntMax \div 2 THEN IntMax ELSE 2 * wanted]
    BY <1>1, <1>3 DEF Ensure
  <2>2. CASE wanted > IntMax \div 2
    BY <1>1, <1>3, <2>1, <2>2
  <2>3. CASE wanted <= IntMax \div 2
    <3>1. 2 * wanted <= IntMax /\ 2 * wanted \in Nat
      BY <1>1, <2>3
    <3> QED BY <1>1, <1>3, <2>1, <2>3, <3>1
  <2> QED BY <1>1, <2>2, <2>3
<1> QED BY <1>1, <1>2, <1>3

(* Ensure keeps the type, also where it fails. *)
LEMMA EnsureType ==
  ASSUME NEW b \in PrintBuffers, NEW needed \in Nat
  PROVE  Ensure(b, needed) \in PrintBuffers
         /\ Ensure(b, needed).overrun = b.overrun
         /\ Ensure(b, needed).noalloc = b.noalloc
<1> USE IntMaxAssumption DEF PrintBuffers
<1>1. Ensure(b, needed) \in
        {b, Fail(b), [b EXCEPT !.length = IntMax], [b EXCEPT !.length = 2 * (needed + b.offset + 1)]}
  BY DEF Ensure
<1>2. 2 * (needed + b.offset + 1) \in Nat /\ IntMax \in Nat
  OBVIOUS
<1> QED BY <1>1, <1>2 DEF Fail

(* A piece that keeps to its request is not written past the end. *)
LEMMA PutFits ==
  ASSUME NEW b \in PrintBuffers, ~b.overrun, NEW needed \in Nat, NEW chars \in Nat,
         NEW terminated \in {0, 1}, chars + terminated <= needed + 1
  PROVE  /\ Put(b, needed, chars, terminated) \in PrintBuffers
         /\ ~Put(b, needed, chars, terminated).overrun
<1> DEFINE e == Ensure(b, needed)
<1>1. e \in PrintBuffers /\ ~e.overrun
  BY EnsureType
<1>2. CASE ~e.ok
  <2>1. Put(b, needed, chars, terminated) = e
    BY <1>2 DEF Put
  <2> QED BY <1>1, <2>1
<1>3. CASE e.ok
  <2>1. e.offset + needed + 1 <= e.length
    BY <1>3, EnsureRoom
  <2>2. e.offset \in Nat /\ e.length \in Nat
    BY <1>1 DEF PrintBuffers
  <2>3. Put(b, needed, chars, terminated) =
          [e EXCEPT !.offset = e.offset + chars,
                    !.overrun = e.overrun \/ e.offset + chars + terminated > e.length]
    BY <1>3 DEF Put
  <2>4. ~(e.offset + chars + terminated > e.length) /\ e.offset + chars \in Nat
    BY <2>1, <2>2
  <2> HIDE DEF e
  <2> QED BY <1>1, <2>3, <2>4 DEF PrintBuffers
<1> QED BY <1>2, <1>3

-----------------------------------------------------------------------------
(* Printing: one piece after the other.                                    *)

VARIABLE buffer

(* print_value and the functions it calls ask ensure() for needed and then *)
(* write at most so many characters; where they write a null character,    *)
(* too, they have asked for one more or count on the one ensure() adds.    *)
PrintPiece ==
    \E needed, chars \in Nat, terminated \in {0, 1} :
        /\ chars + terminated <= needed + 1
        /\ buffer' = Put(buffer, needed, chars, terminated)

(* A print starts with any size, in a buffer of its own or the caller's.   *)
PrintInit ==
    buffer \in {b \in PrintBuffers : b.offset = 0 /\ b.ok /\ ~b.overrun}

PrintSpec == PrintInit /\ [][PrintPiece]_buffer

BufferInv == buffer \in PrintBuffers /\ ~buffer.overrun

(* No piece is ever written past the end of the buffer: the additions near *)
(* INT_MAX and the doubling leave no size for which the room is one short. *)
THEOREM PrintNeverOverruns == PrintSpec => []BufferInv
<1>1. PrintInit => BufferInv
  BY DEF PrintInit, BufferInv
<1>2. BufferInv /\ [PrintPiece]_buffer => BufferInv'
  BY PutFits DEF BufferInv, PrintPiece
<1> QED BY <1>1, <1>2, PTL DEF PrintSpec

(* A buffer of the caller is never made larger. *)
THEOREM CallersBufferStays ==
  ASSUME NEW b \in PrintBuffers, b.noalloc, NEW needed \in Nat
  PROVE  Ensure(b, needed).length = b.length
  BY DEF PrintBuffers, Ensure, Fail

-----------------------------------------------------------------------------
(* UTF-16 and UTF-8.                                                       *)

CodeUnit == {n \in Nat : n < 65536}

LastCodePoint == 1114111    \* 10FFFF

Scalar == {c \in Nat : c <= LastCodePoint /\ c \notin HighSurrogate \cup LowSurrogate}

(* The code units of a code point beyond FFFF, and what bytes of UTF-8 say. *)
HighUnit(c) == 55296 + ((c - 65536) \div 1024)
LowUnit(c)  == 56320 + ((c - 65536) % 1024)

Bits(byte) == byte - 128

ScalarOf(bytes) ==
    CASE Len(bytes) = 1 -> bytes[1]
      [] Len(bytes) = 2 -> (bytes[1] - 192) * 64 + Bits(bytes[2])
      [] Len(bytes) = 3 -> ((bytes[1] - 224) * 64 + Bits(bytes[2])) * 64 + Bits(bytes[3])
      [] Len(bytes) = 4 -> (((bytes[1] - 240) * 64 + Bits(bytes[2])) * 64
                            + Bits(bytes[3])) * 64 + Bits(bytes[4])

(* The bytes a code point needs. *)
ByteCount(c) == IF c < 128 THEN 1 ELSE IF c < 2048 THEN 2 ELSE IF c < 65536 THEN 3 ELSE 4

(* The first byte tells how many follow, and those are 10xxxxxx. *)
WellFormed(bytes) ==
    /\ Len(bytes) \in 1 .. 4
    /\ bytes[1] \in CASE Len(bytes) = 1 -> 0 .. 127
                     [] Len(bytes) = 2 -> 194 .. 223
                     [] Len(bytes) = 3 -> 224 .. 239
                     [] Len(bytes) = 4 -> 240 .. 244
    /\ \A i \in 2 .. Len(bytes) : bytes[i] \in 128 .. 191

(* Division by 64 in steps, as the loop of the code does it. *)
LEMMA Sextets ==
  ASSUME NEW c \in Nat, c <= LastCodePoint
  PROVE  /\ c \div 64 \in Nat /\ c \div 4096 \in Nat /\ c \div 262144 \in 0 .. 4
         /\ c = (c \div 64) * 64 + (c % 64)
         /\ c \div 64 = (c \div 4096) * 64 + ((c \div 64) % 64)
         /\ c \div 4096 = (c \div 262144) * 64 + ((c \div 4096) % 64)
         /\ c % 64 \in 0 .. 63 /\ (c \div 64) % 64 \in 0 .. 63 /\ (c \div 4096) % 64 \in 0 .. 63
<1>1. c \div 64 \in Nat /\ c \div 4096 \in Nat /\ c \div 262144 \in 0 .. 4
  BY SMT DEF LastCodePoint
<1>2. /\ c = (c \div 64) * 64 + (c % 64)
      /\ c \div 64 = (c \div 4096) * 64 + ((c \div 64) % 64)
      /\ c \div 4096 = (c \div 262144) * 64 + ((c \div 4096) % 64)
  BY SMT DEF LastCodePoint
<1>3. \A n \in Nat : n % 64 \in 0 .. 63
  BY SMT DEF LastCodePoint
<1> QED BY <1>1, <1>2, <1>3, SMT

(* utf16_literal_to_utf8 writes well-formed UTF-8 that says the same code  *)
(* point, in as few bytes as the code point needs.                         *)
THEOREM Utf8Exact ==
  ASSUME NEW c \in Nat, c <= LastCodePoint
  PROVE  /\ WellFormed(Utf8(c)) /\ ScalarOf(Utf8(c)) = c
         /\ Len(Utf8(c)) = ByteCount(c)
<1> DEFINE q == c \div 64    r == c % 64    s == q % 64
           t == c \div 4096  u == t % 64    v == c \div 262144
<1>0. /\ q \in Nat /\ t \in Nat /\ v \in 0 .. 4 /\ r \in 0 .. 63 /\ s \in 0 .. 63 /\ u \in 0 .. 63
      /\ c = q * 64 + r /\ q = t * 64 + s /\ t = v * 64 + u
  BY Sextets, SMT
<1>5. Utf8(c) = IF c < 128 THEN << c >>
                ELSE IF c < 2048 THEN <<192 + q, 128 + r>>
                ELSE IF c < 65536 THEN <<224 + t, 128 + s, 128 + r>>
                ELSE <<240 + v, 128 + u, 128 + s, 128 + r>>
  BY SMT DEF Utf8, Continuation
<1> HIDE DEF q, r, s, t, u, v
<1>1. CASE c < 128
  <2>1. Utf8(c) = << c >>
    BY <1>1, <1>5, SMT
  <2> QED BY <1>1, <2>1, SMT DEF WellFormed, ScalarOf, ByteCount
<1>2. CASE 128 <= c /\ c < 2048
  <2> DEFINE a == 192 + q
             w == <<a, 128 + r>>
  <2>1. Utf8(c) = w
    BY <1>2, <1>5, SMT
  <2>2. a \in 194 .. 223 /\ (a - 192) * 64 + r = c
    BY <1>0, <1>2, SMT
  <2> HIDE DEF a
  <2>4. w = <<a, 128 + r>>
    BY SMT
  <2> HIDE DEF w
  <2>3. WellFormed(w) /\ Len(w) = 2 /\ ScalarOf(w) = c
    <3>1. a \in 194 .. 223 /\ r \in 0 .. 63
      BY <1>0, <2>2
    <3>2. WellFormed(w) /\ Len(w) = 2 /\ ScalarOf(w) = (a - 192) * 64 + r
      BY <2>4, <3>1, SMT DEF WellFormed, ScalarOf, Bits
    <3> QED BY <2>2, <3>2
  <2> QED BY <1>2, <2>1, <2>3, SMT DEF ByteCount
<1>3. CASE 2048 <= c /\ c < 65536
  <2> DEFINE a == 224 + t
             w == <<a, 128 + s, 128 + r>>
  <2>1. Utf8(c) = w
    BY <1>3, <1>5, SMT
  <2>2. a \in 224 .. 239 /\ ((a - 224) * 64 + s) * 64 + r = c
    BY <1>0, <1>3, SMT
  <2> HIDE DEF a
  <2>4. w = <<a, 128 + s, 128 + r>>
    BY SMT
  <2> HIDE DEF w
  <2>3. WellFormed(w) /\ Len(w) = 3 /\ ScalarOf(w) = c
    <3>1. a \in 224 .. 239 /\ s \in 0 .. 63 /\ r \in 0 .. 63
      BY <1>0, <2>2
    <3>2. WellFormed(w) /\ Len(w) = 3 /\ ScalarOf(w) = ((a - 224) * 64 + s) * 64 + r
      BY <2>4, <3>1, SMT DEF WellFormed, ScalarOf, Bits
    <3> QED BY <2>2, <3>2
  <2> QED BY <1>3, <2>1, <2>3, SMT DEF ByteCount
<1>4. CASE 65536 <= c
  <2> DEFINE a == 240 + v
             w == <<a, 128 + u, 128 + s, 128 + r>>
  <2>1. Utf8(c) = w
    BY <1>4, <1>5, SMT
  <2>2. a \in 240 .. 244 /\ (((a - 240) * 64 + u) * 64 + s) * 64 + r = c
    BY <1>0, SMT
  <2> HIDE DEF a
  <2>4. w = <<a, 128 + u, 128 + s, 128 + r>>
    BY SMT
  <2> HIDE DEF w
  <2>3. WellFormed(w) /\ Len(w) = 4 /\ ScalarOf(w) = c
    <3>1. a \in 240 .. 244 /\ u \in 0 .. 63 /\ s \in 0 .. 63 /\ r \in 0 .. 63
      BY <1>0, <2>2
    <3>2. WellFormed(w) /\ Len(w) = 4 /\ ScalarOf(w) = (((a - 240) * 64 + u) * 64 + s) * 64 + r
      BY <2>4, <3>1, SMT DEF WellFormed, ScalarOf, Bits
    <3> QED BY <2>2, <3>2
  <2> QED BY <1>4, <2>1, <2>3, SMT DEF ByteCount
<1> QED BY <1>1, <1>2, <1>3, <1>4, SMT

LEMMA SurrogatesDisjoint ==
  ASSUME NEW n \in HighSurrogate
  PROVE  n \notin LowSurrogate
<1>1. n \in Int /\ n <= 56319
  BY SMT DEF HighSurrogate
<1> QED BY <1>1, SMT DEF LowSurrogate

(* One sequence gives the code points up to FFFF, a surrogate pair exactly *)
(* the others, and a surrogate that is not part of a pair gives none.      *)
THEOREM CodePointExact ==
  /\ \A c \in Scalar : c < 65536 => \A second \in CodeUnit \cup {NoCode} : CodePoint(c, second) = c
  /\ \A c \in Scalar : c >= 65536 => CodePoint(HighUnit(c), LowUnit(c)) = c
  /\ \A first \in CodeUnit, second \in CodeUnit \cup {NoCode} :
       CodePoint(first, second) \in Scalar \cup {NoCode}
  /\ \A first \in CodeUnit, second \in CodeUnit \cup {NoCode} :
       CodePoint(first, second) = NoCode <=>
         first \in LowSurrogate \/ (first \in HighSurrogate /\ second \notin LowSurrogate)
<1> USE DEF Scalar, LastCodePoint, HighSurrogate, LowSurrogate, CodeUnit, NoCode
<1>1. ASSUME NEW c \in Scalar, c < 65536, NEW second \in CodeUnit \cup {NoCode}
      PROVE  CodePoint(c, second) = c
  BY <1>1, SMT DEF CodePoint
<1>2. ASSUME NEW c \in Scalar, c >= 65536
      PROVE  CodePoint(HighUnit(c), LowUnit(c)) = c
  <2> DEFINE d == c - 65536
  <2>1. d \in Nat /\ d <= 1048575 /\ c = d + 65536
    BY <1>2, SMT
  <2>2. d \div 1024 \in 0 .. 1023 /\ d % 1024 \in 0 .. 1023 /\ d = (d \div 1024) * 1024 + (d % 1024)
    BY <2>1, SMT
  <2>3. HighUnit(c) = 55296 + (d \div 1024) /\ LowUnit(c) = 56320 + (d % 1024)
    BY SMT DEF HighUnit, LowUnit
  <2>4. HighUnit(c) \in HighSurrogate /\ LowUnit(c) \in LowSurrogate
    BY <2>2, <2>3, SMT
  <2>5. HighUnit(c) % 1024 = d \div 1024 /\ LowUnit(c) % 1024 = d % 1024
    BY <2>2, <2>3, SMT
  <2>6. CodePoint(HighUnit(c), LowUnit(c)) =
          65536 + (HighUnit(c) % 1024) * 1024 + (LowUnit(c) % 1024)
    <3> HIDE DEF HighSurrogate, LowSurrogate
    <3>1. HighUnit(c) \notin LowSurrogate
      BY <2>4, SurrogatesDisjoint, SMT
    <3> QED BY <2>4, <3>1, SMT DEF CodePoint
  <2> HIDE DEF d
  <2> QED BY <2>1, <2>2, <2>5, <2>6, SMT
<1>3. ASSUME NEW first \in CodeUnit, NEW second \in CodeUnit \cup {NoCode}
      PROVE  /\ CodePoint(first, second) \in Scalar \cup {NoCode}
             /\ CodePoint(first, second) = NoCode <=>
                  first \in LowSurrogate \/ (first \in HighSurrogate /\ second \notin LowSurrogate)
  <2>1. CASE first \in LowSurrogate
    <3>1. CodePoint(first, second) = NoCode
      BY <2>1, SMT DEF CodePoint
    <3> HIDE DEF NoCode
    <3> QED BY <2>1, <3>1, SMT
  <2>2. CASE first \notin LowSurrogate \cup HighSurrogate
    BY <2>2, SMT DEF CodePoint
  <2>3. CASE first \in HighSurrogate /\ second \notin LowSurrogate
    <3>1. first \notin LowSurrogate
      BY <2>3, SMT
    <3> HIDE DEF HighSurrogate, LowSurrogate
    <3>2. CodePoint(first, second) = NoCode
      BY <2>3, <3>1, SMT DEF CodePoint
    <3> HIDE DEF NoCode
    <3> QED BY <2>3, <3>2, SMT
  <2>4. CASE first \in HighSurrogate /\ second \in LowSurrogate
    <3>1. CodePoint(first, second) = 65536 + (first % 1024) * 1024 + (second % 1024)
      BY <2>4, SMT DEF CodePoint
    <3>2. first % 1024 \in 0 .. 1023 /\ second % 1024 \in 0 .. 1023
      BY <2>4, SMT
    <3> DEFINE h == first % 1024  l == second % 1024  c == CodePoint(first, second)
    <3> HIDE DEF h, l, c
    <3>3. c = 65536 + h * 1024 + l /\ h \in 0 .. 1023 /\ l \in 0 .. 1023
      BY <3>1, <3>2 DEF h, l, c
    <3>4. c \in Scalar /\ c # NoCode
      BY <3>3, SMT
    <3>5. first \notin LowSurrogate
      BY <2>4, SMT
    <3> QED BY <2>4, <3>4, <3>5 DEF c
  <2> QED BY <2>1, <2>2, <2>3, <2>4, SMT
<1> QED BY <1>1, <1>2, <1>3, SMT

(* What is unescaped fits in the room parse_string allocates: the length   *)
(* of the text without one character for each escape sequence.             *)
THEOREM LiteralFits ==
  ASSUME NEW first \in CodeUnit, NEW second \in CodeUnit \cup {NoCode},
         CodePoint(first, second) # NoCode
  PROVE  LET escapes == SequenceLength(first) \div 6
         IN Len(Utf8(CodePoint(first, second))) + escapes <= SequenceLength(first)
<1> DEFINE c == CodePoint(first, second)
<1>1. c \in Nat /\ c <= LastCodePoint
  BY CodePointExact, SMT DEF Scalar
<1>2. first \notin HighSurrogate => c < 65536
  BY SMT DEF CodePoint, CodeUnit, NoCode
<1>4. SequenceLength(first) = 6 \/ (SequenceLength(first) = 12 /\ first \in HighSurrogate)
  BY SMT DEF SequenceLength
<1> HIDE DEF c
<1>3. Len(Utf8(c)) \in Nat /\ Len(Utf8(c)) <= 4 /\ (c < 65536 => Len(Utf8(c)) <= 3)
  <2>1. Len(Utf8(c)) = ByteCount(c)
    BY <1>1, Utf8Exact
  <2> QED BY <1>1, <2>1, SMT DEF ByteCount
<1>6. Len(Utf8(c)) + (SequenceLength(first) \div 6) <= SequenceLength(first)
  <2>1. CASE SequenceLength(first) = 12
    BY <1>3, <2>1, SMT
  <2>2. CASE SequenceLength(first) # 12
    BY <1>2, <1>3, <1>4, <2>2, SMT
  <2> QED BY <2>1, <2>2
<1> QED BY <1>6 DEF c

=============================================================================
