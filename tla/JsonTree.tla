------------------------------ MODULE JsonTree ------------------------------
(***************************************************************************)
(* The trees in which cJSON keeps the output of the tool: an item has a    *)
(* pointer to its first child, the children of one parent are linked by    *)
(* next and prev, the prev of the first child is the last one, and the     *)
(* next of the last one is null.                                           *)
(*                                                                         *)
(* The client makes any sequence of the calls that cJSON allows: an item   *)
(* that it adds is one it holds, and not the tree it adds it to.  kids is  *)
(* what the client believes; the pointers are what the code makes of it.   *)
(***************************************************************************)
EXTENDS Naturals, Sequences

CONSTANTS
    Node,       \* the memory an item may be given
    Nil,        \* the null pointer
    Kind,       \* the types of an item: "array", "object" and scalar ones
    NoKind,     \* cJSON_Invalid
    Key,        \* the names of items in objects
    NoKey       \* the name of an item that was never in an object

ASSUME TreeAssumption == Nil \notin Node /\ NoKey \notin Key /\ NoKind \notin Kind

VARIABLES
    used,       \* the items that are allocated
    kind,       \* type
    key,        \* string
    child,
    next,
    prev,
    kids,       \* history: the children of each item, in order
    held        \* history: the items the client holds: they have no parent

links    == <<child, next, prev>>
treeVars == <<used, kind, key, links, kids, held>>

Pointer == Node \cup {Nil}

TreeTypeOK ==
    /\ used \subseteq Node
    /\ kind \in [Node -> Kind \cup {NoKind}]
    /\ key \in [Node -> Key \cup {NoKey}]
    /\ child \in [Node -> Pointer] /\ next \in [Node -> Pointer] /\ prev \in [Node -> Pointer]
    /\ kids \in [Node -> Seq(Node)]
    /\ held \subseteq used

Container(p) == p \in used /\ kind[p] \in {"array", "object"}

(* The items of the tree under x, as cJSON_Delete finds them: it deletes   *)
(* the child of each item and then follows next.                           *)
Closed(S) == \A n \in S : child[n] \in S \cup {Nil} /\ next[n] \in S \cup {Nil}

Tree(x) == {n \in used : \A S \in SUBSET used : x \in S /\ Closed(S) => n \in S}

IsChild(x, p) == \E i \in DOMAIN kids[p] : kids[p][i] = x

PlaceOf(x, p) == CHOOSE i \in DOMAIN kids[p] : kids[p][i] = x

(* The sequence s with x before place i, without place i, with x at i. *)
InsertedAt(s, i, x) ==
    [j \in 1 .. Len(s) + 1 |-> IF j < i THEN s[j] ELSE IF j = i THEN x ELSE s[j - 1]]
Without(s, i) == [j \in 1 .. Len(s) - 1 |-> IF j < i THEN s[j] ELSE s[j + 1]]

-----------------------------------------------------------------------------

TreeInit ==
    /\ used = {} /\ held = {}
    /\ kind = [n \in Node |-> NoKind]
    /\ key = [n \in Node |-> NoKey]
    /\ child = [n \in Node |-> Nil] /\ next = child /\ prev = child
    /\ kids = [n \in Node |-> <<>>]

(* cJSON_Create...: nothing happens when there is no memory. *)
Create(x, k) ==
    /\ x \in Node \ used
    /\ used' = used \cup {x} /\ held' = held \cup {x}
    /\ kind' = [kind EXCEPT ![x] = k]
    /\ key' = [key EXCEPT ![x] = NoKey]
    /\ child' = [child EXCEPT ![x] = Nil]
    /\ next' = [next EXCEPT ![x] = Nil]
    /\ prev' = [prev EXCEPT ![x] = Nil]
    /\ kids' = [kids EXCEPT ![x] = <<>>]

(* What the client may add to p: another tree than the one p is in. *)
MayAdd(p, x) == Container(p) /\ x \in held \ {p} /\ p \notin Tree(x)

(* add_item_to_array finds the last child by the prev of the first one. *)
AppendLinks(p, x) ==
    IF child[p] = Nil
    THEN /\ child' = [child EXCEPT ![p] = x]
         /\ prev' = [prev EXCEPT ![x] = x]
         /\ next' = [next EXCEPT ![x] = Nil]
    ELSE /\ next' = [next EXCEPT ![prev[child[p]]] = x]
         /\ prev' = [prev EXCEPT ![x] = prev[child[p]], ![child[p]] = x]
         /\ UNCHANGED child

(* cJSON_AddItemToArray, and with a name cJSON_AddItemToObject, which      *)
(* changes nothing when there is no memory for the name.                   *)
AddItem(p, x, name) ==
    /\ MayAdd(p, x)
    /\ name \in IF kind[p] = "object" THEN Key ELSE {key[x]}
    /\ key' = [key EXCEPT ![x] = name]
    /\ AppendLinks(p, x)
    /\ kids' = [kids EXCEPT ![p] = Append(@, x)]
    /\ held' = held \ {x}
    /\ UNCHANGED <<used, kind>>

(* cJSON_InsertItemInArray before item y. *)
InsertItem(p, y, x) ==
    /\ IsChild(y, p) /\ MayAdd(p, x)
    /\ kind[p] = "object" => key[x] # NoKey
    /\ next' = IF y = child[p] THEN [next EXCEPT ![x] = y]
                               ELSE [next EXCEPT ![x] = y, ![prev[y]] = x]
    /\ prev' = [prev EXCEPT ![x] = prev[y], ![y] = x]
    /\ child' = IF y = child[p] THEN [child EXCEPT ![p] = x] ELSE child
    /\ kids' = [kids EXCEPT ![p] = InsertedAt(@, PlaceOf(y, p), x)]
    /\ held' = held \ {x}
    /\ UNCHANGED <<used, kind, key>>

(* The links of p without x, in cJSON_DetachItemViaPointer: of a first     *)
(* child that is not the only one the prev goes to the second.             *)
DetachedNext(p, x) ==
    IF x # child[p] THEN [next EXCEPT ![prev[x]] = next[x], ![x] = Nil]
                    ELSE [next EXCEPT ![x] = Nil]

(* Mutant: the last child is not noted in the first one. *)
DetachedPrevNoTail(p, x) ==
    IF next[x] # Nil THEN [prev EXCEPT ![next[x]] = prev[x], ![x] = Nil]
                     ELSE [prev EXCEPT ![x] = Nil]

DetachedPrev(p, x) ==
    IF next[x] # Nil THEN [prev EXCEPT ![next[x]] = prev[x], ![x] = Nil]
    ELSE IF x # child[p] THEN [prev EXCEPT ![child[p]] = prev[x], ![x] = Nil]
    ELSE [prev EXCEPT ![x] = Nil]

Detach(p, x) ==
    /\ p \in used /\ IsChild(x, p)
    /\ next' = DetachedNext(p, x)
    /\ prev' = DetachedPrev(p, x)
    /\ child' = IF x = child[p] THEN [child EXCEPT ![p] = next[x]] ELSE child
    /\ kids' = [kids EXCEPT ![p] = Without(@, PlaceOf(x, p))]
    /\ held' = held \cup {x}
    /\ UNCHANGED <<used, kind, key>>

(* Mutant: of the items below x only its own children are deleted. *)
DeletedShallow(x) == {x} \cup {n \in used : IsChild(n, x)}

(* What cJSON_Delete deletes of x, which has no next any more. *)
Deleted(x) == {x} \cup IF child[x] = Nil THEN {} ELSE Tree(child[x])

(* g without what it said of the items in D; nothing is read of them again. *)
Forgotten(g, D, nothing) == [n \in Node |-> IF n \in D THEN nothing ELSE g[n]]

(* cJSON_Delete of an item that the client holds. *)
Delete(x) ==
    LET D == Deleted(x)
    IN /\ x \in held
       /\ used' = used \ D
       /\ held' = held \ {x}
       /\ kind' = Forgotten(kind, D, NoKind)
       /\ key' = Forgotten(key, D, NoKey)
       /\ child' = Forgotten(child, D, Nil)
       /\ next' = Forgotten(next, D, Nil)
       /\ prev' = Forgotten(prev, D, Nil)
       /\ kids' = Forgotten(kids, D, <<>>)

(* The links of p with x in the place of y, in cJSON_ReplaceItemViaPointer;*)
(* an only child is its own prev.                                          *)
ReplacedPrev(p, y, x) ==
    [n \in Node |->
        IF n = x THEN IF child[p] = y /\ prev[y] = y THEN x ELSE prev[y]
        ELSE IF n = next[y] \/ (n = child[p] /\ next[y] = Nil) THEN x
        ELSE prev[n]]

ReplacedNext(p, y, x) ==
    [n \in Node |->
        IF n = x THEN next[y]
        ELSE IF child[p] # y /\ n = prev[y] THEN x
        ELSE next[n]]

(* cJSON_ReplaceItemViaPointer, which deletes y; x may take its name       *)
(* (cJSON_ReplaceItemInObject).                                            *)
Replace(p, y, x, name) ==
    LET D == Deleted(y)
    IN /\ IsChild(y, p) /\ MayAdd(p, x)
       /\ name \in {key[x], key[y]}
       /\ kind[p] = "object" => name # NoKey
       /\ used' = used \ D
       /\ held' = held \ {x}
       /\ kind' = Forgotten(kind, D, NoKind)
       /\ key' = Forgotten([key EXCEPT ![x] = name], D, NoKey)
       /\ child' = Forgotten(IF child[p] = y THEN [child EXCEPT ![p] = x] ELSE child,
                             D, Nil)
       /\ next' = Forgotten(ReplacedNext(p, y, x), D, Nil)
       /\ prev' = Forgotten(ReplacedPrev(p, y, x), D, Nil)
       /\ kids' = Forgotten([kids EXCEPT ![p][PlaceOf(y, p)] = x], D, <<>>)

(* cJSON_Duplicate: f gives each item of the tree a copy.  With too little *)
(* memory the copies made so far are deleted again.                        *)
Duplicate(x, f) ==
    LET copied == {f[n] : n \in Tree(x)}
        Source(m) == CHOOSE n \in Tree(x) : f[n] = m
        Copy(p) == IF p = Nil THEN Nil ELSE f[p]
        Copied(g) == [m \in Node |-> IF m \in copied THEN Copy(g[Source(m)]) ELSE g[m]]
    IN /\ x \in held
       /\ f \in [Tree(x) -> Node \ used]
       /\ \A m, n \in Tree(x) : f[m] = f[n] => m = n
       /\ used' = used \cup copied /\ held' = held \cup {f[x]}
       /\ kind' = [m \in Node |-> IF m \in copied THEN kind[Source(m)] ELSE kind[m]]
       /\ key' = [m \in Node |-> IF m \in copied THEN key[Source(m)] ELSE key[m]]
       /\ child' = Copied(child) /\ next' = Copied(next) /\ prev' = Copied(prev)
       /\ kids' = [m \in Node |-> IF m \in copied
                                  THEN [i \in DOMAIN kids[Source(m)] |-> f[kids[Source(m)][i]]]
                                  ELSE kids[m]]

-----------------------------------------------------------------------------

TreeNext ==
    \/ \E x \in Node, k \in Kind : Create(x, k)
    \/ \E p, x \in Node, name \in Key \cup {NoKey} : AddItem(p, x, name)
    \/ \E p, y, x \in Node : InsertItem(p, y, x)
    \/ \E p, x \in Node : Detach(p, x)
    \/ \E p, y, x \in Node, name \in Key \cup {NoKey} : Replace(p, y, x, name)
    \/ \E x \in Node : Delete(x)
    \/ \E x \in held : \E f \in [Tree(x) -> Node \ used] : Duplicate(x, f)

TreeSpec == TreeInit /\ [][TreeNext]_treeVars

-----------------------------------------------------------------------------
(* Properties.                                                             *)

(* Every item that is allocated is either held by the client or a child in *)
(* one place of one parent, so that none is lost and none is deleted twice.*)
Forest ==
    /\ \A p \in used : \A i \in DOMAIN kids[p] : kids[p][i] \in used \ held
    /\ \A n \in used \ held : \E p \in used : IsChild(n, p)
    /\ \A p, q \in used : \A i \in DOMAIN kids[p], j \in DOMAIN kids[q] :
         kids[p][i] = kids[q][j] => p = q /\ i = j

(* The pointers say what the client believes: child and next walk the      *)
(* children in their order and end, prev walks them backwards and leads    *)
(* from the first to the last, and what the client holds is linked to      *)
(* nothing.                                                                *)
Represents(p) ==
    LET s == kids[p]
    IN /\ child[p] = IF s = <<>> THEN Nil ELSE s[1]
       /\ \A i \in DOMAIN s : next[s[i]] = IF i = Len(s) THEN Nil ELSE s[i + 1]
       /\ \A i \in DOMAIN s : prev[s[i]] = IF i = 1 THEN s[Len(s)] ELSE s[i - 1]

Linked ==
    /\ \A p \in used : Represents(p)
    /\ \A x \in held : next[x] = Nil /\ prev[x] = Nil

=============================================================================
