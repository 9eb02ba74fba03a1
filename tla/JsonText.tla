------------------------------ MODULE JsonText ------------------------------
(***************************************************************************)
(* The text of a tree: what cJSON_Print writes by walking the pointers,    *)
(* piece by piece into its buffer, and what cJSON_Parse reads of it; and   *)
(* the functions that look into a tree.                                    *)
(*                                                                         *)
(* A text is a sequence of characters.  The scalar items all have one      *)
(* value, a string in which each kind of character occurs; numbers and     *)
(* literals ask for room and write as a string does.                       *)
(***************************************************************************)
EXTENDS JsonTree, PrintBuffer, Utf16, FiniteSets, SequencesExt

CONSTANT NestingLimit   \* CJSON_NESTING_LIMIT

ASSUME NestingAssumption == NestingLimit \in Nat

(* A plain character, white space, the quote, the backslash, a character   *)
(* with a short escape sequence and one without, the control character 1f. *)
StringValue == <<"space", "quote", "newline", "backslash", "x", "control">>

(* Mutant: a backslash is printed as it is. *)
EscapedQuoteOnly(c) ==
    CASE c = "quote"   -> <<"backslash", "quote">>
      [] c = "newline" -> <<"backslash", "n">>
      [] c = "control" -> <<"backslash", "u", "0", "0", "1", "f">>
      [] OTHER         -> <<c>>

(* The escape sequences of print_string_ptr. *)
Escaped(c) ==
    CASE c \in {"quote", "backslash"} -> <<"backslash", c>>
      [] c = "newline" -> <<"backslash", "n">>
      [] c = "control" -> <<"backslash", "u", "0", "0", "1", "f">>
      [] OTHER         -> <<c>>

PrintedString(value) ==
    <<"quote">> \o FlattenSeq([i \in DOMAIN value |-> Escaped(value[i])]) \o <<"quote">>

(* The name of an item; one without a name prints as an empty string. *)
Name(n) == IF key[n] = NoKey THEN <<>> ELSE <<key[n]>>

-----------------------------------------------------------------------------
(* Printing.                                                               *)

(* What one call of ensure is for. *)
Piece(text, needed, terminated) ==
    [text |-> text, needed |-> needed, terminated |-> terminated]

(* Mutant: room for the longest escape sequence of every character. *)
StringPieceGenerous(value) == Piece(PrintedString(value), 6 * Len(value) + 3, 1)

(* A string, and the other scalars: room for the text and its null. *)
StringPiece(value) == LET t == PrintedString(value) IN Piece(t, Len(t) + 1, 1)

Tabs(n) == [i \in 1 .. n |-> "tab"]

ArrayEnd == Piece(<<"]">>, 2, 1)

RECURSIVE PrintValue(_, _, _), PrintElements(_, _, _), PrintMembers(_, _, _)

(* print_array, after the bracket, from element n on. *)
PrintElements(n, depth, format) ==
    IF n = Nil THEN <<>>
    ELSE PrintValue(n, depth, format)
         \o (IF next[n] = Nil THEN <<>>
             ELSE IF format THEN <<Piece(<<",", "space">>, 3, 1)>> ELSE <<Piece(<<",">>, 2, 1)>>)
         \o PrintElements(next[n], depth, format)

(* print_object, after the brace, from member n on. *)
PrintMembers(n, depth, format) ==
    LET end == (IF next[n] = Nil THEN <<>> ELSE <<",">>) \o (IF format THEN <<"newline">> ELSE <<>>)
    IN IF n = Nil THEN <<>>
       ELSE (IF format THEN <<Piece(Tabs(depth), depth, 0)>> ELSE <<>>)
            \o <<StringPiece(Name(n))>>
            \o <<IF format THEN Piece(<<":", "tab">>, 2, 0) ELSE Piece(<<":">>, 1, 0)>>
            \o PrintValue(n, depth, format)
            \o <<Piece(end, Len(end) + 1, 1)>>
            \o PrintMembers(next[n], depth, format)

PrintValue(n, depth, format) ==
    CASE kind[n] = "array" ->
           <<Piece(<<"[">>, 1, 0)>> \o PrintElements(child[n], depth + 1, format) \o <<ArrayEnd>>
      [] kind[n] = "object" ->
           <<IF format THEN Piece(<<"{", "newline">>, 3, 0) ELSE Piece(<<"{">>, 2, 0)>>
           \o PrintMembers(child[n], depth + 1, format)
           \o <<IF format THEN Piece(Append(Tabs(depth), "}"), depth + 2, 1)
                          ELSE Piece(<<"}">>, 2, 1)>>
      [] OTHER -> <<StringPiece(StringValue)>>

Pieces(n, format) == PrintValue(n, 0, format)

Text(n, format) ==
    LET pieces == Pieces(n, format) IN FlattenSeq([i \in DOMAIN pieces |-> pieces[i].text])

(* The buffer after the pieces were put into it. *)
Printed(b, pieces) ==
    FoldLeft(LAMBDA c, p : Put(c, p.needed, Len(p.text), p.terminated), b, pieces)

Buffer(size, noalloc) ==
    [length |-> size, offset |-> 0, noalloc |-> noalloc, ok |-> TRUE, overrun |-> FALSE]

(* cJSON_Print and cJSON_PrintBuffered start with some size, *)
(* cJSON_PrintPreallocated has no other.                     *)
PrintBuffered(n, format, size) == Printed(Buffer(size, FALSE), Pieces(n, format))

PrintPreallocated(n, format, size) == Printed(Buffer(size, TRUE), Pieces(n, format))

-----------------------------------------------------------------------------
(* Parsing: a result is a tree and the place after it.                     *)

NoTree == [kind |-> NoKind, key |-> NoKey, kids |-> <<>>]
Failed == [ok |-> FALSE, tree |-> NoTree, after |-> 0]

At(text, i) == IF i \in DOMAIN text THEN text[i] ELSE "end"

RECURSIVE SkipWhitespace(_, _), StringEnd(_, _), Unescaped(_)

SkipWhitespace(text, i) ==
    IF At(text, i) \in {"tab", "newline", "space"} THEN SkipWhitespace(text, i + 1) ELSE i

(* The place of the quote that ends a string: parse_string skips the       *)
(* character after a backslash.                                            *)
StringEnd(text, i) ==
    CASE At(text, i) = "backslash" -> StringEnd(text, i + 2)
      [] At(text, i) \in {"quote", "end"} -> i
      [] OTHER -> StringEnd(text, i + 1)

(* The code unit of a \u sequence at i. *)
Unit(text, i) ==
    IF At(text, i) = "backslash" /\ At(text, i + 1) = "u" /\ i + 5 <= Len(text)
    THEN ParseHex4(SubSeq(text, i + 2, i + 5)) ELSE NoCode

(* Of the bytes a \u sequence may stand for the texts have only 1f. *)
Character(bytes) == IF bytes = <<31>> THEN "control" ELSE "other"

Unescaped(text) ==
    LET escape == At(text, 2)
        code   == CodePoint(Unit(text, 1), Unit(text, 7))
        From(i) == Unescaped(SubSeq(text, i, Len(text)))
    IN CASE text = <<>> -> <<>>
         [] At(text, 1) \notin {"backslash", "end"} -> <<text[1]>> \o From(2)
         [] At(text, 1) = "backslash" /\ escape \in {"quote", "backslash"} -> <<escape>> \o From(3)
         [] At(text, 1) = "backslash" /\ escape = "n" -> <<"newline">> \o From(3)
         [] At(text, 1) = "backslash" /\ escape = "u" /\ code # NoCode ->
              <<Character(Utf8(code))>> \o From(1 + SequenceLength(Unit(text, 1)))
         [] OTHER -> <<"invalid">>

(* parse_string, from the quote at i on. *)
ParseString(text, i) ==
    LET end   == StringEnd(text, i + 1)
        value == Unescaped(SubSeq(text, i + 1, end - 1))
    IN IF \/ At(text, i) # "quote" \/ At(text, end) # "quote"
          \/ \E k \in DOMAIN value : value[k] = "invalid"
       THEN [ok |-> FALSE, value |-> <<>>, after |-> i]
       ELSE [ok |-> TRUE, value |-> value, after |-> end + 1]

RECURSIVE ParseValue(_, _, _), ParseElements(_, _, _, _), ParseMembers(_, _, _, _)

(* The elements of an array after those in done, the next at i. *)
ParseElements(text, i, depth, done) ==
    LET element == ParseValue(text, SkipWhitespace(text, i), depth)
        after   == SkipWhitespace(text, element.after)
        kids_   == Append(done, element.tree)
    IN CASE ~element.ok            -> Failed
         [] At(text, after) = ","  -> ParseElements(text, after + 1, depth, kids_)
         [] At(text, after) = "]"  -> [ok |-> TRUE, after |-> after + 1,
                                       tree |-> [kind |-> "array", key |-> NoKey, kids |-> kids_]]
         [] OTHER                  -> Failed

ParseMembers(text, i, depth, done) ==
    LET name   == ParseString(text, SkipWhitespace(text, i))
        colon  == SkipWhitespace(text, name.after)
        member == ParseValue(text, SkipWhitespace(text, colon + 1), depth)
        after  == SkipWhitespace(text, member.after)
        kids_  == Append(done, [member.tree EXCEPT !.key = IF name.value = <<>> THEN NoKey
                                                           ELSE name.value[1]])
    IN CASE ~name.ok \/ At(text, colon) # ":" -> Failed
         [] ~member.ok                        -> Failed
         [] At(text, after) = ","  -> ParseMembers(text, after + 1, depth, kids_)
         [] At(text, after) = "}"  -> [ok |-> TRUE, after |-> after + 1,
                                       tree |-> [kind |-> "object", key |-> NoKey, kids |-> kids_]]
         [] OTHER                  -> Failed

(* parse_value, parse_array and parse_object. *)
ParseValue(text, i, depth) ==
    LET inside == SkipWhitespace(text, i + 1)
        Empty(k) == [ok |-> TRUE, after |-> inside + 1,
                     tree |-> [kind |-> k, key |-> NoKey, kids |-> <<>>]]
    IN CASE At(text, i) = "quote" ->
              LET s == ParseString(text, i)
              IN IF ~s.ok THEN Failed
                 ELSE [ok |-> TRUE, after |-> s.after,
                       tree |-> [kind |-> IF s.value = StringValue THEN "string" ELSE NoKind,
                                 key |-> NoKey, kids |-> <<>>]]
         [] At(text, i) \in {"[", "{"} /\ depth >= NestingLimit -> Failed
         [] At(text, i) = "[" /\ depth < NestingLimit ->
              IF At(text, inside) = "]" THEN Empty("array")
              ELSE ParseElements(text, i + 1, depth + 1, <<>>)
         [] At(text, i) = "{" /\ depth < NestingLimit ->
              IF At(text, inside) = "}" THEN Empty("object")
              ELSE ParseMembers(text, i + 1, depth + 1, <<>>)
         [] OTHER -> Failed

Parse(text) == ParseValue(text, SkipWhitespace(text, 1), 0)

-----------------------------------------------------------------------------
(* cJSON_Minify.                                                           *)

(* The place after a comment that starts at i, or the end of the text. *)
OnelineEnd(text, i) ==
    Min({j + 1 : j \in {k \in i + 2 .. Len(text) : text[k] = "newline"}} \cup {Len(text) + 1})

MultilineEnd(text, i) ==
    Min({j + 2 : j \in {k \in i + 2 .. Len(text) - 1 : text[k] = "star" /\ text[k + 1] = "slash"}}
        \cup {Len(text) + 1})

RECURSIVE MinifiedStringEnd(_, _), Minified(_, _)

(* The place after a string, from i on inside it: the code looks at one    *)
(* character more only for an escaped quote.                               *)
MinifiedStringEnd(text, i) ==
    CASE At(text, i) = "end"   -> i
      [] At(text, i) = "quote" -> i + 1
      [] At(text, i) = "backslash" /\ At(text, i + 1) = "quote" -> MinifiedStringEnd(text, i + 2)
      [] OTHER                 -> MinifiedStringEnd(text, i + 1)

Minified(text, i) ==
    CASE At(text, i) = "end" -> <<>>
      [] At(text, i) \in {"space", "tab", "newline"} -> Minified(text, i + 1)
      [] At(text, i) = "slash" ->
           Minified(text, CASE At(text, i + 1) = "slash" -> OnelineEnd(text, i)
                            [] At(text, i + 1) = "star"  -> MultilineEnd(text, i)
                            [] OTHER                     -> i + 1)
      [] At(text, i) = "quote" ->
           LET after == MinifiedStringEnd(text, i + 1)
           IN SubSeq(text, i, after - 1) \o Minified(text, after)
      [] OTHER -> <<text[i]>> \o Minified(text, i + 1)

Minify(text) == Minified(text, 1)

-----------------------------------------------------------------------------
(* Looking into a tree.                                                    *)

RECURSIVE Siblings(_), ItemAt(_, _), ItemNamed(_, _)

Siblings(n) == IF n = Nil THEN 0 ELSE 1 + Siblings(next[n])

GetArraySize(p) == Siblings(child[p])

ItemAt(n, index) == IF n = Nil \/ index = 0 THEN n ELSE ItemAt(next[n], index - 1)

GetArrayItem(p, index) == ItemAt(child[p], index)

(* The first item with the name, unless one without a name comes before. *)
ItemNamed(n, name) ==
    IF n = Nil THEN Nil
    ELSE IF key[n] = NoKey THEN Nil
    ELSE IF key[n] = name THEN n ELSE ItemNamed(next[n], name)

GetObjectItem(p, name) == ItemNamed(child[p], name)

RECURSIVE Compare(_, _), CompareElements(_, _)

CompareElements(m, n) ==
    IF m = Nil \/ n = Nil THEN m = n
    ELSE Compare(m, n) /\ CompareElements(next[m], next[n])

(* Mutant: the second loop, over the members of b, is left out. *)
MembersOneWay(a, b) ==
    \A i \in DOMAIN kids[a] :
        LET m == kids[a][i] IN GetObjectItem(b, key[m]) # Nil /\ Compare(m, GetObjectItem(b, key[m]))

(* Each member of a has its like in b, and the other way round. *)
Members(a, b) ==
    /\ \A i \in DOMAIN kids[a] :
         LET m == kids[a][i] IN GetObjectItem(b, key[m]) # Nil /\ Compare(m, GetObjectItem(b, key[m]))
    /\ \A i \in DOMAIN kids[b] :
         LET m == kids[b][i] IN GetObjectItem(a, key[m]) # Nil /\ Compare(m, GetObjectItem(a, key[m]))

Compare(a, b) ==
    /\ kind[a] = kind[b]
    /\ \/ a = b
       \/ kind[a] \notin {"array", "object"}
       \/ kind[a] = "array" /\ CompareElements(child[a], child[b])
       \/ kind[a] = "object" /\ Members(a, b)

-----------------------------------------------------------------------------
(* Properties.                                                             *)

RECURSIVE TreeOf(_), Height(_), NamesUnique(_), Same(_, _)

(* What the client believes of the tree under n: names count in objects. *)
TreeOf(n) ==
    [kind |-> kind[n], key |-> NoKey,
     kids |-> [i \in DOMAIN kids[n] |->
                 IF kind[n] = "object" THEN [TreeOf(kids[n][i]) EXCEPT !.key = key[kids[n][i]]]
                 ELSE TreeOf(kids[n][i])]]

Height(n) ==
    IF kind[n] = "string" THEN 0
    ELSE 1 + Max({0} \cup {Height(kids[n][i]) : i \in DOMAIN kids[n]})

(* A comment with a quote in it wherever the text has white space outside  *)
(* its strings.                                                            *)
Comment(c) ==
    CASE c = "newline" -> <<"slash", "slash", "quote", c>>
      [] c = "tab"     -> <<"slash", "star", "quote", "star", "slash", c>>
      [] OTHER         -> <<c>>

Commented(text) == FlattenSeq([i \in DOMAIN text |-> Comment(text[i])])

ReadsBack(x, text) ==
    IF Height(x) > NestingLimit THEN ~Parse(text).ok
    ELSE Parse(text) = [ok |-> TRUE, tree |-> TreeOf(x), after |-> Len(text) + 1]

(* Printing a tree, with or without format, and parsing the text gives the *)
(* tree again, to the last character: pointers, escape sequences, white    *)
(* space and separators agree.  Only the parser has a limit on the depth.  *)
(* cJSON_Minify makes the one text of the other, also with comments, and   *)
(* leaves strings alone; no string here ends with a backslash, the second  *)
(* half of which minify_string takes for the escape of the closing quote.  *)
RoundTrip ==
    \A x \in held :
        LET plain == Text(x, FALSE)
            formatted == Text(x, TRUE)
        IN /\ ReadsBack(x, plain) /\ ReadsBack(x, formatted)
           /\ Minify(formatted) = plain /\ Minify(Commented(formatted)) = plain

Sizes == {0, 1, 8}

(* Whatever the size a print starts with, no piece is written past the     *)
(* end, the text and its null character fit in the buffer, and printing    *)
(* fails only where the text comes close to INT_MAX.                       *)
PrintFits ==
    \A x \in held, format \in BOOLEAN, size \in Sizes :
        LET b == PrintBuffered(x, format, size)
            length == Len(Text(x, format))
        IN /\ ~b.overrun
           /\ IF b.ok THEN b.offset = length /\ length < b.length /\ b.length <= IntMax
                      ELSE length + 2 > IntMax

(* "To be safe allocate 5 bytes more than you actually need" (cJSON.h):    *)
(* with those printing into a buffer of the caller succeeds, and with less *)
(* it fails or it fits, but never writes past the end.                     *)
FiveBytesMore ==
    \A x \in held, format \in BOOLEAN :
        LET length == Len(Text(x, format))
        IN \A spare \in 0 .. 6 :
             LET b == PrintPreallocated(x, format, length + spare)
             IN /\ ~b.overrun
                /\ b.ok => b.offset = length /\ spare > 0
                /\ spare = 6 /\ length + 2 <= IntMax => b.ok

NamesUnique(n) ==
    /\ kind[n] = "object" =>
         \A i, j \in DOMAIN kids[n] : key[kids[n][i]] = key[kids[n][j]] => i = j
    /\ \A i \in DOMAIN kids[n] : NamesUnique(kids[n][i])

Same(a, b) ==
    /\ kind[a] = kind[b] /\ Len(kids[a]) = Len(kids[b])
    /\ \A i \in DOMAIN kids[a] :
         IF kind[a] = "array" THEN Same(kids[a][i], kids[b][i])
         ELSE \E j \in DOMAIN kids[b] :
                key[kids[a][i]] = key[kids[b][j]] /\ Same(kids[a][i], kids[b][j])

(* cJSON_Compare tells equal trees from others, members in any order, also *)
(* a tree and its duplicate, where no object has a name twice; with such a *)
(* name it looks at the first member only and finds a duplicate different. *)
CompareExact ==
    \A a, b \in held :
        NamesUnique(a) /\ NamesUnique(b) => (Compare(a, b) <=> Same(a, b))

(* The walks by index and by name find what the client put there. *)
FoundByIndex(p) ==
    /\ GetArraySize(p) = Len(kids[p])
    /\ \A i \in 0 .. Len(kids[p]) :
         GetArrayItem(p, i) = IF i < Len(kids[p]) THEN kids[p][i + 1] ELSE Nil

FoundByName(p) ==
    \A name \in Key :
        LET hits == {i \in DOMAIN kids[p] : key[kids[p][i]] = name}
        IN GetObjectItem(p, name) = IF hits = {} THEN Nil ELSE kids[p][Min(hits)]

(* Whoever reads a tree sees what the client made of it: by index, by name *)
(* and by comparing it with another one.                                   *)
ReadersAgree ==
    /\ \A p \in {n \in used : Container(n)} :
         FoundByIndex(p) /\ (kind[p] = "object" => FoundByName(p))
    /\ CompareExact

=============================================================================
