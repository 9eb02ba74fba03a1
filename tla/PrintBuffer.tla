----------------------------- MODULE PrintBuffer -----------------------------
(***************************************************************************)
(* The buffer that cJSON prints into: ensure() makes room for the next     *)
(* piece of the text by at least doubling the buffer, unless the caller    *)
(* gave the buffer and its size is fixed.                                  *)
(***************************************************************************)
EXTENDS Integers

CONSTANT IntMax     \* INT_MAX, the size no buffer may pass

ASSUME IntMaxAssumption == IntMax \in Nat \ {0}

(* length and offset are those of a printbuffer; ok is FALSE after a print *)
(* function has returned false; overrun notes a write past the end.        *)
PrintBuffers ==
    [length : Nat, offset : Nat, noalloc : BOOLEAN, ok : BOOLEAN, overrun : BOOLEAN]

Fail(b) == [b EXCEPT !.ok = FALSE]

(* Mutant: there is room if the piece alone fits. *)
EnsureHere(b, needed) ==
    IF needed <= b.length THEN b
    ELSE IF b.noalloc THEN Fail(b) ELSE [b EXCEPT !.length = 2 * (needed + b.offset + 1)]

(* Bound: a request for memory does not fail. *)
Ensure(b, needed) ==
    LET wanted == needed + b.offset + 1
    IN IF \/ ~b.ok
          \/ b.length > 0 /\ b.offset >= b.length
          \/ needed > IntMax
       THEN Fail(b)
       ELSE IF wanted <= b.length THEN b
       ELSE IF b.noalloc \/ wanted > IntMax THEN Fail(b)
       ELSE [b EXCEPT !.length = IF wanted > IntMax \div 2 THEN IntMax ELSE 2 * wanted]

(* A piece: chars characters, and a null character after them if           *)
(* terminated is 1, are written after needed was asked for; the offset     *)
(* moves past the characters, by adding or by counting them (update_offset)*)
(* for a piece that is terminated.                                         *)
Put(b, needed, chars, terminated) ==
    LET e == Ensure(b, needed)
    IN IF ~e.ok THEN e
       ELSE [e EXCEPT !.offset = @ + chars,
                      !.overrun = @ \/ e.offset + chars + terminated > e.length]

=============================================================================
