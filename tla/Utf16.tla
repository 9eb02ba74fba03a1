-------------------------------- MODULE Utf16 --------------------------------
(***************************************************************************)
(* The escape sequence \uXXXX of a JSON string: one code unit of UTF-16,   *)
(* or two for a surrogate pair, which utf16_literal_to_utf8 turns into     *)
(* the bytes of UTF-8.                                                     *)
(***************************************************************************)
EXTENDS Integers, Sequences

LowerHex == <<"0", "1", "2", "3", "4", "5", "6", "7", "8", "9", "a", "b", "c", "d", "e", "f">>
UpperHex == <<"0", "1", "2", "3", "4", "5", "6", "7", "8", "9", "A", "B", "C", "D", "E", "F">>

ValuesOf(digit) == {v \in 0 .. 15 : digit \in {LowerHex[v + 1], UpperHex[v + 1]}}

(* A digit that is none makes the whole number 0. *)
ParseHex4(digits) ==
    IF \E i \in 1 .. 4 : ValuesOf(digits[i]) = {} THEN 0
    ELSE LET value(i) == CHOOSE v \in ValuesOf(digits[i]) : TRUE
         IN ((value(1) * 16 + value(2)) * 16 + value(3)) * 16 + value(4)

HighSurrogate == 55296 .. 56319     \* D800 .. DBFF
LowSurrogate  == 56320 .. 57343     \* DC00 .. DFFF

(* No second sequence follows, or there is no such code point. *)
NoCode == -1

(* The code point of the code unit first and the one that follows it. *)
CodePoint(first, second) ==
    IF first \in LowSurrogate THEN NoCode
    ELSE IF first \notin HighSurrogate THEN first
    ELSE IF second \in LowSurrogate
      THEN 65536 + (first % 1024) * 1024 + (second % 1024)
      ELSE NoCode

Continuation(n) == 128 + (n % 64)

(* The bytes of a code point. *)
Utf8(c) ==
    IF c < 128 THEN <<c>>
    ELSE IF c < 2048 THEN <<192 + c \div 64, Continuation(c)>>
    ELSE IF c < 65536
      THEN <<224 + c \div 4096, Continuation(c \div 64), Continuation(c)>>
      ELSE <<240 + c \div 262144, Continuation(c \div 4096), Continuation(c \div 64),
             Continuation(c)>>

(* The characters of the text that are used up: \uXXXX once or twice. *)
SequenceLength(first) == IF first \in HighSurrogate THEN 12 ELSE 6

=============================================================================
