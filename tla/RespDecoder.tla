----------------------------- MODULE RespDecoder -----------------------------
(***************************************************************************)
(* src/app/redis_agent/resped/resp_decoder.hh: decode, which the sessions  *)
(* of the Redis agent call on what is in the receive buffer, again and     *)
(* again from the first byte of a reply as more bytes come.                *)
(*                                                                         *)
(* Module RespLines has the replies that are a line or a bulk of bytes.    *)
(* This module adds strtol, the arrays and the choice between them, and a  *)
(* reference grammar, which says what the answer should be.  It is         *)
(* recursive, so for TLC only; module RedisDecoding feeds the decoder.     *)
(***************************************************************************)
EXTENDS RespLines

\* std::strtol: white space, a sign, digits.
RECURSIVE Digits(_, _, _)
Digits(mem, i, acc) ==
    CASE At(mem, i) = "0" -> Digits(mem, i + 1, 10 * acc)
      [] At(mem, i) = "1" -> Digits(mem, i + 1, 10 * acc + 1)
      [] At(mem, i) = "2" -> Digits(mem, i + 1, 10 * acc + 2)
      [] At(mem, i) = "3" -> Digits(mem, i + 1, 10 * acc + 3)
      [] OTHER -> acc

StrToL(mem, o) ==
    LET b == Min({k \in o..Len(mem) : At(mem, k) \notin {CR, LF}})
    IN  CASE At(mem, b) = "-" -> -Digits(mem, b + 1, 0)
          [] At(mem, b) = "+" -> Digits(mem, b + 1, 0)
          [] OTHER -> Digits(mem, b, 0)

DecodeChunkBulk(mem, o, size) == DecodeBulk(mem, o, size, StrToL(mem, o))

\* Mutated form: one element too few is read.
ElementsLess(n) == n - 1

Elements(n) == n

RECURSIVE Decode(_, _, _), DecodeElements(_, _, _, _)

\* The elements of an array, from offset o on; the first answer that is not
\* "complete" is the answer for the array.
DecodeElements(mem, o, size, n) ==
    IF n = 0 THEN Complete(o)
    ELSE LET r == Decode(mem, o, size)
         IN  IF r.st # "complete" THEN r ELSE DecodeElements(mem, r.offset, size, n - 1)

\* An array that is null or empty leaves the offset on its last byte.
DecodeArray(mem, o, size) ==
    LET s == DecodeSize(mem, o, size)
        n == StrToL(mem, o)
    IN  IF s.st # "complete" THEN s
        ELSE IF n > 0 THEN DecodeElements(mem, s.offset, size, Elements(n))
        ELSE IF s.offset + 2 >= size THEN Incomplete
        ELSE Ending(mem, s.offset, s.offset + 1)

\* decide_decode_type looks at the byte at o whether it has been received or not.
Decode(mem, o, size) ==
    CASE At(mem, o) \in {"+", "-"} -> DecodeChunkString(mem, o + 1, size)
      [] At(mem, o) = ":" -> DecodeChunkInteger(mem, o + 1, size)
      [] At(mem, o) = "$" -> DecodeChunkBulk(mem, o + 1, size)
      [] At(mem, o) = "*" -> DecodeArray(mem, o + 1, size)
      [] OTHER -> DecodeError

-----------------------------------------------------------------------------
(***************************************************************************)
(* The reference grammar, in the dialect of the decoder's tests: a null or *)
(* empty bulk or array has a second line (resp_test.hh:22, 23).  A reply   *)
(* is a record of its kind and its parts.                                  *)
(***************************************************************************)
Crlf == <<CR, LF>>
Numeral(n) == CASE n = -1 -> <<"-", "1">> [] n = 0 -> <<"0">> [] n = 1 -> <<"1">>
                [] n = 2 -> <<"2">> [] n = 3 -> <<"3">>

RECURSIVE Encode(_), EncodeAll(_)
EncodeAll(rs) == IF rs = << >> THEN << >> ELSE Encode(Head(rs)) \o EncodeAll(Tail(rs))

Encode(r) ==
    CASE r.kind = "string"  -> <<"+">> \o r.text \o Crlf
      [] r.kind = "error"   -> <<"-">> \o r.text \o Crlf
      [] r.kind = "integer" -> <<":">> \o r.text \o Crlf
      [] r.kind = "bulk"    -> <<"$">> \o Numeral(Len(r.text)) \o Crlf \o r.text \o Crlf
      [] r.kind = "null"    -> <<"$">> \o Numeral(-1) \o Crlf \o Crlf
      [] r.kind = "array"   -> <<"*">> \o Numeral(Len(r.parts)) \o Crlf
                                \o (IF r.parts = << >> THEN Crlf ELSE EncodeAll(r.parts))

\* The offsets at which an element of r, encoded at o, begins, other than r itself.
RECURSIVE Starts(_, _), StartsAll(_, _)
StartsAll(rs, o) ==
    IF rs = << >> THEN {}
    ELSE {o} \cup Starts(Head(rs), o) \cup StartsAll(Tail(rs), o + Len(Encode(Head(rs))))

Starts(r, o) ==
    IF r.kind # "array" THEN {}
    ELSE StartsAll(r.parts, o + Len(Numeral(Len(r.parts))) + 3)

\* The innermost last part of a reply.
RECURSIVE LastPart(_)
LastPart(r) ==
    IF r.kind = "array" /\ r.parts # << >> THEN LastPart(r.parts[Len(r.parts)]) ELSE r

EndsEmptyArray(r) == LastPart(r).kind = "array"

EndsEmpty(r) ==
    LET l == LastPart(r) IN l.kind \in {"array", "null"} \/ (l.kind = "bulk" /\ l.text = << >>)

=============================================================================
