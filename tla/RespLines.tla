------------------------------ MODULE RespLines ------------------------------
(***************************************************************************)
(* src/app/redis_agent/resped/resp_decoder.hh: the part of decode that     *)
(* needs no recursion, the replies that are a line or a bulk of bytes.     *)
(*                                                                         *)
(* mem is the memory from the read head on, of which the first size bytes  *)
(* have been received; the byte behind them is one that was left there.    *)
(* Offsets count from 0, as in the code.  A decoder's answer is a record   *)
(* of its state and of the offset it leaves; the tree of types and anchors *)
(* it builds is left out.                                                  *)
(***************************************************************************)
EXTENDS Integers, Sequences, FiniteSetsExt

CR == "\r"
LF == "\n"
Digit == {"0", "1", "2", "3"}
Printable == {"+", "-", ":", "$", "*", "X"} \cup Digit

At(mem, i) == IF i < Len(mem) THEN mem[i + 1] ELSE "X"

Complete(o)  == [st |-> "complete", offset |-> o]
Incomplete   == [st |-> "incomplete", offset |-> 0]
DecodeError  == [st |-> "error", offset |-> 0]

(***************************************************************************)
(* The loop that decode_chunk_string, decode_chunk_integer and decode_size *)
(* share: allowed characters up to a line feed with a carriage return      *)
(* somewhere before it.                                                    *)
(***************************************************************************)
Line(mem, o, size, allowed) ==
    LET stops == {k \in o..(size - 1) : mem[k + 1] \notin allowed \cup {CR}}
    IN  IF stops = {} THEN Incomplete
        ELSE LET k == Min(stops)
             IN  IF mem[k + 1] = LF /\ \E j \in o..(k - 1) : mem[j + 1] = CR
                 THEN Complete(k + 1)
                 ELSE DecodeError

DecodeChunkString(mem, o, size)  == Line(mem, o, size, Printable)
DecodeChunkInteger(mem, o, size) == Line(mem, o, size, Digit \cup {"-"})
DecodeSize(mem, o, size)         == Line(mem, o, size, Digit \cup {"-"})

\* A carriage return and a line feed at o; the answer leaves the offset at e.
Ending(mem, o, e) ==
    IF At(mem, o) = CR /\ At(mem, o + 1) = LF THEN Complete(e) ELSE DecodeError

\* Mutated form: the first check lets a last byte be missing.
TooShortLess(o, n, size) == IF n <= 0 THEN o + 1 >= size ELSE o + n >= size

\* The checks for bytes that have not come, for a bulk of n bytes at o.
TooShort(o, n, size) == IF n <= 0 THEN o + 2 >= size ELSE o + n - 1 + 2 >= size

\* decode_chunk_bulk for the size n that strtol makes of the line at o.
DecodeBulk(mem, o, size, n) ==
    LET s == DecodeSize(mem, o, size)
    IN  IF s.st # "complete" THEN s
        ELSE IF TooShort(s.offset, n, size) THEN Incomplete
        ELSE IF n <= 0 THEN Ending(mem, s.offset, s.offset + 2)
        ELSE Ending(mem, s.offset + n, s.offset + n + 2)

=============================================================================
