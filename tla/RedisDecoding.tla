---------------------------- MODULE RedisDecoding ----------------------------
(***************************************************************************)
(* A Redis session with its decoder: what decode makes of the bytes that   *)
(* read_proc gives it, reply for reply and cut for cut.                    *)
(***************************************************************************)
EXTENDS RedisSession, RespDecoder

First == Head(replies)

\* The reader is about to decode the first reply, of which it has size bytes.
AtFirst == reader = "decode" /\ taken = 0

Needed == Len(Encode(First))

(***************************************************************************)
(* A part of a reply is never taken for the whole: the answer is           *)
(* "incomplete", or, when the received bytes end just where an element of  *)
(* an array begins, whatever the byte left behind them makes of it, but    *)
(* not "complete" (resp_decoder.hh:118 reads it unchecked).                *)
(***************************************************************************)
PartNeverComplete ==
    AtFirst /\ size < Needed => \/ Outcome = Incomplete
                                \/ size \in Starts(First, 0) /\ Outcome = DecodeError

(***************************************************************************)
(* A whole reply is recognised and ends where it ends, whatever follows.   *)
(* One that ends with a null or empty bulk or array needs one more byte    *)
(* than it has (resp_decoder.hh:228, 238, 286: >= for >), and an array     *)
(* leaves the offset one short of its end (line 295).                      *)
(***************************************************************************)
WholeComplete ==
    AtFirst /\ size >= Needed + (IF EndsEmpty(First) THEN 1 ELSE 0)
      => Outcome = Complete(Needed - (IF EndsEmptyArray(First) THEN 1 ELSE 0))

(***************************************************************************)
(* A truncated array is incomplete, as the decoder's test has it.          *)
(***************************************************************************)
PartIncomplete == AtFirst /\ size < Needed => Outcome = Incomplete

=============================================================================
