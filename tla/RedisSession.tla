---------------------------- MODULE RedisSession ----------------------------
(***************************************************************************)
(* src/app/redis_agent/redis/redis_session.hh: a connection to a Redis     *)
(* server.  read_proc decodes what is in the receive buffer and hands each *)
(* reply to the command that has waited longest; send_command waits for a  *)
(* reply once its bytes are sent.  Replies and commands have no identity:  *)
(* they are paired by position only.                                       *)
(*                                                                         *)
(* read_proc waits with wait_packet(), which returns at once while the     *)
(* buffer is not empty.  After an incomplete reply it therefore calls      *)
(* itself without end (reader "spin").  A complete reply makes it consume  *)
(* one byte more than the decoder's offset: if there is none, an assertion *)
(* fails (reader "aborted"), else the next reply loses its first byte.  A  *)
(* decode error ends the reader; the commands that wait go on waiting.     *)
(*                                                                         *)
(* The decoder is a parameter here: module RespDecoder has it, and module  *)
(* RedisDecoding what the two do together.                                 *)
(***************************************************************************)
EXTENDS Integers, Sequences, FiniteSetsExt

CONSTANTS
    DecodeReply(_, _, _),   \* resp::decode of memory, from an offset, up to a size
    EncodeReplies(_),       \* the bytes of a sequence of replies
    Conversations,  \* the sequences of replies a server may send
    LeftBytes,      \* what may lie behind the received bytes
    MaxCommands     \* bound: commands that are sent

VARIABLES
    replies,        \* the replies the server sends
    left,           \* the byte behind the received ones
    taken,          \* bytes of the stream that were consumed
    size,           \* bytes in the buffer
    reader,         \* what read_proc does
    sent,           \* commands whose bytes have been sent
    decoded,        \* replies that have been decoded
    waiting_handlers, waiting_replies,
    given           \* history: which reply each command got, in order

redisVars == <<replies, left, taken, size, reader, sent, decoded,
               waiting_handlers, waiting_replies, given>>

Stream == EncodeReplies(replies)

\* What decode says of the bytes in the buffer.
Outcome == DecodeReply(SubSeq(Stream, taken + 1, taken + size) \o <<left>>, 0, size)

RedisInit ==
    /\ replies \in Conversations /\ left \in LeftBytes
    /\ taken = 0 /\ size = 0 /\ reader = "wait"
    /\ sent = 0 /\ decoded = 0
    /\ waiting_handlers = << >> /\ waiting_replies = << >> /\ given = << >>

\* Mutated form: wait_reply does not look for a reply that is there.
WaitReplyBlind(c) ==
    /\ waiting_handlers' = Append(waiting_handlers, c)
    /\ UNCHANGED <<waiting_replies, given>>

WaitReply(c) ==
    \/ /\ waiting_replies # << >>
       /\ waiting_replies' = Tail(waiting_replies)
       /\ given' = Append(given, <<c, Head(waiting_replies)>>)
       /\ UNCHANGED waiting_handlers
    \/ /\ waiting_replies = << >>
       /\ waiting_handlers' = Append(waiting_handlers, c)
       /\ UNCHANGED <<waiting_replies, given>>

\* send_command's function behind send_packet, between two events.
SendCommand ==
    /\ reader \in {"wait", "ended"} /\ sent < MaxCommands
    /\ sent' = sent + 1
    /\ WaitReply(sent + 1)
    /\ UNCHANGED <<replies, left, taken, size, reader, decoded>>

\* A segment of the stream arrives.
Receive(n) ==
    /\ reader = "wait" /\ taken + n <= Len(Stream)
    /\ size' = n /\ reader' = "decode"
    /\ UNCHANGED <<replies, left, taken, sent, decoded,
                   waiting_handlers, waiting_replies, given>>

\* Where read_proc goes on when n bytes are left.
After(n) == IF n = 0 THEN "wait" ELSE "decode"

Deliver(r) ==
    \/ /\ waiting_handlers = << >>
       /\ waiting_replies' = Append(waiting_replies, r)
       /\ UNCHANGED <<waiting_handlers, given>>
    \/ /\ waiting_handlers # << >>
       /\ given' = Append(given, <<Head(waiting_handlers), r>>)
       /\ waiting_handlers' = Tail(waiting_handlers)
       /\ UNCHANGED waiting_replies

\* decode_and_update_reply, and what read_proc makes of it
DecodeAndUpdateReply ==
    /\ reader = "decode"
    /\ LET a == Outcome IN
        \/ /\ a.st = "complete" /\ a.offset + 1 <= size
           /\ size' = size - (a.offset + 1) /\ taken' = taken + a.offset + 1
           /\ reader' = After(size')
           /\ decoded' = decoded + 1
           /\ Deliver(decoded + 1)
        \/ /\ \/ a.st = "complete" /\ a.offset + 1 > size /\ reader' = "aborted"
              \/ a.st = "incomplete" /\ reader' = "spin"
              \/ a.st = "error" /\ reader' = "ended"
           /\ UNCHANGED <<taken, size, decoded, waiting_handlers, waiting_replies, given>>
    /\ UNCHANGED <<replies, left, sent>>

RedisNext == SendCommand \/ DecodeAndUpdateReply \/ \E n \in 1..Len(Stream) : Receive(n)

RedisSpec == RedisInit /\ [][RedisNext]_redisVars

-----------------------------------------------------------------------------

(***************************************************************************)
(* The k-th command gets the k-th reply that was decoded, whichever of     *)
(* reply and command comes first, and no command waits beside a reply      *)
(* (redis_session.hh:38-45, 65-85).                                        *)
(***************************************************************************)
PairedByPosition ==
    /\ waiting_handlers = << >> \/ waiting_replies = << >>
    /\ Len(given) = Min({sent, decoded})
    /\ \A i \in 1..Len(given) : given[i] = <<i, i>>

(***************************************************************************)
(* Commands and replies keep the promise of a listener (module Rendezvous):*)
(* every reply goes to its command at the step at which the second of the  *)
(* two is there.                                                           *)
(***************************************************************************)
Pairing == INSTANCE Rendezvous WITH asked <- sent, offered <- decoded, matched <- given
RepliesImplementRendezvous == Pairing!Spec

=============================================================================
