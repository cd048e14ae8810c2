---------------------------- MODULE ClientProofs ----------------------------
(***************************************************************************)
(* Theorems about the client side: connect() (TcpConnector), for any       *)
(* number of attempts; the session with a Redis server that connect_redis  *)
(* makes of a connection (RedisSession), for any decoder; and the decoding *)
(* of lines and bulks (RespLines), for bytes of any number.                *)
(***************************************************************************)
EXTENDS TcpConnector, RedisSession, RespLines, TLAPS

-----------------------------------------------------------------------------
(* connect() *)

\* Events of a batch belong to filters of the connector: each attempt has at most
\* one, and it is removed in the callback.
BatchArmed == \A a \in batch : filter[a] = "connector"

\* While the connector holds the filter, only the timer can have called the flow.
Undelivered == \A a \in Attempt : filter[a] = "connector" => result[a] \in {"none", "timeout"}

NotBegun == \A a \in Attempt : sock[a] = "none" => filter[a] = "none" /\ result[a] = "none"

\* A timer runs only for an attempt whose event was registered.
TimerBegun == \A a \in Attempt : timer[a] # "off" => sock[a] # "none"

\* A refused or failed attempt has no session: only a socket that is up gets one.
SessionUp == \A a \in Attempt : result[a] = "session" => sock[a] = "up"

Inv == /\ TypeOK /\ BatchArmed /\ Undelivered /\ NotBegun /\ TimerBegun /\ SessionUp
       /\ OpenSocketAccounted /\ SessionIffDelivered

\* The initial states satisfy the invariant.
LEMMA InitInv == Init => Inv
  BY DEF Init, Inv, TypeOK, BatchArmed, Undelivered, NotBegun, TimerBegun, SessionUp,
     OpenSocketAccounted, SessionIffDelivered

\* Every step keeps the invariant.
LEMMA NextInv == Inv /\ [Next]_vars => Inv'
<1> SUFFICES ASSUME Inv, [Next]_vars PROVE Inv'
  OBVIOUS
<1> USE DEF Inv, TypeOK, BatchArmed, Undelivered, NotBegun, TimerBegun, SessionUp,
      OpenSocketAccounted, SessionIffDelivered
<1>1. ASSUME NEW a \in Attempt, ConnectFails(a) PROVE Inv'
  BY <1>1 DEF ConnectFails, Trigge
<1>2. ASSUME NEW a \in Attempt, Connect(a) PROVE Inv'
  BY <1>2 DEF Connect
<1>3. ASSUME NEW a \in Attempt, NEW s \in {"up", "refused"}, Answer(a, s) PROVE Inv'
  BY <1>3 DEF Answer
<1>4. ASSUME NEW a \in Attempt, Expire(a) PROVE Inv'
  BY <1>4 DEF Expire
<1>5. CASE Poll
  BY <1>5 DEF Poll
<1>6. ASSUME NEW a \in Attempt, OnUp(a) PROVE Inv'
  BY <1>6 DEF OnUp, Available, HandedOver, AddFilter, DeleteFilter, Trigge
<1>7. ASSUME NEW a \in Attempt, OnRefused(a) PROVE Inv'
  BY <1>7 DEF OnRefused, Available, DeleteFilter
<1>8. ASSUME NEW a \in Attempt, OnTimer(a) PROVE Inv'
  BY <1>8 DEF OnTimer, Trigge
<1>9. CASE StartTimers \/ StartTasks \/ EndTasks
  BY <1>9 DEF StartTimers, StartTasks, EndTasks
<1>10. CASE UNCHANGED vars
  BY <1>10 DEF vars
<1> QED
  BY <1>1, <1>2, <1>3, <1>4, <1>5, <1>6, <1>7, <1>8, <1>9, <1>10 DEF Next, Loop, Dead

\* The invariant holds always.
LEMMA Invariant == Spec => []Inv
  BY InitInv, NextInv, PTL DEF Spec

(***************************************************************************)
(* Types, and that a flow is marked as called exactly when it has a result.*)
(***************************************************************************)
THEOREM TypeCorrect == Spec => []TypeOK
<1>1. Inv => TypeOK
  BY DEF Inv
<1> QED
  BY <1>1, Invariant, PTL

(***************************************************************************)
(* The only descriptors nobody looks after are those of attempts that      *)
(* failed at once or timed out.                                            *)
(***************************************************************************)
THEOREM SocketsAccounted == Spec => []OpenSocketAccounted
<1>1. Inv => OpenSocketAccounted
  BY DEF Inv
<1> QED
  BY <1>1, Invariant, PTL

(***************************************************************************)
(* A session exists exactly if the caller has got it.                      *)
(***************************************************************************)
THEOREM NoHiddenSession == Spec => []SessionIffDelivered
<1>1. Inv => SessionIffDelivered
  BY DEF Inv
<1> QED
  BY <1>1, Invariant, PTL

-----------------------------------------------------------------------------
(* Commands and replies *)

\* The numbers in q go on where n ends.
InARow(q, n) == \A i \in 1..Len(q) : q[i] = n + i

\* Commands are numbered as they are sent and replies as they are decoded: the pairs made
\* so far have the first numbers, the queue that is not empty has the next ones, and
\* nothing else is under way.
PairsInv ==
    /\ sent \in Nat /\ decoded \in Nat
    /\ waiting_handlers \in Seq(Nat) /\ waiting_replies \in Seq(Nat)
    /\ given \in Seq(Nat \X Nat)
    /\ waiting_handlers = << >> \/ waiting_replies = << >>
    /\ Len(given) + Len(waiting_handlers) = sent
    /\ Len(given) + Len(waiting_replies) = decoded
    /\ InARow(waiting_handlers, Len(given)) /\ InARow(waiting_replies, Len(given))
    /\ \A i \in 1..Len(given) : given[i] = <<i, i>>

\* A queue gets the next number.
LEMMA RowGrows ==
    ASSUME NEW q \in Seq(Nat), NEW n \in Nat, InARow(q, n), NEW e \in Nat, e = n + Len(q) + 1
    PROVE  /\ Append(q, e) \in Seq(Nat) /\ Len(Append(q, e)) = Len(q) + 1
           /\ Len(q) \in Nat /\ InARow(Append(q, e), n)
<1>1. /\ Append(q, e) \in Seq(Nat) /\ Len(Append(q, e)) = Len(q) + 1 /\ Len(q) \in Nat
      /\ Append(q, e)[Len(q) + 1] = e /\ \A i \in 1..Len(q) : Append(q, e)[i] = q[i]
  OBVIOUS
<1> QED
  BY <1>1 DEF InARow

\* A queue loses its first number.
LEMMA RowShrinks ==
    ASSUME NEW q \in Seq(Nat), NEW n \in Nat, InARow(q, n), q # << >>
    PROVE  /\ Tail(q) \in Seq(Nat) /\ Len(Tail(q)) = Len(q) - 1 /\ Len(q) \in Nat \ {0}
           /\ Head(q) = n + 1 /\ InARow(Tail(q), n + 1)
<1>1. /\ Tail(q) \in Seq(Nat) /\ Len(Tail(q)) = Len(q) - 1 /\ Len(q) \in Nat \ {0}
      /\ Head(q) = q[1] /\ \A i \in 1..Len(Tail(q)) : Tail(q)[i] = q[i + 1]
  OBVIOUS
<1> QED
  BY <1>1 DEF InARow

\* The next pair is made.
LEMMA PairsGrow ==
    ASSUME NEW g \in Seq(Nat \X Nat), \A i \in 1..Len(g) : g[i] = <<i, i>>,
           NEW e \in Nat, e = Len(g) + 1
    PROVE  /\ Append(g, <<e, e>>) \in Seq(Nat \X Nat) /\ Len(Append(g, <<e, e>>)) = e
           /\ \A i \in 1..Len(Append(g, <<e, e>>)) : Append(g, <<e, e>>)[i] = <<i, i>>
<1> DEFINE p == <<e, e>>
<1>1. p \in Nat \X Nat
  OBVIOUS
<1>2. p = <<Len(g) + 1, Len(g) + 1>>
  OBVIOUS
<1> HIDE DEF p
<1>3. /\ Append(g, p) \in Seq(Nat \X Nat) /\ Len(Append(g, p)) = Len(g) + 1 /\ Len(g) \in Nat
      /\ Append(g, p)[Len(g) + 1] = p /\ \A i \in 1..Len(g) : Append(g, p)[i] = g[i]
  BY <1>1
<1>4. \A i \in 1..Len(Append(g, p)) : Append(g, p)[i] = <<i, i>>
  <2> SUFFICES ASSUME NEW i \in 1..Len(Append(g, p)) PROVE Append(g, p)[i] = <<i, i>>
    OBVIOUS
  <2>1. i \in 1..Len(g) \/ i = Len(g) + 1
    BY <1>3
  <2> QED
    BY <1>2, <1>3, <2>1
<1> QED
  BY <1>3, <1>4 DEF p

\* The smaller of two numbers
LEMMA SmallerOf ==
    ASSUME NEW a \in Nat, NEW b \in Nat
    PROVE  Min({a, b}) = IF a <= b THEN a ELSE b
  BY DEF Min

\* A command meets a reply or waits: the pairs and queues keep their form, and the step is
\* one of the abstract pairing.
LEMMA WaitPairs ==
    ASSUME PairsInv, WaitReply(sent + 1), sent' = sent + 1, UNCHANGED decoded
    PROVE  PairsInv' /\ Pairing!Ask
<1>p. given \in Seq(Nat \X Nat) /\ \A i \in 1..Len(given) : given[i] = <<i, i>>
  BY DEF PairsInv
<1>l. Len(given) \in Nat
  BY <1>p
<1>q. /\ waiting_handlers \in Seq(Nat) /\ waiting_replies \in Seq(Nat)
      /\ waiting_handlers = << >> \/ waiting_replies = << >>
      /\ InARow(waiting_handlers, Len(given)) /\ InARow(waiting_replies, Len(given))
  BY DEF PairsInv
<1>n. /\ sent \in Nat /\ decoded \in Nat
      /\ Len(given) + Len(waiting_handlers) = sent /\ Len(given) + Len(waiting_replies) = decoded
  BY DEF PairsInv
<1>1. CASE waiting_replies # << >>
  <2>1. /\ waiting_replies' = Tail(waiting_replies) /\ UNCHANGED waiting_handlers
        /\ given' = Append(given, <<sent + 1, Head(waiting_replies)>>)
    BY <1>1 DEF WaitReply
  <2>2. waiting_handlers = << >> /\ sent = Len(given)
    BY <1>l, <1>q, <1>n, <1>1
  <2>3. /\ Tail(waiting_replies) \in Seq(Nat) /\ Len(waiting_replies) \in Nat \ {0}
        /\ Len(Tail(waiting_replies)) = Len(waiting_replies) - 1
        /\ Head(waiting_replies) = Len(given) + 1 /\ InARow(Tail(waiting_replies), Len(given) + 1)
    BY <1>l, <1>q, <1>1, RowShrinks, ZenonT(30)
  <2>4. given' = Append(given, <<sent + 1, sent + 1>>)
    BY <2>1, <2>2, <2>3
  <2>5. given' \in Seq(Nat \X Nat) /\ Len(given') = sent + 1
        /\ \A i \in 1..Len(given') : given'[i] = <<i, i>>
    BY <1>p, <1>n, <2>2, <2>4, PairsGrow
  <2>6. PairsInv'
    <3>0. /\ Len(given') = sent + 1 /\ Len(waiting_replies') = Len(waiting_replies) - 1
          /\ Len(waiting_handlers') = 0
      BY <2>1, <2>2, <2>3, <2>5
    <3>1. /\ Len(given') + Len(waiting_handlers') = sent'
          /\ Len(given') + Len(waiting_replies') = decoded' /\ sent' \in Nat /\ decoded' \in Nat
      BY <1>n, <2>2, <2>3, <3>0
    <3>2. InARow(waiting_handlers', Len(given')) /\ InARow(waiting_replies', Len(given'))
      BY <1>n, <2>1, <2>2, <2>3, <2>5 DEF InARow
    <3> QED
      BY <1>q, <2>1, <2>2, <2>3, <2>5, <3>1, <3>2 DEF PairsInv
  <2>7. decoded > sent
    BY <1>n, <2>2, <2>3
  <2> QED
    BY <2>4, <2>6, <2>7 DEF Pairing!Ask
<1>2. CASE waiting_replies = << >>
  <2>1. /\ waiting_handlers' = Append(waiting_handlers, sent + 1)
        /\ UNCHANGED <<waiting_replies, given>>
    BY <1>2 DEF WaitReply
  <2>2. /\ waiting_handlers' \in Seq(Nat) /\ Len(waiting_handlers') = Len(waiting_handlers) + 1
        /\ Len(waiting_handlers) \in Nat /\ InARow(waiting_handlers', Len(given))
    <3>0. Len(waiting_handlers) \in Nat
      BY <1>q
    <3>1. sent + 1 \in Nat /\ sent + 1 = Len(given) + Len(waiting_handlers) + 1
      BY <1>l, <1>n, <3>0
    <3> QED
      BY <1>l, <1>q, <2>1, <3>1, RowGrows, ZenonT(30)
  <2>3. PairsInv'
    <3>1. /\ Len(given') + Len(waiting_handlers') = sent'
          /\ Len(given') + Len(waiting_replies') = decoded' /\ sent' \in Nat /\ decoded' \in Nat
      BY <1>l, <1>n, <2>1, <2>2
    <3>2. InARow(waiting_handlers', Len(given')) /\ InARow(waiting_replies', Len(given'))
      BY <1>q, <2>1, <2>2, Zenon
    <3> QED
      BY <1>p, <1>q, <1>2, <2>1, <2>2, <3>1, <3>2 DEF PairsInv
  <2>4. ~(decoded > sent)
    BY <1>l, <1>n, <1>2, <2>2
  <2> QED
    BY <2>1, <2>3, <2>4 DEF Pairing!Ask
<1> QED
  BY <1>1, <1>2

\* So does a reply that meets a command or waits.
LEMMA DeliverPairs ==
    ASSUME PairsInv, Deliver(decoded + 1), decoded' = decoded + 1, UNCHANGED sent
    PROVE  PairsInv' /\ Pairing!Offer
<1>p. given \in Seq(Nat \X Nat) /\ \A i \in 1..Len(given) : given[i] = <<i, i>>
  BY DEF PairsInv
<1>l. Len(given) \in Nat
  BY <1>p
<1>q. /\ waiting_handlers \in Seq(Nat) /\ waiting_replies \in Seq(Nat)
      /\ waiting_handlers = << >> \/ waiting_replies = << >>
      /\ InARow(waiting_handlers, Len(given)) /\ InARow(waiting_replies, Len(given))
  BY DEF PairsInv
<1>n. /\ sent \in Nat /\ decoded \in Nat
      /\ Len(given) + Len(waiting_handlers) = sent /\ Len(given) + Len(waiting_replies) = decoded
  BY DEF PairsInv
<1>1. CASE waiting_handlers # << >>
  <2>1. /\ waiting_handlers' = Tail(waiting_handlers) /\ UNCHANGED waiting_replies
        /\ given' = Append(given, <<Head(waiting_handlers), decoded + 1>>)
    BY <1>1 DEF Deliver
  <2>2. waiting_replies = << >> /\ decoded = Len(given)
    BY <1>l, <1>q, <1>n, <1>1
  <2>3. /\ Tail(waiting_handlers) \in Seq(Nat) /\ Len(waiting_handlers) \in Nat \ {0}
        /\ Len(Tail(waiting_handlers)) = Len(waiting_handlers) - 1
        /\ Head(waiting_handlers) = Len(given) + 1
        /\ InARow(Tail(waiting_handlers), Len(given) + 1)
    BY <1>l, <1>q, <1>1, RowShrinks, ZenonT(30)
  <2>4. given' = Append(given, <<decoded + 1, decoded + 1>>)
    BY <2>1, <2>2, <2>3
  <2>5. given' \in Seq(Nat \X Nat) /\ Len(given') = decoded + 1
        /\ \A i \in 1..Len(given') : given'[i] = <<i, i>>
    BY <1>p, <1>n, <2>2, <2>4, PairsGrow
  <2>6. PairsInv'
    <3>0. /\ Len(given') = decoded + 1 /\ Len(waiting_handlers') = Len(waiting_handlers) - 1
          /\ Len(waiting_replies') = 0
      BY <2>1, <2>2, <2>3, <2>5
    <3>1. /\ Len(given') + Len(waiting_handlers') = sent'
          /\ Len(given') + Len(waiting_replies') = decoded' /\ sent' \in Nat /\ decoded' \in Nat
      BY <1>n, <2>2, <2>3, <3>0
    <3>2. InARow(waiting_handlers', Len(given')) /\ InARow(waiting_replies', Len(given'))
      BY <1>n, <2>1, <2>2, <2>3, <2>5 DEF InARow
    <3> QED
      BY <1>q, <2>1, <2>2, <2>3, <2>5, <3>1, <3>2 DEF PairsInv
  <2>7. sent > decoded
    BY <1>n, <2>2, <2>3
  <2> QED
    BY <2>4, <2>6, <2>7 DEF Pairing!Offer
<1>2. CASE waiting_handlers = << >>
  <2>1. /\ waiting_replies' = Append(waiting_replies, decoded + 1)
        /\ UNCHANGED <<waiting_handlers, given>>
    BY <1>2 DEF Deliver
  <2>2. /\ waiting_replies' \in Seq(Nat) /\ Len(waiting_replies') = Len(waiting_replies) + 1
        /\ Len(waiting_replies) \in Nat /\ InARow(waiting_replies', Len(given))
    <3>0. Len(waiting_replies) \in Nat
      BY <1>q
    <3>1. decoded + 1 \in Nat /\ decoded + 1 = Len(given) + Len(waiting_replies) + 1
      BY <1>l, <1>n, <3>0
    <3> QED
      BY <1>l, <1>q, <2>1, <3>1, RowGrows, ZenonT(30)
  <2>3. PairsInv'
    <3>1. /\ Len(given') + Len(waiting_handlers') = sent'
          /\ Len(given') + Len(waiting_replies') = decoded' /\ sent' \in Nat /\ decoded' \in Nat
      BY <1>l, <1>n, <2>1, <2>2
    <3>2. InARow(waiting_handlers', Len(given')) /\ InARow(waiting_replies', Len(given'))
      BY <1>q, <2>1, <2>2, Zenon
    <3> QED
      BY <1>p, <1>q, <1>2, <2>1, <2>2, <3>1, <3>2 DEF PairsInv
  <2>4. ~(sent > decoded)
    BY <1>l, <1>n, <1>2, <2>2
  <2> QED
    BY <2>1, <2>3, <2>4 DEF Pairing!Offer
<1> QED
  BY <1>1, <1>2

\* The invariant holds initially, where nothing has been sent or decoded.
LEMMA InitPairs == RedisInit => PairsInv /\ Pairing!Init
  BY DEF RedisInit, PairsInv, InARow, Pairing!Init

\* Every step keeps it and is a step or a stutter of the pairing, whatever the decoder says.
LEMMA NextPairs ==
    PairsInv /\ [RedisNext]_redisVars => PairsInv' /\ [Pairing!Next]_(Pairing!vars)
<1> SUFFICES ASSUME PairsInv, [RedisNext]_redisVars
             PROVE  PairsInv' /\ [Pairing!Next]_(Pairing!vars)
  OBVIOUS
<1>1. CASE SendCommand
  BY <1>1, WaitPairs DEF SendCommand, Pairing!Next
<1>2. CASE DecodeAndUpdateReply
  <2>1. /\ UNCHANGED sent
        /\ \/ decoded' = decoded + 1 /\ Deliver(decoded + 1)
           \/ UNCHANGED <<decoded, waiting_handlers, waiting_replies, given>>
    BY <1>2 DEF DecodeAndUpdateReply
  <2>2. CASE decoded' = decoded + 1 /\ Deliver(decoded + 1)
    BY <2>1, <2>2, DeliverPairs DEF Pairing!Next
  <2>3. CASE UNCHANGED <<decoded, waiting_handlers, waiting_replies, given>>
    BY <2>1, <2>3 DEF PairsInv, InARow, Pairing!vars
  <2> QED
    BY <2>1, <2>2, <2>3
<1>3. CASE \E n \in 1..Len(Stream) : Receive(n)
  BY <1>3 DEF Receive, PairsInv, InARow, Pairing!vars
<1>4. CASE UNCHANGED redisVars
  BY <1>4 DEF redisVars, PairsInv, InARow, Pairing!vars
<1> QED
  BY <1>1, <1>2, <1>3, <1>4 DEF RedisNext

\* The invariant says of the pairs what the property says.
LEMMA PairsPaired == PairsInv => PairedByPosition
<1> SUFFICES ASSUME PairsInv PROVE PairedByPosition
  OBVIOUS
<1>1. /\ Len(given) \in Nat /\ Len(waiting_handlers) \in Nat /\ Len(waiting_replies) \in Nat
      /\ sent \in Nat /\ decoded \in Nat
      /\ Len(given) + Len(waiting_handlers) = sent /\ Len(given) + Len(waiting_replies) = decoded
      /\ Len(waiting_handlers) = 0 \/ Len(waiting_replies) = 0
  BY DEF PairsInv
<1>2. Len(given) = IF sent <= decoded THEN sent ELSE decoded
  BY <1>1
<1>3. Len(given) = Min({sent, decoded})
  BY <1>1, <1>2, SmallerOf
<1> QED
  BY <1>3 DEF PairsInv, PairedByPosition

(***************************************************************************)
(* The k-th command gets the k-th decoded reply and no command waits       *)
(* beside a reply (redis_session.hh:38-45, 65-85), for any number of       *)
(* commands, any stream and any decoder.                                   *)
(***************************************************************************)
THEOREM RepliesPaired == RedisSpec => []PairedByPosition
  BY InitPairs, NextPairs, PairsPaired, PTL DEF RedisSpec

(***************************************************************************)
(* A Redis session implements the abstract rendezvous of its commands with *)
(* the replies.                                                            *)
(***************************************************************************)
THEOREM RepliesRendezvous == RedisSpec => RepliesImplementRendezvous
  BY InitPairs, NextPairs, PTL DEF RedisSpec, RepliesImplementRendezvous, Pairing!Spec

-----------------------------------------------------------------------------
(* Lines and bulks *)

\* From offset o on mem has text and the end of a line, as far as the got received bytes go.
HoldsLine(mem, o, got, text) ==
    /\ \A i \in 1..Len(text) : o + i <= got => mem[o + i] = text[i]
    /\ o + Len(text) + 1 <= got => mem[o + Len(text) + 1] = CR
    /\ o + Len(text) + 2 <= got => mem[o + Len(text) + 2] = LF

\* The smallest number of a set
LEMMA LeastIs ==
    ASSUME NEW T, T \subseteq Int, NEW m \in T, \A y \in T : m <= y
    PROVE  Min(T) = m
<1>1. \A x \in T : (\A y \in T : x <= y) => x = m
  OBVIOUS
<1> QED
  BY <1>1 DEF Min

\* The loop over a line stops at its line feed and nowhere else.
LEMMA LineDecoded ==
    ASSUME NEW S, LF \notin S \cup {CR}, NEW text \in Seq(S), NEW mem,
           NEW o \in Nat, NEW got \in Nat, HoldsLine(mem, o, got, text)
    PROVE  Line(mem, o, got, S) = IF got < o + Len(text) + 2 THEN Incomplete
                                   ELSE Complete(o + Len(text) + 2)
<1> DEFINE e == o + Len(text) + 1
           T == {k \in o..(got - 1) : mem[k + 1] \notin S \cup {CR}}
<1>1. Len(text) \in Nat /\ e \in Nat /\ \A i \in 1..Len(text) : text[i] \in S
  OBVIOUS
<1>2. \A k \in o..(got - 1) : k < e => k \notin T
  <2> SUFFICES ASSUME NEW k \in o..(got - 1), k < e PROVE mem[k + 1] \in S \cup {CR}
    OBVIOUS
  <2>1. CASE k = o + Len(text)
    <3>1. o + Len(text) + 1 <= got /\ k + 1 = o + Len(text) + 1
      BY <1>1, <2>1
    <3> QED
      BY <3>1 DEF HoldsLine
  <2>2. CASE k # o + Len(text)
    <3> DEFINE i == k - o + 1
    <3>1. i \in 1..Len(text) /\ o + i <= got /\ o + i = k + 1
      BY <1>1, <2>2
    <3> HIDE DEF i
    <3>2. mem[o + i] = text[i]
      BY <3>1 DEF HoldsLine
    <3> QED
      BY <1>1, <3>1, <3>2
  <2> QED
    BY <2>1, <2>2
<1>3. CASE got < o + Len(text) + 2
  <2>1. T = {}
    BY <1>1, <1>2, <1>3
  <2> QED
    BY <1>3, <2>1 DEF Line
<1>4. CASE ~(got < o + Len(text) + 2)
  <2>1. e \in o..(got - 1) /\ e + 1 = o + Len(text) + 2 /\ e + 1 <= got /\ e <= got
        /\ e - 1 \in o..(e - 1) /\ (e - 1) + 1 = o + Len(text) + 1
    BY <1>1, <1>4
  <2>2. mem[e + 1] = LF /\ mem[(e - 1) + 1] = CR
    BY <1>1, <2>1 DEF HoldsLine
  <2>3. e \in T
    BY <2>1, <2>2
  <2>4. \A y \in T : e <= y
    BY <1>1, <1>2
  <2>5. Min(T) = e
    <3>1. T \subseteq Int
      BY <1>1
    <3> HIDE DEF T
    <3> QED
      BY <2>3, <2>4, <3>1, LeastIs
  <2>6. \E j \in o..(e - 1) : mem[j + 1] = CR
    BY <2>1, <2>2
  <2>7. Line(mem, o, got, S) = Complete(e + 1)
    <3>1. Line(mem, o, got, S) =
            IF T = {} THEN Incomplete
            ELSE IF mem[Min(T) + 1] = LF /\ \E j \in o..(Min(T) - 1) : mem[j + 1] = CR
                 THEN Complete(Min(T) + 1)
                 ELSE DecodeError
      BY DEF Line
    <3> HIDE DEF T, e
    <3> QED
      BY <2>2, <2>3, <2>5, <2>6, <3>1
  <2> QED
    BY <1>4, <2>1, <2>7
<1> QED
  BY <1>3, <1>4

(***************************************************************************)
(* decode_chunk_string, for a simple string or an error of any length: a   *)
(* part of the reply is incomplete, and a whole one is complete and ends   *)
(* where it ends, whatever the bytes behind it are.                        *)
(***************************************************************************)
THEOREM StringsDecoded ==
    ASSUME NEW mem, NEW o \in Nat, NEW got \in Nat, NEW text \in Seq(Printable),
           HoldsLine(mem, o, got, text)
    PROVE  DecodeChunkString(mem, o, got) =
             IF got < o + Len(text) + 2 THEN Incomplete ELSE Complete(o + Len(text) + 2)
<1>1. LF \notin Printable \cup {CR}
  BY DEF LF, CR, Printable, Digit
<1> QED
  BY <1>1, LineDecoded DEF DecodeChunkString

(***************************************************************************)
(* decode_chunk_integer, likewise for an integer of any number of digits.  *)
(***************************************************************************)
THEOREM IntegersDecoded ==
    ASSUME NEW mem, NEW o \in Nat, NEW got \in Nat, NEW text \in Seq(Digit \cup {"-"}),
           HoldsLine(mem, o, got, text)
    PROVE  DecodeChunkInteger(mem, o, got) =
             IF got < o + Len(text) + 2 THEN Incomplete ELSE Complete(o + Len(text) + 2)
<1>1. LF \notin (Digit \cup {"-"}) \cup {CR}
  BY DEF LF, CR, Digit
<1> QED
  BY <1>1, LineDecoded DEF DecodeChunkInteger

(***************************************************************************)
(* decode_chunk_bulk, for bytes of any number and kind, if strtol reads    *)
(* the size as it was written (n): a part of the bulk is incomplete and a  *)
(* whole one complete, but a null or empty bulk is complete only when one  *)
(* more byte is there (resp_decoder.hh:228, 238).                          *)
(***************************************************************************)
THEOREM BulksDecoded ==
    ASSUME NEW mem, Len(mem) \in Nat, NEW o \in Nat, NEW got \in 0..Len(mem),
           NEW num \in Seq(Digit \cup {"-"}), HoldsLine(mem, o, got, num),
           NEW Byte, NEW text \in Seq(Byte), HoldsLine(mem, o + Len(num) + 2, got, text),
           NEW n \in Int, n = Len(text) \/ (n < 0 /\ text = << >>),
           NEW end, end = o + Len(num) + 2 + Len(text) + 2
    PROVE  DecodeBulk(mem, o, got, n) =
             IF got < end + (IF text = << >> THEN 1 ELSE 0) THEN Incomplete ELSE Complete(end)
<1> DEFINE b == o + Len(num) + 2
<1>1. /\ b \in Nat /\ Len(num) \in Nat /\ Len(text) \in Nat /\ got \in Nat /\ got <= Len(mem)
      /\ end = b + Len(text) + 2 /\ end \in Nat
  OBVIOUS
<1>2. text = << >> <=> Len(text) = 0
  OBVIOUS
<1>3. DecodeSize(mem, o, got) = IF got < b THEN Incomplete ELSE Complete(b)
  <2>1. LF \notin (Digit \cup {"-"}) \cup {CR}
    BY DEF LF, CR, Digit
  <2> QED
    BY <1>1, <2>1, LineDecoded DEF DecodeSize
<1> HIDE DEF b
<1>4. HoldsLine(mem, b, got, text)
  BY DEF b
<1>5. CASE got < b
  <2>1. got < end + (IF text = << >> THEN 1 ELSE 0)
    BY <1>1, <1>5
  <2> QED
    BY <1>3, <1>5, <2>1 DEF DecodeBulk, Incomplete
<1>6. CASE ~(got < b) /\ text = << >>
  <2>1. n <= 0 /\ Len(text) = 0 /\ end = b + 2
    BY <1>1, <1>2, <1>6
  <2>2. DecodeBulk(mem, o, got, n) = IF b + 2 >= got THEN Incomplete ELSE Ending(mem, b, b + 2)
    BY <1>3, <1>6, <2>1 DEF DecodeBulk, Complete, TooShort
  <2>3. CASE b + 2 >= got
    BY <1>1, <1>6, <2>1, <2>2, <2>3
  <2>4. CASE ~(b + 2 >= got)
    <3>1. mem[b + 1] = CR /\ mem[b + 2] = LF
      BY <1>1, <1>4, <2>1, <2>4 DEF HoldsLine
    <3>2. At(mem, b) = CR /\ At(mem, b + 1) = LF
      BY <1>1, <2>4, <3>1 DEF At
    <3> QED
      BY <1>1, <1>6, <2>1, <2>2, <2>4, <3>2 DEF Ending
  <2> QED
    BY <2>3, <2>4
<1>7. CASE ~(got < b) /\ text # << >>
  <2>1. n = Len(text) /\ n > 0 /\ end = b + n + 2
    BY <1>1, <1>2, <1>7
  <2>2. DecodeBulk(mem, o, got, n) =
            IF b + n - 1 + 2 >= got THEN Incomplete ELSE Ending(mem, b + n, b + n + 2)
    BY <1>3, <1>7, <2>1 DEF DecodeBulk, Complete, TooShort
  <2>3. CASE b + n - 1 + 2 >= got
    BY <1>1, <1>7, <2>1, <2>2, <2>3
  <2>4. CASE ~(b + n - 1 + 2 >= got)
    <3>1. mem[b + n + 1] = CR /\ mem[b + n + 2] = LF
      BY <1>1, <1>4, <2>1, <2>4 DEF HoldsLine
    <3>2. At(mem, b + n) = CR /\ At(mem, b + n + 1) = LF
      BY <1>1, <2>1, <2>4, <3>1 DEF At
    <3> QED
      BY <1>1, <1>7, <2>1, <2>2, <2>4, <3>2 DEF Ending
  <2> QED
    BY <2>3, <2>4
<1> QED
  BY <1>5, <1>6, <1>7

=============================================================================
