-------------------------- MODULE MqttServerProofs --------------------------
(***************************************************************************)
(* Theorems about the MQTT server, for any number of sessions, topics and  *)
(* clients, any hash function and any sizes.                               *)
(***************************************************************************)
EXTENDS MqttServer, FiniteSetTheorems, TLAPS

Places == {"none", "reply", "ended"} \cup Waiting \cup Queued

\* Types of what the theorems are about.
TypeOK ==
    /\ TopicTypeOK
    /\ open \in [Session -> BOOLEAN]
    /\ head \in [Session -> Int]
    /\ pc \in [Session -> Places]
    /\ stage \in [Session -> {"connecting", "serving"}]
    /\ job \in [Session -> [kind : Kinds, topics : Seq(Topic)]]
    /\ tasks \in Seq(Session)
    /\ gb \in Session \cup {Elsewhere, None} /\ acked \subseteq Session

-----------------------------------------------------------------------------
\* What a step does to the chain of a session, without the bytes it takes.

kept == <<stage, job, tasks, gb, acked, topicVars>>

\* Events that no chain notices at once.
Unnoticed ==
    /\ UNCHANGED <<pc, kept>>
    /\ open' = open \/ \E s \in Session : open' = [open EXCEPT ![s] = FALSE]

\* The chain waits for the next part of a packet.
ReadsOn(s) ==
    /\ UNCHANGED kept
    /\ \E p \in Waiting : pc' = [pc EXCEPT ![s] = p]
    /\ \/ pc[s] \in Waiting /\ open' = open
       \/ pc[s] = "none" /\ open' = [open EXCEPT ![s] = TRUE]

Ends(s) ==
    /\ UNCHANGED kept
    /\ pc[s] \in Waiting
    /\ pc' = [pc EXCEPT ![s] = "ended"]
    /\ open' = [open EXCEPT ![s] = FALSE]

Submits(s) ==
    /\ pc[s] \in Waiting
    /\ \E kind \in Kinds, T \in Seq(Topic) :
        /\ kind = "connect" \/ stage[s] = "serving"
        /\ Submit(s, kind, T)
    /\ UNCHANGED <<stage, gb, acked, topicVars, open>>

\* A function on 1..k is a sequence, if k is negative too.
LEMMA InSeq == ASSUME NEW S, NEW k \in Int, NEW T \in [1..k -> S] PROVE T \in Seq(S)
<1>1. CASE k >= 0
  BY <1>1
<1>2. CASE k < 0
  <2>1. 1..k = 1..0
    BY <1>2
  <2> QED
    BY <2>1
<1> QED
  BY <1>1, <1>2

\* The number of topics of a packet is a number.
LEMMA ItemsInt == ASSUME TypeOK, NEW s \in Session PROVE Items(s) \in Int
  BY MqttConstants DEF TypeOK, Items, Item

\* Reading a packet is one of these.
LEMMA DispatchSteps ==
    ASSUME TypeOK, NEW s \in Session, Dispatch(s),
           UNCHANGED <<topicVars, gb, acked, aborted>>
    PROVE  Ends(s) \/ Submits(s)
<1> USE DEF Ends, Submits, kept, TypeOK, Waiting
<1>1. PICK kind \in Kinds :
        \/ kind \notin Accepted(s) /\ Quit(s) /\ UNCHANGED <<job, tasks>>
        \/ kind \in Accepted(s) \cap {"pingreq"} /\ Submit(s, kind, << >>) /\ UNCHANGED open
        \/ kind \in Accepted(s) \cap {"connect"} /\ BuildConnect(s)
        \/ kind \in Accepted(s) \cap {"publish"} /\ BuildPublish(s)
        \/ kind \in Accepted(s) \cap {"subscribe", "unsubscribe"} /\ BuildTopics(s, kind)
  BY DEF Dispatch
<1>2. pc[s] = "body" /\ UNCHANGED stage
  BY DEF Dispatch
<1>3. CASE kind \notin Accepted(s) /\ Quit(s) /\ UNCHANGED <<job, tasks>>
  BY <1>2, <1>3 DEF Quit
<1>4. CASE kind \in Accepted(s) \cap {"pingreq"} /\ Submit(s, kind, << >>) /\ UNCHANGED open
  <2>1. kind \in Kinds /\ << >> \in Seq(Topic) /\ stage[s] = "serving"
    BY <1>4 DEF Accepted, FirstKinds
  <2> QED
    BY <1>2, <1>4, <2>1
<1>5. CASE kind \in Accepted(s) \cap {"connect"} /\ BuildConnect(s)
  <2>1. CASE \E n \in NameLen..NameLen + 2 :
                Pop(s, n) /\ Submit(s, "connect", << >>) /\ UNCHANGED open
    <3>1. "connect" \in Kinds /\ << >> \in Seq(Topic)
      BY DEF Kinds
    <3> QED
      BY <1>2, <2>1, <3>1
  <2>2. CASE Quit(s) /\ UNCHANGED <<job, tasks>>
    BY <1>2, <2>2 DEF Quit
  <2> QED
    BY <1>5, <2>1, <2>2 DEF BuildConnect
<1>6. CASE kind \in Accepted(s) \cap {"publish"} /\ BuildPublish(s)
  BY <1>2, <1>6 DEF BuildPublish, Quit
<1>7. CASE kind \in Accepted(s) \cap {"subscribe", "unsubscribe"} /\ BuildTopics(s, kind)
  <2>1. PICK T \in [1..Items(s) -> Topic] : Submit(s, kind, T)
    BY <1>7 DEF BuildTopics
  <2>2. T \in Seq(Topic)
    BY <2>1, ItemsInt, InSeq
  <2>3. stage[s] = "serving" /\ UNCHANGED open
    BY <1>7 DEF BuildTopics, Accepted, FirstKinds
  <2> QED
    BY <1>2, <2>1, <2>2, <2>3
<1> QED
  BY <1>1, <1>3, <1>4, <1>5, <1>6, <1>7

\* A function of the packet reader waits for more, ends the chain or hands the packet on.
LEMMA ReadSteps ==
    ASSUME TypeOK, NEW s \in Session, Read(s)
    PROVE  ReadsOn(s) \/ Ends(s) \/ Submits(s)
<1>1. CASE ReadCommand(s)
  BY <1>1 DEF Read, ReadCommand, WaitFor, ReadsOn, kept, Waiting
<1>2. CASE ReadRemaining(s)
  <2>1. UNCHANGED kept /\ pc[s] = "remaining"
    BY <1>2 DEF Read, ReadRemaining, kept
  <2>2. PICK low \in LowBits :
          \/ WaitFor(s, "body", last[s] + low * mult[s]) /\ UNCHANGED open
          \/ Quit(s)
          \/ WaitFor(s, "remaining", 1) /\ UNCHANGED open
    BY <1>2 DEF ReadRemaining
  <2> QED
    BY <2>1, <2>2 DEF WaitFor, Quit, ReadsOn, Ends, Waiting
<1>3. CASE Dispatch(s)
  BY <1>3, DispatchSteps DEF Read
<1> QED
  BY <1>1, <1>2, <1>3 DEF Read

\* Every step is one of these.
LEMMA Steps ==
    ASSUME TypeOK, [Next]_vars
    PROVE  \/ Unnoticed
           \/ \E s \in Session : ReadsOn(s) \/ Ends(s) \/ Submits(s) \/ Sent(s) \/ SendFails(s)
           \/ RunTask \/ OtherHandles
<1>1. ASSUME NEW s \in Session, Accept(s) PROVE ReadsOn(s)
  BY <1>1 DEF Accept, ReadsOn, kept, Waiting
<1>2. ASSUME NEW s \in Session, TcpCloses(s) PROVE Unnoticed
  BY <1>2 DEF TcpCloses, Unnoticed, kept, chainVars
<1>3. ASSUME NEW s \in Session, NEW n \in 1..Cap, Arrive(s, n) PROVE Unnoticed
  BY <1>3 DEF Arrive, Unnoticed, kept, chainVars
<1>4. ASSUME NEW s \in Session, Overrun(s) PROVE Unnoticed
  BY <1>4 DEF Overrun, Abort, Unnoticed, kept, chainVars
<1>5. ASSUME NEW s \in Session, FireTimer(s) PROVE Ends(s)
  BY <1>5 DEF FireTimer, Quit, Ends, kept
<1>6. CASE UNCHANGED vars
  BY <1>6 DEF vars, mqttVars, chainVars, Unnoticed, kept
<1> QED
  BY <1>1, <1>2, <1>3, <1>4, <1>5, <1>6, ReadSteps DEF Next

\* The ring buffer's head stays a number.
LEMMA HeadStep == ASSUME TypeOK, [Next]_vars PROVE head' \in [Session -> Int]
<1> USE MqttConstants DEF TypeOK
<1>1. ASSUME NEW s \in Session, NEW n \in Int, Pop(s, n) PROVE head' \in [Session -> Int]
  BY <1>1 DEF Pop
<1>2. ASSUME NEW s \in Session, Quit(s) PROVE head' \in [Session -> Int]
  BY <1>2 DEF Quit
<1>3. ASSUME NEW s \in Session, Dispatch(s) PROVE head' \in [Session -> Int]
  <2>1. ASSUME BuildConnect(s) PROVE head' \in [Session -> Int]
    BY <1>1, <1>2, <2>1 DEF BuildConnect
  <2>2. ASSUME NEW kind, BuildTopics(s, kind) PROVE head' \in [Session -> Int]
    <3>1. WordLen + Items(s) * Item \in Int
      BY ItemsInt DEF Item
    <3> QED
      BY <1>1, <2>2, <3>1 DEF BuildTopics
  <2> QED
    BY <1>2, <1>3, <2>1, <2>2 DEF Dispatch, BuildPublish, ringVars
<1>4. ASSUME NEW s \in Session, Read(s) PROVE head' \in [Session -> Int]
  <2>1. CASE ReadCommand(s)
    BY <1>1, <2>1 DEF ReadCommand
  <2>2. CASE ReadRemaining(s)
    BY <1>1, <1>2, <2>2 DEF ReadRemaining
  <2> QED
    BY <1>3, <1>4, <2>1, <2>2 DEF Read
<1>5. CASE RunTask
  BY <1>2, <1>5 DEF RunTask, Hop, Handle, GoOn, GiveUp, ringVars
<1>6. CASE OtherHandles \/ UNCHANGED vars
  BY <1>6 DEF OtherHandles, vars, mqttVars, ringVars
<1>7. ASSUME NEW s \in Session,
             Accept(s) \/ TcpCloses(s) \/ Overrun(s) \/ FireTimer(s) \/ Sent(s) \/ SendFails(s)
                \/ \E n \in 1..Cap : Arrive(s, n)
      PROVE  head' \in [Session -> Int]
  BY <1>2, <1>7 DEF Accept, TcpCloses, Overrun, Abort, FireTimer, Sent, SendFails, Arrive, ringVars
<1> QED
  BY <1>4, <1>5, <1>6, <1>7 DEF Next

\* What the handlers do to the lists of subscribers keeps their types.
LEMMA TopicTypes ==
    ASSUME TopicTypeOK, NEW T \in Seq(Topic), NEW c \in Client,
           Subscribe(T, c) \/ Unsubscribe(T, c)
    PROVE  TopicTypeOK'
<1> USE DEF TopicTypeOK
<1>1. Codes(T) \subseteq Code
  BY DEF Codes, Code
<1>2. CASE Subscribe(T, c)
  <2>1. ASSUME NEW h PROVE Times(T, h) \in Nat
    <3>1. IsFiniteSet(1..Len(T))
      BY FS_Interval
    <3>2. IsFiniteSet({i \in 1..Len(T) : Hash[T[i]] = h})
      BY <3>1, FS_Subset
    <3> QED
      BY <3>2, FS_CardinalityType DEF Times
  <2> QED
    BY <1>1, <1>2, <2>1 DEF Subscribe
<1>3. CASE Unsubscribe(T, c)
  BY <1>3 DEF Unsubscribe
<1> QED
  BY <1>2, <1>3

\* The empty id is a client.
LEMMA EmptyIdClient == EmptyId \in Client
  BY MqttConstants DEF EmptyId

\* The initial states have the types.
LEMMA TypeInit == Init => TypeOK
<1> SUFFICES ASSUME Init PROVE TypeOK
  OBVIOUS
<1>1. TopicTypeOK
  BY DEF Init, TopicInit, TopicTypeOK
<1>2. NoJob \in [kind : Kinds, topics : Seq(Topic)]
  BY DEF NoJob, Kinds
<1> QED
  BY <1>1, <1>2 DEF Init, TypeOK, Places

\* Every step keeps the types.
LEMMA TypeStep == TypeOK /\ [Next]_vars => TypeOK'
<1> SUFFICES ASSUME TypeOK, [Next]_vars PROVE TypeOK'
  OBVIOUS
<1> USE HeadStep DEF TypeOK, Places, Waiting, Queued
<1>1. CASE Unnoticed
  BY <1>1 DEF Unnoticed, kept, topicVars, TopicTypeOK
<1>2. ASSUME NEW s \in Session, ReadsOn(s) PROVE TypeOK'
  BY <1>2 DEF ReadsOn, kept, topicVars, TopicTypeOK
<1>3. ASSUME NEW s \in Session, Ends(s) PROVE TypeOK'
  BY <1>3 DEF Ends, kept, topicVars, TopicTypeOK
<1>4. ASSUME NEW s \in Session, Submits(s) PROVE TypeOK'
  BY <1>4 DEF Submits, Submit, topicVars, TopicTypeOK
<1>5. ASSUME NEW s \in Session, Sent(s) \/ SendFails(s) PROVE TypeOK'
  <2>1. CASE Sent(s)
    BY <2>1 DEF Sent, topicVars, TopicTypeOK
  <2>2. CASE SendFails(s)
    <3>1. open' \in [Session -> BOOLEAN]
      BY <2>2 DEF SendFails
    <3>2. pc' \in [Session -> Places] /\ tasks' \in Seq(Session)
      BY <2>2 DEF SendFails
    <3>3. UNCHANGED <<topicVars, stage, job, gb, acked>>
      BY <2>2 DEF SendFails
    <3> QED
      BY <3>1, <3>2, <3>3 DEF topicVars, TopicTypeOK
  <2> QED
    BY <1>5, <2>1, <2>2
<1>6. CASE RunTask
  <2> DEFINE s == Head(tasks)
  <2>1. s \in Session /\ Tail(tasks) \in Seq(Session) /\ acked' = acked
    BY <1>6 DEF RunTask
  <2> HIDE DEF s
  <2>2. CASE Hop(s)
    BY <2>1, <2>2 DEF Hop, topicVars, TopicTypeOK
  <2>3. CASE Handle(s)
    <3>1. NoJob \in [kind : Kinds, topics : Seq(Topic)]
      BY DEF NoJob, Kinds
    <3>2. TopicTypeOK' /\ gb' \in Session \cup {Elsewhere, None}
      <4>1. CASE gb' = s /\ UNCHANGED topicVars
        BY <2>1, <4>1 DEF topicVars, TopicTypeOK
      <4>2. CASE UNCHANGED <<gb, topicVars>>
        BY <4>2 DEF topicVars, TopicTypeOK
      <4>3. CASE /\ Subscribe(job[s].topics, EmptyId) \/ Unsubscribe(job[s].topics, EmptyId)
                 /\ UNCHANGED gb
        BY <2>1, <4>3, TopicTypes, EmptyIdClient
      <4> QED
        BY <2>3, <4>1, <4>2, <4>3 DEF Handle
    <3> QED
      BY <2>1, <2>3, <3>1, <3>2 DEF Handle
  <2>4. CASE GoOn(s)
    BY <2>1, <2>4 DEF GoOn, WaitFor, topicVars, TopicTypeOK
  <2>5. CASE GiveUp(s)
    BY <2>1, <2>5 DEF GiveUp, Quit, topicVars, TopicTypeOK
  <2> QED
    BY <1>6, <2>2, <2>3, <2>4, <2>5 DEF RunTask, s
<1>7. CASE OtherHandles
  <2>1. TopicTypeOK' /\ gb' \in Session \cup {Elsewhere, None}
    <3>1. CASE gb' = Elsewhere /\ UNCHANGED topicVars
      BY <3>1 DEF topicVars, TopicTypeOK
    <3>2. ASSUME NEW t \in Topic, UNCHANGED gb,
                 Subscribe(<<t>>, EmptyId) \/ Unsubscribe(<<t>>, EmptyId)
          PROVE  TopicTypeOK' /\ gb' \in Session \cup {Elsewhere, None}
      <4>1. <<t>> \in Seq(Topic)
        OBVIOUS
      <4>2. TopicTypeOK'
        BY <3>2, <4>1, TopicTypes, EmptyIdClient
      <4> QED
        BY <3>2, <4>2
    <3> QED
      BY <1>7, <3>1, <3>2 DEF OtherHandles
  <2> QED
    BY <1>7, <2>1 DEF OtherHandles, chainVars
<1> QED
  BY <1>1, <1>2, <1>3, <1>4, <1>5, <1>6, <1>7, Steps

-----------------------------------------------------------------------------
\* Chains

In(q, s) == \E i \in 1..Len(q) : q[i] = s

Once(q, s) == \A i, j \in 1..Len(q) : q[i] = s /\ q[j] = s => i = j

\* ChainKept for one session
Kept(p, o, q, s) == /\ p \in Queued <=> In(q, s)
                    /\ Once(q, s)
                    /\ p = "ended" => ~o

\* A session that is appended to a queue without it is there once.
LEMMA AppendKeeps ==
    ASSUME NEW S, NEW q \in Seq(S), NEW x \in S, NEW r, Once(q, r), ~In(q, x)
    PROVE  (In(Append(q, x), r) <=> In(q, r) \/ r = x) /\ Once(Append(q, x), r)
<1>1. Len(Append(q, x)) = Len(q) + 1 /\ Append(q, x)[Len(q) + 1] = x
  OBVIOUS
<1>2. \A i \in 1..Len(q) : Append(q, x)[i] = q[i]
  OBVIOUS
<1> QED
  BY <1>1, <1>2 DEF In, Once

\* The head of a queue without repetitions is gone from the tail, all others stay.
LEMMA TailKeeps ==
    ASSUME NEW S, NEW q \in Seq(S), q # << >>, NEW r, Once(q, r)
    PROVE  (In(Tail(q), r) <=> In(q, r) /\ r # Head(q)) /\ Once(Tail(q), r)
<1>1. Len(Tail(q)) = Len(q) - 1 /\ Head(q) = q[1] /\ Len(q) \in Nat \ {0}
  OBVIOUS
<1>2. \A i \in 1..Len(Tail(q)) : Tail(q)[i] = q[i + 1]
  OBVIOUS
<1>3. Once(Tail(q), r)
  BY <1>1, <1>2 DEF Once
<1>4. ASSUME In(Tail(q), r) PROVE In(q, r) /\ r # Head(q)
  <2>1. PICK i \in 1..Len(Tail(q)) : Tail(q)[i] = r
    BY <1>4 DEF In
  <2>2. q[i + 1] = r /\ i + 1 \in 1..Len(q) /\ i + 1 # 1 /\ 1 \in 1..Len(q)
    BY <1>1, <1>2, <2>1
  <2> QED
    BY <1>1, <2>2 DEF In, Once
<1>5. ASSUME In(q, r), r # Head(q) PROVE In(Tail(q), r)
  <2>1. PICK i \in 1..Len(q) : q[i] = r
    BY <1>5 DEF In
  <2>2. i - 1 \in 1..Len(Tail(q)) /\ Tail(q)[i - 1] = r
    BY <1>1, <1>2, <1>5, <2>1
  <2> QED
    BY <2>2 DEF In
<1> QED
  BY <1>3, <1>4, <1>5

\* ChainKept, session by session.
LEMMA ChainKeptAll == ChainKept <=> \A r \in Session : Kept(pc[r], open[r], tasks, r)
  BY DEF ChainKept, Kept, In, Once

\* The same, after a step.
LEMMA ChainKeptAllNext == ChainKept' <=> \A r \in Session : Kept(pc'[r], open'[r], tasks', r)
  BY DEF ChainKept, Kept, In, Once

\* No chain exists initially.
LEMMA ChainInit == Init => ChainKept
  BY DEF Init, ChainKept, Queued

\* Every step keeps the chains.
LEMMA ChainStep == TypeOK /\ ChainKept /\ [Next]_vars => ChainKept'
<1> SUFFICES ASSUME TypeOK, ChainKept, [Next]_vars, NEW r \in Session
             PROVE  Kept(pc'[r], open'[r], tasks', r)
  BY ChainKeptAllNext
<1>0. \A s \in Session : Kept(pc[s], open[s], tasks, s)
  BY ChainKeptAll
<1>a. /\ pc \in [Session -> Places] /\ open \in [Session -> BOOLEAN]
      /\ tasks \in Seq(Session)
  BY DEF TypeOK
<1>1. CASE Unnoticed
  BY <1>0, <1>1, <1>a DEF Unnoticed, kept, Kept
<1>2. ASSUME NEW s \in Session, ReadsOn(s) PROVE Kept(pc'[r], open'[r], tasks', r)
  BY <1>0, <1>2, <1>a DEF ReadsOn, kept, Kept, Waiting, Queued
<1>3. ASSUME NEW s \in Session, Ends(s) PROVE Kept(pc'[r], open'[r], tasks', r)
  BY <1>0, <1>3, <1>a DEF Ends, kept, Kept, Waiting, Queued
<1>4. ASSUME NEW s \in Session, NEW p \in Queued, pc[s] \notin Queued,
             open' \in {open, [open EXCEPT ![s] = FALSE]},
             pc' = [pc EXCEPT ![s] = p], tasks' = Append(tasks, s)
      PROVE  Kept(pc'[r], open'[r], tasks', r)
  <2>1. Once(tasks, r) /\ ~In(tasks, s)
    BY <1>0, <1>4 DEF Kept
  <2>2. (In(tasks', r) <=> In(tasks, r) \/ r = s) /\ Once(tasks', r)
    BY <1>4, <1>a, <2>1, AppendKeeps
  <2> QED
    BY <1>0, <1>4, <1>a, <2>2 DEF Kept, Queued
<1>5. ASSUME NEW s \in Session, Submits(s) PROVE Kept(pc'[r], open'[r], tasks', r)
  BY <1>4, <1>5 DEF Submits, Submit, Waiting, Queued
<1>6. ASSUME NEW s \in Session, Sent(s) \/ SendFails(s) PROVE Kept(pc'[r], open'[r], tasks', r)
  BY <1>4, <1>6 DEF Sent, SendFails, Queued
<1>7. CASE RunTask
  <2> DEFINE s == Head(tasks)
  <2>1. s \in Session /\ Tail(tasks) \in Seq(Session) /\ tasks # << >> /\ In(tasks, s)
    BY <1>7, <1>a DEF RunTask, In
  <2>2. Once(tasks, r)
    BY <1>0 DEF Kept
  <2>3. (In(Tail(tasks), r) <=> In(tasks, r) /\ r # s) /\ Once(Tail(tasks), r)
    BY <1>a, <2>1, <2>2, TailKeeps
  <2> HIDE DEF s
  <2>4. CASE Hop(s)
    <3>1. Once(tasks, s)
      BY <1>0, <2>1 DEF Kept
    <3>2. ~In(Tail(tasks), s)
      BY <1>a, <2>1, <3>1, TailKeeps DEF s
    <3>3. (In(tasks', r) <=> In(Tail(tasks), r) \/ r = s) /\ Once(tasks', r)
      BY <2>1, <2>3, <2>4, <3>2, AppendKeeps DEF Hop
    <3> QED
      BY <1>0, <1>a, <2>1, <2>3, <2>4, <3>3 DEF Hop, Kept, Queued
  <2>5. ASSUME NEW p \in {"reply", "command", "ended"}, pc' = [pc EXCEPT ![s] = p],
               tasks' = Tail(tasks),
               (open' = open /\ p # "ended") \/ open' = [open EXCEPT ![s] = FALSE]
        PROVE  Kept(pc'[r], open'[r], tasks', r)
    BY <1>0, <1>a, <2>1, <2>3, <2>5 DEF Kept, Queued
  <2>6. CASE Handle(s)
    BY <2>5, <2>6 DEF Handle
  <2>7. CASE GoOn(s)
    BY <2>5, <2>7 DEF GoOn, WaitFor
  <2>8. CASE GiveUp(s)
    BY <2>5, <2>8 DEF GiveUp, Quit
  <2> QED
    BY <1>7, <2>4, <2>6, <2>7, <2>8 DEF RunTask, s
<1>8. CASE OtherHandles
  BY <1>0, <1>8, <1>a DEF OtherHandles, chainVars, Kept
<1> QED
  BY <1>1, <1>2, <1>3, <1>5, <1>6, <1>7, <1>8, Steps

-----------------------------------------------------------------------------
\* Connecting

\* A request before the session is served is its connect packet.
ConnectFirst ==
    \A s \in Session : pc[s] \in {"submitted", "handler"}
                        => job[s].kind = "connect" \/ stage[s] = "serving"

\* A reply under way means that some connect packet was handled.
ReplyAfterConnect == \A s \in Session : pc[s] \in {"reply", "replied"} => gb # None

RepliedIsAcked == \A s \in Session : pc[s] = "replied" => s \in acked

ServeInv == ConnectFirst /\ ReplyAfterConnect /\ RepliedIsAcked /\ ServedAfterConnack

\* Nobody is served initially.
LEMMA ServeInit == Init => ServeInv
  BY DEF Init, ServeInv, ConnectFirst, ReplyAfterConnect, RepliedIsAcked, ServedAfterConnack

\* Every step keeps the order of connect packet, connack and service.
LEMMA ServeStep == TypeOK /\ ServeInv /\ [Next]_vars => ServeInv'
<1> SUFFICES ASSUME TypeOK, ServeInv, [Next]_vars PROVE ServeInv'
  OBVIOUS
<1> USE MqttConstants
    DEF TypeOK, ServeInv, ConnectFirst, ReplyAfterConnect, RepliedIsAcked, ServedAfterConnack
<1>1. CASE Unnoticed
  BY <1>1 DEF Unnoticed, kept
<1>2. ASSUME NEW s \in Session, ReadsOn(s) \/ Ends(s) PROVE ServeInv'
  BY <1>2 DEF ReadsOn, Ends, kept, Waiting
<1>3. ASSUME NEW s \in Session, Submits(s) PROVE ServeInv'
  BY <1>3 DEF Submits, Submit
<1>4. ASSUME NEW s \in Session, Sent(s) PROVE ServeInv'
  BY <1>4 DEF Sent
<1>5. ASSUME NEW s \in Session, SendFails(s) PROVE ServeInv'
  BY <1>5 DEF SendFails
<1>6. CASE RunTask
  <2> DEFINE s == Head(tasks)
  <2>1. s \in Session
    BY <1>6 DEF RunTask
  <2> HIDE DEF s
  <2>2. UNCHANGED acked
    BY <1>6 DEF RunTask
  <2>3. CASE pc[s] = "submitted" /\ Hop(s)
    BY <2>1, <2>2, <2>3 DEF Hop
  <2>4. CASE pc[s] = "handler" /\ Handle(s)
    <3>1. pc' = [pc EXCEPT ![s] = "reply"] /\ UNCHANGED stage /\ job' = [job EXCEPT ![s] = NoJob]
      BY <2>4 DEF Handle
    <3>2. gb' # None
      BY <2>1, <2>4 DEF Handle
    <3> QED
      BY <2>1, <2>2, <2>4, <3>1, <3>2
  <2>5. CASE pc[s] = "replied" /\ GoOn(s)
    BY <2>1, <2>2, <2>5 DEF GoOn, WaitFor
  <2>6. CASE pc[s] = "failed" /\ GiveUp(s)
    BY <2>1, <2>2, <2>6 DEF GiveUp, Quit
  <2> QED
    BY <1>6, <2>3, <2>4, <2>5, <2>6 DEF RunTask, s
<1>7. CASE OtherHandles
  <2>1. gb' \in {gb, Elsewhere}
    BY <1>7 DEF OtherHandles
  <2>2. UNCHANGED <<pc, stage, job, acked>>
    BY <1>7 DEF OtherHandles, chainVars
  <2> QED
    BY <2>1, <2>2
<1> QED
  BY <1>1, <1>2, <1>3, <1>4, <1>5, <1>6, <1>7, Steps

-----------------------------------------------------------------------------
\* Subscriptions

\* There are no subscribers initially.
LEMMA KnownInit == Init => CountedIsKnown
  BY DEF Init, TopicInit, CountedIsKnown

\* A topic list has a code exactly if it has it some number of times.
LEMMA TimesPositive ==
    ASSUME NEW T \in Seq(Topic), NEW h
    PROVE  Times(T, h) \in Nat /\ (Times(T, h) > 0 <=> h \in Codes(T))
<1> DEFINE I == {i \in 1..Len(T) : Hash[T[i]] = h}
<1>1. IsFiniteSet(1..Len(T))
  BY FS_Interval
<1>2. IsFiniteSet(I)
  BY <1>1, FS_Subset
<1>3. Cardinality(I) \in Nat /\ (Cardinality(I) = 0 <=> I = {})
  BY <1>2, FS_CardinalityType, FS_EmptySet
<1>4. h \in Codes(T) <=> I # {}
  BY DEF Codes
<1> QED
  BY <1>3, <1>4 DEF Times

\* What a handler does to the lists is what the request does to the relation.
LEMMA SubscribeEffect ==
    ASSUME TopicTypeOK, CountedIsKnown, NEW T \in Seq(Topic), NEW c \in Client, Subscribe(T, c)
    PROVE  CountedIsKnown' /\ Subscribed' = Subscribed \cup (Codes(T) \X {c})
<1>1. Codes(T) \subseteq Code
  BY DEF Codes, Code
<1>2. \A h \in Code, d \in Client :
        count'[h][d] > 0 <=> count[h][d] > 0 \/ (h \in Codes(T) /\ d = c)
  <2> SUFFICES ASSUME NEW h \in Code, NEW d \in Client
               PROVE  count'[h][d] > 0 <=> count[h][d] > 0 \/ (h \in Codes(T) /\ d = c)
    OBVIOUS
  <2>1. count[h] \in [Client -> Nat] /\ count'[h] = [count[h] EXCEPT ![c] = @ + Times(T, h)]
    BY DEF Subscribe, TopicTypeOK
  <2>2. Times(T, h) \in Nat /\ (Times(T, h) > 0 <=> h \in Codes(T))
    BY TimesPositive
  <2> QED
    BY <2>1, <2>2
<1>3. CountedIsKnown'
  BY <1>1, <1>2 DEF CountedIsKnown, Subscribe
<1>4. ASSUME NEW e PROVE e \in Subscribed' <=> e \in Subscribed \cup (Codes(T) \X {c})
  BY <1>1, <1>2 DEF Subscribed
<1> QED
  BY <1>3, <1>4

\* The same for unsubscribe, which needs that subscribers are under known codes only.
LEMMA UnsubscribeEffect ==
    ASSUME TopicTypeOK, CountedIsKnown, NEW T \in Seq(Topic), NEW c \in Client, Unsubscribe(T, c)
    PROVE  CountedIsKnown' /\ Subscribed' = Subscribed \ (Codes(T) \X {c})
<1>1. \A h \in Code, d \in Client :
        count'[h][d] > 0 <=> count[h][d] > 0 /\ ~(h \in Codes(T) /\ d = c)
  BY DEF Unsubscribe, TopicTypeOK, CountedIsKnown
<1>2. CountedIsKnown'
  BY <1>1 DEF CountedIsKnown, Unsubscribe
<1>3. ASSUME NEW e PROVE e \in Subscribed' <=> e \in Subscribed \ (Codes(T) \X {c})
  BY <1>1 DEF Subscribed
<1> QED
  BY <1>2, <1>3

\* No handler changes the lists otherwise.
LEMMA SameSubscribed == ASSUME UNCHANGED topicVars, CountedIsKnown
                        PROVE  UNCHANGED Subscribed /\ CountedIsKnown'
  BY DEF topicVars, Subscribed, CountedIsKnown

-----------------------------------------------------------------------------
\* The refinement

Asks(j) == j.kind \in {"subscribe", "unsubscribe"}

\* The request that a packet stands for
RequestOf(j) == [kind |-> j.kind, topics |-> Codes(j.topics), client |-> EmptyId]

\* A subscribe or unsubscribe packet stands for a request.
LEMMA RequestIsOne ==
    ASSUME NEW j \in [kind : Kinds, topics : Seq(Topic)], Asks(j)
    PROVE  RequestOf(j) \in Abstract!Request /\ RequestOf(j) # None
<1>1. Codes(j.topics) \in SUBSET Code
  BY DEF Codes, Code
<1>2. RequestOf(j) \in [kind : {"subscribe", "unsubscribe"}, topics : SUBSET Code, client : Client]
  BY <1>1, EmptyIdClient DEF RequestOf, Asks
<1> QED
  BY <1>2, MqttConstants DEF Abstract!Request

\* A step that leaves every chain where its request is, and the lists alone.
LEMMA Stutters ==
    ASSUME CountedIsKnown, UNCHANGED topicVars,
           \A s \in Session : PendingRequest(s)' = PendingRequest(s)
    PROVE  UNCHANGED <<Subscribed, [s \in Session |-> PendingRequest(s)]>> /\ CountedIsKnown'
<1>1. [s \in Session |-> PendingRequest(s)]' = [s \in Session |-> PendingRequest(s)]
  OBVIOUS
<1> QED
  BY <1>1, SameSubscribed

\* One of the steps of Subscriptions, or none.
Refines == Abstract!Next \/ UNCHANGED <<Subscribed, [s \in Session |-> PendingRequest(s)]>>

\* A packet is handed on: Ask, or no step if it is no request.
LEMMA RefinesSubmit ==
    ASSUME TypeOK, CountedIsKnown, NEW s \in Session, Submits(s)
    PROVE  Refines /\ CountedIsKnown'
<1>1. PICK kind \in Kinds, T \in Seq(Topic) : Submit(s, kind, T)
  BY DEF Submits
<1> DEFINE j == [kind |-> kind, topics |-> T]
<1>2. /\ pc' = [pc EXCEPT ![s] = "submitted"] /\ job' = [job EXCEPT ![s] = j]
      /\ UNCHANGED topicVars /\ pc[s] \in Waiting
  BY <1>1 DEF Submits, Submit
<1>3. \A r \in Session \ {s} : PendingRequest(r)' = PendingRequest(r)
  BY <1>2 DEF PendingRequest, TypeOK
<1>4. PendingRequest(s) = None
  BY <1>2 DEF PendingRequest, Waiting
<1>5. job'[s] = j /\ pc'[s] = "submitted" /\ j \in [kind : Kinds, topics : Seq(Topic)]
  BY <1>2 DEF TypeOK
<1>6. CASE Asks(j)
  <2>1. PendingRequest(s)' = RequestOf(j)
    BY <1>5, <1>6 DEF PendingRequest, RequestOf, Asks
  <2>2. [r \in Session |-> PendingRequest(r)]'
          = [[r \in Session |-> PendingRequest(r)] EXCEPT ![s] = RequestOf(j)]
    BY <1>3, <2>1
  <2>3. RequestOf(j) \in Abstract!Request
    BY <1>5, <1>6, RequestIsOne
  <2>4. Abstract!Ask(s)
    BY <1>2, <1>4, <2>2, <2>3, SameSubscribed DEF Abstract!Ask
  <2> QED
    BY <1>2, <2>4, SameSubscribed DEF Refines, Abstract!Next
<1>7. CASE ~Asks(j)
  <2>1. PendingRequest(s)' = None
    BY <1>5, <1>7 DEF PendingRequest, Asks
  <2> QED
    BY <1>2, <1>3, <1>4, <2>1, Stutters DEF Refines
<1> QED
  BY <1>6, <1>7

\* A handler: Do, or no step.
LEMMA RefinesHandle ==
    ASSUME TypeOK, CountedIsKnown, NEW s \in Session, pc[s] = "handler", Handle(s)
    PROVE  Refines /\ CountedIsKnown'
<1>1. /\ pc' = [pc EXCEPT ![s] = "reply"] /\ job' = [job EXCEPT ![s] = NoJob]
      /\ job[s] \in [kind : Kinds, topics : Seq(Topic)]
  BY DEF Handle, TypeOK
<1>2. \A r \in Session \ {s} : PendingRequest(r)' = PendingRequest(r)
  BY <1>1 DEF PendingRequest, TypeOK
<1>3. PendingRequest(s)' = None
  BY <1>1 DEF PendingRequest, TypeOK
<1>4. CASE Asks(job[s])
  <2>1. PendingRequest(s) = RequestOf(job[s])
    BY <1>4 DEF PendingRequest, RequestOf, Asks
  <2>2. PendingRequest(s) # None
    BY <1>1, <1>4, <2>1, RequestIsOne
  <2>3. [r \in Session |-> PendingRequest(r)]'
          = [[r \in Session |-> PendingRequest(r)] EXCEPT ![s] = None]
    BY <1>2, <1>3
  <2>4. CountedIsKnown' /\ Subscribed' = Abstract!Effect(RequestOf(job[s]))
    <3>1. TopicTypeOK /\ job[s].topics \in Seq(Topic) /\ EmptyId \in Client
      BY <1>1, EmptyIdClient DEF TypeOK
    <3>2. CASE job[s].kind = "subscribe"
      <4>1. Subscribe(job[s].topics, EmptyId)
        BY <3>2 DEF Handle
      <4> QED
        BY <3>1, <3>2, <4>1, SubscribeEffect DEF Abstract!Effect, RequestOf
    <3>3. CASE job[s].kind = "unsubscribe"
      <4>1. Unsubscribe(job[s].topics, EmptyId)
        BY <3>3 DEF Handle
      <4> QED
        BY <3>1, <3>3, <4>1, UnsubscribeEffect DEF Abstract!Effect, RequestOf
    <3> QED
      BY <1>4, <3>2, <3>3 DEF Asks
  <2>5. Abstract!Do(s)
    BY <2>1, <2>2, <2>3, <2>4 DEF Abstract!Do
  <2> QED
    BY <2>4, <2>5 DEF Refines, Abstract!Next
<1>5. CASE ~Asks(job[s])
  <2>1. UNCHANGED topicVars
    BY <1>5 DEF Handle, Asks
  <2>2. PendingRequest(s) = None
    BY <1>5 DEF PendingRequest, Asks
  <2> QED
    BY <1>2, <1>3, <2>1, <2>2, Stutters DEF Refines
<1> QED
  BY <1>4, <1>5

\* A handler of another session: DoElsewhere, or no step.
LEMMA RefinesOther ==
    ASSUME TypeOK, CountedIsKnown, OtherHandles
    PROVE  Refines /\ CountedIsKnown'
<1>1. [s \in Session |-> PendingRequest(s)]' = [s \in Session |-> PendingRequest(s)]
  BY DEF OtherHandles, chainVars, PendingRequest
<1>2. CASE UNCHANGED topicVars
  BY <1>1, <1>2, SameSubscribed DEF Refines
<1>3. ASSUME NEW t \in Topic, Subscribe(<<t>>, EmptyId) \/ Unsubscribe(<<t>>, EmptyId)
      PROVE  Refines /\ CountedIsKnown'
  <2> DEFINE j == [kind |-> IF Subscribe(<<t>>, EmptyId) THEN "subscribe" ELSE "unsubscribe",
                   topics |-> <<t>>]
  <2>1. j \in [kind : Kinds, topics : Seq(Topic)] /\ Asks(j)
    BY DEF Kinds, Asks
  <2>2. TopicTypeOK /\ <<t>> \in Seq(Topic) /\ EmptyId \in Client
    BY EmptyIdClient DEF TypeOK
  <2>3. CountedIsKnown' /\ Subscribed' = Abstract!Effect(RequestOf(j))
    <3>1. CASE Subscribe(<<t>>, EmptyId)
      BY <2>2, <3>1, SubscribeEffect DEF Abstract!Effect, RequestOf
    <3>2. CASE ~Subscribe(<<t>>, EmptyId)
      BY <1>3, <2>2, <3>2, UnsubscribeEffect DEF Abstract!Effect, RequestOf
    <3> QED
      BY <3>1, <3>2
  <2>4. Abstract!DoElsewhere
    BY <1>1, <2>1, <2>3, RequestIsOne DEF Abstract!DoElsewhere
  <2> QED
    BY <2>3, <2>4 DEF Refines, Abstract!Next
<1> QED
  BY <1>2, <1>3 DEF OtherHandles

\* Every step of the server is a step of Subscriptions or none.
LEMMA RefinesStep ==
    ASSUME TypeOK, CountedIsKnown, [Next]_vars
    PROVE  Refines /\ CountedIsKnown'
<1>1. CASE Unnoticed
  BY <1>1, Stutters DEF Unnoticed, kept, PendingRequest, Refines
<1>2. ASSUME NEW s \in Session, NEW p \in Places \ {"submitted", "handler"},
             pc[s] \notin {"submitted", "handler"}, pc' = [pc EXCEPT ![s] = p],
             UNCHANGED <<job, topicVars>>
      PROVE  Refines /\ CountedIsKnown'
  <2>1. \A r \in Session : PendingRequest(r)' = PendingRequest(r)
    BY <1>2 DEF PendingRequest, TypeOK
  <2> QED
    BY <1>2, <2>1, Stutters DEF Refines
<1>3. ASSUME NEW s \in Session, ReadsOn(s) \/ Ends(s) PROVE Refines /\ CountedIsKnown'
  BY <1>2, <1>3 DEF ReadsOn, Ends, kept, Waiting, Places
<1>4. ASSUME NEW s \in Session, Sent(s) \/ SendFails(s) PROVE Refines /\ CountedIsKnown'
  BY <1>2, <1>4 DEF Sent, SendFails, Places, Queued
<1>5. CASE RunTask
  <2> DEFINE s == Head(tasks)
  <2>1. s \in Session
    BY <1>5 DEF RunTask, TypeOK
  <2> HIDE DEF s
  <2>2. CASE pc[s] = "submitted" /\ Hop(s)
    <3>1. \A r \in Session : PendingRequest(r)' = PendingRequest(r)
      BY <2>1, <2>2 DEF Hop, PendingRequest, TypeOK
    <3> QED
      BY <2>2, <3>1, Stutters DEF Hop, Refines
  <2>3. CASE pc[s] = "handler" /\ Handle(s)
    BY <2>1, <2>3, RefinesHandle
  <2>4. CASE pc[s] = "replied" /\ GoOn(s)
    BY <1>2, <2>1, <2>4 DEF GoOn, WaitFor, Places, Waiting
  <2>5. CASE pc[s] = "failed" /\ GiveUp(s)
    BY <1>2, <2>1, <2>5 DEF GiveUp, Quit, Places
  <2> QED
    BY <1>5, <2>2, <2>3, <2>4, <2>5 DEF RunTask, s
<1> QED
  BY <1>1, <1>3, <1>4, <1>5, RefinesSubmit, RefinesOther, Steps

\* The initial states are initial states of Subscriptions.
LEMMA RefinesInit == Init => Abstract!Init
<1> SUFFICES ASSUME Init PROVE Abstract!Init
  OBVIOUS
<1>1. Subscribed = {}
  BY DEF Init, TopicInit, Subscribed
<1>2. [s \in Session |-> PendingRequest(s)] = [s \in Session |-> None]
  BY DEF Init, PendingRequest
<1> QED
  BY <1>1, <1>2 DEF Abstract!Init

-----------------------------------------------------------------------------

Inv == TypeOK /\ ChainKept /\ ServeInv /\ CountedIsKnown

\* The invariant of all theorems
LEMMA Invariant == Spec => []Inv
<1>1. Init => Inv
  BY TypeInit, ChainInit, ServeInit, KnownInit DEF Inv
<1>2. Inv /\ [Next]_vars => Inv'
  BY TypeStep, ChainStep, ServeStep, RefinesStep DEF Inv
<1> QED
  BY <1>1, <1>2, PTL DEF Spec

(***************************************************************************)
(* Chains are kept, for any number of sessions: a chain is queued once     *)
(* when it goes on in the task center and not otherwise, and has closed    *)
(* its session when it has ended (mqtt_proc.hh).                           *)
(***************************************************************************)
THEOREM ChainsKept == Spec => []ChainKept
<1>1. Inv => ChainKept
  BY DEF Inv
<1> QED
  BY <1>1, Invariant, PTL

(***************************************************************************)
(* Whatever a session sends first, it is served only after a connack, and  *)
(* when some session is stored (mqtt_proc.hh, handle_connect.hh).          *)
(***************************************************************************)
THEOREM ConnackFirst == Spec => []ServedAfterConnack
<1>1. Inv => ServedAfterConnack
  BY DEF Inv, ServeInv
<1> QED
  BY <1>1, Invariant, PTL

(***************************************************************************)
(* The server implements Subscriptions, for any hash function: requests    *)
(* that wait in the task center are done as a whole, each once.            *)
(***************************************************************************)
THEOREM Refinement == Spec => ImplementsSubscriptions
<1>1. Inv /\ [Next]_vars
        => [Abstract!Next]_(<<Subscribed, [s \in Session |-> PendingRequest(s)]>>)
  BY RefinesStep DEF Inv, Refines
<1> QED
  BY <1>1, RefinesInit, Invariant, PTL DEF Spec, ImplementsSubscriptions, Abstract!Spec

=============================================================================
