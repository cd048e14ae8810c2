----------------------------- MODULE MqttServer -----------------------------
(***************************************************************************)
(* The MQTT server of src/app/mqtt: for each session one chain of          *)
(* continuations reads a packet (mqtt_session.hh), builds it               *)
(* (mqtt_packet.hh), hands it to a handler by way of the task center and   *)
(* waits until the reply is sent (mqtt_proc.hh, handle_*.hh).              *)
(*                                                                         *)
(* The session below it is what TcpSession shows it to be: a ring buffer   *)
(* that grows with the input, waits that are served inside the event that  *)
(* satisfies them or time out, sends that are answered while the session   *)
(* is open or in the batch of events that closes it.  Bytes have no        *)
(* content here: what a byte means is chosen when it is read, so a packet  *)
(* is its kind and the number of bytes it takes.                           *)
(*                                                                         *)
(* A remaining length is last + (low bits) * multiplier where both start   *)
(* at 0, so it is 0 for every packet and a packet is built from the bytes  *)
(* that happen to be there.  Taking more than there are fails an assertion *)
(* of the ring buffer, which ends the process.                             *)
(***************************************************************************)
EXTENDS TopicCache

CONSTANTS
    Session,        \* the sessions whose steps are modelled
    Cap,            \* size of a ring buffer
    NameLen,        \* bytes of the protocol's name in a connect packet (6)
    WordLen,        \* bytes of a 16 bit number (2)
    TopicLen,       \* bytes of a topic's name
    PayloadLens,    \* bytes of the strings of a connect or publish packet
    LowBits,        \* values of the low 7 bits of a length byte
    MaxSubs,        \* bound: no packet adds to lists of this length or longer
    Elsewhere,      \* a session that is not among Session
    None

\* A connect packet is accepted only if from_buf stops in its fixed head, which it also
\* does when the reserved flag is 0 as it should be (check_connect_flags is inverted).
\* Its client_id has not been read then: every session that is served has the empty one.
EmptyId == CHOOSE c \in Client : TRUE

ASSUME MqttConstants ==
    /\ Cap \in Nat \ {0} /\ NameLen \in Nat \ {0} /\ WordLen \in Nat \ {0}
    /\ TopicLen \in Nat /\ PayloadLens \subseteq Nat /\ LowBits \subseteq 0..127
    /\ MaxSubs \in Nat
    /\ Client # {} /\ None \notin Session \cup {Elsewhere}
    /\ None \notin [kind : {"subscribe", "unsubscribe"}, topics : SUBSET Code, client : Client]

VARIABLES
    open,       \* state of the tcp_session
    head, size, \* of the ring buffer
    pc,         \* where the chain is
    stage,      \* which loop it is in: wait_connected or loop_session
    mult, last, \* arguments of wait_remaining
    remaining,  \* its result
    job,        \* the packet that a handler has
    running,    \* the session whose functions run, inside an event or a task
    tasks,      \* the task center: sessions whose chain goes on there
    gb,         \* gb_cache: the session stored under the empty id
    acked,      \* history: sessions whose connack has been sent
    aborted     \* an assertion has failed

chainVars == <<pc, stage, mult, last, remaining, job>>
ringVars == <<head, size>>
mqttVars == <<open, ringVars, chainVars, running, tasks, gb, acked, aborted>>
vars == <<mqttVars, topicVars>>

Waiting == {"command", "remaining", "body"}
Queued == {"submitted", "handler", "replied", "failed"}
Kinds == {"connect", "pingreq", "publish", "subscribe", "unsubscribe", "other"}

NoJob == [kind |-> "other", topics |-> << >>]

Init ==
    /\ TopicInit
    /\ open = [s \in Session |-> FALSE]
    /\ head = [s \in Session |-> 0] /\ size = [s \in Session |-> 0]
    /\ pc = [s \in Session |-> "none"]
    /\ stage = [s \in Session |-> "connecting"]
    /\ mult = [s \in Session |-> 0] /\ last = [s \in Session |-> 0]
    /\ remaining = [s \in Session |-> 0]
    /\ job = [s \in Session |-> NoJob]
    /\ running = None /\ tasks = << >> /\ gb = None /\ acked = {}
    /\ aborted = FALSE

-----------------------------------------------------------------------------
\* The session's side: tcp_session.hh

Need(s) == IF pc[s] = "body" THEN remaining[s] ELSE 1

Satisfied(s, n) == pc[s] \in Waiting /\ n > 0 /\ n >= Need(s)

\* The loop is between two events: no function runs.
Between == running = None /\ ~aborted

\* pop_bytes of n bytes
Pop(s, n) ==
    /\ n <= size[s]
    /\ head' = [head EXCEPT ![s] = (@ + n) % Cap]
    /\ size' = [size EXCEPT ![s] = @ - n]

Abort == aborted' = TRUE /\ UNCHANGED <<topicVars, open, ringVars, chainVars,
                                         running, tasks, gb, acked>>

\* A connection is accepted and mqtt_session_proc called.
Accept(s) ==
    /\ Between /\ pc[s] = "none"
    /\ open' = [open EXCEPT ![s] = TRUE]
    /\ pc' = [pc EXCEPT ![s] = "command"]
    /\ UNCHANGED <<topicVars, ringVars, stage, mult, last, remaining, job,
                   running, tasks, gb, acked, aborted>>

Arrive(s, n) ==
    /\ Between /\ open[s] /\ size[s] + n <= Cap
    /\ size' = [size EXCEPT ![s] = @ + n]
    /\ running' = IF Satisfied(s, size[s] + n) THEN s ELSE None
    /\ UNCHANGED <<topicVars, open, head, chainVars, tasks, gb, acked, aborted>>

\* End of file, an error, no room to read into, or a send that must wait: the session
\* is closed and nobody is told, unless a write event follows (SendFails).
TcpCloses(s) ==
    /\ Between /\ open[s]
    /\ open' = [open EXCEPT ![s] = FALSE]
    /\ UNCHANGED <<topicVars, ringVars, chainVars, running, tasks, gb, acked, aborted>>

-----------------------------------------------------------------------------
\* The chain, up to the handler: mqtt_session.hh, mqtt_packet.hh, mqtt_proc.hh

\* The chain goes on at p, where it reads on if it can.
WaitFor(s, p, need) ==
    /\ pc' = [pc EXCEPT ![s] = p]
    /\ running' = IF size'[s] > 0 /\ size'[s] >= need THEN s ELSE None

\* Mutated form: the exception is swallowed, the session stays.
QuitOpen(s) ==
    /\ pc' = [pc EXCEPT ![s] = "ended"]
    /\ UNCHANGED <<open, ringVars>>
    /\ running' = None

\* An exception reaches the last function of the chain, which closes the session.
\* Nobody looks at the buffer any more.
Quit(s) ==
    /\ pc' = [pc EXCEPT ![s] = "ended"]
    /\ open' = [open EXCEPT ![s] = FALSE]
    /\ head' = [head EXCEPT ![s] = 0] /\ size' = [size EXCEPT ![s] = 0]
    /\ running' = None

ReadCommand(s) ==
    /\ pc[s] = "command" /\ Pop(s, 1)
    /\ mult' = [mult EXCEPT ![s] = 0]
    /\ last' = [last EXCEPT ![s] = 0]
    /\ WaitFor(s, "remaining", 1)
    /\ UNCHANGED <<open, stage, remaining, job, tasks>>

ReadRemaining(s) ==
    /\ pc[s] = "remaining"
    /\ \E low \in LowBits :
        \/ /\ Pop(s, 1)
           /\ WaitFor(s, "body", last[s] + low * mult[s])
           /\ remaining' = [remaining EXCEPT ![s] = last[s] + low * mult[s]]
           /\ UNCHANGED <<open, mult>>
        \/ /\ mult' = [mult EXCEPT ![s] = @ * 128]
           /\ IF mult'[s] > 128 * 128 * 128
              THEN Quit(s)
              ELSE Pop(s, 1) /\ WaitFor(s, "remaining", 1) /\ UNCHANGED open
           /\ UNCHANGED remaining
    /\ UNCHANGED <<last, stage, job, tasks>>

\* make_task_flow: the chain goes on in the task center.
Submit(s, kind, T) ==
    /\ pc' = [pc EXCEPT ![s] = "submitted"]
    /\ job' = [job EXCEPT ![s] = [kind |-> kind, topics |-> T]]
    /\ tasks' = Append(tasks, s)
    /\ running' = None

\* mqtt_pkt_connect: from_buf stops early when the name, the level or a flag is wrong,
\* and returns FALSE.  The constructor throws if it returns TRUE.
BuildConnect(s) ==
    \/ \E n \in NameLen..NameLen + 2 :
        Pop(s, n) /\ Submit(s, "connect", << >>) /\ UNCHANGED open
    \/ \E p \in PayloadLens :
        NameLen + 2 + WordLen + p <= size[s] /\ Quit(s) /\ UNCHANGED <<job, tasks>>

\* mqtt_pkt_publish: the payload's length is negative, so that new[] throws.
BuildPublish(s) ==
    /\ \E p \in PayloadLens : WordLen + p + WordLen <= size[s]
    /\ Quit(s) /\ UNCHANGED <<job, tasks>>

Item == WordLen + TopicLen + 1

\* Items that are read until read_head() is no longer above bgn - 2: it has to come
\* round the end of the buffer.
Items(s) == LET bgn == (head[s] + WordLen) % Cap IN (Cap - bgn + Item - 1) \div Item

\* mqtt_pkt_subscribe and mqtt_pkt_unsubscribe
BuildTopics(s, kind) ==
    LET k == Items(s) IN
    /\ kind = "subscribe" => \A h \in Code : count[h][EmptyId] < MaxSubs
    /\ k * Item < Cap - 1
    /\ Pop(s, WordLen + k * Item)
    /\ \E T \in [1..k -> Topic] : Submit(s, kind, T)
    /\ UNCHANGED open

\* Some packet of this kind takes more bytes than there are.
Overruns(s, kind) ==
    \/ kind = "connect" /\ \E n \in NameLen..NameLen + 2 \cup {NameLen + 2 + WordLen + p : p \in PayloadLens} : n > size[s]
    \/ kind = "publish" /\ \E p \in PayloadLens : WordLen + p + WordLen > size[s]
    \/ kind \in {"subscribe", "unsubscribe"}
       /\ LET k == Items(s) IN k * Item >= Cap - 1 \/ WordLen + k * Item > size[s]

\* Mutated form: the first packet may also be a ping.
FirstKindsPing == {"connect", "pingreq"}

\* The kinds that wait_connected and loop_session do not answer with an exception.
FirstKinds == {"connect"}
LaterKinds == {"pingreq", "publish", "subscribe", "unsubscribe"}

Accepted(s) == IF stage[s] = "connecting" THEN FirstKinds ELSE LaterKinds

Dispatch(s) ==
    /\ pc[s] = "body"
    /\ \E kind \in Kinds :
        \/ /\ kind \notin Accepted(s)
           /\ Quit(s) /\ UNCHANGED <<job, tasks>>
        \/ /\ kind \in Accepted(s) \cap {"pingreq"}
           /\ Submit(s, kind, << >>) /\ UNCHANGED <<ringVars, open>>
        \/ kind \in Accepted(s) \cap {"connect"} /\ BuildConnect(s)
        \/ kind \in Accepted(s) \cap {"publish"} /\ BuildPublish(s)
        \/ kind \in Accepted(s) \cap {"subscribe", "unsubscribe"} /\ BuildTopics(s, kind)
    /\ UNCHANGED <<stage, mult, last, remaining>>

Read(s) ==
    /\ running = s /\ ~aborted
    /\ ReadCommand(s) \/ ReadRemaining(s) \/ Dispatch(s)
    /\ UNCHANGED <<topicVars, gb, acked, aborted>>

\* An assertion of consume() fails while a packet is built.
Overrun(s) ==
    /\ running = s /\ ~aborted /\ pc[s] = "body"
    /\ \E kind \in Accepted(s) : Overruns(s, kind)
    /\ Abort

\* Mutated form: the wait has no timer.
FireTimerNever(s) == FALSE

\* The timer of a wait that is not over: the exception of ____throw_timeout.
FireTimer(s) ==
    /\ Between /\ pc[s] \in Waiting
    /\ Quit(s)
    /\ UNCHANGED <<topicVars, stage, mult, last, remaining, job, tasks, gb, acked, aborted>>

-----------------------------------------------------------------------------
\* The handlers and the way back

\* handle_connect, pong, handle_subscribe and handle_unsubscribe
Handle(s) ==
    LET j == job[s] IN
    /\ pc' = [pc EXCEPT ![s] = "reply"]
    /\ job' = [job EXCEPT ![s] = NoJob]
    /\ tasks' = Tail(tasks)
    /\ CASE j.kind = "connect"     -> gb' = s /\ UNCHANGED topicVars
         [] j.kind = "subscribe"   -> Subscribe(j.topics, EmptyId) /\ UNCHANGED gb
         [] j.kind = "unsubscribe" -> Unsubscribe(j.topics, EmptyId) /\ UNCHANGED gb
         [] OTHER                  -> UNCHANGED <<gb, topicVars>>
    /\ UNCHANGED <<open, ringVars, stage, mult, last, remaining, running>>

\* The result of make_task_flow's first flow is handed to the second one.
Hop(s) ==
    /\ pc' = [pc EXCEPT ![s] = "handler"]
    /\ tasks' = Append(Tail(tasks), s)
    /\ UNCHANGED <<topicVars, open, ringVars, stage, mult, last, remaining, job, running, gb>>

\* The reply is sent: loop_session is called (again).
GoOn(s) ==
    /\ stage' = [stage EXCEPT ![s] = "serving"]
    /\ tasks' = Tail(tasks)
    /\ UNCHANGED ringVars
    /\ WaitFor(s, "command", 1)
    /\ UNCHANGED <<topicVars, open, mult, last, remaining, job, gb>>

\* It is not.
GiveUp(s) ==
    /\ Quit(s)
    /\ tasks' = Tail(tasks)
    /\ UNCHANGED <<topicVars, stage, mult, last, remaining, job, gb>>

RunTask ==
    /\ Between /\ tasks # << >>
    /\ LET s == Head(tasks) IN
        \/ pc[s] = "submitted" /\ Hop(s)
        \/ pc[s] = "handler" /\ Handle(s)
        \/ pc[s] = "replied" /\ GoOn(s)
        \/ pc[s] = "failed" /\ GiveUp(s)
    /\ UNCHANGED <<acked, aborted>>

\* The write events that send the reply
Sent(s) ==
    /\ Between /\ open[s] /\ pc[s] = "reply"
    /\ pc' = [pc EXCEPT ![s] = "replied"]
    /\ tasks' = Append(tasks, s)
    /\ acked' = acked \cup {s}
    /\ UNCHANGED <<topicVars, open, ringVars, stage, mult, last, remaining, job,
                   running, gb, aborted>>

\* A write fails, be it because the read event before it in the same batch has closed
\* the session.  No later batch has an event of a closed session.
SendFails(s) ==
    /\ Between /\ open[s] /\ pc[s] = "reply"
    /\ open' \in {open, [open EXCEPT ![s] = FALSE]}
    /\ pc' = [pc EXCEPT ![s] = "failed"]
    /\ tasks' = Append(tasks, s)
    /\ UNCHANGED <<topicVars, ringVars, stage, mult, last, remaining, job,
                   running, gb, acked, aborted>>

\* A handler of a session that is not among Session.  Its id is the empty one, too.
OtherHandles ==
    /\ Between
    /\ \/ gb' = Elsewhere /\ UNCHANGED topicVars
       \/ \E t \in Topic :
            /\ UNCHANGED gb
            /\ \/ count[Hash[t]][EmptyId] < MaxSubs /\ Subscribe(<<t>>, EmptyId)
               \/ Unsubscribe(<<t>>, EmptyId)
    /\ UNCHANGED <<open, ringVars, chainVars, running, tasks, acked, aborted>>

Next ==
    \/ RunTask \/ OtherHandles
    \/ \E s \in Session :
        \/ Accept(s) \/ TcpCloses(s)
        \/ \E n \in 1..Cap : Arrive(s, n)
        \/ Read(s) \/ Overrun(s) \/ FireTimer(s)
        \/ Sent(s) \/ SendFails(s)

(***************************************************************************)
(* Fairness: the loop turns, so functions go on and tasks run; a timer     *)
(* that is pending for ever fires; the peer's TCP takes the few bytes of a *)
(* reply.  Nothing is assumed of what the peer sends.                      *)
(***************************************************************************)
Fairness ==
    /\ WF_vars(RunTask)
    /\ \A s \in Session :
        /\ WF_vars(Read(s) \/ Overrun(s))
        /\ SF_vars(FireTimer(s))
        /\ SF_vars(Sent(s) \/ SendFails(s))

Spec == Init /\ [][Next]_vars
FairSpec == Spec /\ Fairness

-----------------------------------------------------------------------------

\* The request of a session that its handler has not done yet.
PendingRequest(s) ==
    IF pc[s] \in {"submitted", "handler"} /\ job[s].kind \in {"subscribe", "unsubscribe"}
    THEN [kind |-> job[s].kind, topics |-> Codes(job[s].topics), client |-> EmptyId]
    ELSE None

Abstract == INSTANCE Subscriptions
                WITH Topic <- Code, NoRequest <- None, subs <- Subscribed,
                     pending <- [s \in Session |-> PendingRequest(s)]

(***************************************************************************)
(* The server implements subscriptions to hash codes: a request waits in   *)
(* the task center, whatever happens to its session meanwhile, and is then *)
(* done as a whole; one unsubscribe packet ends what any number of         *)
(* subscribe packets made (handle_subscribe.hh, handle_unsubscribe.hh,     *)
(* mqtt_topic.hh:20-49).                                                   *)
(***************************************************************************)
ImplementsSubscriptions == Abstract!Spec

(***************************************************************************)
(* A chain is in one place: in the task center once when it is to go on    *)
(* there and not otherwise, whatever closes the session meanwhile; and a   *)
(* chain that has ended has closed its session (mqtt_proc.hh:40-60).       *)
(***************************************************************************)
ChainKept ==
    \A s \in Session :
        /\ pc[s] \in Queued <=> \E i \in 1..Len(tasks) : tasks[i] = s
        /\ \A i, j \in 1..Len(tasks) : tasks[i] = s /\ tasks[j] = s => i = j
        /\ pc[s] = "ended" => ~open[s]

(***************************************************************************)
(* A session is served only after its connect packet was handled, so that  *)
(* get_id() has an id, and after its connack was sent (mqtt_proc.hh:78-91, *)
(* handle_connect.hh:14-27).                                               *)
(***************************************************************************)
ServedAfterConnack ==
    \A s \in Session : stage[s] = "serving" => s \in acked /\ gb # None

(***************************************************************************)
(* A session whose peer falls silent is closed, wherever in a packet or in *)
(* a reply that happens (mqtt_session.hh:54-105, mqtt_proc.hh:46-58).      *)
(***************************************************************************)
QuietSessionEnds ==
    \A s \in Session :
        <>[][~\E n \in 1..Cap : Arrive(s, n)]_vars => <>[](~open[s] \/ aborted)

=============================================================================
