----------------------------- MODULE TcpSession -----------------------------
(***************************************************************************)
(* src/src/dpdk/net/tcp_session.hh with the ring buffer of packet_buffer.hh *)
(* and the partly sent packets of unsent_data.hh: one session, its socket, *)
(* and the functions of the application that it calls.                     *)
(*                                                                         *)
(* The F-Stack loop (ff_run, external) alternates between the TCP stack,   *)
(* which alone changes the socket, and the function of engine.hh: events,  *)
(* timers, task center.  Nothing runs concurrently; what interleaves are   *)
(* the turns of the loop and the application's functions, which run inside *)
(* on_recv_event and on_send_event (immediate runner) or from the task     *)
(* center (see Flow for both runners).                                     *)
(*                                                                         *)
(* Bytes are numbers: the peer sends 1, 2, 3, ...; 0 is memory of the ring *)
(* that was never written.                                                 *)
(***************************************************************************)
EXTENDS Naturals, Sequences

CONSTANTS
    Cap,        \* capacity_ of the ring buffer
    TxCap,      \* capacity of the socket's send buffer
    Needs,      \* the lengths the application waits for
    SendLens,   \* the lengths of the packets it sends
    Runners,    \* the runners it uses
    MaxIn,      \* bound: bytes the peer sends
    MaxWaits,   \* bound: calls of wait_packet
    MaxOut      \* bound: bytes the application sends

ASSUME SessionConstants ==
    /\ Cap \in Nat \ {0} /\ TxCap \in Nat \ {0}
    /\ Needs \subseteq 0..Cap /\ SendLens \subseteq Nat \ {0}
    /\ Runners \subseteq {"immediate", "center"}
    /\ MaxIn \in Nat /\ MaxWaits \in Nat /\ MaxOut \in Nat

VARIABLES
    state,      \* data::state
    wEnabled,   \* EVFILT_WRITE is enabled
    buf,        \* _recv_buf: memory, head_, tail_, size_
    recvq,      \* waiting_recv_tasks
    sendq,      \* waiting_send_tasks
    frame,      \* on_recv_event or on_send_event is in its loop
    turn,       \* the function of the application that is running
    tasks,      \* task center: functions of this session
    budget,     \* len of global_task_center::run
    phase,      \* where the F-Stack loop is
    batch,      \* events returned by ff_kevent and not yet handled
    peerSent,   \* bytes the peer has sent
    peerRead,   \* bytes ff_read has returned
    fin,        \* the peer has closed its side
    txFree,     \* free space of the socket's send buffer
    waits,      \* bound: calls of wait_packet so far
    submitted,  \* history: bytes given to send_packet
    wire,       \* history: bytes ff_write has accepted
    lost,       \* history: positions in submitted that were reported as failed
    got,        \* history: bytes the application has consumed
    overrun     \* history: ff_read was called with unconsumed bytes in the buffer

appVars  == <<frame, turn, tasks>>
loopVars == <<budget, phase, batch>>
sockVars == <<peerSent, peerRead, fin, txFree>>
sendVars == <<submitted, wire, lost>>
recvVars == <<got, overrun>>
vars == <<state, wEnabled, buf, recvq, sendq, appVars, loopVars, sockVars, waits,
          sendVars, recvVars>>

Least(a, b) == IF a < b THEN a ELSE b

-----------------------------------------------------------------------------
(* The ring buffer.  Its memory is mapped twice in a row, so that the bytes *)
(* from head_ on are contiguous.                                            *)

EmptyRing == [mem |-> [i \in 0..(Cap - 1) |-> 0], head |-> 0, tail |-> 0, size |-> 0]

FreeSize(b) == Cap - b.size

Commit(b, n) == [b EXCEPT !.tail = (@ + n) % Cap, !.size = @ + n]

\* Mutated form of consume: the read position stays.
ConsumeKeepsHead(b, n) == [b EXCEPT !.size = @ - n]

Consume(b, n) == [b EXCEPT !.head = (@ + n) % Cap, !.size = @ - n]

\* n bytes of the peer, from byte k on, written at read_head().
Fill(b, k, n) ==
    [b EXCEPT !.mem = [i \in 0..(Cap - 1) |->
        LET d == (i + Cap - b.head) % Cap IN IF d < n THEN k + d ELSE b.mem[i]]]

\* The n bytes from read_head() on.
Peek(b, n) == [i \in 1..n |-> b.mem[(b.head + i - 1) % Cap]]

-----------------------------------------------------------------------------
(* The operations of tcp_session::data. *)

\* Unread data or the peer's FIN makes the socket readable; EV_EOF is set after
\* the FIN even if data is left.  Events are level-triggered.
Ready ==
    IF state = 0 THEN {}
    ELSE (IF fin THEN {"eof"} ELSE IF peerRead < peerSent THEN {"read"} ELSE {})
         \cup (IF wEnabled /\ txFree > 0 THEN {"write"} ELSE {})

\* enable_write_event
EnableWrite(on) == wEnabled' = IF state = 0 THEN wEnabled ELSE on

\* close: the filters are deleted and the descriptor is closed.  The handlers
\* that wait stay in their lists.
DoClose == state' = 0 /\ wEnabled' = FALSE

\* Mutated form: the write event is not enabled.
EnqueueUnarmed(data, r) ==
    /\ sendq' = Append(sendq, [data |-> data, cur |-> 0, runner |-> r])
    /\ submitted' = submitted \o data
    /\ UNCHANGED wEnabled

\* schedule of a packet
Enqueue(data, r) ==
    /\ sendq' = Append(sendq, [data |-> data, cur |-> 0, runner |-> r])
    /\ EnableWrite(TRUE)
    /\ submitted' = submitted \o data

Task(k, n) == [kind |-> k, need |-> n]

\* The reader has no wait under way: it may look at the buffer and wait again.
ReaderIdle ==
    /\ \A i \in 1..Len(recvq) : recvq[i].called
    /\ \A i \in 1..Len(tasks) : tasks[i].kind \notin {"data", "timeout"}

\* wait_packet and submit: the flow is completed at once if the buffer holds
\* enough, and otherwise waits for on_recv_event and, if timed, for its timer.
\* The function that called it is then at t.
Register(need, timed, r, t) ==
    \/ /\ buf.size = 0 \/ buf.size < need
       /\ recvq' = Append(recvq, [need |-> need, timed |-> timed, called |-> FALSE,
                                  runner |-> r])
       /\ turn' = t
       /\ UNCHANGED tasks
    \/ /\ ~(buf.size = 0 \/ buf.size < need)
       /\ \/ r = "immediate" /\ turn' = "data" /\ UNCHANGED tasks
          \/ r = "center" /\ tasks' = Append(tasks, Task("data", need)) /\ turn' = t
       /\ UNCHANGED recvq

\* A handler calls trigge: the application's function runs now or is queued.
Call(kind, need, r) ==
    \/ r = "immediate" /\ turn' = kind /\ UNCHANGED tasks
    \/ r = "center" /\ tasks' = Append(tasks, Task(kind, need)) /\ UNCHANGED turn

\* send_len()
Unsent(q) == Len(q.data) - q.cur

\* The constructor and start() have run; the application has been given the
\* session by a task and runs.
Init ==
    /\ state = 1 /\ wEnabled = FALSE
    /\ buf = EmptyRing
    /\ recvq = << >> /\ sendq = << >>
    /\ frame = "none" /\ turn = "connected"
    /\ tasks = << >> /\ budget = 0 /\ phase = "tasks" /\ batch = {}
    /\ peerSent = 0 /\ peerRead = 0 /\ fin = FALSE /\ txFree = TxCap
    /\ waits = 0
    /\ submitted = << >> /\ wire = << >> /\ lost = {}
    /\ got = << >> /\ overrun = FALSE

-----------------------------------------------------------------------------
(* The TCP stack. *)

PeerSends ==
    /\ phase = "stack" /\ ~fin /\ peerSent < MaxIn
    /\ peerSent' = peerSent + 1
    /\ UNCHANGED <<state, wEnabled, buf, recvq, sendq, appVars, loopVars, peerRead,
                   fin, txFree, waits, sendVars, recvVars>>

PeerCloses ==
    /\ phase = "stack" /\ ~fin
    /\ fin' = TRUE
    /\ UNCHANGED <<state, wEnabled, buf, recvq, sendq, appVars, loopVars, peerSent,
                   peerRead, txFree, waits, sendVars, recvVars>>

\* The peer acknowledges n bytes.
PeerAcks(n) ==
    /\ phase = "stack" /\ txFree + n <= TxCap
    /\ txFree' = txFree + n
    /\ UNCHANGED <<state, wEnabled, buf, recvq, sendq, appVars, loopVars, peerSent,
                   peerRead, fin, waits, sendVars, recvVars>>

-----------------------------------------------------------------------------
(* Events. *)

Poll ==
    /\ phase = "stack"
    /\ phase' = "events" /\ batch' = Ready
    /\ UNCHANGED <<state, wEnabled, buf, recvq, sendq, appVars, budget, sockVars,
                   waits, sendVars, recvVars>>

Dispatch(e) ==
    /\ phase = "events" /\ frame = "none" /\ turn = "none"
    /\ e \in batch /\ batch' = batch \ {e}
    /\ UNCHANGED <<budget, phase, peerSent, fin, txFree, waits, sendVars, got>>

OnEof ==
    /\ Dispatch("eof")
    /\ DoClose
    /\ UNCHANGED <<buf, recvq, sendq, appVars, peerRead, overrun>>

\* on_recv_event: ff_read fails (the session was closed earlier in this batch),
\* or returns 0 because there is no room for a byte: close.
OnReadCloses ==
    /\ Dispatch("read")
    /\ state = 0 \/ FreeSize(buf) = 0
    /\ DoClose
    /\ UNCHANGED <<buf, recvq, sendq, appVars, peerRead, overrun>>

\* on_recv_event: bytes arrive, at read_head(), and the loop begins.
OnRead ==
    /\ Dispatch("read")
    /\ state = 1 /\ FreeSize(buf) > 0
    /\ LET len == Least(peerSent - peerRead, FreeSize(buf))
       IN  /\ buf' = Commit(Fill(buf, peerRead + 1, len), len)
           /\ peerRead' = peerRead + len
    /\ overrun' = (overrun \/ buf.size > 0)
    /\ frame' = "recv"
    /\ UNCHANGED <<state, wEnabled, recvq, sendq, turn, tasks>>

OnWrite ==
    /\ Dispatch("write")
    /\ frame' = "send"
    /\ UNCHANGED <<state, wEnabled, buf, recvq, sendq, turn, tasks, peerRead, overrun>>

StartTimers ==
    /\ phase = "events" /\ frame = "none" /\ turn = "none" /\ batch = {}
    /\ phase' = "timers"
    /\ UNCHANGED <<state, wEnabled, buf, recvq, sendq, appVars, budget, batch,
                   sockVars, waits, sendVars, recvVars>>

-----------------------------------------------------------------------------
(* The loop of on_recv_event. *)

\* Mutated form: the length is not looked at.
EnoughAny(need) == TRUE

Enough(need) == need <= buf.size

\* The first handler is called.  With the task center it returns at once and is
\* removed; otherwise Return removes it.
RecvServe ==
    /\ frame = "recv" /\ turn = "none"
    /\ recvq # << >> /\ buf.size > 0
    /\ ~Head(recvq).called /\ Enough(Head(recvq).need)
    /\ Call("data", Head(recvq).need, Head(recvq).runner)
    /\ recvq' = IF Head(recvq).runner = "center" THEN Tail(recvq)
                ELSE [recvq EXCEPT ![1].called = TRUE]
    /\ UNCHANGED <<state, wEnabled, buf, sendq, frame, loopVars, sockVars, waits,
                   sendVars, recvVars>>

\* A handler whose flow has been triggered by its timer is removed.
RecvDrop ==
    /\ frame = "recv" /\ turn = "none"
    /\ recvq # << >> /\ buf.size > 0
    /\ Head(recvq).called
    /\ recvq' = Tail(recvq)
    /\ UNCHANGED <<state, wEnabled, buf, sendq, appVars, loopVars, sockVars, waits,
                   sendVars, recvVars>>

\* Mutated form of the loop's condition: it ends at a handler that is no longer
\* available.
RecvDoneAtStale ==
    ~ /\ recvq # << >> /\ buf.size > 0
      /\ ~Head(recvq).called /\ Enough(Head(recvq).need)

RecvDone ==
    ~ /\ recvq # << >> /\ buf.size > 0
      /\ Head(recvq).called \/ Enough(Head(recvq).need)

RecvEnd ==
    /\ frame = "recv" /\ turn = "none"
    /\ RecvDone
    /\ frame' = "none"
    /\ UNCHANGED <<state, wEnabled, buf, recvq, sendq, turn, tasks, loopVars,
                   sockVars, waits, sendVars, recvVars>>

-----------------------------------------------------------------------------
(* The loop of on_send_event. *)

\* Mutated form: the packet is not updated.
UpdateForgets(a, n) == a

Update(a, n) == [a EXCEPT !.cur = @ + n]

\* ff_write accepts n bytes, not the whole packet: the loop ends and the write
\* event stays enabled.
SendPart(n) ==
    /\ frame = "send" /\ turn = "none" /\ sendq # << >> /\ state = 1
    /\ n <= txFree /\ n < Unsent(Head(sendq))
    /\ wire' = wire \o SubSeq(Head(sendq).data, Head(sendq).cur + 1, Head(sendq).cur + n)
    /\ txFree' = txFree - n
    /\ sendq' = [sendq EXCEPT ![1] = Update(@, n)]
    /\ EnableWrite(TRUE)
    /\ frame' = "none"
    /\ UNCHANGED <<state, buf, recvq, turn, tasks, loopVars, peerSent, peerRead, fin,
                   waits, submitted, lost, recvVars>>

\* ff_write accepts the rest of the packet: its handler is called, then the packet
\* is removed and the loop goes on.
SendRest ==
    /\ frame = "send" /\ turn = "none" /\ sendq # << >> /\ state = 1
    /\ Unsent(Head(sendq)) <= txFree
    /\ wire' = wire \o SubSeq(Head(sendq).data, Head(sendq).cur + 1, Len(Head(sendq).data))
    /\ txFree' = txFree - Unsent(Head(sendq))
    /\ Call("sent", 0, Head(sendq).runner)
    /\ sendq' = IF Head(sendq).runner = "center" THEN Tail(sendq)
                ELSE [sendq EXCEPT ![1].cur = Len(Head(sendq).data)]
    /\ UNCHANGED <<state, wEnabled, buf, recvq, frame, loopVars, peerSent, peerRead,
                   fin, waits, submitted, lost, recvVars>>

\* ff_write fails with EAGAIN, the send buffer is full: the session is closed.
SendAgain ==
    /\ frame = "send" /\ turn = "none" /\ sendq # << >> /\ state = 1
    /\ txFree = 0
    /\ DoClose
    /\ frame' = "none"
    /\ UNCHANGED <<buf, recvq, sendq, turn, tasks, loopVars, sockVars, waits,
                   sendVars, recvVars>>

\* ff_write fails in another way (EBADF after close, no memory): the handler
\* gets an exception, the packet is removed and the loop goes on.
SendFails ==
    /\ frame = "send" /\ turn = "none" /\ sendq # << >>
    /\ Unsent(Head(sendq)) > 0
    /\ Call("failed", 0, Head(sendq).runner)
    /\ lost' = lost \cup { Head(sendq).data[i] : i \in (Head(sendq).cur + 1)..Len(Head(sendq).data) }
    /\ sendq' = IF Head(sendq).runner = "center" THEN Tail(sendq)
                ELSE [sendq EXCEPT ![1].cur = Len(Head(sendq).data)]
    /\ UNCHANGED <<state, wEnabled, buf, recvq, frame, loopVars, sockVars, waits,
                   submitted, wire, recvVars>>

SendEnd ==
    /\ frame = "send" /\ turn = "none" /\ sendq = << >>
    /\ EnableWrite(FALSE)
    /\ frame' = "none"
    /\ UNCHANGED <<state, buf, recvq, sendq, turn, tasks, loopVars, sockVars, waits,
                   sendVars, recvVars>>

-----------------------------------------------------------------------------
(* Timers and tasks. *)

\* Mutated forms: timers of a closed session are ignored; the timer does not
\* look whether its flow has been triggered.
TimerCountsIfOpen(w) == state = 1 /\ w.timed /\ ~w.called
TimerCountsAgain(w) == w.timed

TimerCounts(w) == w.timed /\ ~w.called

\* A timer of wait_packet is due.  One that finds its flow triggered does nothing.
FireTimer(i) ==
    /\ phase = "timers" /\ turn = "none"
    /\ TimerCounts(recvq[i])
    /\ recvq' = [recvq EXCEPT ![i].called = TRUE]
    /\ Call("timeout", 0, recvq[i].runner)
    /\ UNCHANGED <<state, wEnabled, buf, sendq, frame, loopVars, sockVars, waits,
                   sendVars, recvVars>>

StartTasks ==
    /\ phase = "timers" /\ turn = "none"
    /\ phase' = "tasks" /\ budget' = Len(tasks)
    /\ UNCHANGED <<state, wEnabled, buf, recvq, sendq, appVars, batch, sockVars,
                   waits, sendVars, recvVars>>

RunTask ==
    /\ phase = "tasks" /\ turn = "none" /\ budget > 0 /\ tasks # << >>
    /\ budget' = budget - 1
    /\ turn' = Head(tasks).kind
    /\ tasks' = Tail(tasks)
    /\ UNCHANGED <<state, wEnabled, buf, recvq, sendq, frame, phase, batch, sockVars,
                   waits, sendVars, recvVars>>

EndTasks ==
    /\ phase = "tasks" /\ turn = "none" /\ (budget = 0 \/ tasks = << >>)
    /\ phase' = "stack" /\ budget' = 0
    /\ UNCHANGED <<state, wEnabled, buf, recvq, sendq, appVars, batch, sockVars,
                   waits, sendVars, recvVars>>

-----------------------------------------------------------------------------
(* The application: one reader, any number of packets. *)

\* It takes n bytes out of the buffer.
AppConsume(n) ==
    /\ turn = "data" /\ ReaderIdle /\ n <= buf.size
    /\ got' = got \o Peek(buf, n)
    /\ buf' = Consume(buf, n)
    /\ UNCHANGED <<state, wEnabled, recvq, sendq, appVars, loopVars, sockVars, waits,
                   sendVars, overrun>>

AppWait(need, timed, r) ==
    /\ turn # "none" /\ ReaderIdle /\ waits < MaxWaits
    /\ waits' = waits + 1
    /\ Register(need, timed, r, turn)
    /\ UNCHANGED <<state, wEnabled, buf, sendq, frame, loopVars, sockVars, sendVars,
                   recvVars>>

\* It sends the next n numbers.
AppSend(n, r) ==
    /\ turn # "none" /\ Len(submitted) + n <= MaxOut
    /\ Enqueue([i \in 1..n |-> Len(submitted) + i], r)
    /\ UNCHANGED <<state, buf, recvq, appVars, loopVars, sockVars, waits, wire, lost,
                   recvVars>>

AppClose ==
    /\ turn # "none"
    /\ DoClose
    /\ UNCHANGED <<buf, recvq, sendq, appVars, loopVars, sockVars, waits, sendVars,
                   recvVars>>

\* Its function returns.  If a handler called it, the handler is removed.
Return ==
    /\ turn # "none"
    /\ turn' = "none"
    /\ recvq' = IF frame = "recv" THEN Tail(recvq) ELSE recvq
    /\ sendq' = IF frame = "send" THEN Tail(sendq) ELSE sendq
    /\ UNCHANGED <<state, wEnabled, buf, frame, tasks, loopVars, sockVars, waits,
                   sendVars, recvVars>>

-----------------------------------------------------------------------------

Stack == PeerSends \/ PeerCloses \/ \E n \in 1..TxCap : PeerAcks(n)

Events ==
    \/ Poll \/ OnEof \/ OnReadCloses \/ OnRead \/ OnWrite
    \/ RecvServe \/ RecvDrop \/ RecvEnd
    \/ SendRest \/ SendAgain \/ SendFails \/ SendEnd
    \/ \E n \in 1..TxCap : SendPart(n)

Loop == Events \/ StartTimers \/ StartTasks \/ RunTask \/ EndTasks

App ==
    \/ \E n \in 1..Cap : AppConsume(n)
    \/ \E need \in Needs, timed \in BOOLEAN, r \in Runners : AppWait(need, timed, r)
    \/ \E n \in SendLens, r \in Runners : AppSend(n, r)
    \/ AppClose

Next ==
    \/ Stack \/ Loop \/ App \/ Return
    \/ \E i \in 1..Len(recvq) : FireTimer(i)

Spec == Init /\ [][Next]_vars

\* The loop runs for ever and the application's functions return; time passes, so
\* a wait that keeps its timer times out; the peer acknowledges what it gets.
FairSpec ==
    /\ Spec
    /\ WF_vars(Loop) /\ WF_vars(Return)
    /\ SF_vars(\E i \in 1..Len(recvq) : FireTimer(i))
    /\ SF_vars(\E n \in 1..TxCap : PeerAcks(n))

-----------------------------------------------------------------------------
(* Properties. *)

Turns == {"connected", "data", "timeout", "sent", "failed"}

TypeOK ==
    /\ state \in {0, 1} /\ wEnabled \in BOOLEAN
    /\ buf \in [mem : [0..(Cap - 1) -> Nat], head : 0..(Cap - 1), tail : 0..(Cap - 1),
                size : 0..Cap]
    /\ recvq \in Seq([need : 0..Cap, timed : BOOLEAN, called : BOOLEAN,
                      runner : {"immediate", "center"}])
    /\ sendq \in Seq([data : Seq(Nat), cur : Nat, runner : {"immediate", "center"}])
    /\ frame \in {"none", "recv", "send"} /\ turn \in Turns \cup {"none"}
    /\ tasks \in Seq([kind : Turns, need : Nat])
    /\ budget \in Nat
    /\ phase \in {"stack", "events", "timers", "tasks"}
    /\ batch \subseteq {"read", "eof", "write"}
    /\ peerSent \in Nat /\ peerRead \in Nat /\ fin \in BOOLEAN /\ txFree \in 0..TxCap
    /\ waits \in Nat
    /\ submitted \in Seq(Nat) /\ wire \in Seq(Nat) /\ lost \subseteq Nat
    /\ got \in Seq(Nat) /\ overrun \in BOOLEAN

\* Between events, the write event of an open session is enabled exactly when a
\* packet waits: no packet is stuck and the loop does not spin on an idle socket.
WriteArmed == state = 1 /\ frame # "send" => (wEnabled <=> sendq # << >>)

\* Partial writes, failures and packets queued from handlers never repeat or
\* reorder a byte, and a byte is skipped only if its send was reported as failed.
WireInOrder ==
    /\ \A i \in 1..(Len(wire) - 1) : wire[i] < wire[i + 1]
    /\ wire # << >> =>
        \A b \in 1..wire[Len(wire)] : b \in lost \/ \E i \in 1..Len(wire) : wire[i] = b

\* Outside on_recv_event no handler waits for bytes that the buffer holds: a
\* reader is never stuck behind data it could have.
NoStarvedWait ==
    frame # "recv" => \A i \in 1..Len(recvq) :
                        recvq[i].called \/ buf.size = 0 \/ recvq[i].need > buf.size

\* A function queued for data finds the data when the task center runs it: what
\* the handler checked still holds then.
DataStillThere ==
    \A i \in 1..Len(tasks) :
        tasks[i].kind = "data" => buf.size > 0 /\ buf.size >= tasks[i].need

\* As long as ff_read never meets unconsumed bytes, the application sees the
\* peer's bytes, each once and in order.
StreamIntact == ~overrun => \A i \in 1..Len(got) : got[i] = i

Waiting == \E i \in 1..Len(recvq) : recvq[i].timed /\ ~recvq[i].called

\* A wait with a timeout ends, also if the session is closed meanwhile.
TimedWaitEnds == Waiting ~> ~Waiting

\* If the peer keeps acknowledging, packets leave the queue or the session ends.
SendsEnd == sendq # << >> ~> sendq = << >> \/ state = 0

=============================================================================
