--------------------------- MODULE SessionProofs ---------------------------
(***************************************************************************)
(* Theorems about a TCP session under any application with one reader, and *)
(* about the echo server on top of it, for any sizes of the buffers and    *)
(* any lengths of packets and waits.                                       *)
(***************************************************************************)
EXTENDS EchoServer, FiniteSetTheorems, TLAPS

RecvEntry == [need : 0..Cap, timed : BOOLEAN, called : BOOLEAN,
              runner : {"immediate", "center"}]

SendEntry == [data : Seq(Nat), cur : Nat, runner : {"immediate", "center"}]

Ring == [mem : [0..(Cap - 1) -> Nat], head : 0..(Cap - 1), tail : 0..(Cap - 1), size : 0..Cap]

QueuedTask == [kind : Turns, need : Nat]

\* Where functions of the application run: in the loops of the event handlers, whose
\* list then begins with the handler that called them, or in timers and tasks.
Nesting ==
    /\ frame # "none" => phase = "events"
    /\ phase = "stack" => turn = "none"
    /\ frame = "recv" /\ turn # "none" => recvq # << >> /\ recvq[1].called
    /\ frame = "send" /\ turn # "none" => sendq # << >>

\* Never more is read than was sent.
ReadSent == peerRead <= peerSent

\* Never more of a packet is sent than there is.
CurOK == \A i \in 1..Len(sendq) : sendq[i].cur <= Len(sendq[i].data)

Base == TypeOK /\ Nesting /\ ReadSent /\ CurOK

-----------------------------------------------------------------------------
\* Sequences and the ring

\* A list without its first entry
LEMMA TailOf ==
    ASSUME NEW S, NEW q \in Seq(S), q # << >>
    PROVE  /\ Tail(q) \in Seq(S) /\ Head(q) \in S /\ Head(q) = q[1]
           /\ Len(Tail(q)) = Len(q) - 1 /\ Len(q) \in Nat \ {0}
           /\ \A i \in 1..Len(Tail(q)) : Tail(q)[i] = q[i + 1]
  OBVIOUS

\* A list with one more entry
LEMMA AppendOf ==
    ASSUME NEW S, NEW q \in Seq(S), NEW e \in S
    PROVE  /\ Append(q, e) \in Seq(S) /\ Len(Append(q, e)) = Len(q) + 1
           /\ Len(q) \in Nat /\ Append(q, e) # << >>
           /\ Append(q, e)[Len(q) + 1] = e
           /\ \A i \in 1..Len(q) : Append(q, e)[i] = q[i]
  OBVIOUS

\* A list with one entry replaced
LEMMA ExceptOf ==
    ASSUME NEW S, NEW q \in Seq(S), NEW i \in 1..Len(q), NEW e \in S
    PROVE  /\ [q EXCEPT ![i] = e] \in Seq(S) /\ Len([q EXCEPT ![i] = e]) = Len(q)
           /\ \A j \in 1..Len(q) : [q EXCEPT ![i] = e][j] = IF j = i THEN e ELSE q[j]
  OBVIOUS

\* A part of a list
LEMMA PartOf ==
    ASSUME NEW S, NEW q \in Seq(S), NEW m \in Nat, NEW n \in 0..Len(q), m <= n
    PROVE  /\ SubSeq(q, m + 1, n) \in Seq(S) /\ Len(SubSeq(q, m + 1, n)) = n - m
           /\ \A i \in 1..(n - m) : SubSeq(q, m + 1, n)[i] = q[m + i]
  OBVIOUS

\* Two lists in a row
LEMMA ConcatOf ==
    ASSUME NEW S, NEW p \in Seq(S), NEW q \in Seq(S)
    PROVE  /\ p \o q \in Seq(S) /\ Len(p \o q) = Len(p) + Len(q)
           /\ Len(p) \in Nat /\ Len(q) \in Nat
           /\ \A i \in 1..Len(p) : (p \o q)[i] = p[i]
           /\ \A i \in 1..Len(q) : (p \o q)[Len(p) + i] = q[i]
  OBVIOUS

\* Positions below the capacity stay, those up to twice of it wrap once.
LEMMA Wrap ==
    ASSUME NEW a \in Nat, a < 2 * Cap
    PROVE  a % Cap \in 0..(Cap - 1) /\ a % Cap = IF a < Cap THEN a ELSE a - Cap
<1>1. Cap \in Nat \ {0}
  BY SessionConstants
<1>2. CASE a < Cap
  BY <1>1, <1>2
<1>3. CASE a >= Cap
  BY <1>1, <1>3
<1> QED
  BY <1>1, <1>2, <1>3

\* commit and consume keep a ring a ring, and do what they say to its size.
LEMMA CommitOf ==
    ASSUME NEW b \in Ring, NEW n \in Nat, b.size + n <= Cap
    PROVE  /\ Commit(b, n) \in Ring /\ Commit(b, n).size = b.size + n
           /\ Commit(b, n).mem = b.mem /\ Commit(b, n).head = b.head
<1>1. Cap \in Nat \ {0} /\ b.tail + n \in Nat /\ b.tail + n < 2 * Cap
  BY SessionConstants DEF Ring
<1> DEFINE t == (b.tail + n) % Cap
<1>2. t \in 0..(Cap - 1)
  BY <1>1, Wrap
<1>3. Commit(b, n) = [[b EXCEPT !.tail = t] EXCEPT !.size = b.size + n]
  BY DEF Commit, Ring
<1> HIDE DEF t
<1>4. b.size + n \in 0..Cap
  BY <1>1 DEF Ring
<1> QED
  BY <1>2, <1>3, <1>4 DEF Ring

\* What consume does to the ring
LEMMA ConsumeOf ==
    ASSUME NEW b \in Ring, NEW n \in 0..b.size
    PROVE  /\ Consume(b, n) \in Ring /\ Consume(b, n).size = b.size - n
           /\ Consume(b, n).mem = b.mem /\ Consume(b, n).head = (b.head + n) % Cap
<1>1. Cap \in Nat \ {0} /\ b.head + n \in Nat /\ b.head + n < 2 * Cap
  BY SessionConstants DEF Ring
<1> DEFINE h == (b.head + n) % Cap
<1>2. h \in 0..(Cap - 1)
  BY <1>1, Wrap
<1>3. Consume(b, n) = [[b EXCEPT !.head = h] EXCEPT !.size = b.size - n]
  BY DEF Consume, Ring
<1>4. b.size - n \in 0..Cap
  BY <1>1 DEF Ring
<1>5. /\ Consume(b, n) \in Ring /\ Consume(b, n).size = b.size - n
      /\ Consume(b, n).mem = b.mem /\ Consume(b, n).head = h
  <2> HIDE DEF h
  <2> QED
    BY <1>2, <1>3, <1>4 DEF Ring
<1> QED
  BY <1>5

\* ff_read writes only the memory.
LEMMA FillOf ==
    ASSUME NEW b \in Ring, NEW k \in Nat, NEW n \in Nat
    PROVE  /\ Fill(b, k, n) \in Ring
           /\ Fill(b, k, n).head = b.head /\ Fill(b, k, n).size = b.size
           /\ Fill(b, k, n).mem \in [0..(Cap - 1) -> Nat]
           /\ \A i \in 0..(Cap - 1), d \in 0..(n - 1) :
                (i + Cap - b.head) % Cap = d => Fill(b, k, n).mem[i] = k + d
<1>1. Cap \in Nat \ {0}
  BY SessionConstants
<1>2. \A i \in 0..(Cap - 1) : (i + Cap - b.head) % Cap \in Nat
  <2> SUFFICES ASSUME NEW i \in 0..(Cap - 1) PROVE (i + Cap - b.head) % Cap \in Nat
    OBVIOUS
  <2>1. i + Cap - b.head \in Nat /\ i + Cap - b.head < 2 * Cap
    BY <1>1 DEF Ring
  <2> QED
    BY <1>1, <2>1, Wrap
<1> DEFINE m == [i \in 0..(Cap - 1) |->
                  LET d == (i + Cap - b.head) % Cap IN IF d < n THEN k + d ELSE b.mem[i]]
<1>3. m \in [0..(Cap - 1) -> Nat]
  <2> DEFINE d(i) == (i + Cap - b.head) % Cap
  <2>1. \A i \in 0..(Cap - 1) : d(i) \in Nat /\ b.mem[i] \in Nat
    BY <1>2 DEF Ring
  <2>2. m = [i \in 0..(Cap - 1) |-> IF d(i) < n THEN k + d(i) ELSE b.mem[i]]
    OBVIOUS
  <2> HIDE DEF d, m
  <2> QED
    BY <2>1, <2>2
<1>4. Fill(b, k, n) = [b EXCEPT !.mem = m]
  BY DEF Fill
<1>5. \A i \in 0..(Cap - 1), d \in 0..(n - 1) :
        (i + Cap - b.head) % Cap = d => m[i] = k + d
  OBVIOUS
<1>6. /\ Fill(b, k, n) \in Ring /\ Fill(b, k, n).mem = m
      /\ Fill(b, k, n).head = b.head /\ Fill(b, k, n).size = b.size
  <2> HIDE DEF m
  <2> QED
    BY <1>3, <1>4 DEF Ring
<1> HIDE DEF m
<1> QED
  BY <1>3, <1>5, <1>6

\* What the program reads are the bytes from the head on.
LEMMA PeekOf ==
    ASSUME NEW b \in Ring, NEW n \in 0..b.size
    PROVE  /\ Peek(b, n) \in Seq(Nat) /\ Len(Peek(b, n)) = n
           /\ \A i \in 1..n : Peek(b, n)[i] = b.mem[(b.head + i - 1) % Cap]
<1>1. Cap \in Nat \ {0} /\ n \in Nat
  BY SessionConstants DEF Ring
<1>2. \A i \in 1..n : b.mem[(b.head + i - 1) % Cap] \in Nat
  <2> SUFFICES ASSUME NEW i \in 1..n PROVE b.mem[(b.head + i - 1) % Cap] \in Nat
    OBVIOUS
  <2>1. b.head + i - 1 \in Nat /\ b.head + i - 1 < 2 * Cap
    BY <1>1 DEF Ring
  <2> QED
    BY <2>1, Wrap DEF Ring
<1> DEFINE v(i) == b.mem[(b.head + i - 1) % Cap]
<1>3. \A i \in 1..n : v(i) \in Nat
  BY <1>2
<1>4. Peek(b, n) = [i \in 1..n |-> v(i)]
  BY DEF Peek
<1>5. /\ Peek(b, n) \in Seq(Nat) /\ Len(Peek(b, n)) = n
      /\ \A i \in 1..n : Peek(b, n)[i] = v(i)
  <2> HIDE DEF v
  <2> QED
    BY <1>1, <1>3, <1>4
<1> QED
  BY <1>5

-----------------------------------------------------------------------------
\* Types, and where functions run

\* The session starts in a state of the right type.
LEMMA InitBase == Init => Base
<1> SUFFICES ASSUME Init PROVE Base
  OBVIOUS
<1>1. buf \in Ring
  BY SessionConstants DEF Init, EmptyRing, Ring
<1>2. /\ recvq = << >> /\ sendq = << >> /\ tasks = << >>
      /\ submitted = << >> /\ wire = << >> /\ got = << >>
  BY DEF Init
<1>3. /\ recvq \in Seq(RecvEntry) /\ sendq \in Seq(SendEntry) /\ tasks \in Seq(QueuedTask)
      /\ submitted \in Seq(Nat) /\ wire \in Seq(Nat) /\ got \in Seq(Nat)
  BY <1>2
<1>4. /\ state \in {0, 1} /\ wEnabled \in BOOLEAN
      /\ frame \in {"none", "recv", "send"} /\ turn \in Turns \cup {"none"}
      /\ budget \in Nat /\ phase \in {"stack", "events", "timers", "tasks"}
      /\ batch \subseteq {"read", "eof", "write"}
      /\ peerSent \in Nat /\ peerRead \in Nat /\ fin \in BOOLEAN /\ txFree \in 0..TxCap
      /\ waits \in Nat /\ lost \subseteq Nat /\ overrun \in BOOLEAN
  <2>1. TxCap \in 0..TxCap
    BY SessionConstants
  <2> QED
    BY <2>1 DEF Init, Turns
<1>5. TypeOK
  BY <1>1, <1>3, <1>4 DEF TypeOK, Ring, RecvEntry, SendEntry, QueuedTask
<1>6. Nesting /\ ReadSent
  BY DEF Init, Nesting, ReadSent
<1> QED
  BY <1>2, <1>5, <1>6 DEF Base, CurOK

\* The TCP stack keeps the types.
LEMMA StackBase == Base /\ Stack => Base'
<1> SUFFICES ASSUME Base, Stack PROVE Base'
  OBVIOUS
<1>1. CASE PeerSends
  BY <1>1 DEF PeerSends, Base, TypeOK, Nesting, ReadSent, CurOK, appVars, loopVars, sendVars, recvVars
<1>2. CASE PeerCloses
  BY <1>2 DEF PeerCloses, Base, TypeOK, Nesting, ReadSent, CurOK, appVars, loopVars, sendVars, recvVars
<1>3. CASE \E n \in 1..TxCap : PeerAcks(n)
  BY <1>3, SessionConstants
     DEF PeerAcks, Base, TypeOK, Nesting, ReadSent, CurOK, appVars, loopVars, sendVars, recvVars
<1> QED
  BY <1>1, <1>2, <1>3 DEF Stack

\* Taking the events, and the events that change no list, keep the types.
LEMMA EventBase ==
    ASSUME Base, Poll \/ OnEof \/ OnReadCloses \/ OnWrite \/ StartTimers
    PROVE  Base'
<1>1. CASE Poll
  BY <1>1 DEF Poll, Ready, Base, TypeOK, Nesting, ReadSent, CurOK, appVars, sockVars, sendVars, recvVars
<1>2. CASE OnEof \/ OnReadCloses
  BY <1>2 DEF OnEof, OnReadCloses, Dispatch, DoClose, Base, TypeOK, Nesting, ReadSent, CurOK, appVars,
              sendVars
<1>3. CASE OnWrite
  BY <1>3 DEF OnWrite, Dispatch, Base, TypeOK, Nesting, ReadSent, CurOK, sendVars
<1>4. CASE StartTimers
  BY <1>4 DEF StartTimers, Base, TypeOK, Nesting, ReadSent, CurOK, appVars, sockVars, sendVars, recvVars
<1> QED
  BY <1>1, <1>2, <1>3, <1>4

\* ff_read asks for no more than the buffer can take and the socket has, and leaves a
\* buffer with that much more in it.
LEMMA OnReadOf ==
    ASSUME Base, OnRead
    PROVE  \E len \in 0..Cap :
             /\ buf.size + len <= Cap /\ peerRead + len <= peerSent
             /\ buf' \in Ring /\ buf'.size = buf.size + len /\ buf'.head = buf.head
             /\ buf'.mem = Fill(buf, peerRead + 1, len).mem
             /\ peerRead' = peerRead + len
<1> DEFINE len == Least(peerSent - peerRead, FreeSize(buf))
<1>1. buf \in Ring /\ peerRead \in Nat /\ peerSent \in Nat /\ peerRead <= peerSent
  BY DEF Base, TypeOK, Ring, ReadSent
<1>2. buf.size \in 0..Cap /\ Cap \in Nat \ {0}
  BY <1>1, SessionConstants DEF Ring
<1>3. len \in 0..Cap /\ buf.size + len <= Cap /\ peerRead + len <= peerSent
  BY <1>1, <1>2 DEF Least, FreeSize
<1>4. buf' = Commit(Fill(buf, peerRead + 1, len), len) /\ peerRead' = peerRead + len
  BY DEF OnRead
<1> HIDE DEF len
<1> DEFINE f == Fill(buf, peerRead + 1, len)
<1>5. f \in Ring /\ f.head = buf.head /\ f.size = buf.size
  BY <1>1, <1>3, FillOf
<1>6. f.size + len <= Cap /\ len \in Nat
  BY <1>2, <1>3, <1>5
<1> HIDE DEF f
<1>7. /\ Commit(f, len) \in Ring /\ Commit(f, len).size = f.size + len
      /\ Commit(f, len).mem = f.mem /\ Commit(f, len).head = f.head
  BY <1>5, <1>6, CommitOf
<1> QED
  BY <1>3, <1>4, <1>5, <1>7 DEF f

\* Reading keeps the types.
LEMMA ReadBase == Base /\ OnRead => Base'
<1> SUFFICES ASSUME Base, OnRead PROVE Base'
  OBVIOUS
<1>1. PICK len \in 0..Cap : /\ peerRead + len <= peerSent /\ buf' \in Ring
                           /\ peerRead' = peerRead + len
  BY OnReadOf
<1>2. /\ frame' = "recv" /\ phase = "events" /\ turn = "none" /\ batch' \subseteq batch
      /\ overrun' \in BOOLEAN
      /\ UNCHANGED <<state, wEnabled, recvq, sendq, turn, tasks, budget, phase, peerSent, fin,
                     txFree, waits, submitted, wire, lost, got>>
  BY DEF OnRead, Dispatch, sendVars, Base, TypeOK
<1>3. peerRead' \in Nat
  BY <1>1, SessionConstants DEF Base, TypeOK
<1>4. TypeOK'
  BY <1>1, <1>2, <1>3 DEF Base, TypeOK, Ring
<1> QED
  BY <1>1, <1>2, <1>4 DEF Base, Nesting, ReadSent, CurOK

\* The loop of on_recv_event keeps the types.
LEMMA RecvBase ==
    ASSUME Base, RecvServe \/ RecvDrop \/ RecvEnd
    PROVE  Base'
<1>1. CASE RecvServe
  <2>1. recvq \in Seq(RecvEntry) /\ recvq # << >> /\ tasks \in Seq(QueuedTask)
    BY <1>1 DEF RecvServe, Base, TypeOK, RecvEntry, QueuedTask
  <2>2. Head(recvq) \in RecvEntry /\ Head(recvq) = recvq[1] /\ 1 \in 1..Len(recvq)
        /\ Tail(recvq) \in Seq(RecvEntry)
    BY <2>1, TailOf
  <2>3. [recvq[1] EXCEPT !.called = TRUE] \in RecvEntry
        /\ [recvq[1] EXCEPT !.called = TRUE].called = TRUE
    BY <2>2 DEF RecvEntry
  <2> DEFINE q == [recvq EXCEPT ![1] = [recvq[1] EXCEPT !.called = TRUE]]
  <2>4. q \in Seq(RecvEntry) /\ q[1].called /\ q # << >>
    BY <2>1, <2>2, <2>3, ExceptOf
  <2>5. recvq' = IF Head(recvq).runner = "center" THEN Tail(recvq) ELSE q
    BY <1>1 DEF RecvServe
  <2> HIDE DEF q
  <2>6. recvq' \in Seq(RecvEntry)
    BY <2>2, <2>4, <2>5
  <2>7. Task("data", Head(recvq).need) \in QueuedTask
    BY <2>2, SessionConstants DEF Task, QueuedTask, Turns, RecvEntry
  <2>8. tasks' \in Seq(QueuedTask) /\ turn' \in {"none", "data"}
        /\ (turn' # "none" => recvq' # << >> /\ recvq'[1].called)
    <3>1. CASE Head(recvq).runner = "center"
      BY <1>1, <2>1, <2>7, <3>1, AppendOf DEF RecvServe, Call
    <3>2. CASE Head(recvq).runner # "center"
      BY <1>1, <2>1, <2>4, <2>5, <3>2 DEF RecvServe, Call
    <3> QED
      BY <3>1, <3>2
  <2>9. /\ frame = "recv"
        /\ UNCHANGED <<state, wEnabled, buf, sendq, frame, budget, phase, batch, peerSent,
                       peerRead, fin, txFree, waits, submitted, wire, lost, got, overrun>>
    BY <1>1 DEF RecvServe, loopVars, sockVars, sendVars, recvVars
  <2>10. TypeOK'
    BY <2>6, <2>8, <2>9 DEF Base, TypeOK, RecvEntry, QueuedTask, Turns
  <2> QED
    BY <2>8, <2>9, <2>10 DEF Base, Nesting, ReadSent, CurOK
<1>2. CASE RecvDrop
  <2>1. recvq \in Seq(RecvEntry) /\ recvq # << >>
    BY <1>2 DEF RecvDrop, Base, TypeOK, RecvEntry
  <2>2. recvq' \in Seq(RecvEntry)
    BY <1>2, <2>1, TailOf DEF RecvDrop
  <2> QED
    BY <1>2, <2>2 DEF RecvDrop, Base, TypeOK, RecvEntry, Nesting, ReadSent, CurOK, appVars, loopVars,
                      sockVars, sendVars, recvVars
<1>3. CASE RecvEnd
  BY <1>3 DEF RecvEnd, Base, TypeOK, Nesting, ReadSent, CurOK, loopVars, sockVars, sendVars, recvVars
<1> QED
  BY <1>1, <1>2, <1>3

\* What the loop of on_send_event finds: a packet with something left to be sent, or
\* nothing; and what is left of the list when the packet has been dealt with.
LEMMA SendHead ==
    ASSUME Base, sendq # << >>
    PROVE  /\ sendq \in Seq(SendEntry) /\ 1 \in 1..Len(sendq)
           /\ Head(sendq) = sendq[1] /\ sendq[1] \in SendEntry
           /\ sendq[1].data \in Seq(Nat) /\ sendq[1].cur \in 0..Len(sendq[1].data)
           /\ Unsent(sendq[1]) \in Nat
           /\ Tail(sendq) \in Seq(SendEntry)
           /\ \A i \in 1..Len(Tail(sendq)) : Tail(sendq)[i] = sendq[i + 1]
           /\ Len(Tail(sendq)) = Len(sendq) - 1
           /\ \A n \in 0..Len(sendq[1].data) :
                /\ [sendq EXCEPT ![1].cur = n] \in Seq(SendEntry)
                /\ Len([sendq EXCEPT ![1].cur = n]) = Len(sendq)
                /\ [sendq EXCEPT ![1].cur = n] # << >>
                /\ [sendq EXCEPT ![1].cur = n][1] = [sendq[1] EXCEPT !.cur = n]
                /\ \A i \in 2..Len(sendq) : [sendq EXCEPT ![1].cur = n][i] = sendq[i]
<1>1. sendq \in Seq(SendEntry)
  BY DEF Base, TypeOK, SendEntry
<1>2. /\ 1 \in 1..Len(sendq) /\ Head(sendq) = sendq[1] /\ sendq[1] \in SendEntry
      /\ Tail(sendq) \in Seq(SendEntry) /\ Len(Tail(sendq)) = Len(sendq) - 1
      /\ \A i \in 1..Len(Tail(sendq)) : Tail(sendq)[i] = sendq[i + 1]
  BY <1>1, TailOf
<1>3. sendq[1].data \in Seq(Nat) /\ sendq[1].cur \in 0..Len(sendq[1].data)
  BY <1>2 DEF SendEntry, Base, CurOK
<1>4. ASSUME NEW n \in 0..Len(sendq[1].data)
      PROVE  /\ [sendq EXCEPT ![1].cur = n] \in Seq(SendEntry)
             /\ Len([sendq EXCEPT ![1].cur = n]) = Len(sendq)
             /\ [sendq EXCEPT ![1].cur = n] # << >>
             /\ [sendq EXCEPT ![1].cur = n][1] = [sendq[1] EXCEPT !.cur = n]
             /\ \A i \in 2..Len(sendq) : [sendq EXCEPT ![1].cur = n][i] = sendq[i]
  <2> DEFINE e == [sendq[1] EXCEPT !.cur = n]
  <2>1. n \in Nat
    BY <1>3
  <2>4. e \in SendEntry
    BY <1>2, <2>1 DEF SendEntry
  <2>2. [sendq EXCEPT ![1].cur = n] = [sendq EXCEPT ![1] = e]
    OBVIOUS
  <2> HIDE DEF e
  <2>3. /\ [sendq EXCEPT ![1] = e] \in Seq(SendEntry)
        /\ Len([sendq EXCEPT ![1] = e]) = Len(sendq)
        /\ \A j \in 1..Len(sendq) : [sendq EXCEPT ![1] = e][j] = IF j = 1 THEN e ELSE sendq[j]
    BY <1>1, <1>2, <2>4, ExceptOf
  <2> QED
    BY <1>2, <2>2, <2>3 DEF e
<1> QED
  BY <1>1, <1>2, <1>3, <1>4 DEF Unsent

\* The loop of on_send_event keeps the types.
LEMMA SendPartBase ==
    ASSUME Base, NEW n \in 1..TxCap, SendPart(n)
    PROVE  Base'
<1> DEFINE p == sendq[1]
<1>1. /\ sendq # << >> /\ Head(sendq) = p /\ p.data \in Seq(Nat) /\ p.cur \in 0..Len(p.data)
      /\ sendq \in Seq(SendEntry)
  BY SendHead DEF SendPart
<1>2. p.cur + n \in 0..Len(p.data) /\ p.cur <= p.cur + n /\ p.cur \in Nat
      /\ n \in Nat /\ n <= txFree
  <2>1. n < Len(p.data) - p.cur /\ n <= txFree
    BY <1>1 DEF SendPart, Unsent
  <2>2. n \in Nat /\ Len(p.data) \in Nat
    BY <1>1, SessionConstants
  <2> HIDE DEF p
  <2> QED
    BY <1>1, <2>1, <2>2
<1>3. sendq' = [sendq EXCEPT ![1].cur = p.cur + n]
  BY DEF SendPart, Update
<1>4. /\ sendq' \in Seq(SendEntry) /\ Len(sendq') = Len(sendq)
      /\ sendq'[1] = [sendq[1] EXCEPT !.cur = p.cur + n]
      /\ \A i \in 2..Len(sendq) : sendq'[i] = sendq[i]
  BY <1>1, <1>2, <1>3, SendHead
<1>5. SubSeq(p.data, p.cur + 1, p.cur + n) \in Seq(Nat)
  <2> HIDE DEF p
  <2> QED
    BY <1>1, <1>2, PartOf
<1>6. wire' \in Seq(Nat)
  BY <1>1, <1>5, ConcatOf DEF SendPart, Base, TypeOK
<1>7. txFree' \in 0..TxCap /\ wEnabled' \in BOOLEAN
  BY <1>2, SessionConstants DEF SendPart, EnableWrite, Base, TypeOK
<1>8. /\ frame' = "none"
      /\ UNCHANGED <<state, buf, recvq, turn, tasks, budget, phase, batch, peerSent, peerRead,
                     fin, waits, submitted, lost, got, overrun>>
  BY DEF SendPart, loopVars, recvVars
<1>9. TypeOK'
  BY <1>4, <1>6, <1>7, <1>8 DEF Base, TypeOK, SendEntry
<1>10. CurOK'
  <2>1. sendq'[1].cur <= Len(sendq'[1].data)
    BY <1>1, <1>2, <1>4, SendHead DEF SendEntry
  <2>2. \A i \in 2..Len(sendq) : sendq[i].cur <= Len(sendq[i].data)
    BY DEF Base, CurOK
  <2> QED
    <3> SUFFICES ASSUME NEW i \in 1..Len(sendq') PROVE sendq'[i].cur <= Len(sendq'[i].data)
      BY DEF CurOK
    <3>1. i = 1 \/ i \in 2..Len(sendq)
      BY <1>1, <1>4
    <3> QED
      BY <1>4, <2>1, <2>2, <3>1
<1> QED
  BY <1>8, <1>9, <1>10 DEF Base, Nesting, ReadSent

\* What SendRest and SendFails do to the lists, whichever runner the handler has
LEMMA SendCall ==
    ASSUME Base, sendq # << >>, frame = "send", turn = "none", NEW k \in {"sent", "failed"},
           Call(k, 0, Head(sendq).runner),
           sendq' = IF Head(sendq).runner = "center" THEN Tail(sendq)
                    ELSE [sendq EXCEPT ![1].cur = Len(Head(sendq).data)]
    PROVE  /\ tasks' \in Seq(QueuedTask) /\ turn' \in {"none", k}
           /\ turn' # "none" => sendq' # << >>
           /\ sendq' \in Seq(SendEntry) /\ CurOK'
<1> DEFINE p == sendq[1]
           q == [sendq EXCEPT ![1].cur = Len(p.data)]
<1>1. /\ Head(sendq) = p /\ p \in SendEntry /\ p.data \in Seq(Nat) /\ 1 \in 1..Len(sendq)
      /\ Tail(sendq) \in Seq(SendEntry) /\ Len(Tail(sendq)) = Len(sendq) - 1
      /\ \A i \in 1..Len(Tail(sendq)) : Tail(sendq)[i] = sendq[i + 1]
  BY SendHead
<1>2. Len(p.data) \in 0..Len(p.data)
  BY <1>1
<1>3. /\ q \in Seq(SendEntry) /\ Len(q) = Len(sendq) /\ q # << >>
      /\ q[1] = [p EXCEPT !.cur = Len(p.data)] /\ \A i \in 2..Len(sendq) : q[i] = sendq[i]
  BY <1>2, SendHead
<1>4. tasks \in Seq(QueuedTask) /\ Task(k, 0) \in QueuedTask
  BY DEF Base, TypeOK, Task, QueuedTask, Turns
<1>5. sendq' = IF p.runner = "center" THEN Tail(sendq) ELSE q
  BY <1>1
<1> HIDE DEF q
<1>6. CASE p.runner = "center"
  <2>1. tasks' = Append(tasks, Task(k, 0)) /\ turn' = turn
    BY <1>1, <1>6 DEF Call
  <2>2. tasks' \in Seq(QueuedTask)
    BY <1>4, <2>1, AppendOf
  <2>3. CurOK'
    <3> SUFFICES ASSUME NEW i \in 1..Len(sendq') PROVE sendq'[i].cur <= Len(sendq'[i].data)
      BY DEF CurOK
    <3>1. sendq' = Tail(sendq)
      BY <1>5, <1>6
    <3>2. i \in 1..Len(Tail(sendq))
      BY <3>1
    <3>3. Tail(sendq)[i] = sendq[i + 1]
      BY <1>1, <3>2
    <3>4. i + 1 \in 1..Len(sendq)
      BY <1>1, <3>2
    <3> QED
      BY <3>1, <3>3, <3>4 DEF Base, CurOK
  <2> QED
    BY <1>1, <1>5, <1>6, <2>1, <2>2, <2>3
<1>7. CASE p.runner # "center"
  <2>1. UNCHANGED tasks /\ turn' = k
    BY <1>1, <1>7 DEF Call
  <2>2. q[1].cur <= Len(q[1].data)
    BY <1>1, <1>3 DEF SendEntry
  <2>3. CurOK'
    BY <1>3, <1>5, <1>7, <2>2 DEF Base, CurOK
  <2> QED
    BY <1>3, <1>4, <1>5, <1>7, <2>1, <2>3
<1> QED
  BY <1>6, <1>7

\* The rest of the loop of on_send_event keeps the types.
LEMMA SendBase ==
    ASSUME Base, SendRest \/ SendAgain \/ SendFails \/ SendEnd
    PROVE  Base'
<1>1. CASE SendRest
  <2> DEFINE p == sendq[1]
  <2>1. /\ sendq # << >> /\ Head(sendq) = p /\ p.data \in Seq(Nat)
        /\ p.cur \in 0..Len(p.data) /\ Unsent(p) \in Nat
    BY <1>1, SendHead DEF SendRest
  <2>2. /\ tasks' \in Seq(QueuedTask) /\ turn' \in {"none", "sent"}
        /\ turn' # "none" => sendq' # << >>
        /\ sendq' \in Seq(SendEntry) /\ CurOK'
    BY <1>1, SendCall DEF SendRest
  <2>3. SubSeq(p.data, p.cur + 1, Len(p.data)) \in Seq(Nat)
    BY <2>1, PartOf
  <2>4. wire' \in Seq(Nat)
    BY <1>1, <2>1, <2>3, ConcatOf DEF SendRest, Base, TypeOK
  <2>5. txFree' \in 0..TxCap
    <3>1. txFree' = txFree - Unsent(p) /\ Unsent(p) <= txFree /\ txFree \in 0..TxCap
      BY <1>1, <2>1 DEF SendRest, Base, TypeOK
    <3> HIDE DEF p
    <3> QED
      BY <2>1, <3>1, SessionConstants
  <2>6. /\ frame = "send"
        /\ UNCHANGED <<state, wEnabled, buf, recvq, frame, budget, phase, batch, peerSent,
                       peerRead, fin, waits, submitted, lost, got, overrun>>
    BY <1>1 DEF SendRest, loopVars, recvVars
  <2>7. TypeOK'
    BY <2>2, <2>4, <2>5, <2>6 DEF Base, TypeOK, SendEntry, QueuedTask, Turns
  <2> QED
    BY <2>2, <2>6, <2>7 DEF Base, Nesting, ReadSent
<1>2. CASE SendAgain
  BY <1>2 DEF SendAgain, DoClose, Base, TypeOK, Nesting, ReadSent, CurOK, loopVars, sockVars,
              sendVars, recvVars
<1>3. CASE SendFails
  <2> DEFINE p == sendq[1]
  <2>1. /\ sendq # << >> /\ Head(sendq) = p /\ p.data \in Seq(Nat)
        /\ p.cur \in 0..Len(p.data)
    BY <1>3, SendHead DEF SendFails
  <2>2. /\ tasks' \in Seq(QueuedTask) /\ turn' \in {"none", "failed"}
        /\ turn' # "none" => sendq' # << >>
        /\ sendq' \in Seq(SendEntry) /\ CurOK'
    BY <1>3, SendCall DEF SendFails
  <2>3. { p.data[i] : i \in (p.cur + 1)..Len(p.data) } \subseteq Nat
    BY <2>1
  <2>4. lost' \subseteq Nat
    BY <1>3, <2>1, <2>3 DEF SendFails, Base, TypeOK
  <2>5. /\ frame = "send"
        /\ UNCHANGED <<state, wEnabled, buf, recvq, frame, budget, phase, batch, peerSent,
                       peerRead, fin, txFree, waits, submitted, wire, got, overrun>>
    BY <1>3 DEF SendFails, loopVars, sockVars, recvVars
  <2>6. TypeOK'
    BY <2>2, <2>4, <2>5 DEF Base, TypeOK, SendEntry, QueuedTask, Turns
  <2> QED
    BY <2>2, <2>5, <2>6 DEF Base, Nesting, ReadSent
<1>4. CASE SendEnd
  BY <1>4 DEF SendEnd, EnableWrite, Base, TypeOK, Nesting, ReadSent, CurOK, loopVars, sockVars,
              sendVars, recvVars
<1> QED
  BY <1>1, <1>2, <1>3, <1>4

\* Timers and the task center keep the types.
LEMMA TaskBase ==
    ASSUME Base, StartTasks \/ RunTask \/ EndTasks
    PROVE  Base'
<1>1. CASE StartTasks
  BY <1>1 DEF StartTasks, Base, TypeOK, Nesting, ReadSent, CurOK, appVars, sockVars, sendVars,
              recvVars
<1>2. CASE RunTask
  <2>1. tasks \in Seq(QueuedTask) /\ tasks # << >>
    BY <1>2 DEF RunTask, Base, TypeOK, QueuedTask
  <2>2. Tail(tasks) \in Seq(QueuedTask) /\ Head(tasks) \in QueuedTask
    BY <2>1, TailOf
  <2>3. tasks' \in Seq(QueuedTask) /\ turn' \in Turns
    BY <1>2, <2>2 DEF RunTask, QueuedTask
  <2>4. budget' \in Nat /\ phase = "tasks" /\ frame = "none"
    BY <1>2 DEF RunTask, Base, TypeOK, Nesting
  <2>5. UNCHANGED <<state, wEnabled, buf, recvq, sendq, frame, phase, batch, peerSent, peerRead,
                    fin, txFree, waits, submitted, wire, lost, got, overrun>>
    BY <1>2 DEF RunTask, sockVars, sendVars, recvVars
  <2>6. TypeOK'
    BY <2>3, <2>4, <2>5 DEF Base, TypeOK, QueuedTask
  <2> QED
    BY <2>4, <2>5, <2>6 DEF Base, Nesting, ReadSent, CurOK
<1>3. CASE EndTasks
  BY <1>3 DEF EndTasks, Base, TypeOK, Nesting, ReadSent, CurOK, appVars, sockVars, sendVars,
              recvVars
<1> QED
  BY <1>1, <1>2, <1>3

\* What FireTimer does to the lists
LEMMA FireOf ==
    ASSUME Base, NEW i \in 1..Len(recvq), FireTimer(i)
    PROVE  /\ recvq \in Seq(RecvEntry) /\ recvq' \in Seq(RecvEntry) /\ Len(recvq') = Len(recvq)
           /\ ~recvq[i].called /\ recvq'[i] = [recvq[i] EXCEPT !.called = TRUE]
           /\ recvq[i] \in RecvEntry
           /\ \A j \in 1..Len(recvq) : j # i => recvq'[j] = recvq[j]
           /\ tasks \in Seq(QueuedTask) /\ tasks' \in Seq(QueuedTask)
           /\ \/ tasks' = tasks
              \/ tasks' = Append(tasks, Task("timeout", 0)) /\ UNCHANGED turn
           /\ turn' \in {"none", "timeout"}
           /\ Task("timeout", 0) \in QueuedTask
<1>1. recvq \in Seq(RecvEntry) /\ tasks \in Seq(QueuedTask)
  BY DEF Base, TypeOK, RecvEntry, QueuedTask
<1>2. recvq[i] \in RecvEntry
  BY <1>1
<1> DEFINE e == [recvq[i] EXCEPT !.called = TRUE]
<1>3. e \in RecvEntry
  BY <1>2 DEF RecvEntry
<1>4. recvq' = [recvq EXCEPT ![i] = e]
  BY DEF FireTimer
<1> HIDE DEF e
<1>5. /\ recvq' \in Seq(RecvEntry) /\ Len(recvq') = Len(recvq) /\ recvq'[i] = e
      /\ \A j \in 1..Len(recvq) : j # i => recvq'[j] = recvq[j]
  BY <1>1, <1>3, <1>4, ExceptOf
<1>6. Task("timeout", 0) \in QueuedTask
  BY DEF Task, QueuedTask, Turns
<1>7. /\ \/ tasks' = tasks
         \/ tasks' = Append(tasks, Task("timeout", 0)) /\ UNCHANGED turn
      /\ turn' \in {"none", "timeout"} /\ ~recvq[i].called
  BY DEF FireTimer, Call, TimerCounts
<1>8. tasks' \in Seq(QueuedTask)
  BY <1>1, <1>6, <1>7, AppendOf
<1> QED
  BY <1>1, <1>2, <1>5, <1>6, <1>7, <1>8 DEF e

\* A timer keeps the types.
LEMMA FireBase ==
    ASSUME Base, NEW i \in 1..Len(recvq), FireTimer(i)
    PROVE  Base'
<1>1. recvq' \in Seq(RecvEntry) /\ tasks' \in Seq(QueuedTask) /\ turn' \in {"none", "timeout"}
  BY FireOf
<1>2. /\ phase = "timers" /\ frame = "none"
      /\ UNCHANGED <<state, wEnabled, buf, sendq, frame, budget, phase, batch, peerSent, peerRead,
                     fin, txFree, waits, submitted, wire, lost, got, overrun>>
  BY DEF FireTimer, loopVars, sockVars, sendVars, recvVars, Base, TypeOK, Nesting
<1>3. TypeOK'
  BY <1>1, <1>2 DEF Base, TypeOK, QueuedTask, RecvEntry, Turns
<1> QED
  BY <1>2, <1>3 DEF Base, Nesting, ReadSent, CurOK

\* What schedule of a packet does to the lists
LEMMA EnqueueOf ==
    ASSUME Base, NEW d \in Seq(Nat), NEW r \in {"immediate", "center"}, Enqueue(d, r)
    PROVE  /\ sendq \in Seq(SendEntry) /\ sendq' \in Seq(SendEntry)
           /\ Len(sendq') = Len(sendq) + 1 /\ Len(sendq) \in Nat
           /\ sendq' # << >>
           /\ sendq'[Len(sendq) + 1] = [data |-> d, cur |-> 0, runner |-> r]
           /\ \A i \in 1..Len(sendq) : sendq'[i] = sendq[i]
           /\ submitted' = submitted \o d /\ submitted' \in Seq(Nat)
           /\ wEnabled' \in BOOLEAN /\ CurOK'
<1>1. sendq \in Seq(SendEntry) /\ submitted \in Seq(Nat) /\ wEnabled \in BOOLEAN
  BY DEF Base, TypeOK, SendEntry
<1> DEFINE e == [data |-> d, cur |-> 0, runner |-> r]
<1>2. e \in SendEntry
  BY DEF SendEntry
<1>3. sendq' = Append(sendq, e) /\ submitted' = submitted \o d /\ wEnabled' \in BOOLEAN
  BY <1>1 DEF Enqueue, EnableWrite
<1>4. e.cur <= Len(e.data)
  OBVIOUS
<1> HIDE DEF e
<1>5. /\ sendq' \in Seq(SendEntry) /\ Len(sendq') = Len(sendq) + 1 /\ sendq' # << >>
      /\ Len(sendq) \in Nat
      /\ sendq'[Len(sendq) + 1] = e /\ \A i \in 1..Len(sendq) : sendq'[i] = sendq[i]
  <2>1. /\ Append(sendq, e) \in Seq(SendEntry) /\ Len(Append(sendq, e)) = Len(sendq) + 1
        /\ Len(sendq) \in Nat /\ Append(sendq, e) # << >>
        /\ Append(sendq, e)[Len(sendq) + 1] = e
        /\ \A i \in 1..Len(sendq) : Append(sendq, e)[i] = sendq[i]
    BY <1>1, <1>2, SMTT(30)
  <2> QED
    BY <1>3, <2>1, Zenon
<1>6. submitted' \in Seq(Nat)
  BY <1>1, <1>3, ConcatOf
<1>7. CurOK'
  <2> SUFFICES ASSUME NEW i \in 1..Len(sendq') PROVE sendq'[i].cur <= Len(sendq'[i].data)
    BY DEF CurOK
  <2>1. i = Len(sendq) + 1 \/ i \in 1..Len(sendq)
    BY <1>5
  <2>2. CASE i = Len(sendq) + 1
    BY <1>4, <1>5, <2>2
  <2>3. CASE i \in 1..Len(sendq)
    BY <1>5, <2>3 DEF Base, CurOK
  <2> QED
    BY <2>1, <2>2, <2>3
<1> QED
  BY <1>1, <1>3, <1>5, <1>6, <1>7 DEF e

\* What wait_packet and submit do to the lists
LEMMA RegisterOf ==
    ASSUME Base, NEW need \in 0..Cap, NEW timed \in BOOLEAN, NEW r \in {"immediate", "center"},
           NEW t \in Turns \cup {"none"}, Register(need, timed, r, t)
    PROVE  /\ recvq \in Seq(RecvEntry) /\ tasks \in Seq(QueuedTask)
           /\ recvq' \in Seq(RecvEntry) /\ tasks' \in Seq(QueuedTask) /\ Len(recvq) \in Nat
           /\ Len(recvq') \in {Len(recvq), Len(recvq) + 1}
           /\ \A i \in 1..Len(recvq) : recvq'[i] = recvq[i]
           /\ turn' \in {t, "data"} /\ (r = "center" => turn' = t)
           /\ \/ /\ Len(recvq') = Len(recvq) + 1 /\ UNCHANGED tasks
                 /\ buf.size = 0 \/ buf.size < need
                 /\ recvq'[Len(recvq) + 1] =
                        [need |-> need, timed |-> timed, called |-> FALSE, runner |-> r]
              \/ /\ recvq' = recvq /\ buf.size > 0 /\ buf.size >= need
                 /\ \/ r = "immediate" /\ UNCHANGED tasks
                    \/ r = "center" /\ tasks' = Append(tasks, Task("data", need))
<1> DEFINE e == [need |-> need, timed |-> timed, called |-> FALSE, runner |-> r]
<1>1. recvq \in Seq(RecvEntry) /\ tasks \in Seq(QueuedTask) /\ buf.size \in 0..Cap
  BY DEF Base, TypeOK, RecvEntry, QueuedTask
<1>2. e \in RecvEntry /\ Task("data", need) \in QueuedTask
  BY SessionConstants DEF RecvEntry, Task, QueuedTask, Turns
<1>3. CASE buf.size = 0 \/ buf.size < need
  <2>1. recvq' = Append(recvq, e) /\ UNCHANGED tasks /\ turn' = t
    BY <1>3 DEF Register
  <2> HIDE DEF e
  <2>2. /\ recvq' \in Seq(RecvEntry) /\ Len(recvq') = Len(recvq) + 1 /\ Len(recvq) \in Nat
        /\ recvq'[Len(recvq) + 1] = e /\ \A i \in 1..Len(recvq) : recvq'[i] = recvq[i]
    BY <1>1, <1>2, <2>1, AppendOf
  <2> QED
    BY <1>1, <1>3, <2>1, <2>2 DEF e
<1>4. CASE ~(buf.size = 0 \/ buf.size < need)
  <2>1. /\ recvq' = recvq /\ turn' \in {t, "data"} /\ (r = "center" => turn' = t)
        /\ \/ r = "immediate" /\ UNCHANGED tasks
           \/ r = "center" /\ tasks' = Append(tasks, Task("data", need))
    BY <1>4 DEF Register
  <2>2. tasks' \in Seq(QueuedTask)
    BY <1>1, <1>2, <2>1, SMTT(30)
  <2>3. buf.size > 0 /\ buf.size >= need /\ Len(recvq) \in Nat
    BY <1>1, <1>4, SessionConstants
  <2> QED
    BY <1>1, <2>1, <2>2, <2>3
<1> QED
  BY <1>3, <1>4

\* The application's functions keep the types.
LEMMA ConsumeBase ==
    ASSUME Base, NEW n \in 1..Cap, AppConsume(n)
    PROVE  Base'
<1>1. buf \in Ring /\ got \in Seq(Nat)
  BY DEF Base, TypeOK, Ring
<1>2. n \in 0..buf.size
  BY <1>1, SessionConstants DEF AppConsume, Ring
<1>3. buf' \in Ring
  BY <1>1, <1>2, ConsumeOf DEF AppConsume
<1>4. got' \in Seq(Nat)
  BY <1>1, <1>2, PeekOf, ConcatOf DEF AppConsume
<1>5. UNCHANGED <<state, wEnabled, recvq, sendq, frame, turn, tasks, budget, phase, batch,
                  peerSent, peerRead, fin, txFree, waits, submitted, wire, lost, overrun>>
  BY DEF AppConsume, appVars, loopVars, sockVars, sendVars
<1>6. TypeOK'
  BY <1>3, <1>4, <1>5 DEF Base, TypeOK, Ring
<1> QED
  BY <1>5, <1>6 DEF Base, Nesting, ReadSent, CurOK

\* wait_packet by the application keeps the types.
LEMMA WaitBase ==
    ASSUME Base, NEW need \in Needs, NEW timed \in BOOLEAN, NEW r \in Runners,
           AppWait(need, timed, r)
    PROVE  Base'
<1>1. need \in 0..Cap /\ r \in {"immediate", "center"}
  BY SessionConstants
<1>2. turn \in Turns /\ turn # "none" /\ Register(need, timed, r, turn)
  BY DEF AppWait, Base, TypeOK, Turns
<1>3. /\ recvq \in Seq(RecvEntry) /\ Len(recvq) \in Nat
      /\ recvq' \in Seq(RecvEntry) /\ tasks' \in Seq(QueuedTask) /\ turn' \in {turn, "data"}
      /\ Len(recvq') \in {Len(recvq), Len(recvq) + 1}
      /\ \A i \in 1..Len(recvq) : recvq'[i] = recvq[i]
  BY <1>1, <1>2, RegisterOf
<1>4. /\ waits' \in Nat
      /\ UNCHANGED <<state, wEnabled, buf, sendq, frame, budget, phase, batch, peerSent, peerRead,
                     fin, txFree, submitted, wire, lost, got, overrun>>
  BY DEF AppWait, loopVars, sockVars, sendVars, recvVars, Base, TypeOK
<1>5. TypeOK'
  BY <1>2, <1>3, <1>4, SMTT(30) DEF Base, TypeOK, RecvEntry, QueuedTask, Turns
<1>6. frame = "recv" => recvq' # << >> /\ recvq'[1].called
  <2> SUFFICES ASSUME frame = "recv" PROVE recvq' # << >> /\ recvq'[1].called
    OBVIOUS
  <2>1. recvq # << >> /\ recvq[1].called
    BY <1>2 DEF Base, Nesting, Turns
  <2>2. 1 \in 1..Len(recvq)
    BY <1>3, <2>1
  <2>3. Len(recvq') >= 1
    BY <1>3, <2>2
  <2> QED
    BY <1>3, <2>1, <2>2, <2>3
<1>7. Nesting'
  BY <1>2, <1>3, <1>4, <1>6 DEF Base, Nesting, Turns
<1> QED
  BY <1>4, <1>5, <1>7 DEF Base, ReadSent, CurOK

\* The packet that the application sends
LEMMA NumbersOf ==
    ASSUME NEW n \in Nat, NEW k \in Nat
    PROVE  /\ [i \in 1..n |-> k + i] \in Seq(Nat) /\ Len([i \in 1..n |-> k + i]) = n
           /\ \A i \in 1..n : [j \in 1..n |-> k + j][i] = k + i
  OBVIOUS

\* send_packet by the application keeps the types.
LEMMA SubmitBase ==
    ASSUME Base, NEW n \in SendLens, NEW r \in Runners, AppSend(n, r)
    PROVE  Base'
<1>1. n \in Nat /\ r \in {"immediate", "center"} /\ Len(submitted) \in Nat
  BY SessionConstants DEF Base, TypeOK
<1> DEFINE d == [i \in 1..n |-> Len(submitted) + i]
<1>2. d \in Seq(Nat)
  BY <1>1, NumbersOf
<1>3. Enqueue(d, r)
  BY DEF AppSend
<1> HIDE DEF d
<1>4. /\ sendq' \in Seq(SendEntry) /\ sendq' # << >> /\ submitted' \in Seq(Nat)
      /\ wEnabled' \in BOOLEAN /\ CurOK'
  BY <1>1, <1>2, <1>3, EnqueueOf
<1>5. UNCHANGED <<state, buf, recvq, frame, turn, tasks, budget, phase, batch, peerSent, peerRead,
                  fin, txFree, waits, wire, lost, got, overrun>>
  BY DEF AppSend, appVars, loopVars, sockVars, recvVars
<1>6. TypeOK'
  BY <1>4, <1>5 DEF Base, TypeOK, SendEntry
<1> QED
  BY <1>4, <1>5, <1>6 DEF Base, Nesting, ReadSent

\* close by the application keeps the types.
LEMMA CloseBase == Base /\ AppClose => Base'
  BY DEF AppClose, DoClose, Base, TypeOK, Nesting, ReadSent, CurOK, appVars, loopVars, sockVars,
         sendVars, recvVars

\* The return of a function keeps the types, and its handler was there to be removed.
LEMMA ReturnBase == Base /\ Return => Base'
<1> SUFFICES ASSUME Base, Return PROVE Base'
  OBVIOUS
<1>1. recvq \in Seq(RecvEntry) /\ sendq \in Seq(SendEntry)
  BY DEF Base, TypeOK, RecvEntry, SendEntry
<1>2. /\ turn # "none" /\ turn' = "none"
      /\ recvq' = IF frame = "recv" THEN Tail(recvq) ELSE recvq
      /\ sendq' = IF frame = "send" THEN Tail(sendq) ELSE sendq
      /\ UNCHANGED <<state, wEnabled, buf, frame, tasks, budget, phase, batch, peerSent, peerRead,
                     fin, txFree, waits, submitted, wire, lost, got, overrun>>
  BY DEF Return, loopVars, sockVars, sendVars, recvVars
<1>3. recvq' \in Seq(RecvEntry)
  BY <1>1, <1>2, TailOf DEF Base, Nesting
<1>4. sendq' \in Seq(SendEntry) /\ CurOK'
  <2>1. CASE frame = "send"
    <3>1. sendq # << >>
      BY <1>2, <2>1 DEF Base, Nesting
    <3>2. /\ Tail(sendq) \in Seq(SendEntry) /\ Len(Tail(sendq)) = Len(sendq) - 1
          /\ Len(sendq) \in Nat
          /\ \A i \in 1..Len(Tail(sendq)) : Tail(sendq)[i] = sendq[i + 1]
      BY <1>1, <3>1, TailOf
    <3>3. ASSUME NEW i \in 1..Len(Tail(sendq))
          PROVE  Tail(sendq)[i].cur <= Len(Tail(sendq)[i].data)
      <4>1. Tail(sendq)[i] = sendq[i + 1] /\ i + 1 \in 1..Len(sendq)
        BY <3>2
      <4> QED
        BY <4>1 DEF Base, CurOK
    <3>4. sendq' = Tail(sendq)
      BY <1>2, <2>1
    <3> QED
      BY <3>2, <3>3, <3>4 DEF CurOK
  <2>2. CASE frame # "send"
    BY <1>1, <1>2, <2>2 DEF Base, CurOK
  <2> QED
    BY <2>1, <2>2
<1>5. TypeOK'
  BY <1>2, <1>3, <1>4 DEF Base, TypeOK, RecvEntry, SendEntry
<1> QED
  BY <1>2, <1>4, <1>5 DEF Base, Nesting, ReadSent

\* Every step of the stack and of the loop keeps the types.
LEMMA LoopBase == Base /\ (Stack \/ Loop) => Base'
<1> SUFFICES ASSUME Base, Stack \/ Loop PROVE Base'
  OBVIOUS
<1>1. CASE Stack
  BY <1>1, StackBase
<1>2. CASE \E n \in 1..TxCap : SendPart(n)
  BY <1>2, SendPartBase
<1>3. CASE Loop /\ ~ \E n \in 1..TxCap : SendPart(n)
  BY <1>3, EventBase, ReadBase, RecvBase, SendBase, TaskBase DEF Loop, Events
<1> QED
  BY <1>1, <1>2, <1>3

\* Every step keeps the types and the nesting of functions.
LEMMA StepBase == Base /\ [Next]_vars => Base'
<1> SUFFICES ASSUME Base, [Next]_vars PROVE Base'
  OBVIOUS
<1>1. CASE Stack \/ Loop
  BY <1>1, LoopBase
<1>2. CASE App
  BY <1>2, ConsumeBase, WaitBase, SubmitBase, CloseBase DEF App
<1>3. CASE Return
  BY <1>3, ReturnBase
<1>4. CASE \E i \in 1..Len(recvq) : FireTimer(i)
  BY <1>4, FireBase
<1>5. CASE UNCHANGED vars
  BY <1>5 DEF vars, appVars, loopVars, sockVars, sendVars, recvVars, Base, TypeOK, Nesting,
              ReadSent, CurOK
<1> QED
  BY <1>1, <1>2, <1>3, <1>4, <1>5 DEF Next

-----------------------------------------------------------------------------
\* The invariants

\* Only the last handler of the list can still be waiting: there is one reader.
RecvOne == \A i \in 1..(Len(recvq) - 1) : recvq[i].called

\* As long as no read met unconsumed bytes: what was consumed and what is in the buffer
\* are all that was read, in order.
StreamInv ==
    ~overrun =>
        /\ peerRead = Len(got) + buf.size
        /\ \A i \in 1..Len(got) : got[i] = i
        /\ \A j \in 0..(buf.size - 1) : buf.mem[(buf.head + j) % Cap] = Len(got) + j + 1

\* The packets of q are the last ones submitted, m bytes in all, in a row; only the first
\* one is partly sent.
Packets(q, m) ==
    /\ \A k \in 1..Len(q) :
        /\ Len(q[k].data) > 0 /\ q[k].data[1] > 0
        /\ \A i \in 1..Len(q[k].data) : q[k].data[i] = q[k].data[1] + i - 1
        /\ k > 1 => q[k].cur = 0
        /\ k < Len(q) => q[k + 1].data[1] = q[k].data[1] + Len(q[k].data)
        /\ k = Len(q) => q[k].data[1] + Len(q[k].data) = m + 1

\* The last byte, of m submitted ones, that has been dealt with if q is left
FrontOf(q, m) == IF q = << >> THEN m ELSE q[1].data[1] - 1 + q[1].cur

\* wire has bytes up to f, in order, and the others up to f are lost.
WireUpTo(f) ==
    /\ \A i \in 1..Len(wire) : wire[i] \in 1..f
    /\ \A i \in 1..(Len(wire) - 1) : wire[i] < wire[i + 1]
    /\ \A b \in 1..f : b \in lost \/ \E i \in 1..Len(wire) : wire[i] = b

WireInv ==
    /\ Packets(sendq, Len(submitted))
    /\ WireUpTo(FrontOf(sendq, Len(submitted)))
    /\ frame = "send" /\ turn # "none" => sendq[1].cur = Len(sendq[1].data)

\* The echo server: functions run only from the task center.
CenterOnly ==
    /\ \A i \in 1..Len(recvq) : recvq[i].runner = "center"
    /\ \A i \in 1..Len(sendq) : sendq[i].runner = "center"
    /\ turn # "none" => phase = "tasks"
    /\ peerSent <= MaxIn

\* The chain goes on without having met a failure.
Unfailed ==
    \/ turn \notin {"none", "failed"}
    \/ tasks # << >> /\ tasks[1].kind # "failed"
    \/ Live # {}

\* x bytes of the g consumed ones are echoed if the packet under way has data d and is
\* sent up to c: it is a timeout message, or holds the last of the consumed bytes.
EchoedTo(d, c, x, g) ==
    \/ d = TimeoutText /\ x = g
    \/ /\ \A i \in 1..Len(d) : d[i] = g - Len(d) + i
       /\ Len(d) <= g /\ g <= MaxIn /\ x = g - Len(d) + c

EchoInv ==
    ~overrun =>
        /\ EchoesInput
        /\ sendq = << >> /\ Unfailed => Cardinality(EchoPositions) = Len(got)
        /\ sendq # << >> =>
            EchoedTo(sendq[1].data, sendq[1].cur, Cardinality(EchoPositions), Len(got))

-----------------------------------------------------------------------------
\* The write event

\* Every step leaves the write event enabled exactly when a packet waits.
LEMMA StepArmed == Base /\ WriteArmed /\ [Next]_vars => WriteArmed'
<1> SUFFICES ASSUME Base, WriteArmed, [Next]_vars PROVE WriteArmed'
  OBVIOUS
<1>1. CASE \/ Stack \/ Poll \/ OnRead \/ RecvServe \/ RecvDrop \/ RecvEnd \/ StartTimers
           \/ StartTasks \/ RunTask \/ EndTasks
           \/ \E n \in 1..Cap : AppConsume(n)
           \/ \E need \in Needs, timed \in BOOLEAN, r \in Runners : AppWait(need, timed, r)
           \/ \E i \in 1..Len(recvq) : FireTimer(i)
           \/ UNCHANGED vars
  <2>1. UNCHANGED <<state, wEnabled, sendq>> /\ (frame' = "send" => frame = "send")
        /\ (frame = "send" => frame' = "send")
    BY <1>1 DEF Stack, PeerSends, PeerCloses, PeerAcks, Poll, OnRead, Dispatch, RecvServe, RecvDrop,
                RecvEnd, StartTimers, StartTasks, RunTask, EndTasks, AppConsume, AppWait,
                FireTimer, vars, appVars
  <2> QED
    BY <2>1 DEF WriteArmed
<1>2. CASE OnEof \/ OnReadCloses \/ SendAgain \/ AppClose
  BY <1>2 DEF OnEof, OnReadCloses, SendAgain, AppClose, DoClose, WriteArmed
<1>3. CASE OnWrite \/ SendRest \/ SendFails
  BY <1>3 DEF OnWrite, SendRest, SendFails, WriteArmed
<1>4. CASE \E n \in 1..TxCap : SendPart(n)
  <2>1. PICK n \in 1..TxCap : SendPart(n)
    BY <1>4
  <2>2. sendq # << >> /\ sendq \in Seq(SendEntry) /\ state = 1 /\ wEnabled' = TRUE
    BY <2>1, SendHead DEF SendPart, EnableWrite
  <2>3. sendq' # << >>
    BY <2>1, <2>2 DEF SendPart
  <2> QED
    BY <2>2, <2>3 DEF WriteArmed
<1>5. CASE SendEnd
  BY <1>5 DEF SendEnd, EnableWrite, WriteArmed
<1>6. CASE \E n \in SendLens, r \in Runners : AppSend(n, r)
  <2>1. /\ sendq \in Seq(SendEntry) /\ UNCHANGED <<state, frame>>
        /\ \E e : sendq' = Append(sendq, e)
        /\ wEnabled' = IF state = 0 THEN wEnabled ELSE TRUE
    BY <1>6 DEF AppSend, Enqueue, EnableWrite, appVars, Base, TypeOK, SendEntry
  <2>2. sendq' # << >>
    BY <2>1
  <2> QED
    BY <2>1, <2>2 DEF WriteArmed
<1>7. CASE Return
  BY <1>7 DEF Return, WriteArmed
<1> QED
  BY <1>1, <1>2, <1>3, <1>4, <1>5, <1>6, <1>7 DEF Next, Loop, Events, App

-----------------------------------------------------------------------------
\* The handlers that wait and the functions that are queued for data

\* Queueing a function whose data is there
LEMMA QueueKeepsData ==
    ASSUME Base, DataStillThere, NEW k \in Turns, NEW m \in Nat, buf' \in Ring,
           buf'.size >= buf.size, k = "data" => buf'.size > 0 /\ buf'.size >= m,
           tasks' = tasks \/ tasks' = Append(tasks, Task(k, m))
    PROVE  DataStillThere'
<1>1. tasks \in Seq(QueuedTask) /\ buf \in Ring /\ Cap \in Nat
  BY SessionConstants DEF Base, TypeOK, QueuedTask, Ring
<1>2. buf.size \in Nat /\ buf'.size \in Nat
  BY <1>1 DEF Ring
<1>3. ASSUME NEW i \in 1..Len(tasks), tasks[i].kind = "data"
      PROVE  buf'.size > 0 /\ buf'.size >= tasks[i].need
  <2>1. buf.size > 0 /\ buf.size >= tasks[i].need
    BY <1>3 DEF DataStillThere
  <2>2. tasks[i] \in QueuedTask
    BY <1>1
  <2>3. tasks[i].need \in Nat
    BY <2>2 DEF QueuedTask
  <2> QED
    BY <1>2, <2>1, <2>3
<1>4. CASE tasks' = tasks
  BY <1>3, <1>4 DEF DataStillThere
<1>5. CASE tasks' = Append(tasks, Task(k, m))
  <2>1. Task(k, m) \in QueuedTask /\ Task(k, m).kind = k /\ Task(k, m).need = m
    BY DEF Task, QueuedTask
  <2>2. /\ Len(tasks') = Len(tasks) + 1 /\ tasks'[Len(tasks) + 1] = Task(k, m)
        /\ Len(tasks) \in Nat /\ \A i \in 1..Len(tasks) : tasks'[i] = tasks[i]
    BY <1>1, <1>5, <2>1, AppendOf
  <2> SUFFICES ASSUME NEW i \in 1..Len(tasks'), tasks'[i].kind = "data"
               PROVE  buf'.size > 0 /\ buf'.size >= tasks'[i].need
    BY DEF DataStillThere
  <2>3. CASE i = Len(tasks) + 1
    BY <2>1, <2>2, <2>3
  <2>4. CASE i \in 1..Len(tasks)
    BY <1>3, <2>2, <2>4
  <2> QED
    BY <2>2, <2>3, <2>4
<1> QED
  BY <1>4, <1>5

\* The loop and the timers keep the data of the functions that are queued.
LEMMA LoopData ==
    ASSUME Base, Base', DataStillThere,
           Stack \/ Loop \/ (\E i \in 1..Len(recvq) : FireTimer(i))
    PROVE  DataStillThere'
<1>1. buf \in Ring /\ buf' \in Ring /\ tasks \in Seq(QueuedTask) /\ Cap \in Nat
  BY SessionConstants DEF Base, TypeOK, Ring, QueuedTask
<1>2. buf.size \in Nat /\ buf'.size \in Nat
  BY <1>1 DEF Ring
<1>3. CASE \/ Stack \/ Poll \/ OnEof \/ OnReadCloses \/ OnWrite \/ RecvDrop \/ RecvEnd \/ SendAgain
           \/ SendEnd \/ StartTimers \/ StartTasks \/ EndTasks
           \/ \E n \in 1..TxCap : SendPart(n)
  <2>1. UNCHANGED <<buf, tasks>>
    BY <1>3 DEF Stack, PeerSends, PeerCloses, PeerAcks, Poll, OnEof, OnReadCloses, OnWrite, RecvDrop,
                RecvEnd, SendAgain, SendEnd, StartTimers, StartTasks, EndTasks, SendPart, appVars
  <2> QED
    BY <2>1 DEF DataStillThere
<1>4. CASE OnRead
  <2>1. PICK len \in 0..Cap : buf'.size = buf.size + len
    BY <1>4, OnReadOf
  <2>2. buf'.size >= buf.size
    BY <1>1, <1>2, <2>1
  <2>3. tasks' = tasks /\ "sent" \in Turns /\ 0 \in Nat
    BY <1>4 DEF OnRead, Turns
  <2> QED
    BY <1>1, <2>2, <2>3, QueueKeepsData
<1>5. CASE RecvServe
  <2> DEFINE m == Head(recvq).need
  <2>1. recvq # << >> /\ recvq \in Seq(RecvEntry)
    BY <1>5 DEF RecvServe, Base, TypeOK, RecvEntry
  <2>2. Head(recvq) \in RecvEntry
    BY <2>1, TailOf
  <2>3. m \in Nat /\ "data" \in Turns
    BY <1>1, <2>2 DEF RecvEntry, Turns
  <2>4. buf' = buf /\ buf.size > 0 /\ m <= buf.size
    BY <1>5 DEF RecvServe, Enough
  <2>5. tasks' = tasks \/ tasks' = Append(tasks, Task("data", m))
    BY <1>5 DEF RecvServe, Call
  <2>6. buf'.size >= buf.size /\ buf'.size > 0 /\ buf'.size >= m
    BY <1>2, <2>3, <2>4
  <2> HIDE DEF m
  <2> QED
    BY <1>1, <2>3, <2>5, <2>6, QueueKeepsData
<1>6. CASE SendRest \/ SendFails \/ \E i \in 1..Len(recvq) : FireTimer(i)
  <2>1. PICK k \in {"sent", "failed", "timeout"} :
             tasks' = tasks \/ tasks' = Append(tasks, Task(k, 0))
    BY <1>6 DEF SendRest, SendFails, FireTimer, Call
  <2>2. buf' = buf /\ buf'.size >= buf.size
    BY <1>2, <1>6 DEF SendRest, SendFails, FireTimer
  <2>3. k \in Turns /\ k # "data" /\ 0 \in Nat
    BY DEF Turns
  <2> QED
    BY <1>1, <2>1, <2>2, <2>3, QueueKeepsData
<1>7. CASE RunTask
  <2>1. tasks # << >> /\ tasks' = Tail(tasks) /\ buf' = buf
    BY <1>7 DEF RunTask
  <2>2. /\ Len(tasks') = Len(tasks) - 1 /\ Len(tasks) \in Nat
        /\ \A i \in 1..Len(tasks') : tasks'[i] = tasks[i + 1]
    BY <1>1, <2>1, TailOf
  <2> SUFFICES ASSUME NEW i \in 1..Len(tasks'), tasks'[i].kind = "data"
               PROVE  buf.size > 0 /\ buf.size >= tasks'[i].need
    BY <2>1 DEF DataStillThere
  <2>3. i + 1 \in 1..Len(tasks) /\ tasks'[i] = tasks[i + 1]
    BY <2>2
  <2> QED
    BY <2>3 DEF DataStillThere
<1> QED
  BY <1>3, <1>4, <1>5, <1>6, <1>7 DEF Loop, Events

\* Every step leaves queued functions their data.
LEMMA StepData == Base /\ Base' /\ DataStillThere /\ [Next]_vars => DataStillThere'
<1> SUFFICES ASSUME Base, Base', DataStillThere, [Next]_vars PROVE DataStillThere'
  OBVIOUS
<1>1. buf' \in Ring /\ buf.size \in Nat
  <2>1. buf \in Ring /\ buf' \in Ring
    BY DEF Base, TypeOK, Ring
  <2> QED
    BY <2>1, SessionConstants, SMTT(30) DEF Ring
<1>2. CASE Stack \/ Loop \/ \E i \in 1..Len(recvq) : FireTimer(i)
  BY <1>2, LoopData
<1>3. CASE \E n \in 1..Cap : AppConsume(n)
  \* No function is queued for data when the reader is idle.
  <2>1. UNCHANGED tasks /\ \A i \in 1..Len(tasks) : tasks[i].kind # "data"
    BY <1>3 DEF AppConsume, ReaderIdle, appVars
  <2> QED
    BY <2>1 DEF DataStillThere
<1>4. CASE \E need \in Needs, timed \in BOOLEAN, r \in Runners : AppWait(need, timed, r)
  <2>1. PICK need \in Needs, timed \in BOOLEAN, r \in Runners : AppWait(need, timed, r)
    BY <1>4
  <2>2. /\ need \in 0..Cap /\ need \in Nat /\ r \in {"immediate", "center"}
        /\ turn \in Turns \cup {"none"} /\ "data" \in Turns /\ "sent" \in Turns /\ 0 \in Nat
    BY SessionConstants DEF Base, TypeOK, Turns
  <2>3. Register(need, timed, r, turn) /\ buf' = buf
    BY <2>1 DEF AppWait
  <2>4. \/ UNCHANGED tasks
        \/ tasks' = Append(tasks, Task("data", need)) /\ buf.size > 0 /\ buf.size >= need
    BY <2>2, <2>3, RegisterOf
  <2>5. buf'.size >= buf.size
    BY <1>1, <2>3
  <2> QED
    BY <1>1, <2>2, <2>3, <2>4, <2>5, QueueKeepsData
<1>5. CASE (\E n \in SendLens, r \in Runners : AppSend(n, r)) \/ AppClose \/ Return \/ UNCHANGED vars
  <2>1. UNCHANGED <<buf, tasks>>
    BY <1>5 DEF AppSend, AppClose, Return, vars, appVars
  <2> QED
    BY <2>1 DEF DataStillThere
<1> QED
  BY <1>2, <1>3, <1>4, <1>5 DEF Next, App

\* Taking the first of the handlers off the list leaves one reader.
LEMMA OneLess ==
    ASSUME Base, RecvOne, recvq # << >>, recvq' = Tail(recvq)
    PROVE  RecvOne'
<1>1. recvq \in Seq(RecvEntry)
  BY DEF Base, TypeOK, RecvEntry
<1>2. /\ Len(recvq') = Len(recvq) - 1 /\ Len(recvq) \in Nat
      /\ \A i \in 1..Len(recvq') : recvq'[i] = recvq[i + 1]
  BY <1>1, TailOf
<1> SUFFICES ASSUME NEW i \in 1..(Len(recvq') - 1) PROVE recvq'[i].called
  BY DEF RecvOne
<1>3. i + 1 \in 1..(Len(recvq) - 1) /\ recvq'[i] = recvq[i + 1]
  BY <1>2
<1> QED
  BY <1>3 DEF RecvOne

\* A wait of an idle reader becomes the only one.
LEMMA OneMore ==
    ASSUME Base, \A i \in 1..Len(recvq) : recvq[i].called, NEW need \in 0..Cap, NEW timed \in BOOLEAN,
           NEW r \in {"immediate", "center"}, NEW t \in Turns \cup {"none"},
           Register(need, timed, r, t)
    PROVE  RecvOne'
<1>1. /\ Len(recvq) \in Nat /\ Len(recvq') \in {Len(recvq), Len(recvq) + 1}
      /\ \A i \in 1..Len(recvq) : recvq'[i] = recvq[i]
  BY RegisterOf
<1> SUFFICES ASSUME NEW i \in 1..(Len(recvq') - 1) PROVE recvq'[i].called
  BY DEF RecvOne
<1>2. i \in 1..Len(recvq)
  BY <1>1
<1> QED
  BY <1>1, <1>2

\* Every step leaves at most the last handler waiting.
LEMMA StepOne == Base /\ RecvOne /\ [Next]_vars => RecvOne'
<1> SUFFICES ASSUME Base, RecvOne, [Next]_vars PROVE RecvOne'
  OBVIOUS
<1>1. CASE UNCHANGED recvq
  BY <1>1 DEF RecvOne
<1>2. CASE RecvServe
  <2>1. recvq # << >> /\ recvq \in Seq(RecvEntry)
    BY <1>2 DEF RecvServe, Base, TypeOK, RecvEntry
  <2>2. recvq' = Tail(recvq) \/ recvq' = [recvq EXCEPT ![1].called = TRUE]
    BY <1>2 DEF RecvServe
  <2>3. CASE recvq' = Tail(recvq)
    BY <2>1, <2>3, OneLess
  <2>4. CASE recvq' = [recvq EXCEPT ![1].called = TRUE]
    <3>1. Len(recvq') = Len(recvq) /\ \A i \in 1..Len(recvq) : i # 1 => recvq'[i] = recvq[i]
      BY <2>1, <2>4
    <3>2. 1 \in 1..Len(recvq) /\ recvq[1] \in RecvEntry
      BY <2>1, TailOf
    <3>3. recvq'[1].called
      BY <2>4, <3>2, <2>1 DEF RecvEntry
    <3> QED
      BY <3>1, <3>3 DEF RecvOne
  <2> QED
    BY <2>2, <2>3, <2>4
<1>3. CASE RecvDrop
  BY <1>3, OneLess DEF RecvDrop
<1>4. CASE \E i \in 1..Len(recvq) : FireTimer(i)
  <2>1. PICK i \in 1..Len(recvq) : FireTimer(i)
    BY <1>4
  <2>2. /\ Len(recvq') = Len(recvq) /\ recvq'[i] = [recvq[i] EXCEPT !.called = TRUE]
        /\ recvq[i] \in RecvEntry /\ \A j \in 1..Len(recvq) : j # i => recvq'[j] = recvq[j]
    BY <2>1, FireOf
  <2>3. recvq'[i].called
    BY <2>2 DEF RecvEntry
  <2> SUFFICES ASSUME NEW j \in 1..(Len(recvq) - 1) PROVE recvq'[j].called
    BY <2>2 DEF RecvOne
  <2>4. Len(recvq) \in Nat
    BY DEF Base, TypeOK
  <2>5. j \in 1..Len(recvq) /\ recvq[j].called
    BY <2>4 DEF RecvOne
  <2> QED
    BY <2>2, <2>3, <2>5
<1>5. CASE \E need \in Needs, timed \in BOOLEAN, r \in Runners : AppWait(need, timed, r)
  <2>1. PICK need \in Needs, timed \in BOOLEAN, r \in Runners : AppWait(need, timed, r)
    BY <1>5
  <2>2. need \in 0..Cap /\ r \in {"immediate", "center"} /\ turn \in Turns \cup {"none"}
    BY SessionConstants DEF Base, TypeOK
  <2>3. Register(need, timed, r, turn) /\ \A i \in 1..Len(recvq) : recvq[i].called
    BY <2>1 DEF AppWait, ReaderIdle
  <2> QED
    BY <2>2, <2>3, OneMore
<1>6. CASE Return
  BY <1>1, <1>6, OneLess DEF Return, Base, Nesting
<1>7. CASE Stack \/ StartTimers \/ StartTasks \/ RunTask \/ EndTasks \/ AppClose \/ UNCHANGED vars
           \/ (\E n \in 1..Cap : AppConsume(n)) \/ \E n \in SendLens, r \in Runners : AppSend(n, r)
  BY <1>1, <1>7 DEF Stack, PeerSends, PeerCloses, PeerAcks, StartTimers, StartTasks, RunTask,
                    EndTasks, AppClose, AppConsume, AppSend, vars
<1>8. CASE Poll \/ OnEof \/ OnReadCloses \/ OnRead \/ OnWrite \/ RecvEnd \/ SendRest \/ SendAgain
           \/ SendFails \/ SendEnd \/ \E n \in 1..TxCap : SendPart(n)
  BY <1>1, <1>8 DEF Poll, OnEof, OnReadCloses, OnRead, OnWrite, RecvEnd, SendRest, SendAgain,
                    SendFails, SendEnd, SendPart
<1> QED
  BY <1>2, <1>3, <1>4, <1>5, <1>6, <1>7, <1>8 DEF Next, Loop, Events, App

\* If the loop of on_recv_event has ended, it has left no reader whose data is there.
LEMMA EndStarvesNone ==
    ASSUME Base, RecvOne, RecvEnd
    PROVE  NoStarvedWait'
<1>1. recvq \in Seq(RecvEntry) /\ RecvDone /\ UNCHANGED <<recvq, buf>> /\ buf.size \in Nat
  BY SessionConstants DEF RecvEnd, Base, TypeOK, RecvEntry
<1> SUFFICES ASSUME NEW i \in 1..Len(recvq), ~recvq[i].called, buf.size # 0
             PROVE  recvq[i].need > buf.size
  BY <1>1 DEF NoStarvedWait
<1>2. recvq # << >>
  BY <1>1
<1>3. Head(recvq) = recvq[1] /\ recvq[1] \in RecvEntry /\ Len(recvq) \in Nat
  BY <1>1, <1>2, TailOf
<1>4. recvq[1].need \in Nat
  BY <1>3, SessionConstants DEF RecvEntry
<1>5. ~recvq[1].called /\ ~Enough(recvq[1].need)
  BY <1>1, <1>2, <1>3 DEF RecvDone
<1>6. i = 1
  BY <1>3, <1>5 DEF RecvOne
<1> QED
  BY <1>1, <1>4, <1>5, <1>6 DEF Enough

\* Every step leaves no handler behind whose data is there.
LEMMA StepStarved ==
    Base /\ Base' /\ RecvOne /\ NoStarvedWait /\ [Next]_vars => NoStarvedWait'
<1> SUFFICES ASSUME Base, Base', RecvOne, NoStarvedWait, [Next]_vars, frame' # "recv"
             PROVE  NoStarvedWait'
  BY DEF NoStarvedWait
<1>0. recvq \in Seq(RecvEntry) /\ buf \in Ring /\ buf.size \in Nat /\ buf'.size \in Nat
  <2>1. buf \in Ring /\ buf' \in Ring
    BY DEF Base, TypeOK, Ring
  <2> QED
    <3>1. buf.size \in Nat /\ buf'.size \in Nat
      BY <2>1, SessionConstants DEF Ring
    <3>2. recvq \in Seq(RecvEntry)
      BY DEF Base, TypeOK, RecvEntry
    <3> QED
      BY <2>1, <3>1, <3>2
<1>1. CASE UNCHANGED <<recvq, buf>> /\ frame # "recv"
  BY <1>1 DEF NoStarvedWait
<1>2. CASE RecvEnd
  BY <1>2, EndStarvesNone
<1>3. CASE \E i \in 1..Len(recvq) : FireTimer(i)
  <2>1. PICK i \in 1..Len(recvq) : FireTimer(i)
    BY <1>3
  <2>2. /\ Len(recvq') = Len(recvq) /\ recvq'[i] = [recvq[i] EXCEPT !.called = TRUE]
        /\ recvq[i] \in RecvEntry /\ \A j \in 1..Len(recvq) : j # i => recvq'[j] = recvq[j]
    BY <2>1, FireOf
  <2>3. recvq'[i].called
    BY <2>2 DEF RecvEntry
  <2>4. UNCHANGED <<buf, frame>>
    BY <2>1 DEF FireTimer
  <2> QED
    BY <2>2, <2>3, <2>4 DEF NoStarvedWait
<1>4. CASE \E n \in 1..Cap : AppConsume(n)
  <2>1. PICK n \in 1..Cap : AppConsume(n)
    BY <1>4
  <2>2. n \in 0..buf.size /\ n \in Nat
    BY <1>0, <2>1 DEF AppConsume
  <2>3. buf'.size = buf.size - n /\ UNCHANGED <<recvq, frame>>
    BY <1>0, <2>1, <2>2, ConsumeOf DEF AppConsume, appVars
  <2> SUFFICES ASSUME NEW i \in 1..Len(recvq), ~recvq[i].called, buf'.size # 0
               PROVE  recvq[i].need > buf'.size
    BY <2>3 DEF NoStarvedWait
  <2>4. buf.size # 0
    BY <1>0, <2>2, <2>3
  <2>5. recvq[i].need > buf.size
    BY <2>3, <2>4 DEF NoStarvedWait
  <2>6. recvq[i] \in RecvEntry
    BY <1>0
  <2>7. recvq[i].need \in Nat
    BY <2>6, SessionConstants DEF RecvEntry
  <2> QED
    BY <1>0, <2>2, <2>3, <2>5, <2>7
<1>5. CASE \E need \in Needs, timed \in BOOLEAN, r \in Runners : AppWait(need, timed, r)
  <2>1. PICK need \in Needs, timed \in BOOLEAN, r \in Runners : AppWait(need, timed, r)
    BY <1>5
  <2>2. /\ need \in 0..Cap /\ need \in Nat /\ r \in {"immediate", "center"}
        /\ turn \in Turns \cup {"none"}
    BY SessionConstants DEF Base, TypeOK
  <2>3. Register(need, timed, r, turn) /\ UNCHANGED <<buf, frame>>
    BY <2>1 DEF AppWait
  <2>4. /\ Len(recvq) \in Nat /\ \A i \in 1..Len(recvq) : recvq'[i] = recvq[i]
        /\ \/ /\ Len(recvq') = Len(recvq) + 1
              /\ buf.size = 0 \/ buf.size < need
              /\ recvq'[Len(recvq) + 1] =
                    [need |-> need, timed |-> timed, called |-> FALSE, runner |-> r]
           \/ recvq' = recvq
    BY <2>2, <2>3, RegisterOf
  <2>5. CASE recvq' = recvq
    BY <1>1, <2>3, <2>5
  <2>6. CASE recvq' # recvq
    <3>1. /\ Len(recvq') = Len(recvq) + 1
          /\ buf.size = 0 \/ buf.size < need
          /\ recvq'[Len(recvq) + 1].need = need
      BY <2>4, <2>6
    <3> SUFFICES ASSUME NEW i \in 1..Len(recvq'), ~recvq'[i].called, buf.size # 0
                 PROVE  recvq'[i].need > buf.size
      BY <2>3 DEF NoStarvedWait
    <3>2. CASE i = Len(recvq) + 1
      BY <1>0, <2>2, <3>1, <3>2
    <3>3. CASE i \in 1..Len(recvq)
      BY <2>3, <2>4, <3>3 DEF NoStarvedWait
    <3>4. i = Len(recvq) + 1 \/ i \in 1..Len(recvq)
      BY <2>4, <3>1
    <3> QED
      BY <3>2, <3>3, <3>4
  <2> QED
    BY <2>5, <2>6
<1>6. CASE Stack \/ StartTimers \/ StartTasks \/ RunTask \/ EndTasks \/ AppClose \/ Return
           \/ UNCHANGED vars \/ \E n \in SendLens, r \in Runners : AppSend(n, r)
  BY <1>1, <1>6 DEF Stack, PeerSends, PeerCloses, PeerAcks, StartTimers, StartTasks, RunTask,
                    EndTasks, AppClose, Return, AppSend, vars, appVars
<1>7. CASE Poll \/ OnEof \/ OnReadCloses \/ OnWrite \/ SendRest \/ SendAgain
           \/ SendFails \/ SendEnd \/ \E n \in 1..TxCap : SendPart(n)
  BY <1>1, <1>7 DEF Poll, OnEof, OnReadCloses, OnWrite, Dispatch, SendRest, SendAgain, SendFails,
                    SendEnd, SendPart, appVars
<1>8. CASE OnRead \/ RecvServe \/ RecvDrop
  BY <1>8 DEF OnRead, RecvServe, RecvDrop, appVars
<1> QED
  BY <1>2, <1>3, <1>4, <1>5, <1>6, <1>7, <1>8 DEF Next, Loop, Events, App

-----------------------------------------------------------------------------
\* The stream that the application sees

\* The distance of a position of the ring from the head
LEMMA RingOffset ==
    ASSUME NEW h \in 0..(Cap - 1), NEW j \in 0..(Cap - 1)
    PROVE  /\ (h + j) % Cap \in 0..(Cap - 1)
           /\ (((h + j) % Cap) + Cap - h) % Cap = j
<1>1. Cap \in Nat \ {0} /\ h \in Nat /\ j \in Nat
  BY SessionConstants
<1> DEFINE p == (h + j) % Cap
           a == p + Cap - h
           m == a % Cap
<1>2. p \in 0..(Cap - 1) /\ p = IF h + j < Cap THEN h + j ELSE h + j - Cap
  BY <1>1, Wrap, SMTT(30)
<1> HIDE DEF p
<1>3. a \in Nat /\ a < 2 * Cap /\ a = p + Cap - h
  BY <1>1, <1>2
<1> HIDE DEF a
<1>4. m = IF a < Cap THEN a ELSE a - Cap
  BY <1>3, Wrap
<1> HIDE DEF m
<1>5. m = j
  BY <1>1, <1>2, <1>3, <1>4
<1> QED
  BY <1>2, <1>5 DEF m, a, p

\* Moving the head by n moves what is j behind it to n + j.
LEMMA RingShift ==
    ASSUME NEW h \in 0..(Cap - 1), NEW n \in Nat, NEW j \in Nat, n + j < Cap
    PROVE  (((h + n) % Cap) + j) % Cap = (h + (n + j)) % Cap
<1>1. Cap \in Nat \ {0} /\ h \in Nat
  BY SessionConstants
<1> DEFINE p == (h + n) % Cap
           a == p + j
           b == h + (n + j)
           ma == a % Cap
           mb == b % Cap
<1>2. p \in 0..(Cap - 1) /\ p = IF h + n < Cap THEN h + n ELSE h + n - Cap
  BY <1>1, Wrap, SMTT(30)
<1> HIDE DEF p
<1>3. a \in Nat /\ a < 2 * Cap /\ a = p + j /\ b \in Nat /\ b < 2 * Cap /\ b = h + (n + j)
  BY <1>1, <1>2
<1> HIDE DEF a, b
<1>4. ma = IF a < Cap THEN a ELSE a - Cap
  BY <1>3, Wrap
<1>5. mb = IF b < Cap THEN b ELSE b - Cap
  BY <1>3, Wrap
<1> HIDE DEF ma, mb
<1>6. ma = mb
  BY <1>1, <1>2, <1>3, <1>4, <1>5
<1> QED
  BY <1>6 DEF ma, mb, a, b, p

\* A read into an empty buffer puts the peer's next bytes at its head.
LEMMA ReadStream ==
    ASSUME Base, StreamInv, OnRead
    PROVE  StreamInv'
<1> SUFFICES ASSUME ~overrun' PROVE StreamInv'
  BY DEF StreamInv
<1>1. buf \in Ring /\ got \in Seq(Nat) /\ peerRead \in Nat
  BY DEF Base, TypeOK, Ring
<1>2. buf.size \in Nat /\ buf.head \in 0..(Cap - 1) /\ Cap \in Nat \ {0} /\ Len(got) \in Nat
  BY <1>1, SessionConstants DEF Ring
<1>3. ~overrun /\ buf.size = 0 /\ UNCHANGED got
  <2>1. overrun' = (overrun \/ buf.size > 0) /\ UNCHANGED got
    BY DEF OnRead, Dispatch
  <2>2. ~overrun /\ ~(buf.size > 0)
    BY <2>1
  <2> QED
    BY <1>2, <2>1, <2>2
<1>4. /\ peerRead = Len(got) /\ \A i \in 1..Len(got) : got[i] = i
  BY <1>1, <1>2, <1>3 DEF StreamInv
<1>5. PICK len \in 0..Cap :
        /\ buf'.size = buf.size + len /\ buf'.head = buf.head
        /\ buf'.mem = Fill(buf, peerRead + 1, len).mem
        /\ peerRead' = peerRead + len
  BY OnReadOf
<1>6. len \in Nat /\ buf'.size = len /\ peerRead + 1 \in Nat
  BY <1>1, <1>2, <1>3, <1>5
<1>7. ASSUME NEW j \in 0..(len - 1)
      PROVE  buf'.mem[(buf.head + j) % Cap] = Len(got) + j + 1
  <2>1. j \in 0..(Cap - 1) /\ j \in Nat
    BY <1>2, <1>5, <1>6
  <2> DEFINE i == (buf.head + j) % Cap
  <2>2. i \in 0..(Cap - 1) /\ (i + Cap - buf.head) % Cap = j
    BY <1>2, <2>1, RingOffset
  <2> HIDE DEF i
  <2>3. \A a \in 0..(Cap - 1), d \in 0..(len - 1) :
            (a + Cap - buf.head) % Cap = d => Fill(buf, peerRead + 1, len).mem[a] = (peerRead + 1) + d
    BY <1>1, <1>6, FillOf
  <2>4. buf'.mem[i] = peerRead + 1 + j
    BY <1>5, <2>2, <2>3
  <2>5. buf'.mem[i] = Len(got) + j + 1
    BY <1>2, <1>4, <2>1, <2>4
  <2> QED
    BY <2>5 DEF i
<1>8. \A j \in 0..(buf'.size - 1) : buf'.mem[(buf'.head + j) % Cap] = Len(got') + j + 1
  BY <1>3, <1>5, <1>6, <1>7
<1>9. peerRead' = Len(got') + buf'.size /\ \A i \in 1..Len(got') : got'[i] = i
  BY <1>3, <1>4, <1>5, <1>6
<1> QED
  BY <1>8, <1>9 DEF StreamInv

\* Consuming moves bytes from the buffer to the application.
LEMMA ConsumeStream ==
    ASSUME Base, StreamInv, NEW n \in 0..buf.size,
           got' = got \o Peek(buf, n), buf' = Consume(buf, n), UNCHANGED <<overrun, peerRead>>
    PROVE  StreamInv'
<1> SUFFICES ASSUME ~overrun PROVE StreamInv'
  BY DEF StreamInv
<1>1. buf \in Ring /\ got \in Seq(Nat) /\ peerRead \in Nat
  BY DEF Base, TypeOK, Ring
<1>2. /\ buf.size \in 0..Cap /\ buf.head \in 0..(Cap - 1) /\ Cap \in Nat \ {0} /\ Len(got) \in Nat
      /\ n \in Nat /\ n <= buf.size
  BY <1>1, SessionConstants DEF Ring
<1>3. /\ peerRead = Len(got) + buf.size /\ \A i \in 1..Len(got) : got[i] = i
      /\ \A j \in 0..(buf.size - 1) : buf.mem[(buf.head + j) % Cap] = Len(got) + j + 1
  BY DEF StreamInv
<1> DEFINE c == Peek(buf, n)
<1>4. c \in Seq(Nat) /\ Len(c) = n /\ \A i \in 1..n : c[i] = buf.mem[(buf.head + i - 1) % Cap]
  BY <1>1, PeekOf
<1>5. \A i \in 1..n : c[i] = Len(got) + i
  <2> SUFFICES ASSUME NEW i \in 1..n PROVE c[i] = Len(got) + i
    OBVIOUS
  <2>1. i - 1 \in 0..(buf.size - 1) /\ buf.head + i - 1 = buf.head + (i - 1)
    BY <1>2
  <2>2. buf.mem[(buf.head + (i - 1)) % Cap] = Len(got) + (i - 1) + 1
    BY <1>3, <2>1
  <2>3. c[i] = buf.mem[(buf.head + (i - 1)) % Cap]
    BY <1>4, <2>1
  <2> QED
    BY <1>2, <2>2, <2>3
<1> HIDE DEF c
<1>6. /\ Len(got') = Len(got) + n /\ \A i \in 1..Len(got) : got'[i] = got[i]
      /\ \A i \in 1..n : got'[Len(got) + i] = c[i]
  <2>1. got' = got \o c
    BY DEF c
  <2>2. /\ Len(got \o c) = Len(got) + Len(c) /\ \A i \in 1..Len(got) : (got \o c)[i] = got[i]
        /\ \A i \in 1..Len(c) : (got \o c)[Len(got) + i] = c[i]
    <3>1. got \in Seq(Nat) /\ c \in Seq(Nat)
      BY <1>1, <1>4
    <3> QED
      BY <3>1, ConcatOf
  <2>3. Len(c) = n
    BY <1>4
  <2> QED
    BY <2>1, <2>2, <2>3
<1>7. \A i \in 1..Len(got') : got'[i] = i
  <2> SUFFICES ASSUME NEW i \in 1..Len(got') PROVE got'[i] = i
    OBVIOUS
  <2>1. CASE i \in 1..Len(got)
    BY <1>3, <1>6, <2>1
  <2>2. CASE i \notin 1..Len(got)
    <3>1. i - Len(got) \in 1..n /\ Len(got) + (i - Len(got)) = i
      BY <1>2, <1>6, <2>2
    <3> QED
      BY <1>5, <1>6, <3>1
  <2> QED
    BY <2>1, <2>2
<1>8. buf'.size = buf.size - n /\ buf'.mem = buf.mem /\ buf'.head = (buf.head + n) % Cap
  BY <1>1, ConsumeOf
<1>9. ASSUME NEW j \in 0..(buf'.size - 1)
      PROVE  buf'.mem[(buf'.head + j) % Cap] = Len(got') + j + 1
  <2>1. j \in Nat /\ n + j < Cap /\ n + j \in 0..(buf.size - 1)
    BY <1>2, <1>8
  <2>2. (((buf.head + n) % Cap) + j) % Cap = (buf.head + (n + j)) % Cap
    BY <1>2, <2>1, RingShift
  <2>3. buf.mem[(buf.head + (n + j)) % Cap] = Len(got) + (n + j) + 1
    BY <1>3, <2>1
  <2>4. buf'.mem[(buf'.head + j) % Cap] = Len(got) + (n + j) + 1
    BY <1>8, <2>2, <2>3
  <2> QED
    BY <1>2, <1>6, <2>1, <2>4
<1>10. peerRead' = Len(got') + buf'.size
  BY <1>1, <1>2, <1>3, <1>6, <1>8
<1> QED
  BY <1>7, <1>9, <1>10 DEF StreamInv

\* The loop and the timers keep the stream.
LEMMA LoopStream ==
    ASSUME Base, StreamInv, Stack \/ Loop \/ (\E i \in 1..Len(recvq) : FireTimer(i))
    PROVE  StreamInv'
<1>1. CASE OnRead
  BY <1>1, ReadStream
<1>2. CASE UNCHANGED <<overrun, peerRead, got, buf>>
  BY <1>2 DEF StreamInv
<1>3. CASE Stack \/ StartTimers \/ StartTasks \/ RunTask \/ EndTasks
           \/ \E i \in 1..Len(recvq) : FireTimer(i)
  BY <1>2, <1>3 DEF Stack, PeerSends, PeerCloses, PeerAcks, StartTimers, StartTasks, RunTask,
                    EndTasks, FireTimer, sockVars, recvVars
<1>4. CASE Poll \/ OnEof \/ OnReadCloses \/ OnWrite \/ RecvServe \/ RecvDrop \/ RecvEnd
  BY <1>2, <1>4 DEF Poll, OnEof, OnReadCloses, OnWrite, Dispatch, RecvServe, RecvDrop, RecvEnd,
                    sockVars, recvVars
<1>5. CASE SendRest \/ SendAgain \/ SendFails \/ SendEnd \/ \E n \in 1..TxCap : SendPart(n)
  BY <1>2, <1>5 DEF SendRest, SendAgain, SendFails, SendEnd, SendPart, sockVars, recvVars
<1> QED
  BY <1>1, <1>3, <1>4, <1>5 DEF Loop, Events

\* Every step keeps the stream of the consumed and the buffered bytes.
LEMMA StepStream == Base /\ StreamInv /\ [Next]_vars => StreamInv'
<1> SUFFICES ASSUME Base, StreamInv, [Next]_vars PROVE StreamInv'
  OBVIOUS
<1>1. CASE Stack \/ Loop \/ \E i \in 1..Len(recvq) : FireTimer(i)
  BY <1>1, LoopStream
<1>2. CASE \E n \in 1..Cap : AppConsume(n)
  <2>1. PICK n \in 1..Cap : AppConsume(n)
    BY <1>2
  <2>2. n \in 0..buf.size
    BY <2>1, SessionConstants DEF AppConsume, Base, TypeOK
  <2>3. /\ got' = got \o Peek(buf, n) /\ buf' = Consume(buf, n) /\ UNCHANGED <<overrun, peerRead>>
    BY <2>1 DEF AppConsume, sockVars
  <2> QED
    BY <2>2, <2>3, ConsumeStream
<1>3. CASE \/ \E need \in Needs, timed \in BOOLEAN, r \in Runners : AppWait(need, timed, r)
           \/ \E n \in SendLens, r \in Runners : AppSend(n, r)
           \/ AppClose \/ Return \/ UNCHANGED vars
  <2>1. UNCHANGED <<overrun, peerRead, got, buf>>
    BY <1>3 DEF AppWait, AppSend, AppClose, Return, vars, sockVars, recvVars
  <2> QED
    BY <2>1 DEF StreamInv
<1> QED
  BY <1>1, <1>2, <1>3 DEF Next, App

-----------------------------------------------------------------------------
\* The bytes on the wire

\* What Packets says of the k-th packet
Packet(q, k, m) ==
    /\ Len(q[k].data) > 0 /\ q[k].data[1] > 0
    /\ \A i \in 1..Len(q[k].data) : q[k].data[i] = q[k].data[1] + i - 1
    /\ k > 1 => q[k].cur = 0
    /\ k < Len(q) => q[k + 1].data[1] = q[k].data[1] + Len(q[k].data)
    /\ k = Len(q) => q[k].data[1] + Len(q[k].data) = m + 1

\* Packets, one packet at a time
LEMMA PacketsAre ==
    ASSUME NEW q, NEW m
    PROVE  Packets(q, m) <=> \A k \in 1..Len(q) : Packet(q, k, m)
  BY DEF Packets, Packet

\* Everything up to the front of a list of packets has been dealt with.
LEMMA FrontIs ==
    ASSUME NEW q \in Seq(SendEntry), NEW m \in Nat, Packets(q, m), q # << >>
    PROVE  /\ q[1] \in SendEntry /\ q[1].data \in Seq(Nat) /\ q[1].cur \in Nat
           /\ q[1].data[1] \in Nat \ {0} /\ Len(q[1].data) \in Nat \ {0}
           /\ FrontOf(q, m) = q[1].data[1] - 1 + q[1].cur /\ FrontOf(q, m) \in Nat
           /\ \A i \in 1..Len(q[1].data) : q[1].data[i] = q[1].data[1] + i - 1
<1>1. q[1] \in SendEntry /\ 1 \in 1..Len(q)
  BY TailOf
<1>2. q[1].data \in Seq(Nat) /\ q[1].cur \in Nat
  BY <1>1 DEF SendEntry
<1>3. /\ Len(q[1].data) > 0 /\ q[1].data[1] > 0
      /\ \A i \in 1..Len(q[1].data) : q[1].data[i] = q[1].data[1] + i - 1
  BY <1>1 DEF Packets
<1>4. Len(q[1].data) \in Nat \ {0}
  BY <1>2, <1>3
<1>5. q[1].data[1] \in Nat \ {0}
  BY <1>2, <1>3, <1>4
<1>6. FrontOf(q, m) = q[1].data[1] - 1 + q[1].cur
  BY DEF FrontOf
<1> QED
  BY <1>1, <1>2, <1>3, <1>4, <1>5, <1>6, SMTT(30)

\* Without its first packet, the front is the end of that packet.
LEMMA PacketsTail ==
    ASSUME NEW q \in Seq(SendEntry), NEW m \in Nat, Packets(q, m), q # << >>
    PROVE  /\ Packets(Tail(q), m)
           /\ FrontOf(Tail(q), m) = q[1].data[1] - 1 + Len(q[1].data)
<1> DEFINE r == Tail(q)
<1>1. /\ r \in Seq(SendEntry) /\ Len(r) = Len(q) - 1 /\ Len(q) \in Nat \ {0}
      /\ \A i \in 1..Len(r) : r[i] = q[i + 1]
  BY TailOf
<1>2. \A k \in 1..Len(q) : Packet(q, k, m)
  BY PacketsAre
<1>3. q[1].data[1] \in Nat \ {0} /\ Len(q[1].data) \in Nat \ {0}
  BY FrontIs
<1> HIDE DEF r
<1>4. ASSUME NEW k \in 1..Len(r)
      PROVE  Packet(r, k, m) /\ r[k].cur = 0
  <2>1. k + 1 \in 1..Len(q) /\ r[k] = q[k + 1] /\ k + 1 > 1
    BY <1>1
  <2>2. Packet(q, k + 1, m)
    BY <1>2, <2>1
  <2>3. k < Len(r) => r[k + 1] = q[(k + 1) + 1] /\ k + 1 < Len(q)
    BY <1>1
  <2>4. k = Len(r) => k + 1 = Len(q)
    BY <1>1
  <2> QED
    BY <2>1, <2>2, <2>3, <2>4 DEF Packet
<1>5. Packets(r, m)
  BY <1>4, PacketsAre
<1>6. FrontOf(r, m) = q[1].data[1] - 1 + Len(q[1].data)
  <2>1. CASE r = << >>
    <3>1. Len(q) = 1
      BY <1>1, <2>1
    <3>2. q[1].data[1] + Len(q[1].data) = m + 1
      BY <1>2, <3>1 DEF Packet
    <3>3. FrontOf(r, m) = m
      BY <2>1 DEF FrontOf
    <3> DEFINE x == q[1].data[1]
               y == Len(q[1].data)
    <3>4. x \in Nat /\ y \in Nat /\ x + y = m + 1
      BY <1>3, <3>2
    <3> HIDE DEF x, y
    <3>5. m = x - 1 + y
      BY <3>4
    <3> QED
      BY <3>3, <3>5 DEF x, y
  <2>2. CASE r # << >>
    <3>1. 1 \in 1..Len(r) /\ 1 < Len(q) /\ 1 \in 1..Len(q) /\ 1 + 1 = 2
      BY <1>1, <2>2
    <3>2. r[1].cur = 0 /\ r[1] = q[2]
      BY <1>1, <1>4, <3>1
    <3>3. q[2].data[1] = q[1].data[1] + Len(q[1].data)
      BY <1>2, <3>1 DEF Packet
    <3>4. FrontOf(r, m) = r[1].data[1] - 1 + r[1].cur
      BY <2>2 DEF FrontOf
    <3> QED
      BY <1>3, <3>2, <3>3, <3>4
  <2> QED
    BY <2>1, <2>2
<1> QED
  BY <1>5, <1>6 DEF r

\* Sending up to n of the first packet moves the front there.
LEMMA PacketsSent ==
    ASSUME NEW q \in Seq(SendEntry), NEW r \in Seq(SendEntry), NEW m \in Nat, Packets(q, m),
           q # << >>, NEW n \in Nat, Len(r) = Len(q), r[1].data = q[1].data, r[1].cur = n,
           \A i \in 2..Len(q) : r[i] = q[i]
    PROVE  Packets(r, m) /\ FrontOf(r, m) = q[1].data[1] - 1 + n
<1>1. q[1] \in SendEntry /\ Len(q) \in Nat \ {0}
  BY TailOf
<1>3. \A k \in 1..Len(q) : r[k].data = q[k].data /\ (k > 1 => r[k].cur = q[k].cur)
  <2> SUFFICES ASSUME NEW k \in 1..Len(q)
               PROVE  r[k].data = q[k].data /\ (k > 1 => r[k].cur = q[k].cur)
    OBVIOUS
  <2>1. CASE k = 1
    BY <2>1
  <2>2. CASE k # 1
    <3>1. k \in 2..Len(q)
      BY <1>1, <2>2
    <3>2. r[k] = q[k]
      BY <3>1
    <3> QED
      BY <3>2
  <2> QED
    BY <2>1, <2>2
<1>4. ASSUME NEW k \in 1..Len(q)
      PROVE  Packet(r, k, m)
  <2>1. Packet(q, k, m)
    BY PacketsAre
  <2>2. k < Len(q) => k + 1 \in 1..Len(q)
    BY <1>1
  <2> QED
    BY <1>3, <2>1, <2>2 DEF Packet
<1>5. r # << >>
  BY <1>1
<1> QED
  BY <1>4, <1>5, PacketsAre DEF FrontOf

\* A new packet goes to the end and leaves the front where it is.
LEMMA PacketsMore ==
    ASSUME NEW q \in Seq(SendEntry), NEW r \in Seq(SendEntry), NEW m \in Nat, Packets(q, m),
           NEW n \in Nat \ {0}, Len(r) = Len(q) + 1, \A i \in 1..Len(q) : r[i] = q[i],
           Len(r[Len(q) + 1].data) = n, r[Len(q) + 1].cur = 0,
           \A i \in 1..n : r[Len(q) + 1].data[i] = m + i
    PROVE  Packets(r, m + n) /\ FrontOf(r, m + n) = FrontOf(q, m)
<1>1. Len(q) \in Nat
  OBVIOUS
<1> DEFINE l == Len(q) + 1
<1>2. 1 \in 1..n /\ r[l].data[1] = m + 1
  OBVIOUS
<1>3. Packet(r, l, m + n)
  BY <1>1, <1>2 DEF Packet
<1>4. ASSUME NEW k \in 1..Len(q)
      PROVE  Packet(r, k, m + n)
  <2>1. Packet(q, k, m) /\ r[k] = q[k]
    BY PacketsAre
  <2>2. CASE k < Len(q)
    <3>1. k + 1 \in 1..Len(q) /\ r[k + 1] = q[k + 1] /\ k # Len(r) /\ k < Len(r)
      BY <1>1, <2>2
    <3> QED
      BY <2>1, <2>2, <3>1 DEF Packet
  <2>3. CASE k = Len(q)
    <3>1. k + 1 = l /\ k # Len(r)
      BY <1>1, <2>3
    <3>2. q[k].data[1] + Len(q[k].data) = m + 1
      BY <2>1, <2>3 DEF Packet
    <3> QED
      BY <1>2, <2>1, <3>1, <3>2 DEF Packet
  <2> QED
    BY <1>1, <2>2, <2>3
<1>5. \A k \in 1..Len(r) : Packet(r, k, m + n)
  <2> SUFFICES ASSUME NEW k \in 1..Len(r) PROVE Packet(r, k, m + n)
    OBVIOUS
  <2>1. k = l \/ k \in 1..Len(q)
    BY <1>1
  <2> QED
    BY <1>3, <1>4, <2>1
<1>6. Packets(r, m + n)
  BY <1>5, PacketsAre
<1>7. FrontOf(r, m + n) = FrontOf(q, m)
  <2>1. r # << >>
    BY <1>1
  <2>2. CASE q = << >>
    BY <1>2, <2>1, <2>2 DEF FrontOf
  <2>3. CASE q # << >>
    <3>1. 1 \in 1..Len(q)
      BY <2>3, TailOf
    <3>2. r[1] = q[1]
      BY <3>1
    <3> QED
      BY <2>1, <2>3, <3>2 DEF FrontOf
  <2> QED
    BY <2>2, <2>3
<1> QED
  BY <1>6, <1>7

\* The next n bytes after f go to the wire.
LEMMA WireGrows ==
    ASSUME NEW f \in Nat, NEW n \in Nat, NEW s \in Seq(Nat), wire \in Seq(Nat), WireUpTo(f),
           Len(s) = n, \A i \in 1..n : s[i] = f + i, wire' = wire \o s, lost' = lost
    PROVE  WireUpTo(f + n)'
<1>1. /\ Len(wire') = Len(wire) + n /\ Len(wire) \in Nat /\ wire' \in Seq(Nat)
      /\ \A i \in 1..Len(wire) : wire'[i] = wire[i] /\ wire[i] \in 1..f
      /\ \A i \in 1..n : wire'[Len(wire) + i] = f + i
  <2>1. /\ Len(wire') = Len(wire) + n /\ Len(wire) \in Nat /\ wire' \in Seq(Nat)
        /\ \A i \in 1..Len(wire) : wire'[i] = wire[i]
        /\ \A i \in 1..n : wire'[Len(wire) + i] = s[i]
    <3>1. wire' \in Seq(Nat) /\ Len(wire') = Len(wire) + Len(s) /\ Len(wire) \in Nat
      BY ConcatOf
    <3>2. \A i \in 1..Len(wire) : wire'[i] = wire[i]
      BY ConcatOf
    <3>3. \A i \in 1..Len(s) : wire'[Len(wire) + i] = s[i]
      BY ConcatOf
    <3> QED
      BY <3>1, <3>2, <3>3
  <2> QED
    BY <2>1 DEF WireUpTo
<1>2. ASSUME NEW i \in 1..Len(wire')
      PROVE  \/ i \in 1..Len(wire) /\ wire'[i] = wire[i] /\ wire[i] \in 1..f
             \/ \E j \in 1..n : i = Len(wire) + j /\ wire'[i] = f + j
  <2>1. i \in 1..Len(wire) \/ i - Len(wire) \in 1..n
    BY <1>1
  <2>2. i = Len(wire) + (i - Len(wire))
    BY <1>1
  <2> QED
    BY <1>1, <2>1, <2>2
<1>3. ASSUME NEW i \in 1..Len(wire')
      PROVE  wire'[i] \in 1..(f + n)
  <2>1. CASE i \in 1..Len(wire) /\ wire'[i] = wire[i] /\ wire[i] \in 1..f
    BY <2>1
  <2>2. CASE \E j \in 1..n : i = Len(wire) + j /\ wire'[i] = f + j
    BY <2>2
  <2> QED
    BY <1>2, <2>1, <2>2
<1>4. ASSUME NEW i \in 1..(Len(wire') - 1)
      PROVE  wire'[i] < wire'[i + 1]
  <2>1. i \in 1..Len(wire') /\ i + 1 \in 1..Len(wire')
    BY <1>1
  <2>2. CASE i + 1 \in 1..Len(wire)
    <3>1. i \in 1..(Len(wire) - 1) /\ i \in 1..Len(wire)
      BY <1>1, <2>2
    <3> QED
      BY <1>1, <2>2, <3>1 DEF WireUpTo
  <2>3. CASE i + 1 \notin 1..Len(wire)
    <3>1. PICK j \in 1..n : i + 1 = Len(wire) + j /\ wire'[i + 1] = f + j
      BY <1>2, <2>1, <2>3
    <3>2. CASE i \in 1..Len(wire)
      BY <1>1, <3>1, <3>2
    <3>3. CASE i \notin 1..Len(wire)
      <4>1. PICK k \in 1..n : i = Len(wire) + k /\ wire'[i] = f + k
        BY <1>2, <2>1, <3>3
      <4>2. k < j
        BY <1>1, <3>1, <4>1
      <4> QED
        BY <3>1, <4>1, <4>2
    <3> QED
      BY <3>2, <3>3
  <2> QED
    BY <2>2, <2>3
<1>5. ASSUME NEW b \in 1..(f + n)
      PROVE  b \in lost' \/ \E i \in 1..Len(wire') : wire'[i] = b
  <2>1. CASE b \in 1..f
    <3>1. b \in lost \/ \E i \in 1..Len(wire) : wire[i] = b
      BY <2>1 DEF WireUpTo
    <3>2. \A i \in 1..Len(wire) : i \in 1..Len(wire')
      BY <1>1
    <3> QED
      BY <1>1, <3>1, <3>2
  <2>2. CASE b \notin 1..f
    <3>1. b - f \in 1..n /\ f + (b - f) = b /\ Len(wire) + (b - f) \in 1..Len(wire')
      BY <1>1, <2>2
    <3> QED
      BY <1>1, <3>1
  <2> QED
    BY <2>1, <2>2
<1> QED
  BY <1>3, <1>4, <1>5 DEF WireUpTo

\* The next n bytes after f are reported as failed.
LEMMA WireSkips ==
    ASSUME NEW f \in Nat, NEW n \in Nat, wire \in Seq(Nat), WireUpTo(f), wire' = wire,
           lost \subseteq lost', (f + 1)..(f + n) \subseteq lost'
    PROVE  WireUpTo(f + n)'
<1>1. \A i \in 1..Len(wire') : wire'[i] \in 1..(f + n)
  BY DEF WireUpTo
<1>2. \A i \in 1..(Len(wire') - 1) : wire'[i] < wire'[i + 1]
  BY DEF WireUpTo
<1>3. ASSUME NEW b \in 1..(f + n)
      PROVE  b \in lost' \/ \E i \in 1..Len(wire') : wire'[i] = b
  <2>1. b \in 1..f \/ b \in (f + 1)..(f + n)
    OBVIOUS
  <2> QED
    BY <2>1 DEF WireUpTo
<1> QED
  BY <1>1, <1>2, <1>3 DEF WireUpTo

\* What is left when the packet under way is sent up to n
LEMMA SentTo ==
    ASSUME Base, WireInv, sendq # << >>, NEW n \in 0..Len(sendq[1].data)
    PROVE  /\ Packets([sendq EXCEPT ![1].cur = n], Len(submitted))
           /\ FrontOf([sendq EXCEPT ![1].cur = n], Len(submitted)) = sendq[1].data[1] - 1 + n
           /\ [sendq EXCEPT ![1].cur = n][1].cur = n
           /\ [sendq EXCEPT ![1].cur = n][1].data = sendq[1].data
<1> DEFINE r == [sendq EXCEPT ![1].cur = n]
<1>1. sendq \in Seq(SendEntry) /\ Len(submitted) \in Nat /\ Packets(sendq, Len(submitted))
  BY DEF Base, TypeOK, SendEntry, WireInv
<1>2. sendq[1] \in SendEntry /\ n \in Nat
  BY SendHead
<1>3. /\ r \in Seq(SendEntry) /\ Len(r) = Len(sendq)
      /\ r[1] = [sendq[1] EXCEPT !.cur = n] /\ \A i \in 2..Len(sendq) : r[i] = sendq[i]
  BY SendHead
<1> HIDE DEF r
<1>4. r[1].data = sendq[1].data /\ r[1].cur = n
  BY <1>2, <1>3 DEF SendEntry
<1>5. r \in Seq(SendEntry) /\ Len(r) = Len(sendq) /\ \A i \in 2..Len(sendq) : r[i] = sendq[i]
  BY <1>3
<1>6. Packets(r, Len(submitted)) /\ FrontOf(r, Len(submitted)) = sendq[1].data[1] - 1 + n
  BY <1>1, <1>2, <1>4, <1>5, PacketsSent
<1> QED
  BY <1>4, <1>6 DEF r

\* Dealing with the rest of the first packet moves the front to its end, whichever
\* runner its handler has.
LEMMA SendDone ==
    ASSUME Base, WireInv, sendq # << >>, turn = "none", NEW k \in {"sent", "failed"},
           Call(k, 0, Head(sendq).runner),
           sendq' = IF Head(sendq).runner = "center" THEN Tail(sendq)
                    ELSE [sendq EXCEPT ![1].cur = Len(Head(sendq).data)],
           submitted' = submitted
    PROVE  /\ Packets(sendq', Len(submitted'))
           /\ FrontOf(sendq', Len(submitted')) = sendq[1].data[1] - 1 + Len(sendq[1].data)
           /\ turn' # "none" => sendq'[1].cur = Len(sendq'[1].data)
<1>1. sendq \in Seq(SendEntry) /\ Len(submitted) \in Nat /\ Packets(sendq, Len(submitted))
  BY DEF Base, TypeOK, SendEntry, WireInv
<1>2. Head(sendq) = sendq[1] /\ Len(sendq[1].data) \in Nat /\ sendq[1] \in SendEntry
  BY SendHead
<1>3. CASE sendq[1].runner = "center"
  <2>1. sendq' = Tail(sendq) /\ turn' = "none"
    BY <1>2, <1>3 DEF Call
  <2> QED
    BY <1>1, <2>1, PacketsTail
<1>4. CASE sendq[1].runner # "center"
  <2> DEFINE n == Len(sendq[1].data)
  <2>1. n \in 0..Len(sendq[1].data)
    BY <1>2
  <2>2. sendq' = [sendq EXCEPT ![1].cur = n]
    BY <1>2, <1>4
  <2> HIDE DEF n
  <2>3. /\ Packets(sendq', Len(submitted)) /\ FrontOf(sendq', Len(submitted)) = sendq[1].data[1] - 1 + n
        /\ sendq'[1].cur = n /\ sendq'[1].data = sendq[1].data
    BY <2>1, <2>2, SentTo
  <2> QED
    BY <2>3 DEF n
<1> QED
  BY <1>3, <1>4

\* The first packet, and the bytes of it that are left
LEMMA SendLeft ==
    ASSUME Base, WireInv, sendq # << >>, NEW n \in Nat, sendq[1].cur + n <= Len(sendq[1].data)
    PROVE  /\ FrontOf(sendq, Len(submitted)) \in Nat
           /\ FrontOf(sendq, Len(submitted)) + n = sendq[1].data[1] - 1 + (sendq[1].cur + n)
           /\ \A i \in 1..n : sendq[1].data[sendq[1].cur + i] = FrontOf(sendq, Len(submitted)) + i
           /\ SubSeq(sendq[1].data, sendq[1].cur + 1, sendq[1].cur + n) \in Seq(Nat)
           /\ Len(SubSeq(sendq[1].data, sendq[1].cur + 1, sendq[1].cur + n)) = n
           /\ \A i \in 1..n :
                SubSeq(sendq[1].data, sendq[1].cur + 1, sendq[1].cur + n)[i] =
                    FrontOf(sendq, Len(submitted)) + i
<1> DEFINE d == sendq[1].data
           c == sendq[1].cur
           f == FrontOf(sendq, Len(submitted))
<1>1. sendq \in Seq(SendEntry) /\ Len(submitted) \in Nat /\ Packets(sendq, Len(submitted))
  BY DEF Base, TypeOK, SendEntry, WireInv
<1>2. /\ d \in Seq(Nat) /\ c \in Nat /\ d[1] \in Nat \ {0} /\ Len(d) \in Nat \ {0}
      /\ f = d[1] - 1 + c /\ f \in Nat /\ \A i \in 1..Len(d) : d[i] = d[1] + i - 1
  BY <1>1, FrontIs
<1> SUFFICES /\ f \in Nat /\ f + n = d[1] - 1 + (c + n)
             /\ \A i \in 1..n : d[c + i] = f + i
             /\ SubSeq(d, c + 1, c + n) \in Seq(Nat) /\ Len(SubSeq(d, c + 1, c + n)) = n
             /\ \A i \in 1..n : SubSeq(d, c + 1, c + n)[i] = f + i
  OBVIOUS
<1>3. c + n <= Len(d)
  OBVIOUS
<1> HIDE DEF d, c, f
<1>4. f + n = d[1] - 1 + (c + n)
  BY <1>2
<1>5. \A i \in 1..n : d[c + i] = f + i
  <2> SUFFICES ASSUME NEW i \in 1..n PROVE d[c + i] = f + i
    OBVIOUS
  <2>1. c + i \in 1..Len(d)
    BY <1>2, <1>3
  <2>2. d[c + i] = d[1] + (c + i) - 1
    BY <1>2, <2>1
  <2> QED
    BY <1>2, <2>2, SMTT(30)
<1> DEFINE k == c + n
<1>6. k \in 0..Len(d) /\ c <= k /\ k - c = n
  BY <1>2, <1>3
<1> HIDE DEF k
<1>7. /\ SubSeq(d, c + 1, k) \in Seq(Nat) /\ Len(SubSeq(d, c + 1, k)) = k - c
      /\ \A i \in 1..(k - c) : SubSeq(d, c + 1, k)[i] = d[c + i]
  BY <1>2, <1>6, SMTT(30)
<1>8. /\ SubSeq(d, c + 1, k) \in Seq(Nat) /\ Len(SubSeq(d, c + 1, k)) = n
      /\ \A i \in 1..n : SubSeq(d, c + 1, k)[i] = f + i
  BY <1>5, <1>6, <1>7
<1> QED
  BY <1>2, <1>4, <1>5, <1>8 DEF k

\* A partial write keeps the wire in order.
LEMMA PartWire ==
    ASSUME Base, WireInv, NEW n \in 1..TxCap, SendPart(n)
    PROVE  WireInv'
<1>1. sendq # << >> /\ sendq \in Seq(SendEntry) /\ Head(sendq) = sendq[1] /\ sendq[1] \in SendEntry
      /\ sendq[1].cur \in 0..Len(sendq[1].data) /\ sendq[1].data \in Seq(Nat)
  BY SendHead DEF SendPart
<1> DEFINE c == sendq[1].cur
           l == Len(sendq[1].data)
           s == SubSeq(sendq[1].data, c + 1, c + n)
           f == FrontOf(sendq, Len(submitted))
<1>2. n \in Nat /\ c + n <= l /\ c + n \in 0..l /\ c + n \in Nat
  <2>1. n < l - c
    BY <1>1 DEF SendPart, Unsent
  <2>2. n \in Nat /\ l \in Nat /\ c \in 0..l
    BY <1>1, SessionConstants
  <2> HIDE DEF c, l
  <2> QED
    BY <2>1, <2>2
<1>3. sendq' = [sendq EXCEPT ![1].cur = c + n] /\ wire' = wire \o s /\ UNCHANGED <<submitted, lost>>
      /\ frame' = "none"
  BY <1>1 DEF SendPart, Update
<1>6. /\ f \in Nat /\ f + n = sendq[1].data[1] - 1 + (c + n)
      /\ s \in Seq(Nat) /\ Len(s) = n /\ \A i \in 1..n : s[i] = f + i
  BY <1>1, <1>2, SendLeft
<1> HIDE DEF c, l, s, f
<1>7. wire \in Seq(Nat) /\ WireUpTo(f) /\ Packets(sendq, Len(submitted)) /\ Len(submitted) \in Nat
  BY DEF Base, TypeOK, WireInv, f
<1>8. Packets(sendq', Len(submitted)) /\ FrontOf(sendq', Len(submitted)) = f + n
  <2>1. c + n \in 0..Len(sendq[1].data)
    BY <1>2 DEF l
  <2>2. /\ Packets(sendq', Len(submitted))
        /\ FrontOf(sendq', Len(submitted)) = sendq[1].data[1] - 1 + (c + n)
    BY <1>1, <1>3, <2>1, SentTo
  <2> QED
    BY <1>6, <2>2
<1>9. PICK g \in Nat : g = f
  BY <1>6
<1>10. WireUpTo(g + n)'
  BY <1>2, <1>3, <1>6, <1>7, <1>9, WireGrows
<1>11. WireUpTo(FrontOf(sendq, Len(submitted)))'
  BY <1>3, <1>8, <1>9, <1>10 DEF WireUpTo
<1> QED
  BY <1>3, <1>8, <1>11 DEF WireInv

\* So does the write of the rest of a packet, or its failure.
LEMMA RestWire ==
    ASSUME Base, WireInv, SendRest \/ SendFails
    PROVE  WireInv'
<1>1. sendq # << >> /\ sendq \in Seq(SendEntry) /\ Head(sendq) = sendq[1]
      /\ sendq[1].cur \in 0..Len(sendq[1].data) /\ sendq[1].data \in Seq(Nat)
  BY SendHead DEF SendRest, SendFails
<1> DEFINE d == sendq[1].data
           c == sendq[1].cur
           l == Len(d)
           n == l - c
           s == SubSeq(d, c + 1, c + n)
           f == FrontOf(sendq, Len(submitted))
<1>2. n \in Nat /\ c + n = l /\ c \in Nat /\ l \in Nat
  <2>1. l \in Nat /\ c \in 0..l
    BY <1>1
  <2> HIDE DEF c, l
  <2> QED
    BY <2>1
<1>3. c + n <= l
  <2> HIDE DEF c, n, l
  <2> QED
    BY <1>2
<1>4. /\ f \in Nat /\ f + n = d[1] - 1 + (c + n)
      /\ \A i \in 1..n : d[c + i] = f + i
      /\ s \in Seq(Nat) /\ Len(s) = n /\ \A i \in 1..n : s[i] = f + i
  <2>1. n \in Nat /\ sendq[1].cur + n <= Len(sendq[1].data)
    BY <1>2, <1>3
  <2> HIDE DEF n
  <2> QED
    BY <1>1, <2>1, SendLeft
<1>5. /\ Packets(sendq', Len(submitted'))
      /\ FrontOf(sendq', Len(submitted')) = d[1] - 1 + l
      /\ turn' # "none" => sendq'[1].cur = Len(sendq'[1].data)
  BY SendDone DEF SendRest, SendFails
<1>6. FrontOf(sendq', Len(submitted')) = f + n
  BY <1>2, <1>4, <1>5
<1>7. wire \in Seq(Nat) /\ WireUpTo(f)
  BY DEF Base, TypeOK, WireInv
<1>8. PICK g \in Nat, k \in Nat : g = f /\ k = n
  BY <1>2, <1>4
<1>9. CASE SendRest
  <2>1. wire' = wire \o s /\ UNCHANGED lost
    BY <1>1, <1>2, <1>9 DEF SendRest
  <2> HIDE DEF d, c, l, n, s, f
  <2>2. WireUpTo(g + k)'
    BY <1>2, <1>4, <1>7, <1>8, <2>1, WireGrows
  <2>3. WireUpTo(FrontOf(sendq, Len(submitted)))'
    BY <1>6, <1>8, <2>2 DEF WireUpTo
  <2> QED
    BY <1>5, <2>3 DEF WireInv
<1>10. CASE SendFails
  <2>1. wire' = wire /\ lost' = lost \cup { d[i] : i \in (c + 1)..l }
    BY <1>1, <1>10 DEF SendFails
  <2> HIDE DEF d, c, l, n, s, f
  <2>2. (f + 1)..(f + n) \subseteq lost'
    <3> SUFFICES ASSUME NEW b \in (f + 1)..(f + n) PROVE b \in lost'
      OBVIOUS
    <3>1. b - f \in 1..n /\ f + (b - f) = b /\ c + (b - f) \in (c + 1)..l
      BY <1>2, <1>4
    <3>2. d[c + (b - f)] = b
      BY <1>4, <3>1
    <3> QED
      BY <2>1, <3>1, <3>2
  <2>3. WireUpTo(g + k)'
    BY <1>7, <1>8, <2>1, <2>2, WireSkips
  <2>4. WireUpTo(FrontOf(sendq, Len(submitted)))'
    BY <1>6, <1>8, <2>3 DEF WireUpTo
  <2> QED
    BY <1>5, <2>4 DEF WireInv
<1> QED
  BY <1>9, <1>10

\* So does a packet that is scheduled, from wherever.
LEMMA SubmitWire ==
    ASSUME Base, WireInv, NEW n \in SendLens, NEW r \in Runners, AppSend(n, r)
    PROVE  WireInv'
<1>1. n \in Nat \ {0} /\ r \in {"immediate", "center"} /\ Len(submitted) \in Nat
      /\ submitted \in Seq(Nat)
  BY SessionConstants DEF Base, TypeOK
<1> DEFINE d == [i \in 1..n |-> Len(submitted) + i]
<1>2. d \in Seq(Nat) /\ Len(d) = n /\ \A i \in 1..n : d[i] = Len(submitted) + i
  BY <1>1, NumbersOf
<1>3. Enqueue(d, r) /\ UNCHANGED <<wire, lost, frame, turn>> /\ turn # "none"
  BY DEF AppSend, appVars
<1> HIDE DEF d
<1>4. /\ sendq \in Seq(SendEntry) /\ sendq' \in Seq(SendEntry)
      /\ Len(sendq') = Len(sendq) + 1 /\ Len(sendq) \in Nat
      /\ sendq'[Len(sendq) + 1] = [data |-> d, cur |-> 0, runner |-> r]
      /\ \A i \in 1..Len(sendq) : sendq'[i] = sendq[i]
      /\ submitted' = submitted \o d
  BY <1>1, <1>2, <1>3, EnqueueOf
<1>5. sendq'[Len(sendq) + 1].data = d /\ sendq'[Len(sendq) + 1].cur = 0
  BY <1>4
<1>6. Len(submitted') = Len(submitted) + n
  BY <1>1, <1>2, <1>4, ConcatOf
<1>7. Packets(sendq, Len(submitted)) /\ WireUpTo(FrontOf(sendq, Len(submitted)))
  BY DEF WireInv
<1>8. /\ Packets(sendq', Len(submitted) + n)
      /\ FrontOf(sendq', Len(submitted) + n) = FrontOf(sendq, Len(submitted))
  BY <1>1, <1>2, <1>4, <1>5, <1>7, PacketsMore, ZenonT(30)
<1>9. WireUpTo(FrontOf(sendq, Len(submitted)))'
  BY <1>3, <1>6, <1>7, <1>8 DEF WireUpTo
<1>10. frame' = "send" /\ turn' # "none" => sendq'[1].cur = Len(sendq'[1].data)
  <2> SUFFICES ASSUME frame = "send" PROVE sendq'[1].cur = Len(sendq'[1].data)
    BY <1>3
  <2>1. sendq # << >> /\ sendq[1].cur = Len(sendq[1].data)
    BY <1>3 DEF WireInv, Base, Nesting
  <2>2. 1 \in 1..Len(sendq)
    BY <1>4, <2>1
  <2> QED
    BY <1>4, <2>1, <2>2
<1> QED
  BY <1>6, <1>8, <1>9, <1>10 DEF WireInv

\* So does the return of a function, which removes its packet.
LEMMA ReturnWire == Base /\ WireInv /\ Return => WireInv'
<1> SUFFICES ASSUME Base, WireInv, Return PROVE WireInv'
  OBVIOUS
<1>1. /\ turn # "none" /\ turn' = "none" /\ UNCHANGED <<frame, submitted, wire, lost>>
      /\ sendq' = IF frame = "send" THEN Tail(sendq) ELSE sendq
  BY DEF Return, sendVars
<1>2. CASE frame = "send"
  <2>1. sendq # << >> /\ sendq' = Tail(sendq) /\ sendq[1].cur = Len(sendq[1].data)
    BY <1>1, <1>2 DEF Base, Nesting, WireInv
  <2>2. sendq \in Seq(SendEntry) /\ Len(submitted) \in Nat /\ Packets(sendq, Len(submitted))
    BY DEF Base, TypeOK, SendEntry, WireInv
  <2>3. FrontOf(sendq, Len(submitted)) = sendq[1].data[1] - 1 + sendq[1].cur
    BY <2>1, <2>2, FrontIs
  <2>4. /\ Packets(sendq', Len(submitted))
        /\ FrontOf(sendq', Len(submitted)) = FrontOf(sendq, Len(submitted))
    BY <2>1, <2>2, <2>3, PacketsTail
  <2>5. WireUpTo(FrontOf(sendq, Len(submitted)))'
    BY <1>1, <2>4 DEF WireInv, WireUpTo
  <2> QED
    BY <1>1, <2>4, <2>5 DEF WireInv
<1>3. CASE frame # "send"
  BY <1>1, <1>3 DEF WireInv, WireUpTo
<1> QED
  BY <1>2, <1>3

\* Every step keeps the wire in order.
LEMMA StepWire == Base /\ WireInv /\ [Next]_vars => WireInv'
<1> SUFFICES ASSUME Base, WireInv, [Next]_vars PROVE WireInv'
  OBVIOUS
<1>1. CASE /\ UNCHANGED <<sendq, submitted, wire, lost>>
           /\ frame' = "send" /\ turn' # "none" => frame = "send" /\ turn # "none"
  BY <1>1 DEF WireInv, WireUpTo
<1>2. CASE \E n \in 1..TxCap : SendPart(n)
  BY <1>2, PartWire
<1>3. CASE SendRest \/ SendFails
  BY <1>3, RestWire
<1>4. CASE \E n \in SendLens, r \in Runners : AppSend(n, r)
  BY <1>4, SubmitWire
<1>5. CASE Return
  BY <1>5, ReturnWire
<1>6. CASE Stack \/ StartTimers \/ StartTasks \/ EndTasks \/ AppClose \/ UNCHANGED vars
           \/ \E n \in 1..Cap : AppConsume(n)
  BY <1>1, <1>6 DEF Stack, PeerSends, PeerCloses, PeerAcks, StartTimers, StartTasks, EndTasks,
                    AppClose, AppConsume, vars, appVars, sendVars
<1>7. CASE RunTask \/ \E i \in 1..Len(recvq) : FireTimer(i)
  <2>1. UNCHANGED <<frame, sendq, submitted, wire, lost>> /\ frame = "none"
    BY <1>7 DEF RunTask, FireTimer, sendVars, Base, Nesting
  <2> QED
    BY <1>1, <2>1
<1>8. CASE \E need \in Needs, timed \in BOOLEAN, r \in Runners : AppWait(need, timed, r)
  BY <1>1, <1>8 DEF AppWait, sendVars
<1>9. CASE Poll \/ OnEof \/ OnReadCloses \/ OnRead \/ OnWrite
  BY <1>1, <1>9 DEF Poll, OnEof, OnReadCloses, OnRead, OnWrite, Dispatch, appVars, sendVars
<1>10. CASE RecvServe \/ RecvDrop \/ RecvEnd \/ SendAgain \/ SendEnd
  BY <1>1, <1>10 DEF RecvServe, RecvDrop, RecvEnd, SendAgain, SendEnd, appVars, sendVars
<1> QED
  BY <1>2, <1>3, <1>4, <1>5, <1>6, <1>7, <1>8, <1>9, <1>10 DEF Next, Loop, Events, App

-----------------------------------------------------------------------------
\* The theorems about a session

SessionInv ==
    /\ Base /\ WriteArmed /\ RecvOne /\ NoStarvedWait /\ DataStillThere
    /\ StreamInv /\ WireInv

\* The invariant of a session: it holds initially ...
LEMMA InitSession == Init => SessionInv
<1> SUFFICES ASSUME Init PROVE SessionInv
  OBVIOUS
<1>1. Base
  BY InitBase
<1>2. /\ recvq = << >> /\ sendq = << >> /\ tasks = << >> /\ wire = << >> /\ submitted = << >>
      /\ got = << >> /\ wEnabled = FALSE /\ peerRead = 0 /\ buf.size = 0 /\ frame = "none"
  BY DEF Init, EmptyRing
<1>3. WriteArmed /\ RecvOne /\ NoStarvedWait /\ DataStillThere
  BY <1>2 DEF WriteArmed, RecvOne, NoStarvedWait, DataStillThere
<1>4. StreamInv
  BY <1>2 DEF StreamInv
<1>5. Packets(sendq, Len(submitted)) /\ FrontOf(sendq, Len(submitted)) = 0
  BY <1>2 DEF Packets, FrontOf
<1>6. WireUpTo(0)
  BY <1>2 DEF WireUpTo
<1> QED
  BY <1>1, <1>2, <1>3, <1>4, <1>5, <1>6 DEF SessionInv, WireInv

\* ... and every step keeps it.
LEMMA StepSession == SessionInv /\ [Next]_vars => SessionInv'
  BY StepBase, StepArmed, StepOne, StepStarved, StepData, StepStream, StepWire DEF SessionInv

\* So it always holds.
LEMMA SessionAlways == Spec => []SessionInv
  BY InitSession, StepSession, PTL DEF Spec

\* The variables of the session, its socket and the loop have their types: the buffer
\* stays a ring, and never more is counted free in the socket than there is.
THEOREM SessionTypes == Spec => []TypeOK
<1>1. SessionInv => TypeOK
  BY DEF SessionInv, Base
<1> QED
  BY <1>1, SessionAlways, PTL

\* The write event of an open session is enabled exactly when a packet waits, whatever
\* schedule, on_send_event and the application's functions do in between.
THEOREM WritesArmed == Spec => []WriteArmed
<1>1. SessionInv => WriteArmed
  BY DEF SessionInv
<1> QED
  BY <1>1, SessionAlways, PTL

\* on_recv_event leaves no handler behind whose data is in the buffer: a timed-out
\* handler at the head of the list does not hide the one that waits.
THEOREM NoneStarved == Spec => []NoStarvedWait
<1>1. SessionInv => NoStarvedWait
  BY DEF SessionInv
<1> QED
  BY <1>1, SessionAlways, PTL

\* A function that is queued because its data is there finds it when it runs.
THEOREM DataStays == Spec => []DataStillThere
<1>1. SessionInv => DataStillThere
  BY DEF SessionInv
<1> QED
  BY <1>1, SessionAlways, PTL

\* The application sees the peer's bytes once and in order as long as ff_read never
\* meets unconsumed bytes, for any capacity of the ring and wherever it wraps.
THEOREM StreamStaysIntact == Spec => []StreamIntact
<1>1. SessionInv => StreamIntact
  BY DEF SessionInv, StreamInv, StreamIntact
<1> QED
  BY <1>1, SessionAlways, PTL

\* on_send_event neither repeats nor reorders bytes, and skips only those whose send it
\* reported as failed, for packets of any lengths.
THEOREM WireStaysInOrder == Spec => []WireInOrder
<1>1. SessionInv => WireInOrder
  <2> SUFFICES ASSUME SessionInv PROVE WireInOrder
    OBVIOUS
  <2>1. wire \in Seq(Nat)
    BY DEF SessionInv, Base, TypeOK
  <2> DEFINE f == FrontOf(sendq, Len(submitted))
  <2>2. WireUpTo(f)
    BY DEF SessionInv, WireInv
  <2>4. f \in Nat
    <3>1. sendq \in Seq(SendEntry) /\ Len(submitted) \in Nat /\ Packets(sendq, Len(submitted))
      BY DEF SessionInv, Base, TypeOK, SendEntry, WireInv
    <3> QED
      BY <3>1, FrontIs DEF FrontOf
  <2> HIDE DEF f
  <2>3. ASSUME wire # << >>, NEW b \in 1..wire[Len(wire)]
        PROVE  b \in lost \/ \E i \in 1..Len(wire) : wire[i] = b
    <3>1. Len(wire) \in 1..Len(wire)
      BY <2>1, <2>3
    <3>2. wire[Len(wire)] \in 1..f
      BY <2>2, <3>1 DEF WireUpTo
    <3>3. b \in 1..f
      BY <2>1, <2>4, <3>1, <3>2
    <3> QED
      BY <2>2, <3>3 DEF WireUpTo
  <2> QED
    BY <2>2, <2>3 DEF WireUpTo, WireInOrder
<1> QED
  BY <1>1, SessionAlways, PTL

-----------------------------------------------------------------------------
\* The echo server

\* The bytes that the echo server copies are those of the buffer.
LEMMA CopyOf ==
    ASSUME Base
    PROVE  /\ Copy \in Seq(Nat) /\ Len(Copy) = buf.size /\ buf.size \in 0..buf.size
           /\ Consume(buf, buf.size) \in Ring /\ Consume(buf, buf.size).size = 0
<1>1. buf \in Ring
  BY DEF Base, TypeOK, Ring
<1>2. buf.size \in 0..buf.size /\ buf.size \in Nat
  BY <1>1, SessionConstants DEF Ring
<1>3. Copy \in Seq(Nat) /\ Len(Copy) = buf.size
  BY <1>1, <1>2, PeekOf DEF Copy
<1>4. Consume(buf, buf.size) \in Ring /\ Consume(buf, buf.size).size = buf.size - buf.size
  BY <1>1, <1>2, ConsumeOf
<1> QED
  BY <1>2, <1>3, <1>4

\* What the functions of the echo server do
LEMMA EchoProcOf ==
    ASSUME Base, EchoProc
    PROVE  /\ turn \in {"connected", "sent"} /\ turn' = "none"
           /\ Register(0, TRUE, "center", "none") /\ waits' \in Nat
           /\ UNCHANGED <<state, wEnabled, buf, sendq, frame, budget, phase, batch, peerSent, peerRead,
                          fin, txFree, submitted, wire, lost, got, overrun>>
<1>1. Register(0, TRUE, "center", "none") /\ turn \in {"connected", "sent"} /\ waits' \in Nat
  <2>1. Register(0, TRUE, "center", "none") /\ turn \in {"connected", "sent"} /\ waits' = waits + 1
    BY DEF EchoProc
  <2>2. waits \in Nat
    BY DEF Base, TypeOK
  <2>3. waits' \in Nat
    BY <2>1, <2>2
  <2> QED
    BY <2>1, <2>3
<1>2. 0 \in 0..Cap /\ TRUE \in BOOLEAN /\ "center" \in {"immediate", "center"}
      /\ "none" \in Turns \cup {"none"}
  BY SessionConstants
<1>3. turn' = "none"
  BY <1>1, <1>2, RegisterOf
<1> QED
  BY <1>1, <1>3 DEF EchoProc, loopVars, sockVars, sendVars, recvVars

\* What the functions that answer do
LEMMA EchoSendOf ==
    ASSUME Base, OnData \/ OnTimeout
    PROVE  /\ turn \in {"data", "timeout"} /\ turn' = "none"
           /\ \E d \in Seq(Nat) : Enqueue(d, "center")
           /\ buf' \in Ring /\ got' \in Seq(Nat)
           /\ UNCHANGED <<state, recvq, frame, tasks, budget, phase, batch, peerSent, peerRead, fin,
                          txFree, waits, wire, lost, overrun>>
<1>1. buf \in Ring /\ got \in Seq(Nat)
  BY DEF Base, TypeOK, Ring
<1>2. CASE OnData
  <2>1. Copy \in Seq(Nat) /\ Consume(buf, buf.size) \in Ring
    BY CopyOf
  <2>2. Enqueue(Copy, "center") /\ got' = got \o Copy /\ buf' = Consume(buf, buf.size)
    BY <1>2 DEF OnData
  <2>3. got' \in Seq(Nat)
    BY <1>1, <2>1, <2>2, ConcatOf
  <2> QED
    BY <1>2, <2>1, <2>2, <2>3 DEF OnData, loopVars, sockVars
<1>3. CASE OnTimeout
  <2>1. TimeoutText \in Seq(Nat) /\ Enqueue(TimeoutText, "center")
    BY <1>3, EchoConstants DEF OnTimeout
  <2> QED
    BY <1>1, <1>3, <2>1 DEF OnTimeout, loopVars, sockVars, recvVars
<1> QED
  BY <1>2, <1>3

\* The functions of the echo server keep the types.
LEMMA EchoBase == Base /\ Echo => Base'
<1> SUFFICES ASSUME Base, Echo PROVE Base'
  OBVIOUS
<1>1. CASE EchoProc
  <2>1. /\ turn' = "none" /\ Register(0, TRUE, "center", "none") /\ waits' \in Nat
        /\ UNCHANGED <<state, wEnabled, buf, sendq, frame, budget, phase, batch, peerSent, peerRead,
                       fin, txFree, submitted, wire, lost, got, overrun>>
    BY <1>1, EchoProcOf
  <2>2. 0 \in 0..Cap /\ TRUE \in BOOLEAN /\ "center" \in {"immediate", "center"}
        /\ "none" \in Turns \cup {"none"}
    BY SessionConstants
  <2>3. recvq' \in Seq(RecvEntry) /\ tasks' \in Seq(QueuedTask)
    BY <2>1, <2>2, RegisterOf
  <2>4. TypeOK'
    BY <2>1, <2>3 DEF Base, TypeOK, RecvEntry, QueuedTask
  <2> QED
    BY <2>1, <2>4 DEF Base, Nesting, ReadSent, CurOK
<1>2. CASE OnData \/ OnTimeout
  <2>1. PICK d \in Seq(Nat) : Enqueue(d, "center")
    BY <1>2, EchoSendOf
  <2>2. sendq' \in Seq(SendEntry) /\ submitted' \in Seq(Nat) /\ wEnabled' \in BOOLEAN /\ CurOK'
    BY <2>1, EnqueueOf
  <2>3. /\ turn' = "none" /\ buf' \in Ring /\ got' \in Seq(Nat)
        /\ UNCHANGED <<state, recvq, frame, tasks, budget, phase, batch, peerSent, peerRead, fin,
                       txFree, waits, wire, lost, overrun>>
    BY <1>2, EchoSendOf
  <2>4. TypeOK'
    BY <2>2, <2>3 DEF Base, TypeOK, SendEntry, Ring
  <2> QED
    BY <2>2, <2>3, <2>4 DEF Base, Nesting, ReadSent
<1>3. CASE OnFailed
  BY <1>3 DEF OnFailed, DoClose, Base, TypeOK, Nesting, ReadSent, CurOK, loopVars, sockVars,
              sendVars, recvVars
<1> QED
  BY <1>1, <1>2, <1>3 DEF Echo

\* Every step keeps the types.
LEMMA EchoStepBase == Base /\ [EchoNext]_vars => Base'
<1> SUFFICES ASSUME Base, [EchoNext]_vars PROVE Base'
  OBVIOUS
<1>1. CASE Stack \/ Loop
  BY <1>1, LoopBase
<1>2. CASE Echo
  BY <1>2, EchoBase
<1>3. CASE Timers
  BY <1>3, FireBase DEF Timers
<1>4. CASE UNCHANGED vars
  BY <1>4 DEF vars, appVars, loopVars, sockVars, sendVars, recvVars, Base, TypeOK, Nesting,
              ReadSent, CurOK
<1> QED
  BY <1>1, <1>2, <1>3, <1>4 DEF EchoNext

\* Steps of the loop that leave the chain alone, but may close the session
Quiet ==
    /\ UNCHANGED <<recvq, sendq, tasks, turn, wire, got>>
    /\ state' \in {state, 0} /\ (overrun => overrun')
    /\ turn # "none" => UNCHANGED phase
    /\ UNCHANGED peerSent \/ (peerSent < MaxIn /\ peerSent' = peerSent + 1)

\* Steps that take the chain on
Serve ==
    /\ recvq # << >> /\ ~recvq[1].called /\ turn = "none"
    /\ recvq' = Tail(recvq) /\ tasks' = Append(tasks, Task("data", recvq[1].need))
    /\ UNCHANGED <<sendq, turn, wire, got, state, overrun, phase, peerSent>>

Drop ==
    /\ recvq # << >> /\ recvq[1].called /\ recvq' = Tail(recvq)
    /\ UNCHANGED <<sendq, tasks, turn, wire, got, state, overrun, phase, peerSent>>

Sent(k) ==
    /\ sendq # << >> /\ turn = "none"
    /\ sendq' = Tail(sendq) /\ tasks' = Append(tasks, Task(k, 0))
    /\ UNCHANGED <<recvq, turn, got, state, overrun, phase, peerSent>>

Fire(i) ==
    /\ turn = "none" /\ ~recvq[i].called /\ recvq' = [recvq EXCEPT ![i].called = TRUE]
    /\ tasks' = Append(tasks, Task("timeout", 0))
    /\ UNCHANGED <<sendq, turn, wire, got, state, overrun, phase, peerSent>>

\* With all functions run by the task center, the loop takes one of these steps.
LEMMA LoopSteps ==
    ASSUME Base, CenterOnly, Stack \/ Loop \/ Timers
    PROVE  \/ Quiet \/ Serve \/ Drop \/ (\E n \in 1..TxCap : SendPart(n))
           \/ (SendRest /\ Sent("sent")) \/ (SendFails /\ Sent("failed") /\ wire' = wire)
           \/ (\E i \in 1..Len(recvq) : Fire(i)) \/ RunTask
<1>1. CASE Stack \/ StartTimers \/ StartTasks \/ EndTasks
  BY <1>1 DEF Stack, PeerSends, PeerCloses, PeerAcks, StartTimers, StartTasks, EndTasks, Quiet,
              appVars, loopVars, sockVars, sendVars, recvVars
<1>2. CASE Poll \/ OnEof \/ OnReadCloses \/ OnRead \/ OnWrite
  BY <1>2 DEF Poll, OnEof, OnReadCloses, OnRead, OnWrite, Dispatch, DoClose, Quiet, appVars,
              sockVars, sendVars, recvVars, Base, Nesting
<1>3. CASE RecvEnd \/ SendAgain \/ SendEnd
  BY <1>3 DEF RecvEnd, SendAgain, SendEnd, DoClose, Quiet, appVars, loopVars, sockVars, sendVars,
              recvVars
<1>4. CASE RecvServe
  <2>1. recvq \in Seq(RecvEntry) /\ recvq # << >>
    BY <1>4 DEF RecvServe, Base, TypeOK, RecvEntry
  <2>2. Head(recvq) = recvq[1] /\ 1 \in 1..Len(recvq)
    BY <2>1, TailOf
  <2>3. recvq[1].runner = "center"
    BY <2>2 DEF CenterOnly
  <2>4. Serve
    BY <1>4, <2>2, <2>3 DEF RecvServe, Call, Serve, loopVars, sockVars, sendVars, recvVars
  <2> QED
    BY <2>4
<1>5. CASE RecvDrop
  <2>1. recvq \in Seq(RecvEntry) /\ recvq # << >>
    BY <1>5 DEF RecvDrop, Base, TypeOK, RecvEntry
  <2>2. Head(recvq) = recvq[1]
    BY <2>1, TailOf
  <2>3. Drop
    BY <1>5, <2>2 DEF RecvDrop, Drop, appVars, loopVars, sockVars, sendVars, recvVars
  <2> QED
    BY <2>3
<1>6. CASE SendRest \/ SendFails
  <2>1. sendq # << >> /\ Head(sendq) = sendq[1] /\ 1 \in 1..Len(sendq)
    BY <1>6, SendHead DEF SendRest, SendFails
  <2>2. sendq[1].runner = "center"
    BY <2>1 DEF CenterOnly
  <2>3. CASE SendRest
    <3>1. Sent("sent")
      BY <2>1, <2>2, <2>3 DEF SendRest, Call, Sent, loopVars, sockVars, recvVars
    <3> QED
      BY <2>3, <3>1
  <2>4. CASE SendFails
    <3>1. Sent("failed") /\ wire' = wire
      BY <2>1, <2>2, <2>4 DEF SendFails, Call, Sent, loopVars, sockVars, recvVars
    <3> QED
      BY <2>4, <3>1
  <2> QED
    BY <1>6, <2>3, <2>4
<1>7. CASE Timers
  <2>1. PICK i \in 1..Len(recvq) : FireTimer(i)
    BY <1>7 DEF Timers
  <2>2. recvq[i].runner = "center"
    BY DEF CenterOnly
  <2>3. Fire(i)
    BY <2>1, <2>2 DEF FireTimer, Call, TimerCounts, Fire, loopVars, sockVars, sendVars, recvVars
  <2> QED
    BY <2>3
<1>8. CASE RunTask \/ \E n \in 1..TxCap : SendPart(n)
  BY <1>8
<1> QED
  BY <1>1, <1>2, <1>3, <1>4, <1>5, <1>6, <1>7, <1>8 DEF Loop, Events

\* The steps keep all functions with the task center.
LEMMA EchoStepCenter == Base /\ CenterOnly /\ [EchoNext]_vars => CenterOnly'
<1> SUFFICES ASSUME Base, CenterOnly, [EchoNext]_vars PROVE CenterOnly'
  OBVIOUS
<1>0. /\ recvq \in Seq(RecvEntry) /\ sendq \in Seq(SendEntry)
      /\ \A i \in 1..Len(recvq) : recvq[i].runner = "center"
      /\ \A i \in 1..Len(sendq) : sendq[i].runner = "center"
      /\ peerSent <= MaxIn /\ (turn # "none" => phase = "tasks")
  BY DEF Base, TypeOK, RecvEntry, SendEntry, CenterOnly
<1>1. ASSUME NEW q, NEW S, q \in Seq(S), q # << >>, \A i \in 1..Len(q) : q[i].runner = "center"
      PROVE  \A i \in 1..Len(Tail(q)) : Tail(q)[i].runner = "center"
  <2> SUFFICES ASSUME NEW i \in 1..Len(Tail(q)) PROVE Tail(q)[i].runner = "center"
    OBVIOUS
  <2>1. Tail(q)[i] = q[i + 1] /\ i + 1 \in 1..Len(q)
    BY <1>1, TailOf
  <2> QED
    BY <1>1, <2>1
<1>2. CASE Quiet \/ UNCHANGED vars
  <2>1. UNCHANGED <<recvq, sendq, turn>> /\ (turn # "none" => UNCHANGED phase)
    BY <1>2 DEF Quiet, vars, appVars, loopVars
  <2>2. peerSent' <= MaxIn
    <3>1. UNCHANGED peerSent \/ (peerSent < MaxIn /\ peerSent' = peerSent + 1)
      BY <1>2 DEF Quiet, vars, sockVars
    <3>2. peerSent \in Nat /\ MaxIn \in Nat
      BY SessionConstants DEF Base, TypeOK
    <3> QED
      BY <1>0, <3>1, <3>2
  <2> QED
    BY <1>0, <2>1, <2>2 DEF CenterOnly
<1>3. CASE Serve \/ Drop
  <2>1. recvq # << >> /\ recvq' = Tail(recvq) /\ UNCHANGED <<sendq, turn, phase, peerSent>>
    BY <1>3 DEF Serve, Drop
  <2>2. \A i \in 1..Len(recvq') : recvq'[i].runner = "center"
    BY <1>0, <1>1, <2>1
  <2> QED
    BY <1>0, <2>1, <2>2 DEF CenterOnly
<1>4. CASE Sent("sent") \/ Sent("failed")
  <2>1. sendq # << >> /\ sendq' = Tail(sendq) /\ UNCHANGED <<recvq, turn, phase, peerSent>>
    BY <1>4 DEF Sent
  <2>2. \A i \in 1..Len(sendq') : sendq'[i].runner = "center"
    BY <1>0, <1>1, <2>1
  <2> QED
    BY <1>0, <2>1, <2>2 DEF CenterOnly
<1>5. CASE \E n \in 1..TxCap : SendPart(n)
  <2>1. PICK n \in 1..TxCap : SendPart(n)
    BY <1>5
  <2>2. UNCHANGED <<recvq, turn, phase, peerSent>>
    BY <2>1 DEF SendPart, loopVars
  <2>3. \A i \in 1..Len(sendq') : sendq'[i].runner = "center"
    <3>1. sendq # << >> /\ sendq[1] \in SendEntry /\ 1 \in 1..Len(sendq)
      BY <2>1, SendHead DEF SendPart
    <3> DEFINE e == Update(sendq[1], n)
    <3>2. sendq' = [sendq EXCEPT ![1] = e] /\ e.runner = sendq[1].runner
      BY <2>1, <3>1 DEF SendPart, Update, SendEntry
    <3> HIDE DEF e
    <3> QED
      BY <1>0, <3>1, <3>2
  <2> QED
    BY <1>0, <2>2, <2>3 DEF CenterOnly
<1>6. CASE \E i \in 1..Len(recvq) : Fire(i)
  <2>1. PICK i \in 1..Len(recvq) : Fire(i)
    BY <1>6
  <2>2. recvq[i] \in RecvEntry
    BY <1>0
  <2> DEFINE e == [recvq[i] EXCEPT !.called = TRUE]
  <2>3. recvq' = [recvq EXCEPT ![i] = e] /\ e.runner = recvq[i].runner
    BY <2>1, <2>2 DEF Fire, RecvEntry
  <2> HIDE DEF e
  <2>4. \A j \in 1..Len(recvq') : recvq'[j].runner = "center"
    BY <1>0, <2>3
  <2> QED
    BY <1>0, <2>1, <2>4 DEF CenterOnly, Fire
<1>7. CASE RunTask
  BY <1>0, <1>7 DEF RunTask, CenterOnly, sockVars
<1>8. CASE EchoProc
  <2>1. 0 \in 0..Cap /\ TRUE \in BOOLEAN /\ "center" \in {"immediate", "center"}
        /\ "none" \in Turns \cup {"none"}
    BY SessionConstants
  <2>2. turn' = "none" /\ Register(0, TRUE, "center", "none") /\ UNCHANGED <<sendq, peerSent>>
    BY <1>8, EchoProcOf
  <2>3. /\ Len(recvq) \in Nat /\ \A i \in 1..Len(recvq) : recvq'[i] = recvq[i]
        /\ \/ /\ Len(recvq') = Len(recvq) + 1
              /\ recvq'[Len(recvq) + 1] =
                        [need |-> 0, timed |-> TRUE, called |-> FALSE, runner |-> "center"]
           \/ recvq' = recvq
    BY <2>1, <2>2, RegisterOf
  <2>4. \A i \in 1..Len(recvq') : recvq'[i].runner = "center"
    <3>1. CASE recvq' = recvq
      BY <1>0, <3>1
    <3>2. CASE recvq' # recvq
      <4>1. Len(recvq') = Len(recvq) + 1 /\ recvq'[Len(recvq) + 1].runner = "center"
        BY <2>3, <3>2
      <4>2. \A i \in 1..Len(recvq') : i = Len(recvq) + 1 \/ i \in 1..Len(recvq)
        BY <2>3, <4>1
      <4> QED
        BY <1>0, <2>3, <4>1, <4>2
    <3> QED
      BY <3>1, <3>2
  <2> QED
    BY <1>0, <2>2, <2>4 DEF CenterOnly
<1>9. CASE OnData \/ OnTimeout
  <2>1. PICK d \in Seq(Nat) : Enqueue(d, "center")
    BY <1>9, EchoSendOf
  <2>2. turn' = "none" /\ UNCHANGED <<recvq, peerSent>>
    BY <1>9, EchoSendOf
  <2>3. /\ Len(sendq') = Len(sendq) + 1 /\ Len(sendq) \in Nat
        /\ sendq'[Len(sendq) + 1] = [data |-> d, cur |-> 0, runner |-> "center"]
        /\ \A i \in 1..Len(sendq) : sendq'[i] = sendq[i]
    BY <2>1, EnqueueOf
  <2>4. \A i \in 1..Len(sendq') : sendq'[i].runner = "center"
    <3>1. \A i \in 1..Len(sendq') : i = Len(sendq) + 1 \/ i \in 1..Len(sendq)
      BY <2>3
    <3>2. sendq'[Len(sendq) + 1].runner = "center"
      BY <2>3
    <3> QED
      BY <1>0, <2>3, <3>1, <3>2
  <2> QED
    BY <1>0, <2>2, <2>4 DEF CenterOnly
<1>10. CASE OnFailed
  BY <1>0, <1>10 DEF OnFailed, CenterOnly, sockVars
<1> QED
  BY <1>2, <1>3, <1>4, <1>5, <1>6, <1>7, <1>8, <1>9, <1>10, LoopSteps DEF EchoNext, Echo

\* What ChainAlive says where the chain is known to be
LEMMA ChainIs ==
    ASSUME Base, ChainAlive
    PROVE  /\ turn # "none" => sendq = << >> /\ tasks = << >> /\ Live = {}
           /\ tasks # << >> => Len(tasks) = 1 /\ sendq = << >> /\ turn = "none" /\ Live = {}
           /\ sendq # << >> => Len(sendq) = 1 /\ tasks = << >> /\ turn = "none" /\ Live = {}
           /\ \A i \in Live : Live = {i} /\ sendq = << >> /\ tasks = << >> /\ turn = "none"
<1>1. sendq \in Seq(SendEntry) /\ tasks \in Seq(QueuedTask)
  BY DEF Base, TypeOK, SendEntry, QueuedTask
<1>2. Len(sendq) \in Nat /\ Len(tasks) \in Nat
      /\ (Len(sendq) = 0 => sendq = << >>) /\ (Len(tasks) = 0 => tasks = << >>)
      /\ (sendq = << >> => Len(sendq) = 0) /\ (tasks = << >> => Len(tasks) = 0)
  BY <1>1
<1>3. CASE Len(sendq) + Len(tasks) + (IF turn = "none" THEN 0 ELSE 1) = 1 /\ Live = {}
  <2>1. CASE turn = "none"
    <3> DEFINE a == Len(sendq)
               b == Len(tasks)
    <3>3. a + b + 0 = 1 /\ a \in Nat /\ b \in Nat
      BY <1>2, <1>3, <2>1
    <3>1. (a = 1 /\ b = 0) \/ (a = 0 /\ b = 1)
      <4> HIDE DEF a, b
      <4> QED
        BY <3>3
    <3>2. \/ Len(sendq) = 1 /\ Len(tasks) = 0
          \/ Len(sendq) = 0 /\ Len(tasks) = 1
      BY <3>1
    <3> QED
      BY <1>2, <1>3, <2>1, <3>2
  <2>2. CASE turn # "none"
    <3>1. Len(sendq) = 0 /\ Len(tasks) = 0
      BY <1>2, <1>3, <2>2
    <3> QED
      BY <1>2, <1>3, <2>2, <3>1
  <2> QED
    BY <2>1, <2>2
<1>4. CASE /\ sendq = << >> /\ tasks = << >> /\ turn = "none"
           /\ \E i \in 1..Len(recvq) : Live = {i}
  BY <1>4
<1>5. CASE sendq = << >> /\ tasks = << >> /\ turn = "none" /\ Live = {} /\ state = 0
  BY <1>5
<1> QED
  BY <1>3, <1>4, <1>5 DEF ChainAlive

\* One packet, queued function or running function is one chain.
LEMMA ChainOne ==
    ASSUME sendq' = << >> \/ tasks' = << >>,
           \/ turn' = "none" /\ Len(sendq') = 1 /\ tasks' = << >>
           \/ turn' = "none" /\ Len(tasks') = 1 /\ sendq' = << >>
           \/ turn' # "none" /\ sendq' = << >> /\ tasks' = << >>,
           Live' = {}
    PROVE  ChainAlive'
<1>1. Len(<< >>) = 0
  OBVIOUS
<1>2. Len(sendq') + Len(tasks') + (IF turn' = "none" THEN 0 ELSE 1) = 1
  <2>1. CASE turn' = "none" /\ Len(sendq') = 1 /\ tasks' = << >>
    BY <1>1, <2>1
  <2>2. CASE turn' = "none" /\ Len(tasks') = 1 /\ sendq' = << >>
    BY <1>1, <2>2
  <2>3. CASE turn' # "none" /\ sendq' = << >> /\ tasks' = << >>
    BY <1>1, <2>3
  <2> QED
    BY <2>1, <2>2, <2>3
<1> QED
  BY <1>2 DEF ChainAlive

\* Handlers that still wait, after the first one of the list is taken off
LEMMA LiveTail ==
    ASSUME Base, recvq # << >>, recvq' = Tail(recvq)
    PROVE  /\ \A j \in Live' : j \in Nat \ {0} /\ j + 1 \in Live
           /\ \A j \in Live : j # 1 => j - 1 \in Live' /\ j - 1 \in 1..Len(recvq') /\ j \in Nat
<1>1. recvq \in Seq(RecvEntry)
  BY DEF Base, TypeOK, RecvEntry
<1>2. /\ Len(recvq') = Len(recvq) - 1 /\ Len(recvq) \in Nat
      /\ \A i \in 1..Len(recvq') : recvq'[i] = recvq[i + 1]
  BY <1>1, TailOf
<1>3. ASSUME NEW j \in Live'
      PROVE  j \in Nat \ {0} /\ j + 1 \in Live
  <2>1. j \in 1..Len(recvq') /\ ~recvq'[j].called
    BY DEF Live
  <2>2. j \in Nat \ {0} /\ j + 1 \in 1..Len(recvq) /\ recvq'[j] = recvq[j + 1]
    BY <1>2, <2>1
  <2> QED
    BY <2>1, <2>2 DEF Live
<1>4. ASSUME NEW j \in Live, j # 1
      PROVE  j - 1 \in Live' /\ j - 1 \in 1..Len(recvq') /\ j \in Nat
  <2>1. j \in 1..Len(recvq) /\ ~recvq[j].called
    BY DEF Live
  <2>2. j \in Nat /\ j - 1 \in 1..Len(recvq') /\ (j - 1) + 1 = j
    BY <1>2, <1>4, <2>1
  <2>3. recvq'[j - 1] = recvq[j]
    BY <1>2, <2>2
  <2> QED
    BY <2>1, <2>2, <2>3 DEF Live
<1> QED
  BY <1>3, <1>4

\* The chain of the echo server never forks and never ends while the session is open.
LEMMA EchoStepChain ==
    ASSUME Base, Base', CenterOnly, ChainAlive, [EchoNext]_vars
    PROVE  ChainAlive'
<1>0. /\ recvq \in Seq(RecvEntry) /\ sendq \in Seq(SendEntry) /\ tasks \in Seq(QueuedTask)
      /\ sendq' \in Seq(SendEntry) /\ tasks' \in Seq(QueuedTask)
      /\ turn \in Turns \cup {"none"}
  BY DEF Base, TypeOK, RecvEntry, SendEntry, QueuedTask
<1>1. CASE Quiet \/ UNCHANGED vars
  <2>1. UNCHANGED <<recvq, sendq, tasks, turn>> /\ state' \in {state, 0}
    BY <1>1 DEF Quiet, vars, appVars
  <2> QED
    BY <2>1 DEF ChainAlive, Live
<1>2. CASE Serve
  <2>1. recvq # << >> /\ ~recvq[1].called /\ recvq' = Tail(recvq) /\ UNCHANGED <<sendq, turn>>
        /\ tasks' = Append(tasks, Task("data", recvq[1].need))
    BY <1>2 DEF Serve
  <2>2. 1 \in Live
    BY <1>0, <2>1 DEF Live
  <2>3. Live = {1} /\ sendq = << >> /\ tasks = << >> /\ turn = "none"
    BY <2>2, ChainIs
  <2>4. Live' = {}
    <3>1. ASSUME NEW j \in Live' PROVE FALSE
      <4>1. j \in Nat \ {0} /\ j + 1 \in Live
        BY <2>1, LiveTail
      <4> QED
        BY <2>3, <4>1
    <3> QED
      BY <3>1
  <2>5. Len(tasks') = 1
    BY <2>1, <2>3
  <2> QED
    BY <2>1, <2>3, <2>4, <2>5, ChainOne
<1>3. CASE Drop
  <2>1. recvq # << >> /\ recvq[1].called /\ recvq' = Tail(recvq)
        /\ UNCHANGED <<sendq, tasks, turn, state>>
    BY <1>3 DEF Drop
  <2>2. 1 \notin Live
    BY <2>1 DEF Live
  <2>3. CASE Live = {}
    <3>1. Live' = {}
      BY <2>1, <2>3, LiveTail
    <3>2. ~ \E i \in 1..Len(recvq) : Live = {i}
      BY <2>3
    <3> QED
      BY <2>1, <2>3, <3>1, <3>2 DEF ChainAlive
  <2>4. CASE Live # {}
    <3>1. PICK i \in Live : TRUE
      BY <2>4
    <3>2. Live = {i} /\ sendq = << >> /\ tasks = << >> /\ turn = "none"
      BY <3>1, ChainIs
    <3>3. i # 1
      BY <2>2, <3>1
    <3>4. i - 1 \in Live' /\ i - 1 \in 1..Len(recvq') /\ i \in Nat
      BY <2>1, <3>3, LiveTail
    <3>5. ASSUME NEW j \in Live' PROVE j = i - 1
      <4>1. j \in Nat \ {0} /\ j + 1 \in Live
        BY <2>1, LiveTail
      <4>2. j + 1 = i
        BY <3>2, <4>1
      <4> QED
        BY <3>4, <4>1, <4>2
    <3>6. Live' = {i - 1}
      BY <3>4, <3>5
    <3> QED
      BY <2>1, <3>2, <3>4, <3>6 DEF ChainAlive
  <2> QED
    BY <2>3, <2>4
<1>4. CASE \E n \in 1..TxCap : SendPart(n)
  <2>1. sendq # << >> /\ UNCHANGED <<recvq, tasks, turn>> /\ \E e : sendq' = [sendq EXCEPT ![1] = e]
    BY <1>4 DEF SendPart
  <2>2. Len(sendq) = 1 /\ tasks = << >> /\ turn = "none" /\ Live = {}
    BY <2>1, ChainIs
  <2>3. Len(sendq') = 1 /\ Live' = {}
    BY <1>0, <2>1, <2>2 DEF Live
  <2> QED
    BY <2>1, <2>2, <2>3, ChainOne
<1>5. CASE Sent("sent") \/ Sent("failed")
  <2>1. /\ sendq # << >> /\ sendq' = Tail(sendq) /\ UNCHANGED <<recvq, turn>>
        /\ \E e : tasks' = Append(tasks, e)
    BY <1>5 DEF Sent
  <2>2. Len(sendq) = 1 /\ tasks = << >> /\ turn = "none" /\ Live = {}
    BY <2>1, ChainIs
  <2>3. Len(tasks') = 1 /\ Live' = {}
    BY <2>1, <2>2 DEF Live
  <2>4. Len(sendq') = 0
    BY <1>0, <2>1, <2>2, TailOf
  <2>5. sendq' = << >>
    BY <1>0, <2>4
  <2> QED
    BY <2>1, <2>2, <2>3, <2>5, ChainOne
<1>6. CASE \E i \in 1..Len(recvq) : Fire(i)
  <2>1. PICK i \in 1..Len(recvq) : Fire(i)
    BY <1>6
  <2>2. /\ ~recvq[i].called /\ recvq' = [recvq EXCEPT ![i].called = TRUE] /\ UNCHANGED <<sendq, turn>>
        /\ tasks' = Append(tasks, Task("timeout", 0))
    BY <2>1 DEF Fire
  <2>3. i \in Live
    BY <2>2 DEF Live
  <2>4. Live = {i} /\ sendq = << >> /\ tasks = << >> /\ turn = "none"
    BY <2>3, ChainIs
  <2>5. /\ Len(recvq') = Len(recvq) /\ recvq'[i].called
        /\ \A j \in 1..Len(recvq) : j # i => recvq'[j] = recvq[j]
    <3>1. recvq[i] \in RecvEntry
      BY <1>0
    <3> QED
      BY <1>0, <2>2, <3>1 DEF RecvEntry
  <2>6. Live' = {}
    <3>1. ASSUME NEW j \in Live' PROVE FALSE
      <4>1. j \in 1..Len(recvq) /\ ~recvq'[j].called
        BY <2>5 DEF Live
      <4>2. j # i
        BY <2>5, <4>1
      <4>3. ~recvq[j].called
        BY <2>5, <4>1, <4>2
      <4> QED
        BY <2>4, <4>1, <4>2, <4>3 DEF Live
    <3> QED
      BY <3>1
  <2>7. Len(tasks') = 1
    BY <2>2, <2>4
  <2> QED
    BY <2>2, <2>4, <2>6, <2>7, ChainOne
<1>7. CASE RunTask
  <2>1. tasks # << >> /\ turn' = Head(tasks).kind /\ tasks' = Tail(tasks) /\ UNCHANGED <<recvq, sendq>>
    BY <1>7 DEF RunTask
  <2>2. Len(tasks) = 1 /\ sendq = << >> /\ Live = {}
    BY <2>1, ChainIs
  <2>3. Head(tasks) \in QueuedTask /\ Len(tasks') = 0
    BY <1>0, <2>1, <2>2, TailOf
  <2>4. turn' # "none" /\ tasks' = << >>
    BY <1>0, <2>1, <2>3 DEF QueuedTask, Turns
  <2>5. Live' = {}
    BY <2>1, <2>2 DEF Live
  <2> QED
    BY <2>1, <2>2, <2>4, <2>5, ChainOne
<1>8. CASE EchoProc
  <2>1. 0 \in 0..Cap /\ TRUE \in BOOLEAN /\ "center" \in {"immediate", "center"}
        /\ "none" \in Turns \cup {"none"}
    BY SessionConstants
  <2>2. /\ turn # "none" /\ turn' = "none" /\ Register(0, TRUE, "center", "none")
        /\ UNCHANGED <<sendq>>
    BY <1>8, EchoProcOf
  <2>3. sendq = << >> /\ tasks = << >> /\ Live = {}
    BY <2>2, ChainIs
  <2>4. /\ Len(recvq) \in Nat /\ \A i \in 1..Len(recvq) : recvq'[i] = recvq[i]
        /\ \/ /\ Len(recvq') = Len(recvq) + 1 /\ UNCHANGED tasks
              /\ recvq'[Len(recvq) + 1] =
                        [need |-> 0, timed |-> TRUE, called |-> FALSE, runner |-> "center"]
           \/ recvq' = recvq /\ tasks' = Append(tasks, Task("data", 0))
    <3>1. "center" # "immediate"
      OBVIOUS
    <3> QED
      BY <2>1, <2>2, <3>1, RegisterOf
  <2>5. CASE recvq' = recvq /\ tasks' = Append(tasks, Task("data", 0))
    <3>1. Len(tasks') = 1 /\ Live' = {}
      BY <2>3, <2>5 DEF Live
    <3> QED
      BY <2>2, <2>3, <3>1, ChainOne
  <2>6. CASE /\ Len(recvq') = Len(recvq) + 1 /\ UNCHANGED tasks
             /\ recvq'[Len(recvq) + 1] =
                        [need |-> 0, timed |-> TRUE, called |-> FALSE, runner |-> "center"]
    <3> DEFINE l == Len(recvq) + 1
    <3>1. l \in 1..Len(recvq') /\ ~recvq'[l].called
      BY <2>4, <2>6
    <3>2. ASSUME NEW j \in Live' PROVE j = l
      <4>1. j \in 1..Len(recvq') /\ ~recvq'[j].called
        BY DEF Live
      <4>2. j = l \/ j \in 1..Len(recvq)
        BY <2>4, <2>6, <4>1
      <4>3. CASE j \in 1..Len(recvq)
        BY <2>3, <2>4, <4>1, <4>3 DEF Live
      <4> QED
        BY <4>2, <4>3
    <3>3. l \in Live'
      BY <3>1 DEF Live
    <3>4. Live' = {l}
      BY <3>2, <3>3
    <3> HIDE DEF l
    <3> QED
      BY <2>2, <2>3, <2>6, <3>1, <3>4 DEF ChainAlive
  <2> QED
    BY <2>4, <2>5, <2>6
<1>9. CASE OnData \/ OnTimeout
  <2>1. turn # "none" /\ turn' = "none" /\ UNCHANGED <<recvq, tasks>>
    BY <1>9, EchoSendOf
  <2>2. PICK d \in Seq(Nat) : Enqueue(d, "center")
    BY <1>9, EchoSendOf
  <2>3. sendq = << >> /\ tasks = << >> /\ Live = {}
    BY <2>1, ChainIs
  <2>4. Len(sendq') = Len(sendq) + 1
    BY <2>2, EnqueueOf
  <2>5. Len(sendq') = 1 /\ Live' = {}
    BY <2>1, <2>3, <2>4 DEF Live
  <2> QED
    BY <2>1, <2>3, <2>5, ChainOne
<1>10. CASE OnFailed
  <2>1. turn # "none" /\ turn' = "none" /\ state' = 0 /\ UNCHANGED <<recvq, sendq, tasks>>
    BY <1>10 DEF OnFailed, DoClose
  <2>2. sendq = << >> /\ tasks = << >> /\ Live = {}
    BY <2>1, ChainIs
  <2>3. Live' = {}
    BY <2>1, <2>2 DEF Live
  <2> QED
    BY <2>1, <2>2, <2>3 DEF ChainAlive
<1> QED
  BY <1>1, <1>2, <1>3, <1>4, <1>5, <1>6, <1>7, <1>8, <1>9, <1>10, LoopSteps DEF EchoNext, Echo

\* Functions that run or are queued find their data: the buffer is emptied only by a
\* function that runs for data, and then nothing else is queued.
LEMMA EchoStepData ==
    ASSUME Base, Base', ChainAlive, DataStillThere, NeverSendsNothing, [EchoNext]_vars
    PROVE  DataStillThere' /\ NeverSendsNothing'
<1>0. buf \in Ring /\ buf' \in Ring /\ buf.size \in Nat /\ buf'.size \in Nat
      /\ tasks \in Seq(QueuedTask)
  <2>1. buf \in Ring /\ buf' \in Ring /\ tasks \in Seq(QueuedTask)
    BY DEF Base, TypeOK, Ring, QueuedTask
  <2>2. buf.size \in Nat /\ buf'.size \in Nat
    BY <2>1, SessionConstants DEF Ring
  <2> QED
    BY <2>1, <2>2
<1>1. CASE Stack \/ Loop \/ Timers
  <2>1. DataStillThere'
    BY <1>1, LoopData DEF Timers
  <2>2. CASE RunTask
    <3>1. tasks # << >> /\ turn' = Head(tasks).kind /\ UNCHANGED buf
      BY <2>2 DEF RunTask
    <3>2. Head(tasks) = tasks[1] /\ 1 \in 1..Len(tasks)
      BY <1>0, <3>1, TailOf
    <3>3. turn' = "data" => buf.size > 0
      BY <3>1, <3>2 DEF DataStillThere
    <3> QED
      BY <2>1, <3>1, <3>3 DEF NeverSendsNothing
  <2>3. CASE OnRead
    <3>1. PICK len \in 0..Cap : buf'.size = buf.size + len
      BY <2>3, OnReadOf
    <3>2. UNCHANGED turn /\ buf'.size >= buf.size
      BY <1>0, <2>3, <3>1, SessionConstants DEF OnRead
    <3>3. turn' = "data" => buf'.size > 0
      BY <1>0, <3>2 DEF NeverSendsNothing
    <3> QED
      BY <2>1, <3>3 DEF NeverSendsNothing
  <2>4. CASE ~RunTask /\ ~OnRead
    <3>1. UNCHANGED buf /\ (turn' = "data" => turn = "data" \/ RecvServe)
      <4>1. CASE Stack \/ StartTimers \/ StartTasks \/ EndTasks \/ Timers
        BY <4>1 DEF Stack, PeerSends, PeerCloses, PeerAcks, StartTimers, StartTasks, EndTasks,
                    Timers, FireTimer, Call, appVars
      <4>2. CASE Poll \/ OnEof \/ OnReadCloses \/ OnWrite \/ RecvServe \/ RecvDrop \/ RecvEnd
        BY <4>2 DEF Poll, OnEof, OnReadCloses, OnWrite, RecvServe, RecvDrop, RecvEnd, appVars
      <4>3. CASE SendRest \/ SendAgain \/ SendFails \/ SendEnd \/ \E n \in 1..TxCap : SendPart(n)
        BY <4>3 DEF SendRest, SendAgain, SendFails, SendEnd, SendPart, Call, appVars
      <4> QED
        BY <1>1, <2>4, <4>1, <4>2, <4>3 DEF Loop, Events
    <3>2. RecvServe => buf.size > 0
      BY DEF RecvServe
    <3> QED
      BY <2>1, <3>1, <3>2 DEF NeverSendsNothing
  <2> QED
    BY <2>2, <2>3, <2>4
<1>2. CASE EchoProc
  <2>1. /\ 0 \in 0..Cap /\ 0 \in Nat /\ TRUE \in BOOLEAN /\ "center" \in {"immediate", "center"}
        /\ "none" \in Turns \cup {"none"} /\ "data" \in Turns /\ "sent" \in Turns
    BY SessionConstants DEF Turns
  <2>2. turn' = "none" /\ Register(0, TRUE, "center", "none") /\ UNCHANGED buf
    BY <1>2, EchoProcOf
  <2>3. \/ UNCHANGED tasks
        \/ tasks' = Append(tasks, Task("data", 0)) /\ buf.size > 0 /\ buf.size >= 0
    BY <2>1, <2>2, RegisterOf
  <2>4. buf'.size >= buf.size
    BY <1>0, <2>2
  <2>5. DataStillThere'
    BY <1>0, <2>1, <2>2, <2>3, <2>4, QueueKeepsData
  <2> QED
    BY <2>2, <2>5 DEF NeverSendsNothing
<1>3. CASE OnData \/ OnTimeout \/ OnFailed
  <2>1. turn # "none" /\ turn' = "none" /\ UNCHANGED tasks
    BY <1>3 DEF OnData, OnTimeout, OnFailed
  <2>2. tasks = << >>
    BY <2>1, ChainIs
  <2> QED
    BY <2>1, <2>2 DEF DataStillThere, NeverSendsNothing
<1>4. CASE UNCHANGED vars
  BY <1>4 DEF vars, appVars, DataStillThere, NeverSendsNothing
<1> QED
  BY <1>1, <1>2, <1>3, <1>4 DEF EchoNext, Echo

\* Every step keeps the stream of the consumed and the buffered bytes.
LEMMA EchoStepStream == Base /\ StreamInv /\ [EchoNext]_vars => StreamInv'
<1> SUFFICES ASSUME Base, StreamInv, [EchoNext]_vars PROVE StreamInv'
  OBVIOUS
<1>1. CASE Stack \/ Loop \/ Timers
  BY <1>1, LoopStream DEF Timers
<1>2. CASE OnData
  <2>1. buf.size \in 0..buf.size
    BY CopyOf
  <2>2. /\ got' = got \o Peek(buf, buf.size) /\ buf' = Consume(buf, buf.size)
        /\ UNCHANGED <<overrun, peerRead>>
    BY <1>2 DEF OnData, Copy, sockVars
  <2> QED
    BY <2>1, <2>2, ConsumeStream
<1>3. CASE EchoProc \/ OnTimeout \/ OnFailed \/ UNCHANGED vars
  <2>1. UNCHANGED <<overrun, peerRead, got, buf>>
    BY <1>3 DEF EchoProc, OnTimeout, OnFailed, vars, sockVars, recvVars
  <2> QED
    BY <2>1 DEF StreamInv
<1> QED
  BY <1>1, <1>2, <1>3 DEF EchoNext, Echo

-----------------------------------------------------------------------------
\* What the echo server sends back

\* A set of positions up to l and the n positions after it
LEMMA MoreIn ==
    ASSUME NEW l \in Nat, NEW n \in Nat, NEW A \in SUBSET (1..l)
    PROVE  /\ IsFiniteSet(A) /\ Cardinality(A) \in Nat
           /\ Cardinality(A \cup ((l + 1)..(l + n))) = Cardinality(A) + n
<1>1. IsFiniteSet(1..l)
  BY FS_Interval
<1>2. IsFiniteSet(A)
  BY <1>1, FS_Subset
<1>3. Cardinality(A) \in Nat
  BY <1>2, FS_CardinalityType
<1> DEFINE B == (l + 1)..(l + n)
<1>4. IsFiniteSet(B) /\ Cardinality(B) = n
  <2>1. l + 1 \in Int /\ l + n \in Int
    OBVIOUS
  <2>2. IsFiniteSet(B) /\ Cardinality(B) = IF l + 1 > l + n THEN 0 ELSE (l + n) - (l + 1) + 1
    BY <2>1, FS_Interval
  <2>3. (IF l + 1 > l + n THEN 0 ELSE (l + n) - (l + 1) + 1) = n
    OBVIOUS
  <2> QED
    BY <2>2, <2>3
<1>5. A \cap B = {}
  OBVIOUS
<1>6. Cardinality(A \cap B) = 0
  BY <1>5, FS_EmptySet
<1> HIDE DEF B
<1>7. Cardinality(A \cup B) = Cardinality(A) + Cardinality(B) - Cardinality(A \cap B)
  BY <1>2, <1>4, FS_Union
<1>8. Cardinality(A \cup B) = Cardinality(A) + n
  BY <1>3, <1>4, <1>6, <1>7
<1> QED
  BY <1>2, <1>3, <1>8 DEF B

\* A byte of a timeout message
IsText(b) == \E i \in 1..Len(TimeoutText) : b = TimeoutText[i]

\* The wire grows by bytes of a timeout message: the echo stays.
LEMMA TextGrows ==
    ASSUME wire \in Seq(Nat), NEW s \in Seq(Nat), wire' = wire \o s,
           \A i \in 1..Len(s) : IsText(s[i]), EchoesInput
    PROVE  EchoPositions' = EchoPositions /\ EchoesInput'
<1>1. wire' \in Seq(Nat) /\ Len(wire') = Len(wire) + Len(s) /\ Len(wire) \in Nat /\ Len(s) \in Nat
  BY ConcatOf
<1>2. \A i \in 1..Len(wire) : wire'[i] = wire[i]
  BY ConcatOf
<1>3. \A i \in 1..Len(s) : wire'[Len(wire) + i] = s[i]
  BY ConcatOf
<1>4. ASSUME NEW p
      PROVE  p \in EchoPositions' <=> p \in EchoPositions
  <2>1. p \in EchoPositions' <=> p \in 1..Len(wire') /\ ~IsText(wire'[p])
    BY DEF EchoPositions, IsText
  <2>2. p \in EchoPositions <=> p \in 1..Len(wire) /\ ~IsText(wire[p])
    BY DEF EchoPositions, IsText
  <2>3. p \in 1..Len(wire') => p \in 1..Len(wire) \/ p - Len(wire) \in 1..Len(s)
    BY <1>1
  <2>4. p \in 1..Len(wire) => p \in 1..Len(wire')
    BY <1>1
  <2>5. CASE p \in 1..Len(wire)
    BY <1>2, <2>1, <2>2, <2>4, <2>5
  <2>6. CASE p \in 1..Len(wire') /\ p - Len(wire) \in 1..Len(s)
    <3>1. Len(wire) + (p - Len(wire)) = p
      BY <1>1, <2>6
    <3>2. IsText(wire'[p])
      BY <1>3, <2>6, <3>1
    <3>3. p \notin 1..Len(wire)
      BY <1>1, <2>6
    <3> QED
      BY <2>1, <2>2, <3>2, <3>3
  <2> QED
    BY <2>1, <2>2, <2>3, <2>5, <2>6
<1>5. EchoPositions' = EchoPositions
  BY <1>4
<1>6. ASSUME NEW p \in EchoPositions'
      PROVE  wire'[p] = Cardinality(EchoedUpTo(p)')
  <2>1. p \in EchoPositions /\ p \in 1..Len(wire)
    BY <1>5 DEF EchoPositions
  <2>2. EchoedUpTo(p)' = EchoedUpTo(p)
    BY <1>5 DEF EchoedUpTo
  <2> QED
    BY <1>2, <2>1, <2>2 DEF EchoesInput
<1>7. EchoesInput'
  BY <1>6 DEF EchoesInput
<1> QED
  BY <1>5, <1>7

\* The wire grows by the next bytes of the peer: the echo grows by them.
LEMMA DataGrows ==
    ASSUME wire \in Seq(Nat), NEW s \in Seq(Nat), wire' = wire \o s, EchoesInput,
           \A i \in 1..Len(s) : s[i] = Cardinality(EchoPositions) + i /\ s[i] <= MaxIn
    PROVE  Cardinality(EchoPositions') = Cardinality(EchoPositions) + Len(s) /\ EchoesInput'
<1>1. wire' \in Seq(Nat) /\ Len(wire') = Len(wire) + Len(s) /\ Len(wire) \in Nat /\ Len(s) \in Nat
  BY ConcatOf
<1>2. \A i \in 1..Len(wire) : wire'[i] = wire[i]
  BY ConcatOf
<1>3. \A i \in 1..Len(s) : wire'[Len(wire) + i] = s[i]
  BY ConcatOf
<1> DEFINE l == Len(wire)
           A == EchoPositions
<1>4. A \in SUBSET (1..l)
  BY DEF EchoPositions
<1>5. ASSUME NEW i \in 1..Len(s)
      PROVE  ~IsText(s[i])
  <2>1. s[i] \in Nat /\ s[i] <= MaxIn
    OBVIOUS
  <2>2. \A j \in 1..Len(TimeoutText) : TimeoutText[j] > MaxIn /\ TimeoutText[j] \in Nat
    BY EchoConstants
  <2> QED
    BY <2>1, <2>2, SessionConstants DEF IsText
<1>6. ASSUME NEW p
      PROVE  p \in EchoPositions' <=> p \in A \/ p \in (l + 1)..(l + Len(s))
  <2>1. p \in EchoPositions' <=> p \in 1..Len(wire') /\ ~IsText(wire'[p])
    BY DEF EchoPositions, IsText
  <2>2. p \in A <=> p \in 1..l /\ ~IsText(wire[p])
    BY DEF EchoPositions, IsText
  <2>3. CASE p \in 1..l
    <3>1. p \in 1..Len(wire') /\ p \notin (l + 1)..(l + Len(s))
      BY <1>1, <2>3
    <3> QED
      BY <1>2, <2>1, <2>2, <2>3, <3>1
  <2>4. CASE p \in (l + 1)..(l + Len(s))
    <3>1. p - l \in 1..Len(s) /\ l + (p - l) = p /\ p \in 1..Len(wire')
      BY <1>1, <2>4
    <3>2. ~IsText(wire'[p])
      BY <1>3, <1>5, <3>1
    <3> QED
      BY <2>1, <2>4, <3>1, <3>2
  <2>5. p \in 1..Len(wire') => p \in 1..l \/ p \in (l + 1)..(l + Len(s))
    BY <1>1
  <2> QED
    BY <2>1, <2>2, <2>3, <2>4, <2>5
<1>7. EchoPositions' = A \cup ((l + 1)..(l + Len(s)))
  BY <1>6
<1>8. Cardinality(EchoPositions') = Cardinality(A) + Len(s) /\ Cardinality(A) \in Nat
  BY <1>1, <1>4, <1>7, MoreIn
<1>9. ASSUME NEW p \in EchoPositions'
      PROVE  wire'[p] = Cardinality(EchoedUpTo(p)')
  <2>1. EchoedUpTo(p)' = { q \in EchoPositions' : q <= p }
    BY DEF EchoedUpTo
  <2>2. CASE p \in A
    <3>1. p \in 1..l
      BY <1>4, <2>2
    <3>2. ASSUME NEW q
          PROVE  q \in EchoedUpTo(p)' <=> q \in EchoedUpTo(p)
      <4>1. q \in (l + 1)..(l + Len(s)) => ~(q <= p)
        BY <1>1, <3>1
      <4> QED
        BY <1>6, <2>1, <4>1 DEF EchoedUpTo
    <3>3. EchoedUpTo(p)' = EchoedUpTo(p)
      BY <3>2
    <3> QED
      BY <1>2, <2>2, <3>1, <3>3 DEF EchoesInput
  <2>3. CASE p \in (l + 1)..(l + Len(s))
    <3> DEFINE i == p - l
    <3>1. i \in 1..Len(s) /\ l + i = p /\ i \in Nat
      BY <1>1, <2>3
    <3>2. ASSUME NEW q
          PROVE  q \in EchoedUpTo(p)' <=> q \in A \/ q \in (l + 1)..(l + i)
      <4>1. q \in A => q <= p
        BY <1>1, <1>4, <2>3
      <4>2. q \in (l + 1)..(l + Len(s)) /\ q <= p <=> q \in (l + 1)..(l + i)
        BY <1>1, <3>1
      <4> QED
        BY <1>6, <2>1, <4>1, <4>2
    <3>3. EchoedUpTo(p)' = A \cup ((l + 1)..(l + i))
      BY <3>2
    <3>4. Cardinality(A \cup ((l + 1)..(l + i))) = Cardinality(A) + i
      BY <1>1, <1>4, <3>1, MoreIn
    <3>5. wire'[p] = s[i]
      BY <1>3, <3>1
    <3>6. s[i] = Cardinality(A) + i
      BY <3>1
    <3> QED
      BY <3>3, <3>4, <3>5, <3>6
  <2> QED
    BY <1>6, <2>2, <2>3
<1>10. EchoesInput'
  BY <1>9 DEF EchoesInput
<1> QED
  BY <1>8, <1>10

\* ff_write accepts the bytes c + 1 to e of the packet under way.
LEMMA PartEchoes ==
    ASSUME wire \in Seq(Nat), EchoesInput, NEW d \in Seq(Nat), NEW c \in Nat, NEW e \in 0..Len(d),
           c <= e, NEW g \in Nat, EchoedTo(d, c, Cardinality(EchoPositions), g),
           wire' = wire \o SubSeq(d, c + 1, e)
    PROVE  EchoesInput' /\ EchoedTo(d, e, Cardinality(EchoPositions'), g)
<1> DEFINE s == SubSeq(d, c + 1, e)
           x == Cardinality(EchoPositions)
<1>1. s \in Seq(Nat) /\ Len(s) = e - c /\ \A i \in 1..(e - c) : s[i] = d[c + i]
  BY PartOf
<1>2. wire' = wire \o s
  OBVIOUS
<1>3. Len(d) \in Nat /\ e \in Nat /\ \A i \in 1..(e - c) : c + i \in 1..Len(d)
  OBVIOUS
<1> HIDE DEF s
<1>4. CASE d = TimeoutText /\ x = g
  <2>1. ASSUME NEW i \in 1..Len(s) PROVE IsText(s[i])
    <3>1. s[i] = d[c + i] /\ c + i \in 1..Len(d)
      BY <1>1, <1>3
    <3> QED
      BY <1>4, <3>1 DEF IsText
  <2>2. EchoPositions' = EchoPositions /\ EchoesInput'
    BY <1>1, <1>2, <2>1, TextGrows
  <2> QED
    BY <1>4, <2>2 DEF EchoedTo
<1>5. CASE /\ \A i \in 1..Len(d) : d[i] = g - Len(d) + i
           /\ Len(d) <= g /\ g <= MaxIn /\ x = g - Len(d) + c
  <2> HIDE DEF x
  <2>1. ASSUME NEW i \in 1..Len(s) PROVE s[i] = x + i /\ s[i] <= MaxIn
    <3>1. s[i] = d[c + i] /\ c + i \in 1..Len(d)
      BY <1>1, <1>3
    <3>2. d[c + i] = g - Len(d) + (c + i)
      BY <1>5, <3>1
    <3>3. i \in Nat /\ MaxIn \in Nat
      BY <1>1, SessionConstants
    <3> DEFINE l == Len(d)
    <3>4. s[i] = g - l + (c + i) /\ x = g - l + c /\ l \in Nat /\ c + i <= l /\ g <= MaxIn
      BY <1>3, <1>5, <3>1, <3>2
    <3> HIDE DEF l
    <3> QED
      BY <3>3, <3>4
  <2>2. Cardinality(EchoPositions') = x + Len(s) /\ EchoesInput'
    BY <1>1, <1>2, <2>1, DataGrows DEF x
  <2>3. Cardinality(EchoPositions') = g - Len(d) + e
    BY <1>1, <1>3, <1>5, <2>2
  <2> QED
    BY <1>5, <2>2, <2>3 DEF EchoedTo
<1> QED
  BY <1>4, <1>5 DEF EchoedTo

\* Steps that neither write nor consume, and find the chain unfailed if they leave it so
LEMMA EchoStays ==
    ASSUME EchoInv, UNCHANGED <<wire, got, sendq>>, overrun => overrun', Unfailed' => Unfailed
    PROVE  EchoInv'
<1>1. EchoPositions' = EchoPositions
  BY DEF EchoPositions
<1>2. EchoesInput => EchoesInput'
  BY <1>1 DEF EchoesInput, EchoedUpTo
<1> QED
  BY <1>1, <1>2 DEF EchoInv

\* A packet is put into the empty list: all that was consumed before is echoed.
LEMMA EchoQueued ==
    ASSUME EchoInv, ~overrun, sendq = << >>, Unfailed, UNCHANGED wire, sendq' # << >>,
           EchoedTo(sendq'[1].data, sendq'[1].cur, Len(got), Len(got'))
    PROVE  EchoInv'
<1>1. EchoPositions' = EchoPositions
  BY DEF EchoPositions
<1>2. EchoesInput'
  BY <1>1 DEF EchoesInput, EchoedUpTo, EchoInv
<1>3. Cardinality(EchoPositions) = Len(got)
  BY DEF EchoInv
<1> QED
  BY <1>1, <1>2, <1>3 DEF EchoInv

\* on_send_event writes to the socket: the echo grows by what is accepted.
LEMMA EchoWrites ==
    ASSUME Base, Base', ChainAlive, EchoInv, ~overrun,
           (\E n \in 1..TxCap : SendPart(n)) \/ (SendRest /\ Sent("sent"))
    PROVE  EchoInv'
<1> DEFINE d == sendq[1].data
           c == sendq[1].cur
<1>1. sendq # << >>
  BY DEF SendPart, SendRest
<1>2. /\ Head(sendq) = sendq[1] /\ d \in Seq(Nat) /\ c \in 0..Len(d) /\ c \in Nat /\ Len(d) \in Nat
      /\ Len(d) \in 0..Len(d) /\ wire \in Seq(Nat) /\ Len(got) \in Nat
  <2>1. Head(sendq) = sendq[1] /\ d \in Seq(Nat) /\ c \in 0..Len(d)
    BY <1>1, SendHead
  <2>2. wire \in Seq(Nat) /\ got \in Seq(Nat)
    BY DEF Base, TypeOK
  <2>3. Len(got) \in Nat
    BY <2>2
  <2> HIDE DEF c, d
  <2>4. c \in Nat /\ Len(d) \in Nat /\ Len(d) \in 0..Len(d)
    BY <2>1
  <2> QED
    BY <2>1, <2>2, <2>3, <2>4
<1>3. EchoesInput /\ EchoedTo(d, c, Cardinality(EchoPositions), Len(got))
  BY <1>1 DEF EchoInv
<1>4. Len(sendq) = 1
  BY <1>1, ChainIs
<1>5. CASE \E n \in 1..TxCap : SendPart(n)
  <2>1. PICK n \in 1..TxCap : SendPart(n)
    BY <1>5
  <2>2. n \in Nat /\ n < Len(d) - c
    <3>1. n < Len(d) - c
      BY <1>2, <2>1 DEF SendPart, Unsent
    <3>2. n \in Nat
      BY SessionConstants
    <3> QED
      BY <3>1, <3>2
  <2>3. c + n \in 0..Len(d) /\ c <= c + n
    <3> HIDE DEF c, d
    <3> QED
      BY <1>2, <2>2
  <2>4. wire' = wire \o SubSeq(d, c + 1, c + n) /\ UNCHANGED <<got, overrun>>
    BY <1>2, <2>1 DEF SendPart, recvVars
  <2>5. sendq' = [sendq EXCEPT ![1].cur = c + n]
    BY <2>1 DEF SendPart, Update
  <2>6. sendq' # << >> /\ sendq'[1] = [sendq[1] EXCEPT !.cur = c + n]
    BY <1>1, <2>3, <2>5, SendHead
  <2>7. sendq'[1].data = d /\ sendq'[1].cur = c + n
    BY <1>1, <2>6, SendHead DEF SendEntry
  <2> HIDE DEF c, d
  <2>8. EchoesInput' /\ EchoedTo(d, c + n, Cardinality(EchoPositions'), Len(got))
    BY <1>2, <1>3, <2>3, <2>4, PartEchoes
  <2>9. EchoedTo(sendq'[1].data, sendq'[1].cur, Cardinality(EchoPositions'), Len(got'))
    BY <2>4, <2>7, <2>8
  <2>10. sendq' # << >>
    BY <2>6
  <2> QED
    BY <2>8, <2>9, <2>10 DEF EchoInv
<1>6. CASE SendRest /\ Sent("sent")
  <2>1. wire' = wire \o SubSeq(d, c + 1, Len(d)) /\ UNCHANGED <<got, overrun>> /\ sendq' = Tail(sendq)
    BY <1>2, <1>6 DEF SendRest, recvVars, Sent
  <2>2. sendq' = << >>
    <3>1. sendq' \in Seq(SendEntry) /\ Len(sendq') = 0
      BY <1>1, <1>4, <2>1, SendHead
    <3> QED
      BY <3>1
  <2>5. c <= Len(d)
    BY <1>2
  <2> HIDE DEF c, d
  <2>3. EchoesInput' /\ EchoedTo(d, Len(d), Cardinality(EchoPositions'), Len(got))
    BY <1>2, <1>3, <2>1, <2>5, PartEchoes
  <2>4. Cardinality(EchoPositions') = Len(got')
    BY <1>2, <2>1, <2>3 DEF EchoedTo
  <2> QED
    BY <2>2, <2>3, <2>4 DEF EchoInv
<1> QED
  BY <1>5, <1>6

\* The functions for data and timeouts give the next bytes or the message to schedule.
LEMMA EchoAnswers ==
    ASSUME Base, Base', CenterOnly, ChainAlive, StreamInv, EchoInv, ~overrun, OnData \/ OnTimeout
    PROVE  EchoInv'
<1>1. turn \in {"data", "timeout"} /\ UNCHANGED wire
  BY EchoSendOf
<1>2. sendq = << >> /\ Unfailed
  <2>1. turn # "none"
    BY <1>1
  <2> QED
    BY <1>1, <2>1, ChainIs DEF Unfailed
<1>3. ASSUME NEW d \in Seq(Nat), Enqueue(d, "center")
      PROVE  sendq' # << >> /\ sendq'[1].data = d /\ sendq'[1].cur = 0
  <2>1. "center" \in {"immediate", "center"}
    OBVIOUS
  <2>2. sendq' # << >> /\ sendq'[Len(sendq) + 1] = [data |-> d, cur |-> 0, runner |-> "center"]
    BY <1>3, <2>1, EnqueueOf
  <2>3. Len(sendq) + 1 = 1
    BY <1>2
  <2> QED
    BY <2>2, <2>3
<1>4. CASE OnTimeout
  <2>1. Enqueue(TimeoutText, "center") /\ UNCHANGED got /\ TimeoutText \in Seq(Nat)
    BY <1>4, EchoConstants DEF OnTimeout, recvVars
  <2>2. sendq' # << >> /\ sendq'[1].data = TimeoutText
    BY <1>3, <2>1
  <2>3. EchoedTo(sendq'[1].data, sendq'[1].cur, Len(got), Len(got'))
    BY <2>1, <2>2 DEF EchoedTo
  <2> QED
    BY <1>1, <1>2, <2>2, <2>3, EchoQueued
<1>5. CASE OnData
  <2> DEFINE g == Len(got)
             m == buf.size
  <2>1. Enqueue(Copy, "center") /\ got' = got \o Copy /\ Copy \in Seq(Nat) /\ Len(Copy) = m
    BY <1>5, CopyOf DEF OnData
  <2>2. sendq' # << >> /\ sendq'[1].data = Copy /\ sendq'[1].cur = 0
    BY <1>3, <2>1
  <2>3. buf \in Ring /\ got \in Seq(Nat) /\ g \in Nat
    <3>1. buf \in Ring /\ got \in Seq(Nat)
      BY DEF Base, TypeOK, Ring
    <3> QED
      BY <3>1
  <2>4. m \in Nat /\ m \in 0..m
    BY <2>3, SessionConstants DEF Ring
  <2>5. Len(got') = g + m
    BY <2>1, <2>3, ConcatOf
  <2>6. g + m <= MaxIn
    <3>1. peerRead = g + m
      BY DEF StreamInv
    <3>2. peerRead <= peerSent /\ peerSent <= MaxIn /\ peerSent \in Nat /\ MaxIn \in Nat
      BY SessionConstants DEF Base, ReadSent, CenterOnly, TypeOK
    <3> HIDE DEF g, m
    <3> QED
      BY <2>3, <2>4, <3>1, <3>2
  <2>7. ASSUME NEW i \in 1..m PROVE Copy[i] = g + i
    <3>1. Copy[i] = buf.mem[(buf.head + i - 1) % Cap]
      BY <2>3, <2>4, PeekOf DEF Copy
    <3>2. \A j \in 0..(m - 1) : buf.mem[(buf.head + j) % Cap] = g + j + 1
      BY DEF StreamInv
    <3>3. buf.head \in Nat
      BY <2>3, SessionConstants DEF Ring
    <3> DEFINE h == buf.head
    <3> HIDE DEF h, g, m
    <3>4. i - 1 \in 0..(m - 1) /\ g + (i - 1) + 1 = g + i /\ h + i - 1 = h + (i - 1)
      BY <2>3, <2>4, <3>3 DEF h
    <3>5. buf.mem[(h + (i - 1)) % Cap] = g + (i - 1) + 1
      BY <3>2, <3>4 DEF h
    <3> QED
      BY <3>1, <3>4, <3>5 DEF h
  <2> HIDE DEF g, m
  <2>8. \A i \in 1..Len(Copy) : Copy[i] = Len(got') - Len(Copy) + i
    <3> SUFFICES ASSUME NEW i \in 1..m PROVE Copy[i] = (g + m) - m + i
      BY <2>1, <2>5
    <3> QED
      BY <2>3, <2>4, <2>7
  <2>9. Len(Copy) <= Len(got') /\ Len(got') <= MaxIn /\ g = Len(got') - Len(Copy) + 0
    BY <2>1, <2>3, <2>4, <2>5, <2>6
  <2>10. EchoedTo(Copy, 0, g, Len(got'))
    BY <2>8, <2>9 DEF EchoedTo
  <2> QED
    BY <1>1, <1>2, <2>2, <2>10, EchoQueued DEF g
<1> QED
  BY <1>4, <1>5

\* The other steps leave the wire and what was consumed alone.
LEMMA EchoStepEcho ==
    ASSUME Base, Base', CenterOnly, ChainAlive, StreamInv, EchoInv, [EchoNext]_vars
    PROVE  EchoInv'
<1>0. recvq \in Seq(RecvEntry) /\ tasks \in Seq(QueuedTask) /\ sendq \in Seq(SendEntry)
      /\ sendq' \in Seq(SendEntry)
  BY DEF Base, TypeOK, RecvEntry, SendEntry, QueuedTask
<1>1. CASE Quiet \/ UNCHANGED vars
  <2>1. UNCHANGED <<recvq, sendq, tasks, turn, wire, got>> /\ (overrun => overrun')
    BY <1>1 DEF Quiet, vars, appVars, sendVars, recvVars
  <2>2. Unfailed' => Unfailed
    BY <2>1 DEF Unfailed, Live
  <2> QED
    BY <2>1, <2>2, EchoStays
<1>2. CASE Serve
  <2>1. recvq # << >> /\ ~recvq[1].called /\ UNCHANGED <<wire, got, sendq, overrun>>
    BY <1>2 DEF Serve
  <2>2. 1 \in Live
    BY <1>0, <2>1 DEF Live
  <2> QED
    BY <2>1, <2>2, EchoStays DEF Unfailed
<1>3. CASE Drop
  <2>1. recvq # << >> /\ recvq' = Tail(recvq) /\ UNCHANGED <<wire, got, sendq, overrun, tasks, turn>>
    BY <1>3 DEF Drop
  <2>2. Live' # {} => Live # {}
    BY <2>1, LiveTail
  <2> QED
    BY <2>1, <2>2, EchoStays DEF Unfailed
<1>4. CASE (\E n \in 1..TxCap : SendPart(n)) \/ (SendRest /\ Sent("sent"))
  <2>1. UNCHANGED overrun
    BY <1>4 DEF SendPart, SendRest, recvVars
  <2>2. overrun => EchoInv'
    BY <2>1 DEF EchoInv
  <2> QED
    BY <1>4, <2>2, EchoWrites
<1>5. CASE Sent("failed") /\ wire' = wire
  <2>1. /\ sendq # << >> /\ sendq' = Tail(sendq) /\ UNCHANGED <<recvq, turn, got, overrun, wire>>
        /\ tasks' = Append(tasks, Task("failed", 0))
    BY <1>5 DEF Sent
  <2>2. Len(sendq) = 1 /\ tasks = << >> /\ turn = "none" /\ Live = {}
    BY <2>1, ChainIs
  <2>3. sendq' = << >>
    <3>1. Len(sendq') = 0
      BY <1>0, <2>1, <2>2, TailOf
    <3> QED
      BY <1>0, <3>1
  <2>4. tasks'[1] = Task("failed", 0)
    BY <2>1, <2>2
  <2>5. ~Unfailed'
    BY <2>1, <2>2, <2>4 DEF Unfailed, Live, Task
  <2>6. EchoPositions' = EchoPositions
    BY <2>1 DEF EchoPositions
  <2>7. EchoesInput => EchoesInput'
    BY <2>1, <2>6 DEF EchoesInput, EchoedUpTo
  <2> QED
    BY <2>1, <2>3, <2>5, <2>7 DEF EchoInv
<1>6. CASE \E i \in 1..Len(recvq) : Fire(i)
  <2>1. PICK i \in 1..Len(recvq) : Fire(i)
    BY <1>6
  <2>2. ~recvq[i].called /\ UNCHANGED <<wire, got, sendq, overrun>>
    BY <2>1 DEF Fire
  <2>3. i \in Live
    BY <2>2 DEF Live
  <2> QED
    BY <2>2, <2>3, EchoStays DEF Unfailed
<1>7. CASE RunTask
  <2>1. /\ tasks # << >> /\ turn' = Head(tasks).kind /\ tasks' = Tail(tasks)
        /\ UNCHANGED <<recvq, sendq, wire, got, overrun>>
    BY <1>7 DEF RunTask, sendVars, recvVars
  <2>2. Len(tasks) = 1 /\ Live = {} /\ Head(tasks) = tasks[1]
    BY <1>0, <2>1, ChainIs, TailOf
  <2>3. tasks' = << >> /\ Live' = {}
    <3>1. tasks' \in Seq(QueuedTask) /\ Len(tasks') = 0
      BY <1>0, <2>1, <2>2, TailOf
    <3> QED
      BY <2>1, <2>2, <3>1 DEF Live
  <2>4. Unfailed' => tasks[1].kind # "failed"
    BY <2>1, <2>2, <2>3 DEF Unfailed
  <2>5. Unfailed' => Unfailed
    BY <2>1, <2>4 DEF Unfailed
  <2> QED
    BY <2>1, <2>5, EchoStays
<1>8. CASE EchoProc
  <2>1. turn \in {"connected", "sent"} /\ UNCHANGED <<wire, got, sendq, overrun>>
    BY <1>8, EchoProcOf
  <2>2. Unfailed
    BY <2>1 DEF Unfailed
  <2> QED
    BY <2>1, <2>2, EchoStays
<1>9. CASE OnData \/ OnTimeout
  <2>1. UNCHANGED overrun
    BY <1>9, EchoSendOf
  <2>2. overrun => EchoInv'
    BY <2>1 DEF EchoInv
  <2> QED
    BY <1>9, <2>2, EchoAnswers
<1>10. CASE OnFailed
  <2>1. turn # "none" /\ turn' = "none" /\ UNCHANGED <<recvq, sendq, tasks, wire, got, overrun>>
    BY <1>10 DEF OnFailed, sendVars, recvVars
  <2>2. tasks = << >> /\ Live = {}
    BY <2>1, ChainIs
  <2>3. ~Unfailed'
    BY <2>1, <2>2 DEF Unfailed, Live
  <2> QED
    BY <2>1, <2>3, EchoStays
<1> QED
  BY <1>1, <1>2, <1>3, <1>4, <1>5, <1>6, <1>7, <1>8, <1>9, <1>10, LoopSteps DEF EchoNext, Echo

-----------------------------------------------------------------------------
\* The theorems of the echo server

EchoServerInv ==
    /\ Base /\ CenterOnly /\ ChainAlive /\ DataStillThere /\ NeverSendsNothing
    /\ StreamInv /\ EchoInv

\* The invariant of the echo server: it holds initially ...
LEMMA InitEcho == Init => EchoServerInv
<1> SUFFICES ASSUME Init PROVE EchoServerInv
  OBVIOUS
<1>1. Base
  BY InitBase
<1>2. /\ recvq = << >> /\ sendq = << >> /\ tasks = << >> /\ wire = << >> /\ turn = "connected"
      /\ got = << >> /\ peerRead = 0 /\ peerSent = 0 /\ buf.size = 0 /\ phase = "tasks"
  BY DEF Init, EmptyRing
<1>3. CenterOnly
  BY <1>2, SessionConstants DEF CenterOnly
<1>4. ChainAlive
  <2>1. Live = {}
    BY <1>2 DEF Live
  <2>2. Len(sendq) + Len(tasks) + (IF turn = "none" THEN 0 ELSE 1) = 1
    BY <1>2
  <2> QED
    BY <2>1, <2>2 DEF ChainAlive
<1>5. DataStillThere /\ NeverSendsNothing
  BY <1>2 DEF DataStillThere, NeverSendsNothing
<1>6. StreamInv
  BY <1>2 DEF StreamInv
<1>7. EchoInv
  <2>1. EchoPositions = {}
    BY <1>2 DEF EchoPositions
  <2>2. Cardinality({}) = 0
    BY FS_EmptySet
  <2>3. EchoesInput
    BY <2>1 DEF EchoesInput
  <2>4. Cardinality(EchoPositions) = Len(got)
    BY <1>2, <2>1, <2>2
  <2> QED
    BY <1>2, <2>3, <2>4 DEF EchoInv
<1> QED
  BY <1>1, <1>3, <1>4, <1>5, <1>6, <1>7 DEF EchoServerInv

\* ... and every step keeps it.
LEMMA StepEcho == EchoServerInv /\ [EchoNext]_vars => EchoServerInv'
<1> SUFFICES ASSUME EchoServerInv, [EchoNext]_vars PROVE EchoServerInv'
  OBVIOUS
<1>1. Base /\ CenterOnly /\ ChainAlive /\ DataStillThere /\ NeverSendsNothing /\ StreamInv /\ EchoInv
  BY DEF EchoServerInv
<1>2. Base'
  BY <1>1, EchoStepBase
<1>3. CenterOnly' /\ StreamInv'
  BY <1>1, EchoStepCenter, EchoStepStream
<1>4. ChainAlive'
  BY <1>1, <1>2, EchoStepChain
<1>5. DataStillThere' /\ NeverSendsNothing'
  BY <1>1, <1>2, EchoStepData
<1>6. EchoInv'
  BY <1>1, <1>2, EchoStepEcho
<1> QED
  BY <1>2, <1>3, <1>4, <1>5, <1>6 DEF EchoServerInv

\* So it always holds.
LEMMA EchoAlways == EchoSpec => []EchoServerInv
  BY InitEcho, StepEcho, PTL DEF EchoSpec

\* The chain of functions of echo_proc neither forks nor ends while the session is open,
\* whatever the order of data, timers, partial writes, failures and tasks.
THEOREM EchoChainAlive == EchoSpec => []ChainAlive
<1>1. EchoServerInv => ChainAlive
  BY DEF EchoServerInv
<1> QED
  BY <1>1, EchoAlways, PTL

\* The function that copies the buffer never finds it empty, so no packet of length 0
\* reaches ff_write.
THEOREM EchoSendsSomething == EchoSpec => []NeverSendsNothing
<1>1. EchoServerInv => NeverSendsNothing
  BY DEF EchoServerInv
<1> QED
  BY <1>1, EchoAlways, PTL

\* As long as ff_read never meets unconsumed bytes, the peer gets its own bytes back, each
\* once and in order, between whole or partly written timeout messages.
THEOREM EchoesEveryByte == EchoSpec => []EchoesInputUnlessOverrun
<1>1. EchoServerInv => EchoesInputUnlessOverrun
  BY DEF EchoServerInv, EchoInv, EchoesInputUnlessOverrun
<1> QED
  BY <1>1, EchoAlways, PTL

=============================================================================
