----------------------------- MODULE EchoServer -----------------------------
(***************************************************************************)
(* src/app/echo/main.cc: echo_proc on top of TcpSession.  Each function    *)
(* passed to then() is one action; all of them run from the task center    *)
(* (to_schedule), so none is nested in an event handler.                   *)
(***************************************************************************)
EXTENDS TcpSession, FiniteSets

CONSTANT TimeoutText    \* the bytes of "time out"

\* A byte's number tells where it comes from: those of the peer are 1 to MaxIn.
ASSUME EchoConstants ==
    /\ TimeoutText \in Seq(Nat) /\ Len(TimeoutText) > 0
    /\ \A i \in 1..Len(TimeoutText) : TimeoutText[i] > MaxIn

\* echo_proc: wait_packet(timeout), continued by the task center.  It is called
\* for a new connection and after each packet that has been sent.
EchoProc ==
    /\ turn \in {"connected", "sent"}
    /\ Register(0, TRUE, "center", "none")
    /\ waits' = waits + 1
    /\ UNCHANGED <<state, wEnabled, buf, sendq, frame, loopVars, sockVars, sendVars,
                   recvVars>>

\* Mutated form: the buffer is consumed before it is copied.
CopyAfter == Peek(Consume(buf, buf.size), buf.size)

\* The copy of all of the buffer.
Copy == Peek(buf, buf.size)

\* The first function: all of the buffer is copied, consumed and sent.
OnData ==
    /\ turn = "data" /\ turn' = "none"
    /\ Enqueue(Copy, "center")
    /\ got' = got \o Copy
    /\ buf' = Consume(buf, buf.size)
    /\ UNCHANGED <<state, recvq, frame, tasks, loopVars, sockVars, waits, wire, lost,
                   overrun>>

\* The first function after a timeout.
OnTimeout ==
    /\ turn = "timeout" /\ turn' = "none"
    /\ Enqueue(TimeoutText, "center")
    /\ UNCHANGED <<state, buf, recvq, frame, tasks, loopVars, sockVars, waits, wire,
                   lost, recvVars>>

\* The second function when the packet could not be sent.
OnFailed ==
    /\ turn = "failed" /\ turn' = "none"
    /\ DoClose
    /\ UNCHANGED <<buf, recvq, sendq, frame, tasks, loopVars, sockVars, waits, sendVars,
                   recvVars>>

Echo == EchoProc \/ OnData \/ OnTimeout \/ OnFailed

\* Bound: the timer of a wait fires only while MaxWaits waits have not been made.
Timers == \E i \in 1..Len(recvq) : waits < MaxWaits /\ FireTimer(i)

EchoNext == Stack \/ Loop \/ Echo \/ Timers

EchoSpec == Init /\ [][EchoNext]_vars

\* As in TcpSession, but nothing is assumed of timers.
EchoFairSpec ==
    /\ EchoSpec
    /\ WF_vars(Loop) /\ WF_vars(Echo)
    /\ SF_vars(\E n \in 1..TxCap : PeerAcks(n))

-----------------------------------------------------------------------------
(* Properties. *)

\* Where in the stream that the peer gets back the bytes that are not of a timeout
\* message are, and those of them up to position p.
EchoPositions ==
    { p \in 1..Len(wire) : \A i \in 1..Len(TimeoutText) : wire[p] # TimeoutText[i] }
EchoedUpTo(p) == { q \in EchoPositions : q <= p }

\* The server sends back the bytes that it got, each once and in order: the k-th
\* byte of the echo is the k-th byte of the peer.
EchoesInput == \A p \in EchoPositions : wire[p] = Cardinality(EchoedUpTo(p))

\* It does so as long as no read meets unconsumed bytes: waits, timeouts, partial
\* writes and the task center's delay do not disturb the stream.
EchoesInputUnlessOverrun == ~overrun => EchoesInput

Live == { i \in 1..Len(recvq) : ~recvq[i].called }

\* The chain of functions never forks and never ends while the session is open:
\* exactly one of a wait, a queued function, a packet and a running function keeps
\* it going, whichever of data and timer comes first.
ChainAlive ==
    \/ /\ Len(sendq) + Len(tasks) + (IF turn = "none" THEN 0 ELSE 1) = 1 /\ Live = {}
    \/ /\ sendq = << >> /\ tasks = << >> /\ turn = "none"
       /\ \E i \in 1..Len(recvq) : Live = {i}
    \/ /\ sendq = << >> /\ tasks = << >> /\ turn = "none" /\ Live = {} /\ state = 0

\* A packet of length 0, whose ff_write would return 0 with an old errno, is
\* never sent: the function that copies the buffer finds it non-empty.
NeverSendsNothing == turn = "data" => buf.size > 0

\* Every byte the peer sends is answered by a byte, or the session ends.
EveryByteAnswered ==
    \A k \in 1..MaxIn : peerSent >= k ~> Cardinality(EchoPositions) >= k \/ state = 0

=============================================================================
