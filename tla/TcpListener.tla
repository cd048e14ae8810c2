----------------------------- MODULE TcpListener -----------------------------
(***************************************************************************)
(* src/src/dpdk/net/tcp_listener.hh: the rendezvous between connections    *)
(* that the TCP stack completes and the flows that called wait_connect,    *)
(* driven by the engine's loop (engine.hh: poll events, run the task       *)
(* center) and by the accept loop of the applications (wait_connect_proc). *)
(*                                                                         *)
(* Everything runs on one thread.  The stack handles packets between two   *)
(* turns of the loop, so connections arrive only in phase "stack".  Every  *)
(* application moves its wait_connect flow to the task center, so that     *)
(* the trigge() the listener calls only queues the continuation.           *)
(***************************************************************************)
EXTENDS Integers, Sequences

CONSTANTS
    Loops,          \* accept loops an application starts on the listener
    MaxConn,        \* bound: connections the peers open
    MaxSessions,    \* bound: sessions the listener constructs
    FdLimit         \* file descriptors left for accepted connections

ASSUME ListenerConstants ==
    /\ Loops \in Nat \ {0}
    /\ MaxConn \in Nat
    /\ MaxSessions \in Nat
    /\ FdLimit \in Nat

VARIABLES
    open,                   \* the listening socket has not been closed
    arrived,                \* connections the stack has completed, 1..arrived
    taken,                  \* of these, the ones ff_accept has returned
    fds,                    \* descriptors of accepted connections now open
    waiting_tasks,          \* callers waiting, by number
    waiting_connections,    \* sessions nobody has asked for, by number
    asked,                  \* wait_connect flows submitted
    accepted,               \* session number -> its connection, or BadFd
    matched,                \* pairs <<caller, session>> in the order of trigge()
    handled,                \* sessions whose continuation has run, in order
    tasks,                  \* the task center's list
    budget,                 \* len of global_task_center::run
    phase,                  \* where the loop is
    left                    \* iterations left in the listener's event callback

vars == <<open, arrived, taken, fds, waiting_tasks, waiting_connections, asked,
          accepted, matched, handled, tasks, budget, phase, left>>

queues == <<waiting_tasks, waiting_connections, asked, accepted, matched>>

kernel == <<open, arrived, taken, fds>>

\* What ff_accept returns when it fails; the listener does not look at it.
BadFd == 0

\* The continuation of a wait_connect flow that got session s, and the second
\* step of the accept loop, which waits again.
Served(s) == [kind |-> "served", session |-> s]
Again     == [kind |-> "again", session |-> 0]

\* Mutated form: the sessions that wait are not looked at.
NoSessionEver == TRUE

NoSession == waiting_connections = << >>
FrontOf(q) == Head(q)

(***************************************************************************)
(* tcp_listener::schedule, called when caller asked + 1 submits its flow.  *)
(* ts is the task list of the center once its caller has done its part.    *)
(***************************************************************************)
Schedule(ts) ==
    /\ asked' = asked + 1
    /\ \/ /\ NoSession
          /\ waiting_tasks' = Append(waiting_tasks, asked + 1)
          /\ tasks' = ts
          /\ UNCHANGED <<waiting_connections, matched>>
       \/ /\ ~NoSession
          /\ matched' = Append(matched, <<asked + 1, FrontOf(waiting_connections)>>)
          /\ tasks' = Append(ts, Served(FrontOf(waiting_connections)))
          /\ waiting_connections' = Tail(waiting_connections)
          /\ UNCHANGED waiting_tasks
    /\ UNCHANGED accepted

\* The accept loops were submitted by main before engine_run.
Init ==
    /\ open = TRUE /\ arrived = 0 /\ taken = 0 /\ fds = 0
    /\ waiting_tasks = [i \in 1..Loops |-> i]
    /\ waiting_connections = << >>
    /\ asked = Loops
    /\ accepted = << >> /\ matched = << >> /\ handled = << >>
    /\ tasks = << >> /\ budget = 0
    /\ phase = "stack" /\ left = 0

-----------------------------------------------------------------------------
(* The stack and the peers. *)

\* A peer completes a connection; it waits in the backlog of the socket.
Arrive ==
    /\ phase = "stack" /\ open
    /\ arrived < MaxConn
    /\ arrived' = arrived + 1
    /\ UNCHANGED <<open, taken, fds, queues, handled, tasks, budget, phase, left>>

\* A session that holds a descriptor is closed and gives it back.
SessionClose ==
    /\ phase = "stack"
    /\ fds > 0
    /\ fds' = fds - 1
    /\ UNCHANGED <<open, arrived, taken, queues, handled, tasks, budget, phase, left>>

-----------------------------------------------------------------------------
(* The engine's loop: poll, run the callback of the listener, run the tasks. *)

\* The callback's loop: as often as event.data says, the backlog at the poll.
Iterations == arrived - taken

\* ff_kevent reports the number of connections in the backlog as event.data.
Poll ==
    /\ phase = "stack"
    /\ phase' = "events"
    /\ left' = IF open /\ arrived > taken
                  /\ Len(accepted) + (arrived - taken) <= MaxSessions
               THEN Iterations ELSE 0
    /\ UNCHANGED <<kernel, queues, handled, tasks, budget>>

\* ff_accept: the oldest connection, or a failure when no descriptor is left
\* (the connection then stays in the backlog).
Accept ==
    IF fds < FdLimit
    THEN [fd |-> taken + 1, taken |-> taken + 1, fds |-> fds + 1]
    ELSE [fd |-> BadFd, taken |-> taken, fds |-> fds]

\* One iteration of the callback: construct a session from whatever ff_accept
\* returned, and hand it to the first caller or queue it.
OnAccept ==
    /\ phase = "events" /\ left > 0
    /\ left' = left - 1
    /\ taken' = Accept.taken /\ fds' = Accept.fds
    /\ accepted' = Append(accepted, Accept.fd)
    /\ \/ /\ waiting_tasks = << >>
          /\ waiting_connections' = Append(waiting_connections, Len(accepted) + 1)
          /\ UNCHANGED <<waiting_tasks, matched, tasks>>
       \/ /\ waiting_tasks # << >>
          /\ matched' = Append(matched, <<Head(waiting_tasks), Len(accepted) + 1>>)
          /\ tasks' = Append(tasks, Served(Len(accepted) + 1))
          /\ waiting_tasks' = Tail(waiting_tasks)
          /\ UNCHANGED waiting_connections
    /\ UNCHANGED <<open, arrived, asked, handled, budget, phase>>

\* The callback with EV_EOF: the socket is closed, the backlog is gone.
OnEof ==
    /\ phase = "events" /\ left = 0 /\ open
    /\ open' = FALSE
    /\ UNCHANGED <<arrived, taken, fds, queues, handled, tasks, budget, phase, left>>

\* run() takes the length of the list once; tasks added meanwhile wait.
StartTasks ==
    /\ phase = "events" /\ left = 0
    /\ phase' = "tasks"
    /\ budget' = Len(tasks)
    /\ UNCHANGED <<kernel, queues, handled, tasks, left>>

\* Mutated form: the accept loop does not wait again.
StopAfter(ts) == ts

More == budget > 0 /\ tasks # << >>
AgainAfter(ts) == Append(ts, Again)

\* The first step of the accept loop has its session: it starts the session's
\* protocol and activates the second step, which the center runs later.
RunServed ==
    /\ phase = "tasks" /\ More
    /\ Head(tasks).kind = "served"
    /\ handled' = Append(handled, Head(tasks).session)
    /\ tasks' = Tail(AgainAfter(tasks))
    /\ budget' = budget - 1
    /\ UNCHANGED <<kernel, queues, phase, left>>

\* The second step calls wait_connect_proc again.
RunAgain ==
    /\ phase = "tasks" /\ More
    /\ Head(tasks).kind = "again"
    /\ Schedule(Tail(tasks))
    /\ budget' = budget - 1
    /\ UNCHANGED <<kernel, handled, phase, left>>

EndTasks ==
    /\ phase = "tasks"
    /\ budget = 0 \/ tasks = << >>
    /\ phase' = "stack" /\ budget' = 0
    /\ UNCHANGED <<kernel, queues, handled, tasks, left>>

-----------------------------------------------------------------------------

Loop == Poll \/ OnAccept \/ StartTasks \/ RunServed \/ RunAgain \/ EndTasks

Next == Loop \/ Arrive \/ SessionClose \/ OnEof

Spec == Init /\ [][Next]_vars

\* The loop never stops: ff_run calls it for as long as the process lives.
FairSpec == Spec /\ WF_vars(Loop)

-----------------------------------------------------------------------------
(* Properties. *)

TypeOK ==
    /\ open \in BOOLEAN
    /\ arrived \in Nat /\ taken \in Nat /\ fds \in Nat
    /\ waiting_tasks \in Seq(Nat) /\ waiting_connections \in Seq(Nat)
    /\ asked \in Nat
    /\ accepted \in Seq(Nat)
    /\ matched \in Seq(Nat \X Nat)
    /\ handled \in Seq(Nat)
    /\ tasks \in Seq([kind : {"served", "again"}, session : Nat])
    /\ budget \in Nat /\ left \in Nat
    /\ phase \in {"stack", "events", "tasks"}

\* schedule() and the event callback never leave a caller waiting beside a
\* session that waits: a connection that arrives while a caller is queued goes
\* to it, and a caller that comes while a session is queued takes it.
NobodyWaitsForNothing == waiting_tasks = << >> \/ waiting_connections = << >>

\* The k-th wait_connect gets the k-th session the listener constructed:
\* nothing is handed out twice, nothing is skipped and nobody is overtaken,
\* whichever of the two sides the queueing happens on.
MatchedInOrder == \A k \in 1..Len(matched) : matched[k] = <<k, k>>

\* The event callback never accepts more often than there are connections: the
\* count in the event is still covered by the backlog at each iteration, so no
\* session is built on a failed ff_accept while descriptors are left.
BacklogCoversLoop == taken + left <= arrived

\* Every caller is still queued or has been given a session, and every session
\* is still queued or has been given to a caller.
NothingLost ==
    /\ Len(matched) + Len(waiting_tasks) = asked
    /\ Len(matched) + Len(waiting_connections) = Len(accepted)

\* The accept loops neither die nor multiply: each is at exactly one place, as
\* a queued caller or as a task of the center.
LoopsConserved == Len(waiting_tasks) + Len(tasks) = Loops

\* The listener is a rendezvous in the sense of the abstract specification.
R == INSTANCE Rendezvous WITH offered <- Len(accepted)

ImplementsRendezvous == R!Spec

\* A connection the stack completed reaches the continuation of a caller, as
\* long as the listener stays open: no interleaving of arrivals, re-arming and
\* the two hops through the task center strands it, unless ff_accept has failed
\* for want of a descriptor (tcp_listener.hh:57 takes the failure for a session).
EveryConnectionHandled ==
    \A c \in 1..MaxConn :
        arrived >= c ~> \/ ~open
                       \/ \E i \in 1..Len(accepted) : accepted[i] = BadFd
                       \/ \E k \in 1..Len(handled) : accepted[handled[k]] = c

=============================================================================
