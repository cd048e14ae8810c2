-------------------------- MODULE TcpListenerProofs --------------------------
(***************************************************************************)
(* Proofs about TcpListener, for any number of accept loops, connections,  *)
(* sessions and descriptors.                                               *)
(***************************************************************************)
EXTENDS TcpListener, TLAPS

(* The two lists hold consecutive numbers that end at the newest caller and  *)
(* at the newest session.  This is what makes MatchedInOrder inductive: the  *)
(* heads of the lists are the oldest caller and the oldest session, and both *)
(* are the successor of the number of pairs already made.                    *)
CallersConsecutive ==
    \A i \in 1..Len(waiting_tasks) : waiting_tasks[i] = Len(matched) + i

SessionsConsecutive ==
    \A i \in 1..Len(waiting_connections) :
        waiting_connections[i] = Len(matched) + i

IInv ==
    /\ TypeOK
    /\ NobodyWaitsForNothing
    /\ MatchedInOrder
    /\ NothingLost
    /\ CallersConsecutive
    /\ SessionsConsecutive
    /\ BacklogCoversLoop

-----------------------------------------------------------------------------

(* Removing the first entry of a list shifts the others down by one. *)
LEMMA TailShifts ==
    ASSUME NEW S, NEW q \in Seq(S), q # << >>
    PROVE  /\ Tail(q) \in Seq(S) /\ Head(q) \in S /\ Head(q) = q[1]
           /\ Len(Tail(q)) = Len(q) - 1 /\ Len(q) \in Nat \ {0}
           /\ \A i \in 1..Len(Tail(q)) : Tail(q)[i] = q[i + 1]
  OBVIOUS

(* Adding an entry at the end of a list leaves the others alone. *)
LEMMA AppendKeeps ==
    ASSUME NEW S, NEW q \in Seq(S), NEW e \in S
    PROVE  /\ Append(q, e) \in Seq(S) /\ Len(Append(q, e)) = Len(q) + 1
           /\ Len(q) \in Nat
           /\ Append(q, e)[Len(q) + 1] = e
           /\ \A i \in 1..Len(q) : Append(q, e)[i] = q[i]
  OBVIOUS

(* A list of consecutive numbers stays one when the next number is added and *)
(* when the first is removed.                                                *)
LEMMA ConsecutiveAppend ==
    ASSUME NEW q \in Seq(Nat), NEW n \in Nat, \A i \in 1..Len(q) : q[i] = n + i,
           NEW e \in Nat, e = n + Len(q) + 1
    PROVE  /\ Append(q, e) \in Seq(Nat) /\ Len(Append(q, e)) = Len(q) + 1
           /\ \A i \in 1..Len(Append(q, e)) : Append(q, e)[i] = n + i
  BY AppendKeeps

\* Numbers in a row stay in a row without the first.
LEMMA ConsecutiveTail ==
    ASSUME NEW q \in Seq(Nat), NEW n \in Nat, \A i \in 1..Len(q) : q[i] = n + i,
           q # << >>
    PROVE  /\ Tail(q) \in Seq(Nat) /\ Len(Tail(q)) = Len(q) - 1
           /\ Head(q) = n + 1
           /\ \A i \in 1..Len(Tail(q)) : Tail(q)[i] = (n + 1) + i
  OBVIOUS

(* The next pair in order keeps the record of pairs in order. *)
LEMMA MatchedAppend ==
    ASSUME NEW m \in Seq(Nat \X Nat), \A k \in 1..Len(m) : m[k] = <<k, k>>
    PROVE  LET a == Append(m, <<Len(m) + 1, Len(m) + 1>>)
           IN  /\ a \in Seq(Nat \X Nat) /\ Len(a) = Len(m) + 1
               /\ \A k \in 1..Len(a) : a[k] = <<k, k>>
  <1>1. Len(m) \in Nat /\ <<Len(m) + 1, Len(m) + 1>> \in Nat \X Nat
    OBVIOUS
  <1> QED
    BY <1>1, AppendKeeps

(* main has submitted the accept loops and no connection is there yet. *)
LEMMA InitEstablishes == Init => IInv
  <1> SUFFICES ASSUME Init PROVE IInv
    OBVIOUS
  <1>1. waiting_tasks \in Seq(Nat) /\ Len(waiting_tasks) = Loops
    BY ListenerConstants DEF Init
  <1>2. TypeOK
    BY <1>1, ListenerConstants DEF Init, TypeOK
  <1> QED
    BY <1>1, <1>2, ListenerConstants
    DEF Init, IInv, NobodyWaitsForNothing, MatchedInOrder, NothingLost,
        CallersConsecutive, SessionsConsecutive, BacklogCoversLoop

(* A caller that waits again takes the oldest queued session or queues up. *)
LEMMA ScheduleKeeps ==
    ASSUME IInv, NEW ts \in Seq([kind : {"served", "again"}, session : Nat]),
           Schedule(ts)
    PROVE  /\ NobodyWaitsForNothing' /\ MatchedInOrder' /\ NothingLost'
           /\ CallersConsecutive' /\ SessionsConsecutive'
           /\ waiting_tasks' \in Seq(Nat) /\ waiting_connections' \in Seq(Nat)
           /\ asked' \in Nat /\ accepted' \in Seq(Nat)
           /\ matched' \in Seq(Nat \X Nat)
           /\ tasks' \in Seq([kind : {"served", "again"}, session : Nat])
  <1> DEFINE n == Len(matched)
  <1>1. /\ waiting_tasks \in Seq(Nat) /\ waiting_connections \in Seq(Nat)
        /\ asked \in Nat /\ accepted \in Seq(Nat) /\ matched \in Seq(Nat \X Nat)
    BY DEF IInv, TypeOK
  <1>2. n \in Nat
    BY <1>1
  <1>3. /\ n + Len(waiting_tasks) = asked
        /\ n + Len(waiting_connections) = Len(accepted)
    BY DEF IInv, NothingLost
  <1>4. asked' = asked + 1 /\ asked' \in Nat /\ accepted' = accepted
    BY <1>1 DEF Schedule, NoSession, FrontOf
  <1>5. CASE waiting_connections = << >>
    <2>1. /\ waiting_tasks' = Append(waiting_tasks, asked + 1) /\ tasks' = ts
          /\ UNCHANGED <<waiting_connections, matched>>
      BY <1>5 DEF Schedule, NoSession, FrontOf
    <2>2. /\ waiting_tasks' \in Seq(Nat)
          /\ Len(waiting_tasks') = Len(waiting_tasks) + 1
          /\ CallersConsecutive'
      <3>1. \A i \in 1..Len(waiting_tasks) : waiting_tasks[i] = n + i
        BY DEF IInv, CallersConsecutive
      <3>2. asked + 1 = n + Len(waiting_tasks) + 1 /\ asked + 1 \in Nat
        BY <1>1, <1>3
      <3> QED
        BY <1>1, <1>2, <2>1, <3>1, <3>2, ConsecutiveAppend, ZenonT(30) DEF CallersConsecutive
    <2>3. NothingLost'
      BY <1>1, <1>2, <1>3, <1>4, <2>1, <2>2 DEF NothingLost
    <2> QED
      BY <1>1, <1>4, <1>5, <2>1, <2>2, <2>3
      DEF IInv, NobodyWaitsForNothing, MatchedInOrder, SessionsConsecutive
  <1>6. CASE waiting_connections # << >>
    <2> DEFINE s == Head(waiting_connections)
    <2>1. /\ matched' = Append(matched, <<asked + 1, s>>)
          /\ tasks' = Append(ts, Served(s))
          /\ waiting_connections' = Tail(waiting_connections)
          /\ UNCHANGED waiting_tasks
      BY <1>6 DEF Schedule, NoSession, FrontOf
    <2>2. waiting_tasks = << >>
      BY <1>6 DEF IInv, NobodyWaitsForNothing
    <2>3. asked = n
      BY <1>2, <1>3, <2>2
    <2>4. /\ s = n + 1 /\ waiting_connections' \in Seq(Nat)
          /\ Len(waiting_connections') = Len(waiting_connections) - 1
          /\ \A i \in 1..Len(waiting_connections') :
                waiting_connections'[i] = (n + 1) + i
      <3>1. \A i \in 1..Len(waiting_connections) : waiting_connections[i] = n + i
        BY DEF IInv, SessionsConsecutive
      <3> QED
        BY <1>1, <1>2, <1>6, <2>1, <3>1, ConsecutiveTail
    <2>5. matched' = Append(matched, <<n + 1, n + 1>>)
      BY <2>1, <2>3, <2>4
    <2>6. /\ matched' \in Seq(Nat \X Nat) /\ Len(matched') = n + 1
          /\ MatchedInOrder'
      BY <1>1, <1>2, <2>5, MatchedAppend DEF IInv, MatchedInOrder
    <2>7. tasks' \in Seq([kind : {"served", "again"}, session : Nat])
      BY <1>2, <2>1, <2>4, AppendKeeps DEF Served
    <2>8. SessionsConsecutive' /\ CallersConsecutive' /\ NobodyWaitsForNothing'
      BY <2>1, <2>2, <2>4, <2>6
      DEF SessionsConsecutive, CallersConsecutive, NobodyWaitsForNothing
    <2>9. NothingLost'
      BY <1>1, <1>2, <1>3, <1>4, <2>1, <2>2, <2>4, <2>6 DEF NothingLost
    <2> QED
      BY <1>1, <1>4, <2>1, <2>4, <2>6, <2>7, <2>8, <2>9
  <1> QED
    BY <1>5, <1>6

(* One accepted connection goes to the oldest caller or is queued. *)
LEMMA OnAcceptKeeps == IInv /\ OnAccept => IInv'
  <1> SUFFICES ASSUME IInv, OnAccept PROVE IInv'
    OBVIOUS
  <1> DEFINE n == Len(matched)
             s == Len(accepted) + 1
  <1>1. TypeOK /\ n \in Nat /\ s \in Nat
    BY DEF IInv, TypeOK
  <1>2. /\ n + Len(waiting_tasks) = asked
        /\ n + Len(waiting_connections) = Len(accepted)
    BY DEF IInv, NothingLost
  <1>3. /\ Accept.fd \in Nat /\ Accept.fds \in Nat
        /\ Accept.taken \in Nat /\ Accept.taken <= taken + 1
    BY <1>1 DEF Accept, BadFd, TypeOK
  <1>4. accepted' \in Seq(Nat) /\ Len(accepted') = s
    BY <1>1, <1>3, AppendKeeps DEF OnAccept, TypeOK
  <1>5. /\ taken' \in Nat /\ fds' \in Nat /\ left' \in Nat
        /\ taken' + left' <= taken + left
    BY <1>1, <1>3, SMTT(30) DEF OnAccept, TypeOK
  <1>6. UNCHANGED <<open, arrived, asked, handled, budget, phase>>
    BY DEF OnAccept
  <1>7. BacklogCoversLoop'
    BY <1>1, <1>3 DEF OnAccept, IInv, BacklogCoversLoop, TypeOK
  <1>8. CASE waiting_tasks = << >>
    <2>1. /\ waiting_connections' = Append(waiting_connections, s)
          /\ UNCHANGED <<waiting_tasks, matched, tasks>>
      BY <1>8 DEF OnAccept
    <2>2. /\ waiting_connections' \in Seq(Nat)
          /\ Len(waiting_connections') = Len(waiting_connections) + 1
          /\ SessionsConsecutive'
      <3>1. \A i \in 1..Len(waiting_connections) : waiting_connections[i] = n + i
        BY DEF IInv, SessionsConsecutive
      <3>2. s = n + Len(waiting_connections) + 1
        BY <1>2
      <3>3. waiting_connections \in Seq(Nat)
        BY <1>1 DEF TypeOK
      <3> QED
        BY <1>1, <2>1, <3>1, <3>2, <3>3, ConsecutiveAppend DEF SessionsConsecutive
    <2>3. TypeOK'
      BY <1>1, <1>4, <1>5, <1>6, <2>1, <2>2 DEF TypeOK
    <2>4. NothingLost'
      <3>1. /\ Len(matched') = n /\ Len(waiting_tasks') = Len(waiting_tasks) /\ asked' = asked
            /\ Len(waiting_connections) \in Nat /\ Len(accepted) \in Nat
        BY <1>1, <1>6, <2>1 DEF TypeOK
      <3>2. Len(matched') + Len(waiting_tasks') = asked'
        BY <1>2, <3>1
      <3>3. Len(matched') + Len(waiting_connections') = Len(accepted')
        <4> HIDE DEF n
        <4>1. n \in Nat /\ Len(accepted') = Len(accepted) + 1
          BY <1>1, <1>4
        <4> QED
          BY <1>2, <2>2, <3>1, <4>1, SMTT(30)
      <3> QED
        BY <3>2, <3>3 DEF NothingLost
    <2> QED
      BY <1>7, <1>8, <2>1, <2>2, <2>3, <2>4
      DEF IInv, NobodyWaitsForNothing, MatchedInOrder, CallersConsecutive
  <1>9. CASE waiting_tasks # << >>
    <2> DEFINE w == Head(waiting_tasks)
    <2>1. /\ matched' = Append(matched, <<w, s>>)
          /\ tasks' = Append(tasks, Served(s))
          /\ waiting_tasks' = Tail(waiting_tasks)
          /\ UNCHANGED waiting_connections
      BY <1>9 DEF OnAccept
    <2>2. waiting_connections = << >>
      BY <1>9 DEF IInv, NobodyWaitsForNothing
    <2>3. s = n + 1
      BY <1>1, <1>2, <2>2
    <2>4. /\ w = n + 1 /\ waiting_tasks' \in Seq(Nat)
          /\ Len(waiting_tasks') = Len(waiting_tasks) - 1
          /\ \A i \in 1..Len(waiting_tasks') : waiting_tasks'[i] = (n + 1) + i
      <3>1. \A i \in 1..Len(waiting_tasks) : waiting_tasks[i] = n + i
        BY DEF IInv, CallersConsecutive
      <3>2. waiting_tasks \in Seq(Nat)
        BY <1>1 DEF TypeOK
      <3> QED
        BY <1>1, <1>9, <2>1, <3>1, <3>2, ConsecutiveTail
    <2>5. matched' = Append(matched, <<n + 1, n + 1>>)
      BY <2>1, <2>3, <2>4
    <2>6. /\ matched' \in Seq(Nat \X Nat) /\ Len(matched') = n + 1
          /\ MatchedInOrder'
      BY <1>1, <2>5, MatchedAppend DEF IInv, MatchedInOrder, TypeOK
    <2>7. tasks' \in Seq([kind : {"served", "again"}, session : Nat])
      BY <1>1, <2>1, AppendKeeps DEF Served, TypeOK
    <2>8. TypeOK'
      BY <1>1, <1>4, <1>5, <1>6, <2>1, <2>4, <2>6, <2>7 DEF TypeOK
    <2>9. SessionsConsecutive' /\ CallersConsecutive' /\ NobodyWaitsForNothing'
      BY <2>1, <2>2, <2>4, <2>6
      DEF SessionsConsecutive, CallersConsecutive, NobodyWaitsForNothing
    <2>10. NothingLost'
      <3>1. Len(waiting_tasks) \in Nat /\ Len(waiting_connections) = 0
        BY <1>1, <2>2 DEF TypeOK
      <3> QED
        BY <1>1, <1>2, <1>4, <1>6, <2>1, <2>3, <2>4, <2>6, <3>1 DEF NothingLost
    <2> QED
      BY <1>7, <2>6, <2>8, <2>9, <2>10 DEF IInv
  <1> QED
    BY <1>8, <1>9

(* Every other step leaves the lists and the pairs alone. *)
LEMMA QueuesUntouchedKeeps ==
    IInv /\ UNCHANGED queues /\ TypeOK' /\ BacklogCoversLoop' => IInv'
  BY DEF IInv, queues, NobodyWaitsForNothing, MatchedInOrder, NothingLost,
         CallersConsecutive, SessionsConsecutive

\* Every step keeps the invariant.
LEMMA NextKeeps == IInv /\ [Next]_vars => IInv'
  <1> SUFFICES ASSUME IInv, [Next]_vars PROVE IInv'
    OBVIOUS
  <1> DEFINE TaskList == Seq([kind : {"served", "again"}, session : Nat])
  <1> USE DEF TypeOK, BacklogCoversLoop
  <1>0. TypeOK /\ BacklogCoversLoop
    BY DEF IInv
  <1>1. CASE Arrive
    BY <1>0, <1>1, QueuesUntouchedKeeps DEF Arrive, queues
  <1>2. CASE SessionClose
    BY <1>0, <1>2, QueuesUntouchedKeeps DEF SessionClose, queues
  <1>3. CASE Poll
    <2>1. left' \in Nat /\ taken' + left' <= arrived'
      BY <1>0, <1>3 DEF Poll, Iterations, kernel
    <2> QED
      BY <1>0, <1>3, <2>1, QueuesUntouchedKeeps DEF Poll, Iterations, queues, kernel
  <1>4. CASE OnAccept
    BY <1>4, OnAcceptKeeps
  <1>5. CASE OnEof
    BY <1>0, <1>5, QueuesUntouchedKeeps DEF OnEof, queues
  <1>6. CASE StartTasks
    BY <1>0, <1>6, QueuesUntouchedKeeps DEF StartTasks, queues, kernel
  <1>7. CASE RunServed
    <2>1. tasks \in TaskList /\ tasks # << >> /\ Again \in [kind : {"served", "again"}, session : Nat]
      BY <1>0, <1>7 DEF RunServed, Again, More, AgainAfter
    <2>2. Head(tasks).session \in Nat /\ budget' \in Nat
      <3>1. Head(tasks) \in [kind : {"served", "again"}, session : Nat]
        BY <2>1, TailShifts
      <3> QED
        BY <1>0, <1>7, <3>1 DEF RunServed, More, AgainAfter
    <2>3. handled' \in Seq(Nat)
      BY <1>0, <1>7, <2>2, AppendKeeps DEF RunServed, More, AgainAfter
    <2>4. tasks' \in TaskList
      <3>1. Append(tasks, Again) \in TaskList /\ Append(tasks, Again) # << >>
        BY <2>1, AppendKeeps
      <3> QED
        BY <1>7, <3>1, TailShifts DEF RunServed, More, AgainAfter
    <2> QED
      BY <1>0, <1>7, <2>2, <2>3, <2>4, QueuesUntouchedKeeps
      DEF RunServed, More, AgainAfter, queues, kernel
  <1>8. CASE RunAgain
    <2>1. Tail(tasks) \in TaskList
      BY <1>0, <1>8, TailShifts DEF RunAgain, More
    <2>2. Schedule(Tail(tasks)) /\ budget' \in Nat
      BY <1>0, <1>8 DEF RunAgain, More
    <2>3. /\ NobodyWaitsForNothing' /\ MatchedInOrder' /\ NothingLost'
          /\ CallersConsecutive' /\ SessionsConsecutive'
          /\ waiting_tasks' \in Seq(Nat) /\ waiting_connections' \in Seq(Nat)
          /\ asked' \in Nat /\ accepted' \in Seq(Nat)
          /\ matched' \in Seq(Nat \X Nat) /\ tasks' \in TaskList
      BY <2>1, <2>2, ScheduleKeeps
    <2>4. UNCHANGED <<open, arrived, taken, fds, handled, phase, left>>
      BY <1>8 DEF RunAgain, More, kernel
    <2> QED
      BY <1>0, <2>2, <2>3, <2>4 DEF IInv
  <1>9. CASE EndTasks
    BY <1>0, <1>9, QueuesUntouchedKeeps DEF EndTasks, queues, kernel
  <1>10. CASE UNCHANGED vars
    BY <1>0, <1>10, QueuesUntouchedKeeps DEF vars, queues
  <1> QED
    BY <1>1, <1>2, <1>3, <1>4, <1>5, <1>6, <1>7, <1>8, <1>9, <1>10 DEF Next, Loop

(* The inductive invariant holds of every reachable state. *)
LEMMA Invariance == Spec => []IInv
  BY InitEstablishes, NextKeeps, PTL DEF Spec

(* Every variable of the listener keeps its type, in particular the counters *)
(* of the event callback and of run() never go below zero.                   *)
THEOREM TypeCorrect == Spec => []TypeOK
  <1>1. IInv => TypeOK
    BY DEF IInv
  <1> QED
    BY <1>1, Invariance, PTL

(* schedule() and the event callback never leave a caller waiting beside a   *)
(* session that waits.                                                       *)
THEOREM NoIdlePair == Spec => []NobodyWaitsForNothing
  <1>1. IInv => NobodyWaitsForNothing
    BY DEF IInv
  <1> QED
    BY <1>1, Invariance, PTL

(* The k-th wait_connect gets the k-th session, once.                        *)
THEOREM InOrder == Spec => []MatchedInOrder
  <1>1. IInv => MatchedInOrder
    BY DEF IInv
  <1> QED
    BY <1>1, Invariance, PTL

(* The event callback never calls ff_accept more often than the event counted. *)
THEOREM AcceptCovered == Spec => []BacklogCoversLoop
  <1>1. IInv => BacklogCoversLoop
    BY DEF IInv
  <1> QED
    BY <1>1, Invariance, PTL

-----------------------------------------------------------------------------

(* A step of the listener is a step of the rendezvous or changes nothing that *)
(* the rendezvous sees.  The invariant tells the two which of them is left    *)
(* over: a caller is queued exactly when more have asked than were offered.   *)
LEMMA StepRefines == IInv /\ [Next]_vars => [R!Next]_R!vars
  <1> SUFFICES ASSUME IInv, [Next]_vars PROVE [R!Next]_R!vars
    OBVIOUS
  <1>1. /\ waiting_tasks \in Seq(Nat) /\ waiting_connections \in Seq(Nat)
        /\ Len(matched) \in Nat /\ asked \in Nat /\ Len(accepted) \in Nat
        /\ accepted \in Seq(Nat)
    BY DEF IInv, TypeOK
  <1>2. /\ Len(matched) + Len(waiting_tasks) = asked
        /\ Len(matched) + Len(waiting_connections) = Len(accepted)
    BY DEF IInv, NothingLost
  <1>3. CASE OnAccept
    <2>1. Len(accepted') = Len(accepted) + 1 /\ asked' = asked
      BY <1>1, <1>3 DEF OnAccept, Accept
    <2>2. CASE waiting_tasks = << >>
      <3>1. matched' = matched
        BY <1>3, <2>2 DEF OnAccept
      <3>2. ~(asked > Len(accepted))
        BY <1>1, <1>2, <2>2
      <3> QED
        BY <2>1, <3>1, <3>2 DEF R!Next, R!Offer
    <2>3. CASE waiting_tasks # << >>
      <3>1. matched' = Append(matched, <<Head(waiting_tasks), Len(accepted) + 1>>)
        BY <1>3, <2>3 DEF OnAccept
      <3>2. waiting_connections = << >> /\ Len(waiting_tasks) \in Nat \ {0}
        BY <1>1, <2>3 DEF IInv, NobodyWaitsForNothing
      <3>3. Len(accepted) = Len(matched) /\ asked > Len(accepted)
        BY <1>1, <1>2, <3>2
      <3>4. Head(waiting_tasks) = Len(accepted) + 1
        BY <1>1, <2>3, <3>2, <3>3 DEF IInv, CallersConsecutive
      <3> QED
        BY <2>1, <3>1, <3>3, <3>4 DEF R!Next, R!Offer
    <2> QED
      BY <2>2, <2>3
  <1>4. CASE RunAgain
    <2>1. Schedule(Tail(tasks)) /\ asked' = asked + 1 /\ accepted' = accepted
      BY <1>4 DEF RunAgain, Schedule, NoSession, FrontOf
    <2>2. CASE waiting_connections = << >>
      <3>1. matched' = matched
        BY <2>1, <2>2 DEF Schedule, NoSession, FrontOf
      <3>2. ~(Len(accepted) > asked)
        BY <1>1, <1>2, <2>2
      <3> QED
        BY <2>1, <3>1, <3>2 DEF R!Next, R!Ask
    <2>3. CASE waiting_connections # << >>
      <3>1. matched' = Append(matched, <<asked + 1, Head(waiting_connections)>>)
        BY <2>1, <2>3 DEF Schedule, NoSession, FrontOf
      <3>2. waiting_tasks = << >> /\ Len(waiting_connections) \in Nat \ {0}
        BY <1>1, <2>3 DEF IInv, NobodyWaitsForNothing
      <3>3. asked = Len(matched) /\ Len(accepted) > asked
        BY <1>1, <1>2, <3>2
      <3>4. Head(waiting_connections) = asked + 1
        BY <1>1, <2>3, <3>2, <3>3 DEF IInv, SessionsConsecutive
      <3> QED
        BY <2>1, <3>1, <3>3, <3>4 DEF R!Next, R!Ask
    <2> QED
      BY <2>2, <2>3
  <1>5. CASE UNCHANGED <<asked, accepted, matched>>
    BY <1>5 DEF R!vars
  <1> QED
    BY <1>3, <1>4, <1>5
    DEF Next, Loop, Arrive, SessionClose, Poll, OnEof, StartTasks, RunServed,
        EndTasks, vars, queues

(* The listener implements the abstract rendezvous: the k-th caller gets the *)
(* k-th session, at the step at which the second of the two is there.        *)
THEOREM Refinement == Spec => ImplementsRendezvous
  <1>1. Init => R!Init
    BY ListenerConstants DEF Init, R!Init
  <1> QED
    BY <1>1, StepRefines, Invariance, PTL DEF Spec, ImplementsRendezvous, R!Spec

(***************************************************************************)
(* No interleaving of arrivals, failures and the two hops through the task *)
(* center loses or doubles an accept loop (wait_connect_proc).             *)
(***************************************************************************)
THEOREM LoopsStay == Spec => []LoopsConserved
<1>1. Init => LoopsConserved
  <2> SUFFICES ASSUME Init PROVE LoopsConserved
    OBVIOUS
  <2>1. Len([i \in 1..Loops |-> i]) = Loops
    BY ListenerConstants
  <2> QED
    BY <2>1, ListenerConstants DEF Init, LoopsConserved
<1>2. TypeOK /\ LoopsConserved /\ [Next]_vars => LoopsConserved'
  <2> SUFFICES ASSUME TypeOK, LoopsConserved, [Next]_vars PROVE LoopsConserved'
    OBVIOUS
  <2> USE DEF LoopsConserved
  <2> DEFINE Task == [kind : {"served", "again"}, session : Nat]
  <2>1. tasks \in Seq(Task) /\ waiting_tasks \in Seq(Nat)
    BY DEF TypeOK
  <2>2. Again \in Task /\ \A x \in Nat : Served(x) \in Task
    BY DEF Again, Served
  <2> HIDE DEF Task
  <2>3. CASE OnAccept
    <3>1. Served(Len(accepted) + 1) \in Task
      BY <2>2 DEF TypeOK
    <3> QED
      <4>1. CASE waiting_tasks = << >>
        BY <2>3, <4>1 DEF OnAccept
      <4>2. CASE waiting_tasks # << >>
        <5>1. tasks' = Append(tasks, Served(Len(accepted) + 1)) /\ waiting_tasks' = Tail(waiting_tasks)
          BY <2>3, <4>2 DEF OnAccept
        <5>2. Len(tasks') = Len(tasks) + 1 /\ Len(tasks) \in Nat
          BY <2>1, <3>1, <5>1, AppendKeeps
        <5>3. Len(waiting_tasks') = Len(waiting_tasks) - 1 /\ Len(waiting_tasks) \in Nat
          BY <2>1, <4>2, <5>1, TailShifts
        <5> QED
          BY <5>2, <5>3
      <4> QED
        BY <4>1, <4>2
  <2>4. CASE RunServed
    <3>1. /\ Append(tasks, Again) \in Seq(Task) /\ Len(Append(tasks, Again)) = Len(tasks) + 1
          /\ Append(tasks, Again) # << >>
      BY <2>1, <2>2, AppendKeeps
    <3>2. Len(tasks') = Len(tasks)
      BY <2>1, <2>4, <3>1, TailShifts DEF RunServed, AgainAfter
    <3> QED
      BY <2>4, <3>2 DEF RunServed, queues
  <2>5. CASE RunAgain
    <3>1. /\ tasks # << >> /\ Tail(tasks) \in Seq(Task) /\ Len(Tail(tasks)) = Len(tasks) - 1
          /\ Len(tasks) \in Nat /\ Len(waiting_tasks) \in Nat
      BY <2>1, <2>5, TailShifts DEF RunAgain, More
    <3>2. CASE NoSession
      <4>1. Len(waiting_tasks') = Len(waiting_tasks) + 1 /\ tasks' = Tail(tasks)
        BY <2>1, <2>5, <3>2, AppendKeeps DEF RunAgain, Schedule, TypeOK
      <4> QED
        BY <3>1, <4>1
    <3>3. CASE ~NoSession
      <4>1. Served(FrontOf(waiting_connections)) \in Task
        BY <2>2, <3>3, TailShifts DEF NoSession, FrontOf, TypeOK
      <4>2. Len(tasks') = Len(Tail(tasks)) + 1 /\ waiting_tasks' = waiting_tasks
        BY <2>5, <3>1, <3>3, <4>1, AppendKeeps DEF RunAgain, Schedule
      <4> QED
        BY <3>1, <4>2
    <3> QED
      BY <3>2, <3>3
  <2>6. CASE Poll \/ StartTasks \/ EndTasks \/ Arrive \/ SessionClose \/ OnEof \/ UNCHANGED vars
    BY <2>6 DEF Poll, StartTasks, EndTasks, Arrive, SessionClose, OnEof, vars, queues
  <2> QED
    BY <2>3, <2>4, <2>5, <2>6 DEF Next, Loop
<1> QED
  BY <1>1, <1>2, TypeCorrect, PTL DEF Spec

=============================================================================
