----------------------------- MODULE FlowProofs -----------------------------
(***************************************************************************)
(* Proofs about Flow, for any set of flows and any number of functions in  *)
(* each.                                                                   *)
(***************************************************************************)
EXTENDS Flow, SequenceTheorems, WellFoundedInduction, TLAPS

TaskSet  == [kind : {"trig", "act"}, node : Node]
FrameSet == [node : Node, spawned : BOOLEAN]

(* Task i is a function that is queued and not being executed. *)
Waiting(i) == tasks[i].kind = "act" /\ ~(running /\ i = 1)

(* The list holds tasks of live flows; a queued function belongs to a node  *)
(* that has been triggered and has not run, and is queued once.             *)
TasksLive == \A i \in 1..Len(tasks) : tasks[i].node[1] \in live

QueuedTriggered ==
    \A i \in 1..Len(tasks) :
        tasks[i].kind = "act" => called[tasks[i].node] /\ HasAct(tasks[i].node)

QueuedNotRun == \A i \in 1..Len(tasks) : Waiting(i) => runs[tasks[i].node] = 0

QueuedOnce ==
    \A i, j \in 1..Len(tasks) :
        Waiting(i) /\ Waiting(j) /\ tasks[i].node = tasks[j].node => i = j

(* The task being executed is still in the list and counts as run. *)
HeadRuns ==
    running => /\ tasks # << >>
               /\ tasks[1].kind = "act" => runs[tasks[1].node] = 1

(* What runs was triggered, and runs once. *)
RanOnce == \A n \in Node : runs[n] \in {0, 1} /\ (runs[n] = 1 => called[n])

(* A flow that has not been built, or has been destroyed, is untouched. *)
DeadUntouched == \A n \in Node : n[1] \notin live => ~called[n] /\ runs[n] = 0

(* A triggered node with a function ran it or has it in the list. *)
RanOrWaiting ==
    \A n \in Node :
        called[n] /\ HasAct(n) =>
            runs[n] = 1 \/ \E i \in 1..Len(tasks) : Waiting(i) /\ tasks[i].node = n

(* References lead to live flows; only inner flows have a forwarding node. *)
StackLive ==
    \A i \in 1..Len(stack) :
        stack[i].node[1] \in live /\ HasAct(stack[i].node)

PendLive == \A p \in pend : p[1] \in live

ParentLive == \A g \in live : parent[g] # None => parent[g][1] \in live

TaskInv ==
    /\ TasksLive /\ QueuedTriggered /\ QueuedNotRun /\ QueuedOnce /\ HeadRuns
    /\ RanOnce /\ DeadUntouched /\ RanOrWaiting

IInv == TypeOK /\ TaskInv /\ StackLive /\ PendLive /\ ParentLive

-----------------------------------------------------------------------------
(* Facts about lists. *)

\* What appending to a sequence does to its elements.
LEMMA AppendFacts ==
    ASSUME NEW S, NEW q \in Seq(S), NEW e \in S
    PROVE  /\ Append(q, e) \in Seq(S) /\ Len(Append(q, e)) = Len(q) + 1
           /\ Len(q) \in Nat /\ Append(q, e) # << >>
           /\ Append(q, e)[Len(q) + 1] = e
           /\ \A i \in 1..Len(q) : Append(q, e)[i] = q[i]
  OBVIOUS

\* The tail of a sequence, element by element.
LEMMA TailFacts ==
    ASSUME NEW S, NEW q \in Seq(S), q # << >>
    PROVE  /\ Tail(q) \in Seq(S) /\ Head(q) \in S /\ Head(q) = q[1]
           /\ Len(Tail(q)) = Len(q) - 1 /\ Len(q) \in Nat \ {0}
           /\ \A i \in 1..Len(Tail(q)) : Tail(q)[i] = q[i + 1]
  OBVIOUS

\* A sequence without its last element.
LEMMA PopFacts ==
    ASSUME NEW S, NEW q \in Seq(S), q # << >>
    PROVE  /\ Pop(q) \in Seq(S) /\ Len(Pop(q)) = Len(q) - 1
           /\ Len(q) \in Nat \ {0} /\ q[Len(q)] \in S
           /\ \A i \in 1..Len(Pop(q)) : Pop(q)[i] = q[i]
  <1>1. Len(q) \in Nat \ {0}
    OBVIOUS
  <1>2. \A i \in 1..Len(q) : q[i] \in S
    OBVIOUS
  <1> DEFINE k == Len(q) - 1
  <1>3. k \in Nat /\ \A i \in 1..k : q[i] \in S
    BY <1>1, <1>2
  <1> HIDE DEF k
  <1>4. /\ SubSeq(q, 1, k) \in Seq(S)
        /\ Len(SubSeq(q, 1, k)) = IF 1 <= k THEN k - 1 + 1 ELSE 0
        /\ \A i \in 1..(k - 1 + 1) : SubSeq(q, 1, k)[i] = q[1 + i - 1]
    BY <1>3, SubSeqProperties
  <1>5. Len(SubSeq(q, 1, k)) = k /\ \A i \in 1..k : SubSeq(q, 1, k)[i] = q[i]
    BY <1>3, <1>4
  <1> QED
    BY <1>1, <1>2, <1>4, <1>5 DEF Pop, k

\* The tasks of the list are typed.
LEMMA TaskFacts ==
    ASSUME TypeOK
    PROVE  /\ tasks \in Seq(TaskSet)
           /\ \A i \in 1..Len(tasks) : tasks[i] \in TaskSet /\ tasks[i].node \in Node
  <1>1. tasks \in Seq(TaskSet)
    BY DEF TypeOK, TaskSet
  <1>2. \A i \in 1..Len(tasks) : tasks[i] \in TaskSet
    BY <1>1
  <1> QED
    BY <1>1, <1>2 DEF TaskSet

\* The frames of the call stack are typed.
LEMMA FrameFacts ==
    ASSUME TypeOK
    PROVE  /\ stack \in Seq(FrameSet)
           /\ \A i \in 1..Len(stack) : stack[i] \in FrameSet /\ stack[i].node \in Node
  <1>1. stack \in Seq(FrameSet)
    BY DEF TypeOK, FrameSet
  <1>2. \A i \in 1..Len(stack) : stack[i] \in FrameSet
    BY <1>1
  <1> QED
    BY <1>1, <1>2 DEF FrameSet

(* Nodes are pairs of a flow and a position. *)
LEMMA NodeFacts ==
    /\ \A f \in Flow : <<f, 1>> \in Node /\ <<f, 1>>[1] = f /\ <<f, 1>>[2] <= Depth
    /\ \A n \in Node : /\ n[1] \in Flow
                        /\ ~IsForward(n) => Next1(n) \in Node /\ Next1(n)[1] = n[1]
    /\ None \notin Node
  BY FlowConstants DEF Node, IsForward, Next1

\* The node behind one of a flow is of the same flow.
LEMMA Next1Facts ==
    ASSUME NEW n \in Node, ~IsForward(n)
    PROVE  Next1(n) \in Node /\ Next1(n)[1] = n[1]
  BY FlowConstants DEF Node, IsForward, Next1

-----------------------------------------------------------------------------
(* How the queue and the nodes may change.  KeepsFlows says what all of these  *)
(* changes have in common: flows are only added, live flows keep their shape,  *)
(* and a task starts to be executed only if it is a submission.                *)

KeepsFlows ==
    /\ live \subseteq live'
    /\ \A m \in Node : m[1] \in live => (HasAct(m)' <=> HasAct(m))
    /\ \/ running' <=> running
       \/ running' /\ tasks # << >> /\ tasks[1].kind = "trig"

(* Nothing that concerns the queue changes. *)
LEMMA KeepQueue ==
    ASSUME TypeOK, TaskInv, KeepsFlows, UNCHANGED <<called, runs, tasks>>
    PROVE  TaskInv'
  <1> USE DEF TaskInv
  <1>1. \A i \in 1..Len(tasks) : Waiting(i)' <=> Waiting(i)
    BY DEF KeepsFlows, Waiting
  <1>2. tasks \in Seq(TaskSet) /\ \A i \in 1..Len(tasks) : tasks[i].node \in Node
    BY TaskFacts
  <1>3. TasksLive' /\ QueuedTriggered'
    BY <1>2 DEF KeepsFlows, TasksLive, QueuedTriggered
  <1>4. QueuedNotRun' /\ QueuedOnce'
    BY <1>1 DEF QueuedNotRun, QueuedOnce
  <1>5. HeadRuns'
    <2>1. CASE running' /\ tasks # << >> /\ tasks[1].kind = "trig"
      BY <2>1 DEF HeadRuns
    <2>2. CASE running' <=> running
      BY <2>2 DEF HeadRuns
    <2> QED
      BY <2>1, <2>2 DEF KeepsFlows
  <1>6. RanOnce' /\ DeadUntouched'
    BY DEF KeepsFlows, RanOnce, DeadUntouched
  <1>7. RanOrWaiting'
    <2> SUFFICES ASSUME NEW n \in Node, called'[n], HasAct(n)'
                 PROVE  runs'[n] = 1 \/ \E i \in 1..Len(tasks') : Waiting(i)' /\ tasks'[i].node = n
      BY DEF RanOrWaiting
    <2>1. n[1] \in live
      BY DEF DeadUntouched
    <2> QED
      BY <1>1, <2>1 DEF RanOrWaiting, KeepsFlows
  <1> QED
    BY <1>3, <1>4, <1>5, <1>6, <1>7

(* A node without a function is triggered. *)
LEMMA MarkCalled ==
    ASSUME TypeOK, TaskInv, KeepsFlows, UNCHANGED <<runs, tasks>>,
           NEW n \in Node, n[1] \in live', ~HasAct(n)',
           called' = [called EXCEPT ![n] = TRUE]
    PROVE  TaskInv'
  <1> USE DEF TaskInv
  <1>1. \A i \in 1..Len(tasks) : Waiting(i)' <=> Waiting(i)
    BY DEF KeepsFlows, Waiting
  <1>2. tasks \in Seq(TaskSet) /\ \A i \in 1..Len(tasks) : tasks[i].node \in Node
    BY TaskFacts
  <1>3. \A m \in Node : called[m] => called'[m]
    BY DEF TypeOK
  <1>4. TasksLive' /\ QueuedTriggered'
    BY <1>2, <1>3 DEF KeepsFlows, TasksLive, QueuedTriggered
  <1>5. QueuedNotRun' /\ QueuedOnce'
    BY <1>1 DEF QueuedNotRun, QueuedOnce
  <1>6. HeadRuns'
    <2>1. CASE running' /\ tasks # << >> /\ tasks[1].kind = "trig"
      BY <2>1 DEF HeadRuns
    <2>2. CASE running' <=> running
      BY <2>2 DEF HeadRuns
    <2> QED
      BY <2>1, <2>2 DEF KeepsFlows
  <1>7. RanOnce'
    BY <1>3 DEF RanOnce
  <1>8. \A m \in Node : m # n => called'[m] = called[m]
    BY DEF TypeOK
  <1>9. DeadUntouched'
    BY <1>8 DEF KeepsFlows, DeadUntouched
  <1>10. RanOrWaiting'
    <2> SUFFICES ASSUME NEW m \in Node, called'[m], HasAct(m)'
                 PROVE  runs'[m] = 1 \/ \E i \in 1..Len(tasks') : Waiting(i)' /\ tasks'[i].node = m
      BY DEF RanOrWaiting
    <2>1. m # n /\ called[m]
      BY <1>8
    <2>2. m[1] \in live
      BY <2>1 DEF DeadUntouched
    <2> QED
      BY <1>1, <2>1, <2>2 DEF RanOrWaiting, KeepsFlows
  <1> QED
    BY <1>4, <1>5, <1>6, <1>7, <1>9, <1>10

(* A node that has not been triggered is triggered and its function called. *)
LEMMA CallNow ==
    ASSUME TypeOK, TaskInv, KeepsFlows, UNCHANGED tasks,
           NEW n \in Node, n[1] \in live', ~called[n],
           called' = [called EXCEPT ![n] = TRUE],
           runs' = [runs EXCEPT ![n] = @ + 1]
    PROVE  TaskInv'
  <1> USE DEF TaskInv
  <1>1. \A i \in 1..Len(tasks) : Waiting(i)' <=> Waiting(i)
    BY DEF KeepsFlows, Waiting
  <1>2. tasks \in Seq(TaskSet) /\ \A i \in 1..Len(tasks) : tasks[i].node \in Node
    BY TaskFacts
  <1>3. /\ \A m \in Node : called[m] => called'[m]
        /\ \A m \in Node : m # n => called'[m] = called[m] /\ runs'[m] = runs[m]
        /\ called'[n] /\ runs[n] = 0 /\ runs'[n] = 1
    BY DEF TypeOK, RanOnce
  <1>4. \A i \in 1..Len(tasks) : tasks[i].kind = "act" => tasks[i].node # n
    BY DEF QueuedTriggered
  <1>5. TasksLive' /\ QueuedTriggered'
    BY <1>2, <1>3 DEF KeepsFlows, TasksLive, QueuedTriggered
  <1>6. QueuedNotRun' /\ QueuedOnce'
    BY <1>1, <1>2, <1>3, <1>4 DEF QueuedNotRun, QueuedOnce, Waiting
  <1>7. HeadRuns'
    <2>1. CASE running' /\ tasks # << >> /\ tasks[1].kind = "trig"
      BY <2>1 DEF HeadRuns
    <2>2. CASE running' <=> running
      <3> SUFFICES ASSUME running' PROVE HeadRuns'
        BY DEF HeadRuns
      <3>1. tasks # << >> /\ 1 \in 1..Len(tasks)
        BY <1>2, <2>2 DEF HeadRuns
      <3> QED
        BY <1>2, <1>3, <1>4, <2>2, <3>1 DEF HeadRuns
    <2> QED
      BY <2>1, <2>2 DEF KeepsFlows
  <1>8. RanOnce'
    BY <1>3 DEF RanOnce
  <1>9. DeadUntouched'
    BY <1>3 DEF KeepsFlows, DeadUntouched
  <1>10. RanOrWaiting'
    <2> SUFFICES ASSUME NEW m \in Node, called'[m], HasAct(m)', m # n
                 PROVE  runs'[m] = 1 \/ \E i \in 1..Len(tasks') : Waiting(i)' /\ tasks'[i].node = m
      BY <1>3 DEF RanOrWaiting
    <2>1. called[m] /\ m[1] \in live /\ runs'[m] = runs[m]
      BY <1>3 DEF DeadUntouched
    <2> QED
      BY <1>1, <2>1 DEF RanOrWaiting, KeepsFlows
  <1> QED
    BY <1>5, <1>6, <1>7, <1>8, <1>9, <1>10

(* A task t is queued: a submission, or the function of node n, which is *)
(* triggered at the same time.                                           *)
LEMMA QueueTask ==
    ASSUME TypeOK, TaskInv, KeepsFlows, UNCHANGED runs,
           NEW t \in TaskSet, tasks' = Append(tasks, t), t.node[1] \in live',
           \/ t.kind = "trig" /\ UNCHANGED called
           \/ /\ t.kind = "act" /\ ~called[t.node] /\ HasAct(t.node)'
              /\ called' = [called EXCEPT ![t.node] = TRUE]
    PROVE  TaskInv'
  <1> USE DEF TaskInv
  <1> DEFINE n == t.node
  <1>0. /\ tasks \in Seq(TaskSet) /\ \A i \in 1..Len(tasks) : tasks[i].node \in Node
        /\ n \in Node /\ Len(tasks) \in Nat
    BY TaskFacts DEF TaskSet
  <1> PICK k \in Nat : k = Len(tasks) + 1
    BY <1>0
  <1>1. /\ tasks \in Seq(TaskSet) /\ \A i \in 1..Len(tasks) : tasks[i].node \in Node
        /\ n \in Node /\ k \in Nat /\ Len(tasks) \in Nat /\ k = Len(tasks) + 1
    BY <1>0
  <1>2. /\ Len(tasks') = k /\ tasks'[k] = t /\ tasks' # << >>
        /\ \A i \in 1..Len(tasks) : tasks'[i] = tasks[i]
    BY <1>1, AppendFacts
  <1>3. /\ \A m \in Node : called[m] => called'[m]
        /\ \A m \in Node : called'[m] => called[m] \/ (m = n /\ t.kind = "act")
        /\ t.kind = "act" => called'[n] /\ ~called[n] /\ runs[n] = 0
    <2>1. CASE t.kind = "trig" /\ UNCHANGED called
      BY <2>1
    <2>2. CASE /\ t.kind = "act" /\ ~called[n]
               /\ called' = [called EXCEPT ![n] = TRUE]
      BY <1>1, <2>2 DEF TypeOK, RanOnce
    <2> QED
      BY <2>1, <2>2
  <1>4. \A i \in 1..Len(tasks) : tasks[i].kind = "act" => called[tasks[i].node]
    BY DEF QueuedTriggered
  <1>5. \A i \in 1..k : i \in 1..Len(tasks) \/ i = k
    BY <1>1
  <1>6. \A i \in 1..Len(tasks) : Waiting(i)' <=> Waiting(i)
    <2> SUFFICES ASSUME NEW i \in 1..Len(tasks) PROVE Waiting(i)' <=> Waiting(i)
      OBVIOUS
    <2>1. tasks'[i] = tasks[i]
      BY <1>2
    <2> QED
      BY <2>1 DEF KeepsFlows, Waiting
  <1>7. TasksLive'
    BY <1>2, <1>5 DEF KeepsFlows, TasksLive
  <1>8. QueuedTriggered'
    <2> SUFFICES ASSUME NEW i \in 1..k, tasks'[i].kind = "act"
                 PROVE  called'[tasks'[i].node] /\ HasAct(tasks[i].node)'
      BY <1>2 DEF QueuedTriggered
    <2>1. CASE i = k
      <3>1. HasAct(n)' => HasAct(tasks[i].node)'
        BY <1>2, <2>1 DEF HasAct
      <3> QED
        BY <1>2, <1>3, <2>1, <3>1
    <2>2. CASE i \in 1..Len(tasks)
      <3>1. tasks'[i] = tasks[i] /\ tasks[i].node \in Node /\ tasks[i].node[1] \in live
        BY <1>1, <1>2, <2>2 DEF TasksLive
      <3>2. called[tasks[i].node] /\ HasAct(tasks[i].node)
        BY <2>2, <3>1 DEF QueuedTriggered
      <3>3. HasAct(tasks[i].node)'
        BY <3>1, <3>2 DEF KeepsFlows, HasAct
      <3> QED
        BY <1>3, <3>1, <3>2, <3>3
    <2> QED
      BY <1>5, <2>1, <2>2
  <1>9. QueuedNotRun'
    <2> SUFFICES ASSUME NEW i \in 1..k, Waiting(i)' PROVE runs[tasks'[i].node] = 0
      BY <1>2 DEF QueuedNotRun
    <2>1. CASE i = k
      BY <1>2, <1>3, <2>1 DEF Waiting
    <2>2. CASE i \in 1..Len(tasks)
      BY <1>2, <1>6, <2>2 DEF QueuedNotRun
    <2> QED
      BY <1>5, <2>1, <2>2
  <1>10. QueuedOnce'
    <2> SUFFICES ASSUME NEW i \in 1..k, NEW j \in 1..k, Waiting(i)', Waiting(j)',
                        tasks'[i].node = tasks'[j].node
                 PROVE  i = j
      BY <1>2 DEF QueuedOnce
    <2>1. \A l \in 1..Len(tasks) : Waiting(l)' => ~(t.kind = "act" /\ tasks'[l].node = n)
      BY <1>2, <1>3, <1>4 DEF Waiting
    <2>2. CASE i = k
      BY <1>2, <1>5, <2>1, <2>2 DEF Waiting
    <2>3. CASE j = k
      BY <1>2, <1>5, <2>1, <2>3 DEF Waiting
    <2>4. CASE i \in 1..Len(tasks) /\ j \in 1..Len(tasks)
      BY <1>2, <1>6, <2>4 DEF QueuedOnce
    <2> QED
      BY <1>5, <2>2, <2>3, <2>4
  <1>11. HeadRuns'
    <2> SUFFICES ASSUME running' PROVE HeadRuns'
      BY DEF HeadRuns
    <2>1. tasks # << >>
      BY DEF KeepsFlows, HeadRuns
    <2>2. 1 \in 1..Len(tasks) /\ tasks'[1] = tasks[1]
      BY <1>1, <1>2, <2>1
    <2>3. tasks[1].kind = "act" => running
      BY DEF KeepsFlows
    <2> QED
      BY <1>2, <2>2, <2>3 DEF HeadRuns
  <1>12. RanOnce' /\ DeadUntouched'
    BY <1>3 DEF KeepsFlows, RanOnce, DeadUntouched
  <1>13. RanOrWaiting'
    <2> SUFFICES ASSUME NEW m \in Node, called'[m], HasAct(m)'
                 PROVE  runs[m] = 1 \/ \E i \in 1..k : Waiting(i)' /\ tasks'[i].node = m
      BY <1>2 DEF RanOrWaiting
    <2>1. CASE called[m]
      <3>1. m[1] \in live
        BY <2>1 DEF DeadUntouched
      <3>2. runs[m] = 1 \/ \E i \in 1..Len(tasks) : Waiting(i) /\ tasks[i].node = m
        BY <2>1, <3>1 DEF RanOrWaiting, KeepsFlows
      <3> QED
        BY <1>1, <1>2, <1>6, <3>2
    <2>2. CASE m = n /\ t.kind = "act"
      <3>1. ~(running' /\ k = 1)
        <4>1. k = 1 => tasks = << >>
          BY <1>1
        <4> QED
          BY <4>1 DEF KeepsFlows, HeadRuns
      <3>2. Waiting(k)' /\ tasks'[k].node = m
        BY <1>2, <2>2, <3>1 DEF Waiting
      <3> QED
        BY <1>1, <3>2
    <2> QED
      BY <1>3, <2>1, <2>2
  <1> QED
    BY <1>7, <1>8, <1>9, <1>10, <1>11, <1>12, <1>13

-----------------------------------------------------------------------------
(* The operations. *)

FramesOK(st) ==
    /\ st \in Seq(FrameSet)
    /\ \A i \in 1..Len(st) : st[i].node[1] \in live /\ HasAct(st[i].node)

(* trigge and active keep the invariant, whoever calls them. *)
LEMMA TriggeKeeps ==
    ASSUME IInv, NEW n \in Node, n[1] \in live, NEW v \in Values,
           NEW st, FramesOK(st), Trigge(n, v, st),
           UNCHANGED flowVars, KeepsFlows
    PROVE  /\ TaskInv' /\ StackLive'
           /\ called' \in [Node -> BOOLEAN] /\ value' \in [Node -> Values]
           /\ runs' \in [Node -> Nat]
           /\ tasks' \in Seq(TaskSet) /\ stack' \in Seq(FrameSet)
  <1>1. TypeOK /\ TaskInv /\ tasks \in Seq(TaskSet)
    BY TaskFacts DEF IInv
  <1>2. UNCHANGED <<live, parent, runner>>
    BY DEF flowVars
  <1>3. \A m : HasAct(m)' <=> HasAct(m)
    BY <1>2 DEF HasAct
  <1>4. ASSUME stack' = st PROVE StackLive' /\ stack' \in Seq(FrameSet)
    BY <1>2, <1>4 DEF FramesOK, StackLive, HasAct
  <1>5. CASE called[n]
    <2>1. UNCHANGED <<called, value, runs, tasks>> /\ stack' = st
      BY <1>5 DEF Trigge, AlreadyCalled, nodeVars
    <2> QED
      BY <1>1, <1>4, <2>1, KeepQueue DEF TypeOK
  <1>6. CASE ~called[n]
    <2>1. called' = [called EXCEPT ![n] = TRUE] /\ called' \in [Node -> BOOLEAN]
      BY <1>1, <1>6 DEF Trigge, AlreadyCalled, TypeOK
    <2>2. CASE ~HasAct(n)
      <3>1. UNCHANGED <<value, runs, tasks>> /\ stack' = st
        BY <1>6, <2>2 DEF Trigge, AlreadyCalled
      <3>2. TaskInv'
        BY <1>1, <1>2, <1>3, <2>1, <2>2, <3>1, MarkCalled
      <3> QED
        BY <1>1, <1>4, <2>1, <3>1, <3>2 DEF TypeOK
    <2>3. CASE HasAct(n) /\ runner[n[1]] = "immediate"
      <3>1. /\ value' = [value EXCEPT ![n] = v]
            /\ runs' = [runs EXCEPT ![n] = @ + 1]
            /\ stack' = Append(st, Frame(n)) /\ UNCHANGED tasks
        BY <1>6, <2>3 DEF Trigge, AlreadyCalled
      <3>2. TaskInv'
        BY <1>1, <1>2, <1>6, <2>1, <3>1, CallNow
      <3>3. Frame(n) \in FrameSet /\ Frame(n).node = n
        BY DEF Frame, FrameSet
      <3>4. /\ stack' \in Seq(FrameSet) /\ Len(stack') = Len(st) + 1 /\ Len(st) \in Nat
            /\ stack'[Len(st) + 1] = Frame(n)
            /\ \A i \in 1..Len(st) : stack'[i] = st[i]
        BY <3>1, <3>3, AppendFacts DEF FramesOK
      <3>5. StackLive'
        <4> SUFFICES ASSUME NEW i \in 1..(Len(st) + 1)
                     PROVE  stack'[i].node[1] \in live' /\ HasAct(stack[i].node)'
          BY <3>4 DEF StackLive
        <4>1. CASE i = Len(st) + 1
          <5>1. stack'[i].node = n
            BY <3>3, <3>4, <4>1
          <5> QED
            BY <1>2, <2>3, <5>1 DEF HasAct
        <4>2. CASE i \in 1..Len(st)
          <5>1. stack'[i] = st[i] /\ st[i].node[1] \in live /\ HasAct(st[i].node)
            BY <3>4, <4>2 DEF FramesOK
          <5> QED
            BY <1>2, <5>1 DEF HasAct
        <4> QED
          BY <3>4, <4>1, <4>2
      <3> QED
        BY <1>1, <2>1, <3>1, <3>2, <3>4, <3>5 DEF TypeOK
    <2>4. CASE HasAct(n) /\ runner[n[1]] = "center"
      <3>1. /\ value' = [value EXCEPT ![n] = v]
            /\ tasks' = Append(tasks, Act(n)) /\ stack' = st
            /\ UNCHANGED runs
        BY <1>6, <2>4 DEF Trigge, AlreadyCalled
      <3>2. Act(n) \in TaskSet /\ Act(n).node = n /\ Act(n).kind = "act"
        BY DEF Act, TaskSet
      <3>3. TaskInv'
        BY <1>1, <1>2, <1>3, <1>6, <2>1, <2>4, <3>1, <3>2, QueueTask
      <3> QED
        BY <1>1, <1>4, <2>1, <3>1, <3>2, <3>3, AppendFacts DEF TypeOK
    <2> QED
      BY <1>1, <2>2, <2>3, <2>4, NodeFacts DEF TypeOK
  <1> QED
    BY <1>5, <1>6

(* Building and submitting a flow keeps the invariant. *)
LEMMA SubmitKeeps ==
    ASSUME IInv, NEW g \in Flow, g \notin live, NEW p \in Node \cup {None},
           p # None => p[1] \in live,
           NEW kind \in Kinds, NEW st, FramesOK(st), Submit(g, p, kind, st),
           UNCHANGED <<running, budget, phase>>
    PROVE  IInv'
  <1>1. TypeOK /\ TaskInv /\ tasks \in Seq(TaskSet)
    BY TaskFacts DEF IInv
  <1>2. /\ kind[1] \in {"immediate", "center", "io", "both"}
        /\ kind[2] \in {"immediate", "center"}
    BY DEF Kinds
  <1>3. /\ live' = live \cup {g} /\ parent' = [parent EXCEPT ![g] = p]
        /\ runner' = [runner EXCEPT ![g] = kind[2]]
        /\ pend' = pend \cup ({g} \X Sources(kind[1]))
    BY DEF Submit
  <1>4. \A m \in Node : m[1] \in live => (HasAct(m)' <=> HasAct(m))
    BY <1>1, <1>3, NodeFacts DEF HasAct, TypeOK
  <1>5. KeepsFlows
    BY <1>3, <1>4 DEF KeepsFlows
  <1>6. /\ live' \subseteq Flow /\ parent' \in [Flow -> Node \cup {None}]
        /\ runner' \in [Flow -> {"immediate", "center"}]
    BY <1>1, <1>2, <1>3 DEF TypeOK
  <1>7. pend' \subseteq Flow \X {"io", "timer", "due"} /\ PendLive'
    <2>1. Sources(kind[1]) \subseteq {"io", "timer", "due"}
      BY <1>2 DEF Sources
    <2> QED
      BY <1>1, <1>3, <2>1 DEF TypeOK, IInv, PendLive
  <1>8. ParentLive'
    <2> SUFFICES ASSUME NEW h \in live', parent'[h] # None
                 PROVE  parent'[h][1] \in live'
      BY DEF ParentLive
    <2>1. CASE h = g
      BY <1>1, <1>3, <2>1 DEF TypeOK
    <2>2. CASE h # g
      BY <1>1, <1>3, <2>2 DEF TypeOK, IInv, ParentLive
    <2> QED
      BY <2>1, <2>2
  <1> DEFINE n == <<g, 1>>
  <1>9. n \in Node /\ n[1] = g /\ n[2] <= Depth
    BY NodeFacts
  <1>10. n[1] \in live' /\ HasAct(n)' /\ ~called[n]
    BY <1>1, <1>3, <1>9 DEF HasAct, TaskInv, DeadUntouched
  <1>11. ASSUME NEW i \in 1..Len(st)
         PROVE  st[i].node[1] \in live' /\ HasAct(st[i].node)' /\ st[i].node \in Node
    <2>1. st[i] \in FrameSet
      BY DEF FramesOK
    <2>2. st[i].node \in Node /\ st[i].node[1] \in live /\ HasAct(st[i].node)
      BY <2>1 DEF FramesOK, FrameSet
    <2> QED
      BY <1>3, <1>4, <2>2
  <1>12. ASSUME stack' = st PROVE StackLive' /\ stack' \in Seq(FrameSet)
    BY <1>11, <1>12 DEF FramesOK, StackLive, HasAct
  <1>13. CASE kind[1] = "immediate" /\ kind[2] = "immediate"
    <2>1. /\ called' = [called EXCEPT ![n] = TRUE]
          /\ value' = [value EXCEPT ![n] = "val"]
          /\ runs' = [runs EXCEPT ![n] = @ + 1]
          /\ stack' = Append(st, Frame(n)) /\ UNCHANGED tasks
      BY <1>13 DEF Submit
    <2>2. TaskInv'
      BY <1>1, <1>5, <1>9, <1>10, <2>1, CallNow
    <2>3. Frame(n) \in FrameSet /\ Frame(n).node = n
      BY <1>9 DEF Frame, FrameSet
    <2>4. /\ stack' \in Seq(FrameSet) /\ Len(stack') = Len(st) + 1 /\ Len(st) \in Nat
          /\ stack'[Len(st) + 1] = Frame(n)
          /\ \A i \in 1..Len(st) : stack'[i] = st[i]
      BY <2>1, <2>3, AppendFacts DEF FramesOK
    <2>5. StackLive'
      <3> SUFFICES ASSUME NEW i \in 1..(Len(st) + 1)
                   PROVE  stack'[i].node[1] \in live' /\ HasAct(stack[i].node)'
        BY <2>4 DEF StackLive
      <3>1. CASE i = Len(st) + 1
        <4>1. stack'[i].node = n
          BY <2>3, <2>4, <3>1
        <4> QED
          BY <1>10, <4>1 DEF HasAct
      <3>2. CASE i \in 1..Len(st)
        BY <1>11, <2>4, <3>2 DEF HasAct
      <3> QED
        BY <2>4, <3>1, <3>2
    <2>6. TypeOK'
      BY <1>1, <1>6, <1>7, <1>9, <2>1, <2>4 DEF TypeOK, FrameSet, Values
    <2> QED
      BY <1>7, <1>8, <2>2, <2>5, <2>6 DEF IInv
  <1>14. CASE kind[1] = "immediate" /\ kind[2] = "center"
    <2>1. /\ called' = [called EXCEPT ![n] = TRUE]
          /\ value' = [value EXCEPT ![n] = "val"]
          /\ tasks' = Append(tasks, Act(n)) /\ stack' = st /\ UNCHANGED runs
      BY <1>14 DEF Submit
    <2>2. Act(n) \in TaskSet /\ Act(n).node = n /\ Act(n).kind = "act"
      BY <1>9 DEF Act, TaskSet
    <2>3. TaskInv'
      BY <1>1, <1>5, <1>9, <1>10, <2>1, <2>2, QueueTask
    <2>4. tasks' \in Seq(TaskSet)
      BY <1>1, <2>1, <2>2, AppendFacts
    <2>5. TypeOK'
      BY <1>1, <1>6, <1>7, <1>9, <1>12, <2>1, <2>4
      DEF TypeOK, FrameSet, TaskSet, Values
    <2> QED
      BY <1>7, <1>8, <1>12, <2>1, <2>3, <2>5 DEF IInv
  <1>15. CASE kind[1] = "center"
    <2>1. /\ tasks' = Append(tasks, Trig(n)) /\ stack' = st
          /\ UNCHANGED <<called, value, runs>>
      BY <1>15 DEF Submit, nodeVars
    <2>2. Trig(n) \in TaskSet /\ Trig(n).node = n /\ Trig(n).kind = "trig"
      BY <1>9 DEF Trig, TaskSet
    <2>3. TaskInv'
      BY <1>1, <1>5, <1>9, <1>10, <2>1, <2>2, QueueTask
    <2>4. tasks' \in Seq(TaskSet)
      BY <1>1, <2>1, <2>2, AppendFacts
    <2>5. TypeOK'
      BY <1>1, <1>6, <1>7, <1>12, <2>1, <2>4 DEF TypeOK, FrameSet, TaskSet
    <2> QED
      BY <1>7, <1>8, <1>12, <2>1, <2>3, <2>5 DEF IInv
  <1>16. CASE kind[1] \in {"io", "both"}
    <2>1. stack' = st /\ UNCHANGED <<called, value, runs, tasks>>
      BY <1>16 DEF Submit, nodeVars
    <2>2. TaskInv'
      BY <1>1, <1>5, <2>1, KeepQueue
    <2>3. TypeOK'
      BY <1>1, <1>6, <1>7, <1>12, <2>1 DEF TypeOK, FrameSet
    <2> QED
      BY <1>7, <1>8, <1>12, <2>1, <2>2, <2>3 DEF IInv
  <1> QED
    BY <1>2, <1>13, <1>14, <1>15, <1>16

-----------------------------------------------------------------------------
(* The steps. *)

\* The initial states satisfy the invariant.
LEMMA InitEstablishes == Init => IInv
  <1> SUFFICES ASSUME Init PROVE IInv
    OBVIOUS
  <1>1. TypeOK
    <2>1. live \subseteq Flow /\ pend \subseteq Flow \X {"io", "timer", "due"}
      BY DEF Init
    <2>2. /\ parent \in [Flow -> Node \cup {None}]
          /\ runner \in [Flow -> {"immediate", "center"}]
          /\ called \in [Node -> BOOLEAN]
      BY DEF Init
    <2>3. value \in [Node -> Values] /\ runs \in [Node -> Nat]
      BY DEF Init, Values
    <2>4. running \in BOOLEAN /\ budget \in Nat /\ phase \in {"events", "timers", "tasks"}
      BY DEF Init
    <2>5. \A S : << >> \in Seq(S)
      OBVIOUS
    <2>6. tasks = << >> /\ stack = << >>
      BY DEF Init
    <2> QED
      BY <2>1, <2>2, <2>3, <2>4, <2>5, <2>6 DEF TypeOK
  <1>2. \A n \in Node : ~called[n] /\ runs[n] = 0
    BY DEF Init
  <1>3. TaskInv
    BY <1>2 DEF Init, TaskInv, TasksLive, QueuedTriggered, QueuedNotRun, QueuedOnce,
                HeadRuns, RanOnce, DeadUntouched, RanOrWaiting
  <1>4. StackLive /\ PendLive /\ ParentLive
    BY DEF Init, StackLive, PendLive, ParentLive
  <1> QED
    BY <1>1, <1>3, <1>4 DEF IInv

(* The stack without its top frame, and the facts about that frame. *)
LEMMA TopFacts ==
    ASSUME IInv, stack # << >>
    PROVE  /\ Top \in FrameSet /\ Top.node \in Node /\ Top.node[1] \in live
           /\ HasAct(Top.node) /\ FramesOK(Pop(stack))
  <1>1. stack \in Seq(FrameSet)
    BY FrameFacts DEF IInv
  <1>2. /\ Pop(stack) \in Seq(FrameSet) /\ Len(Pop(stack)) = Len(stack) - 1
        /\ Len(stack) \in Nat \ {0} /\ Top \in FrameSet
        /\ \A i \in 1..Len(Pop(stack)) : Pop(stack)[i] = stack[i]
    BY <1>1, PopFacts DEF Top
  <1>3. Top.node \in Node
    BY <1>2 DEF FrameSet
  <1>4. Top.node[1] \in live /\ HasAct(Top.node)
    BY <1>2 DEF Top, IInv, StackLive
  <1>5. FramesOK(Pop(stack))
    <2> SUFFICES ASSUME NEW i \in 1..Len(Pop(stack))
                 PROVE  /\ Pop(stack)[i].node[1] \in live
                        /\ HasAct(Pop(stack)[i].node)
      BY <1>2 DEF FramesOK
    <2>1. i \in 1..Len(stack) /\ Pop(stack)[i] = stack[i]
      BY <1>2
    <2> QED
      BY <2>1 DEF IInv, StackLive
  <1> QED
    BY <1>2, <1>3, <1>4, <1>5

(* A step that triggers node n and leaves the flows and the loop alone. *)
LEMMA TriggeStep ==
    ASSUME IInv, NEW n \in Node, n[1] \in live, NEW v \in Values,
           NEW st, FramesOK(st), Trigge(n, v, st), UNCHANGED flowVars,
           (running' <=> running) \/ (running' /\ tasks # << >> /\ tasks[1].kind = "trig"),
           pend' \subseteq pend, budget' \in Nat, running' \in BOOLEAN,
           UNCHANGED phase
    PROVE  IInv'
  <1>1. UNCHANGED <<live, parent, runner>>
    BY DEF flowVars
  <1>2. KeepsFlows
    BY <1>1 DEF KeepsFlows, HasAct
  <1>3. /\ TaskInv' /\ StackLive'
        /\ called' \in [Node -> BOOLEAN] /\ value' \in [Node -> Values]
        /\ runs' \in [Node -> Nat]
        /\ tasks' \in Seq(TaskSet) /\ stack' \in Seq(FrameSet)
    BY <1>2, TriggeKeeps
  <1>4. PendLive' /\ ParentLive'
    BY <1>1 DEF IInv, PendLive, ParentLive
  <1>5. TypeOK'
    BY <1>1, <1>3 DEF IInv, TypeOK, TaskSet, FrameSet
  <1> QED
    BY <1>3, <1>4, <1>5 DEF IInv

\* An inner flow that hands on its result keeps the invariant.
LEMMA ForwardKeeps == IInv /\ Forward => IInv'
  <1> SUFFICES ASSUME IInv, Forward PROVE IInv'
    OBVIOUS
  <1>1. TypeOK /\ stack # << >> /\ IsForward(Top.node)
    BY DEF IInv, Forward
  <1>2. /\ Top.node \in Node /\ Top.node[1] \in live
        /\ HasAct(Top.node) /\ FramesOK(Pop(stack))
    BY <1>1, TopFacts
  <1>3. parent[Top.node[1]] # None /\ Top.node[1] \in Flow
    BY <1>1, <1>2, FlowConstants DEF HasAct, IsForward, Node
  <1>4. parent[Top.node[1]] \in Node /\ parent[Top.node[1]][1] \in live
    BY <1>1, <1>2, <1>3 DEF IInv, ParentLive, TypeOK
  <1> PICK n \in Node : n = parent[Top.node[1]]
    BY <1>4
  <1> PICK v \in Values : v = value[Top.node]
    BY <1>1, <1>2 DEF TypeOK
  <1> PICK st : st = Pop(stack)
    OBVIOUS
  <1>5. Trigge(n, v, st) /\ UNCHANGED <<flowVars, running, budget, pend, phase>>
    BY DEF Forward
  <1> QED
    BY <1>1, <1>2, <1>4, <1>5, TriggeStep DEF TypeOK

\* A function that returns a value or throws keeps the invariant.
LEMMA FinishKeeps ==
    ASSUME IInv, NEW v \in {"val", "exc"}, Finish(v)
    PROVE  IInv'
  <1>1. TypeOK /\ stack # << >> /\ ~IsForward(Top.node) /\ v \in Values
    BY DEF IInv, Finish, Values
  <1>2. /\ Top.node \in Node /\ Top.node[1] \in live /\ FramesOK(Pop(stack))
    BY <1>1, TopFacts
  <1>3. Next1(Top.node) \in Node /\ Next1(Top.node)[1] \in live
    BY <1>1, <1>2, Next1Facts
  <1> PICK n \in Node : n = Next1(Top.node)
    BY <1>3
  <1> PICK st : st = Pop(stack)
    OBVIOUS
  <1>4. Trigge(n, v, st) /\ UNCHANGED <<flowVars, running, budget, pend, phase>>
    BY DEF Finish
  <1> QED
    BY <1>1, <1>2, <1>3, <1>4, TriggeStep DEF TypeOK

\* A function that returns a flow keeps the invariant.
LEMMA FinishInnerKeeps ==
    ASSUME IInv, NEW g \in Flow, NEW k \in Kinds, FinishInner(g, k)
    PROVE  IInv'
  <1>1. stack # << >> /\ ~IsForward(Top.node) /\ g \notin live
    BY DEF FinishInner
  <1>2. /\ Top.node \in Node /\ Top.node[1] \in live /\ FramesOK(Pop(stack))
    BY <1>1, TopFacts
  <1>3. Next1(Top.node) \in Node /\ Next1(Top.node)[1] \in live
    BY <1>1, <1>2, Next1Facts
  <1> PICK p \in Node \cup {None} : p = Next1(Top.node)
    BY <1>3
  <1> PICK st : st = Pop(stack)
    OBVIOUS
  <1>4. Submit(g, p, k, st) /\ UNCHANGED <<running, budget, phase>>
    BY DEF FinishInner
  <1> QED
    BY <1>1, <1>2, <1>3, <1>4, SubmitKeeps

\* A function that submits a flow of its own keeps the invariant.
LEMMA SpawnKeeps ==
    ASSUME IInv, NEW g \in Flow, NEW k \in Kinds, Spawn(g, k)
    PROVE  IInv'
  <1>1. stack # << >> /\ g \notin live
    BY DEF Spawn
  <1>2. /\ Top \in FrameSet /\ Top.node \in Node /\ Top.node[1] \in live
        /\ HasAct(Top.node) /\ FramesOK(Pop(stack))
    BY <1>1, TopFacts
  <1> DEFINE e == [Top EXCEPT !.spawned = TRUE]
  <1>3. e \in FrameSet /\ e.node = Top.node
    BY <1>2 DEF FrameSet
  <1> PICK st : st = Append(Pop(stack), e)
    OBVIOUS
  <1>4. FramesOK(st)
    <2>1. /\ st \in Seq(FrameSet) /\ Len(st) = Len(Pop(stack)) + 1
          /\ Len(Pop(stack)) \in Nat /\ st[Len(Pop(stack)) + 1] = e
          /\ \A i \in 1..Len(Pop(stack)) : st[i] = Pop(stack)[i]
      BY <1>2, <1>3, AppendFacts DEF FramesOK
    <2> SUFFICES ASSUME NEW i \in 1..Len(st)
                 PROVE  st[i].node[1] \in live /\ HasAct(st[i].node)
      BY <2>1 DEF FramesOK
    <2>2. CASE i = Len(Pop(stack)) + 1
      BY <1>2, <1>3, <2>1, <2>2
    <2>3. CASE i \in 1..Len(Pop(stack))
      BY <1>2, <2>1, <2>3 DEF FramesOK
    <2> QED
      BY <2>1, <2>2, <2>3
  <1>5. Submit(g, None, k, st) /\ UNCHANGED <<running, budget, phase>>
    BY DEF Spawn
  <1> QED
    BY <1>1, <1>4, <1>5, SubmitKeeps

(* A flow nothing refers to is destroyed. *)
LEMMA DestroyKeeps ==
    ASSUME IInv, NEW f \in Flow, Destroy(f)
    PROVE  IInv'
  <1> USE DEF TaskInv
  <1>1. TypeOK /\ TaskInv
    BY DEF IInv
  <1>2. /\ live' = live \ {f}
        /\ parent' = [parent EXCEPT ![f] = None]
        /\ runner' = [runner EXCEPT ![f] = "center"]
        /\ UNCHANGED <<tasks, running, budget, stack, pend, phase>>
    BY DEF Destroy
  <1>3. /\ called' = [n \in Node |-> IF n[1] = f THEN FALSE ELSE called[n]]
        /\ value' = [n \in Node |-> IF n[1] = f THEN "none" ELSE value[n]]
        /\ runs' = [n \in Node |-> IF n[1] = f THEN 0 ELSE runs[n]]
    BY DEF Destroy
  <1>4. /\ \A i \in 1..Len(stack) : stack[i].node[1] # f
        /\ \A i \in 1..Len(tasks) : tasks[i].node[1] # f
        /\ \A p \in pend : p[1] # f
        /\ \A g \in live : parent[g] # None => parent[g][1] # f
    BY DEF Destroy, Referenced
  <1>5. \A m \in Node : m[1] # f =>
            /\ called'[m] <=> called[m]
            /\ runs'[m] = runs[m]
            /\ HasAct(m)' <=> HasAct(m)
    BY <1>1, <1>2, <1>3, NodeFacts DEF HasAct, TypeOK
  <1>6. \A m \in Node : m[1] = f => ~called'[m] /\ runs'[m] = 0
    BY <1>3
  <1>7. \A i \in 1..Len(tasks) : tasks[i].node \in Node
    BY <1>1, TaskFacts
  <1>8. \A i \in 1..Len(tasks) : Waiting(i)' <=> Waiting(i)
    BY <1>2 DEF Waiting
  <1>9. TypeOK'
    <2>1. /\ live' \subseteq Flow /\ parent' \in [Flow -> Node \cup {None}]
          /\ runner' \in [Flow -> {"immediate", "center"}]
      BY <1>1, <1>2 DEF TypeOK
    <2>2. called' \in [Node -> BOOLEAN]
      BY <1>1, <1>3 DEF TypeOK
    <2>3. value' \in [Node -> Values]
      BY <1>1, <1>3 DEF TypeOK, Values
    <2>4. runs' \in [Node -> Nat]
      BY <1>1, <1>3 DEF TypeOK
    <2> QED
      BY <1>1, <1>2, <2>1, <2>2, <2>3, <2>4 DEF TypeOK
  <1>10. TasksLive'
    BY <1>1, <1>2, <1>4 DEF TasksLive
  <1>11. QueuedTriggered'
    <2> SUFFICES ASSUME NEW i \in 1..Len(tasks), tasks[i].kind = "act"
                 PROVE  called'[tasks[i].node] /\ HasAct(tasks[i].node)'
      BY <1>2 DEF QueuedTriggered
    <2>1. tasks[i].node \in Node /\ tasks[i].node[1] # f
      BY <1>4, <1>7
    <2>2. called[tasks[i].node] /\ HasAct(tasks[i].node)
      BY <1>1 DEF QueuedTriggered
    <2>3. HasAct(tasks[i].node)'
      BY <1>1, <1>2, <2>1, <2>2, NodeFacts DEF HasAct, TypeOK
    <2> QED
      BY <1>5, <2>1, <2>2, <2>3
  <1>12. QueuedNotRun' /\ QueuedOnce'
    BY <1>1, <1>2, <1>4, <1>5, <1>7, <1>8 DEF QueuedNotRun, QueuedOnce
  <1>13. HeadRuns'
    <2> SUFFICES ASSUME running, tasks # << >>, tasks[1].kind = "act"
                 PROVE  runs'[tasks[1].node] = 1
      BY <1>1, <1>2 DEF HeadRuns
    <2>1. 1 \in 1..Len(tasks)
      BY <1>1 DEF TypeOK
    <2> QED
      BY <1>1, <1>4, <1>5, <1>7, <2>1 DEF HeadRuns
  <1>14. RanOnce' /\ DeadUntouched'
    BY <1>1, <1>2, <1>5, <1>6 DEF RanOnce, DeadUntouched
  <1>15. RanOrWaiting'
    BY <1>1, <1>2, <1>5, <1>6, <1>8 DEF RanOrWaiting
  <1>16. StackLive'
    <2> SUFFICES ASSUME NEW i \in 1..Len(stack)
                 PROVE  stack[i].node[1] \in live' /\ HasAct(stack[i].node)'
      BY <1>2 DEF StackLive
    <2>1. /\ stack[i].node \in Node /\ stack[i].node[1] # f
          /\ stack[i].node[1] \in live /\ HasAct(stack[i].node)
      BY <1>1, <1>4, FrameFacts DEF IInv, StackLive
    <2> QED
      BY <1>1, <1>2, <2>1, NodeFacts DEF HasAct, TypeOK
  <1>17. PendLive'
    BY <1>2, <1>4 DEF IInv, PendLive
  <1>18. ParentLive'
    BY <1>1, <1>2, <1>4 DEF IInv, ParentLive, TypeOK
  <1> QED
    BY <1>9, <1>10, <1>11, <1>12, <1>13, <1>14, <1>15, <1>16, <1>17, <1>18 DEF IInv

(* An event handler or a timer triggers the first node of a flow. *)
LEMMA FireKeeps ==
    ASSUME IInv, NEW f \in Flow, NEW s, <<f, s>> \in pend, NEW v \in Values,
           stack = << >>, pend' = pend \ {<<f, s>>}, Trigge(<<f, 1>>, v, stack),
           UNCHANGED <<flowVars, running, budget, phase>>
    PROVE  IInv'
  <1>1. TypeOK /\ <<f, 1>> \in Node /\ <<f, 1>>[1] \in live
    BY NodeFacts DEF IInv, PendLive
  <1> PICK st : st = stack
    OBVIOUS
  <1>2. FramesOK(st)
    BY DEF FramesOK
  <1>3. Trigge(<<f, 1>>, v, st)
    OBVIOUS
  <1> QED
    BY <1>1, <1>2, <1>3, TriggeStep DEF TypeOK

(* A step of the loop that touches no flow. *)
LEMMA LoopKeeps ==
    ASSUME IInv, UNCHANGED <<live, parent, runner, called, value, runs, tasks,
                             running, stack>>,
           budget' \in Nat, phase' \in {"events", "timers", "tasks"},
           pend' \subseteq Flow \X {"io", "timer", "due"}, PendLive'
    PROVE  IInv'
  <1>1. TypeOK /\ TaskInv
    BY DEF IInv
  <1>2. KeepsFlows
    BY DEF KeepsFlows, HasAct
  <1>3. TaskInv'
    BY <1>1, <1>2, KeepQueue
  <1>4. StackLive' /\ ParentLive'
    BY DEF IInv, StackLive, ParentLive, HasAct
  <1>5. TypeOK'
    BY <1>1 DEF TypeOK
  <1> QED
    BY <1>3, <1>4, <1>5 DEF IInv


(* The first task is called. *)
LEMMA RunTaskKeeps == IInv /\ RunTask => IInv'
  <1> SUFFICES ASSUME IInv, RunTask PROVE IInv'
    OBVIOUS
  <1> USE DEF TaskInv
  <1>1. TypeOK /\ TaskInv
    BY DEF IInv
  <1>2. /\ stack = << >> /\ ~running /\ tasks # << >> /\ running'
        /\ UNCHANGED <<live, parent, runner, pend, phase>>
    BY DEF RunTask, More, flowVars
  <1>3. budget' \in Nat /\ running' \in BOOLEAN
    BY <1>1 DEF RunTask, TypeOK
  <1>4. /\ tasks \in Seq(TaskSet) /\ 1 \in 1..Len(tasks) /\ Head(tasks) = tasks[1]
        /\ \A i \in 1..Len(tasks) : tasks[i].node \in Node
    BY <1>1, <1>2, TaskFacts
  <1> PICK n \in Node : n = Head(tasks).node
    BY <1>4
  <1>5. n = tasks[1].node /\ n[1] \in live
    BY <1>1, <1>4 DEF TasksLive
  <1>6. CASE Head(tasks).kind = "trig" /\ Trigge(Head(tasks).node, "val", stack)
    <2> PICK st : st = stack
      OBVIOUS
    <2>1. FramesOK(st) /\ Trigge(n, "val", st) /\ "val" \in Values
      BY <1>2, <1>6 DEF FramesOK, Values
    <2>2. tasks[1].kind = "trig" /\ UNCHANGED flowVars
      BY <1>2, <1>4, <1>6 DEF flowVars
    <2> QED
      BY <1>2, <1>3, <1>5, <2>1, <2>2, TriggeStep
  <1>7. CASE /\ Head(tasks).kind = "act"
             /\ stack' = << Frame(Head(tasks).node) >>
             /\ runs' = [runs EXCEPT ![Head(tasks).node] = @ + 1]
             /\ UNCHANGED <<called, value, tasks>>
    <2>1. /\ tasks[1].kind = "act" /\ stack' = << Frame(n) >>
          /\ runs' = [runs EXCEPT ![n] = @ + 1]
      BY <1>4, <1>7
    <2>2. Waiting(1) /\ called[n] /\ HasAct(n) /\ runs[n] = 0
      BY <1>1, <1>2, <1>4, <1>5, <2>1
      DEF Waiting, QueuedTriggered, QueuedNotRun
    <2>3. /\ runs'[n] = 1 /\ runs' \in [Node -> Nat]
          /\ \A m \in Node : m # n => runs'[m] = runs[m]
      BY <1>1, <2>1, <2>2 DEF TypeOK
    <2>4. /\ \A i \in 1..Len(tasks) : Waiting(i)' <=> Waiting(i) /\ i # 1
          /\ \A i \in 1..Len(tasks) : Waiting(i) /\ i # 1 => tasks[i].node # n
      BY <1>1, <1>2, <1>4, <1>5, <1>7, <2>2 DEF Waiting, QueuedOnce
    <2>5. \A m : HasAct(m)' <=> HasAct(m)
      BY <1>2 DEF HasAct
    <2>6. TasksLive' /\ QueuedTriggered'
      BY <1>1, <1>2, <1>7 DEF TasksLive, QueuedTriggered, HasAct
    <2>7. QueuedNotRun' /\ QueuedOnce'
      BY <1>1, <1>4, <1>7, <2>3, <2>4 DEF QueuedNotRun, QueuedOnce
    <2>8. HeadRuns'
      BY <1>2, <1>5, <1>7, <2>3 DEF HeadRuns
    <2>9. RanOnce'
      BY <1>1, <1>7, <2>2, <2>3 DEF RanOnce
    <2>10. DeadUntouched'
      BY <1>1, <1>2, <1>5, <1>7, <2>3 DEF DeadUntouched
    <2>11. RanOrWaiting'
      <3> SUFFICES ASSUME NEW m \in Node, m # n, called[m], HasAct(m)
                   PROVE  runs'[m] = 1 \/ \E i \in 1..Len(tasks) : Waiting(i)' /\ tasks[i].node = m
        BY <1>7, <2>3, <2>5 DEF RanOrWaiting
      <3> QED
        BY <1>1, <1>5, <2>3, <2>4 DEF RanOrWaiting
    <2>12. Frame(n) \in FrameSet /\ Frame(n).node = n
      BY DEF Frame, FrameSet
    <2>13. stack' \in Seq(FrameSet) /\ Len(stack') = 1 /\ stack'[1] = Frame(n)
      BY <2>1, <2>12
    <2>14. StackLive'
      BY <1>2, <1>5, <2>2, <2>12, <2>13 DEF StackLive, HasAct
    <2>15. PendLive' /\ ParentLive'
      BY <1>2 DEF IInv, PendLive, ParentLive
    <2>16. TypeOK'
      BY <1>1, <1>2, <1>3, <1>7, <2>3, <2>13 DEF TypeOK, FrameSet
    <2> QED
      BY <2>6, <2>7, <2>8, <2>9, <2>10, <2>11, <2>14, <2>15, <2>16 DEF IInv
  <1> QED
    BY <1>6, <1>7 DEF RunTask

(* The executed task is removed and the others move up. *)
LEMMA PopTaskKeeps == IInv /\ PopTask => IInv'
  <1> SUFFICES ASSUME IInv, PopTask PROVE IInv'
    OBVIOUS
  <1> USE DEF TaskInv
  <1>1. TypeOK /\ TaskInv
    BY DEF IInv
  <1>2. /\ running /\ running' = FALSE /\ tasks' = Tail(tasks) /\ tasks # << >>
        /\ UNCHANGED <<live, parent, runner, called, value, runs, budget, stack,
                       pend, phase>>
    BY <1>1 DEF PopTask, Rest, flowVars, nodeVars, HeadRuns
  <1>3. tasks \in Seq(TaskSet) /\ \A i \in 1..Len(tasks) : tasks[i].node \in Node
    BY <1>1, TaskFacts
  <1>4. /\ tasks' \in Seq(TaskSet) /\ Len(tasks') = Len(tasks) - 1
        /\ Len(tasks) \in Nat \ {0}
        /\ \A i \in 1..Len(tasks') : tasks'[i] = tasks[i + 1]
    BY <1>2, <1>3, TailFacts
  <1>5. \A i \in 1..Len(tasks') : i + 1 \in 1..Len(tasks) /\ i + 1 # 1
    BY <1>4
  <1>6. \A i \in 1..Len(tasks') : Waiting(i)' <=> Waiting(i + 1)
    <2> SUFFICES ASSUME NEW i \in 1..Len(tasks') PROVE Waiting(i)' <=> Waiting(i + 1)
      OBVIOUS
    <2>1. tasks'[i] = tasks[i + 1] /\ i + 1 # 1
      BY <1>4, <1>5
    <2> QED
      BY <1>2, <2>1 DEF Waiting
  <1>7. TasksLive'
    BY <1>1, <1>2, <1>4, <1>5 DEF TasksLive
  <1>8. QueuedTriggered'
    <2> SUFFICES ASSUME NEW i \in 1..Len(tasks'), tasks'[i].kind = "act"
                 PROVE  called'[tasks'[i].node] /\ HasAct(tasks[i].node)'
      BY DEF QueuedTriggered
    <2>1. tasks'[i] = tasks[i + 1] /\ i + 1 \in 1..Len(tasks)
      BY <1>4, <1>5
    <2>2. called[tasks'[i].node] /\ HasAct(tasks[i + 1].node)
      BY <1>1, <2>1 DEF QueuedTriggered
    <2> QED
      BY <1>2, <2>1, <2>2 DEF HasAct
  <1>9. QueuedNotRun'
    BY <1>1, <1>2, <1>4, <1>5, <1>6 DEF QueuedNotRun
  <1>10. QueuedOnce'
    <2> SUFFICES ASSUME NEW i \in 1..Len(tasks'), NEW j \in 1..Len(tasks'),
                        Waiting(i)', Waiting(j)', tasks'[i].node = tasks'[j].node
                 PROVE  i = j
      BY DEF QueuedOnce
    <2>1. /\ Waiting(i + 1) /\ Waiting(j + 1)
          /\ i + 1 \in 1..Len(tasks) /\ j + 1 \in 1..Len(tasks)
          /\ tasks[i + 1].node = tasks[j + 1].node
      BY <1>4, <1>5, <1>6
    <2>2. i + 1 = j + 1
      BY <1>1, <2>1 DEF QueuedOnce
    <2> QED
      BY <1>4, <2>2
  <1>11. HeadRuns' /\ RanOnce' /\ DeadUntouched'
    BY <1>1, <1>2 DEF HeadRuns, RanOnce, DeadUntouched
  <1>12. RanOrWaiting'
    <2> SUFFICES ASSUME NEW m \in Node, called[m], HasAct(m), runs[m] # 1
                 PROVE  \E i \in 1..Len(tasks') : Waiting(i)' /\ tasks'[i].node = m
      BY <1>2 DEF RanOrWaiting, HasAct
    <2>1. PICK i \in 1..Len(tasks) : Waiting(i) /\ tasks[i].node = m
      BY <1>1 DEF RanOrWaiting
    <2>2. i # 1
      BY <1>2, <2>1 DEF Waiting
    <2> PICK j \in Int : j = i - 1
      OBVIOUS
    <2>3. j \in 1..Len(tasks') /\ j + 1 = i
      BY <1>4, <2>2
    <2> QED
      BY <1>4, <1>6, <2>1, <2>3
  <1>13. StackLive' /\ PendLive' /\ ParentLive'
    BY <1>2 DEF IInv, StackLive, PendLive, ParentLive, HasAct
  <1>14. TypeOK'
    <2>1. running' \in BOOLEAN /\ tasks' \in Seq([kind : {"trig", "act"}, node : Node])
      BY <1>2, <1>4 DEF TaskSet
    <2> QED
      BY <1>1, <1>2, <2>1 DEF TypeOK
  <1> QED
    BY <1>7, <1>8, <1>9, <1>10, <1>11, <1>12, <1>13, <1>14 DEF IInv

-----------------------------------------------------------------------------
(* The invariant of the specification and what follows from it. *)

\* Every step keeps the invariant.
LEMMA NextKeeps == IInv /\ [Next]_vars => IInv'
  <1> SUFFICES ASSUME IInv, [Next]_vars PROVE IInv'
    OBVIOUS
  <1>0. TypeOK /\ PendLive
    BY DEF IInv
  <1>1. CASE Forward
    BY <1>1, ForwardKeeps
  <1>2. CASE User
    BY <1>2, FinishKeeps, FinishInnerKeeps, SpawnKeeps DEF User
  <1>3. CASE StartTimers \/ StartTasks \/ EndTasks
    <2>1. /\ UNCHANGED <<live, parent, runner, called, value, runs, tasks, running,
                         stack, pend>>
          /\ phase' \in {"events", "timers", "tasks"}
          /\ budget' \in {budget, Len(tasks), 0}
      BY <1>3 DEF StartTimers, StartTasks, Length, EndTasks, flowVars, nodeVars
    <2>2. Len(tasks) \in Nat
      BY <1>0 DEF TypeOK
    <2>3. budget' \in Nat /\ pend' \subseteq Flow \X {"io", "timer", "due"}
      BY <1>0, <2>1, <2>2 DEF TypeOK
    <2>4. PendLive'
      BY <1>0, <2>1 DEF PendLive
    <2> QED
      BY <2>1, <2>3, <2>4, LoopKeeps
  <1>4. CASE RunTask
    BY <1>4, RunTaskKeeps
  <1>5. CASE PopTask
    BY <1>5, PopTaskKeeps
  <1>6. ASSUME NEW f \in Flow, FireTimer(f) PROVE IInv'
    BY <1>6, FireKeeps DEF FireTimer, Values
  <1>7. ASSUME NEW f \in Flow, Destroy(f) PROVE IInv'
    BY <1>7, DestroyKeeps
  <1>8. ASSUME NEW f \in Flow, Expire(f) PROVE IInv'
    <2>1. /\ UNCHANGED <<live, parent, runner, called, value, runs, tasks, running,
                         budget, stack, phase>>
          /\ <<f, "timer">> \in pend
          /\ pend' = (pend \ {<<f, "timer">>}) \cup {<<f, "due">>}
      BY <1>8 DEF Expire, flowVars, nodeVars
    <2>2. budget' \in Nat /\ phase' \in {"events", "timers", "tasks"}
      BY <1>0, <2>1 DEF TypeOK
    <2>3. pend' \subseteq Flow \X {"io", "timer", "due"} /\ PendLive'
      BY <1>0, <2>1 DEF TypeOK, PendLive
    <2> QED
      BY <2>1, <2>2, <2>3, LoopKeeps
  <1>9. ASSUME NEW f \in Flow, NEW v \in {"val", "exc"}, FireIo(f, v) PROVE IInv'
    BY <1>9, FireKeeps DEF FireIo, Values
  <1>10. CASE UNCHANGED vars
    <2>1. UNCHANGED <<live, parent, runner, called, value, runs, tasks, running,
                      budget, stack, pend, phase>>
      BY <1>10 DEF vars
    <2>2. /\ budget' \in Nat /\ phase' \in {"events", "timers", "tasks"}
          /\ pend' \subseteq Flow \X {"io", "timer", "due"} /\ PendLive'
      BY <1>0, <2>1 DEF TypeOK, PendLive
    <2> QED
      BY <2>1, <2>2, LoopKeeps
  <1> QED
    BY <1>1, <1>2, <1>3, <1>4, <1>5, <1>6, <1>7, <1>8, <1>9, <1>10 DEF Next, Loop

\* The invariant holds always.
LEMMA Invariance == Spec => []IInv
  BY InitEstablishes, NextKeeps, PTL DEF Spec

(* The state of the flows, the two runners and the loop has its type. *)
THEOREM TypeCorrect == Spec => []TypeOK
  <1>1. IInv => TypeOK
    BY DEF IInv
  <1> QED
    BY <1>1, Invariance, PTL

(* flow_implent::_act_func_ is called at most once, in any number of chains of *)
(* any length, with either runner, whatever the functions return or throw.     *)
THEOREM AtMostOnce == Spec => []RunsAtMostOnce
  <1>1. IInv => RunsAtMostOnce
    BY DEF IInv, TaskInv, RanOnce, RunsAtMostOnce
  <1> QED
    BY <1>1, Invariance, PTL

(* A continuation that trigge() or active() has accepted has been called or is *)
(* still in global_task_center::waiting_tasks.                                 *)
THEOREM NeverLost == Spec => []NoLostContinuation
  <1>1. IInv => NoLostContinuation
    <2> SUFFICES ASSUME IInv, NEW n \in Node, called[n], HasAct(n), runs[n] # 1
                 PROVE  \E i \in 1..Len(tasks) : tasks[i] = Act(n)
      BY DEF NoLostContinuation
    <2>1. PICK i \in 1..Len(tasks) : Waiting(i) /\ tasks[i].node = n
      BY DEF IInv, TaskInv, RanOrWaiting
    <2>2. tasks[i] \in TaskSet
      BY TaskFacts DEF IInv
    <2>3. tasks[i] = Act(n)
      BY <2>1, <2>2 DEF Waiting, TaskSet, Act
    <2> QED
      BY <2>3
  <1> QED
    BY <1>1, Invariance, PTL


(* Only a node that has not been triggered gets a new argument. *)
LEMMA TriggeKeepsValue ==
    ASSUME TypeOK, NEW m, NEW v, NEW st, Trigge(m, v, st), NEW n \in Node, called[n]
    PROVE  value'[n] = value[n]
  BY DEF Trigge, AlreadyCalled, nodeVars, TypeOK

\* Submitting a new flow changes no argument of a triggered node.
LEMMA SubmitKeepsValue ==
    ASSUME TypeOK, NEW g \in Flow, ~called[<<g, 1>>], NEW p, NEW kind, NEW st,
           Submit(g, p, kind, st), NEW n \in Node, called[n]
    PROVE  value'[n] = value[n]
  BY DEF Submit, nodeVars, TypeOK

(* The argument of a triggered node stays what the first trigge() or active()  *)
(* passed: a timer or an event that comes second does not replace it.          *)
THEOREM FirstResultWins == Spec => FirstResultStays
  <1>1. ASSUME IInv, Next, NEW n \in Node, called[n], n[1] \in live'
        PROVE  value'[n] = value[n]
    <2>1. TypeOK
      BY <1>1 DEF IInv
    <2>2. ASSUME NEW g \in Flow, g \notin live PROVE ~called[<<g, 1>>]
      BY <1>1, <2>2, NodeFacts DEF IInv, TaskInv, DeadUntouched
    <2>3. CASE Forward
      BY <1>1, <2>1, <2>3, TriggeKeepsValue DEF Forward
    <2>4. ASSUME NEW v, Finish(v) PROVE value'[n] = value[n]
      BY <1>1, <2>1, <2>4, TriggeKeepsValue DEF Finish
    <2>5. ASSUME NEW g \in Flow, NEW k \in Kinds, FinishInner(g, k) \/ Spawn(g, k)
          PROVE  value'[n] = value[n]
      BY <1>1, <2>1, <2>2, <2>5, SubmitKeepsValue DEF FinishInner, Spawn
    <2>6. CASE StartTimers \/ StartTasks \/ PopTask \/ EndTasks
      BY <2>6 DEF StartTimers, StartTasks, PopTask, EndTasks, nodeVars
    <2>7. CASE RunTask
      BY <1>1, <2>1, <2>7, TriggeKeepsValue DEF RunTask
    <2>8. ASSUME NEW f \in Flow, FireTimer(f) PROVE value'[n] = value[n]
      BY <1>1, <2>1, <2>8, TriggeKeepsValue DEF FireTimer
    <2>9. ASSUME NEW f \in Flow, NEW v, FireIo(f, v) PROVE value'[n] = value[n]
      BY <1>1, <2>1, <2>9, TriggeKeepsValue DEF FireIo
    <2>10. ASSUME NEW f \in Flow, Destroy(f) PROVE value'[n] = value[n]
      BY <1>1, <2>10 DEF Destroy
    <2>11. ASSUME NEW f \in Flow, Expire(f) PROVE value'[n] = value[n]
      BY <2>11 DEF Expire, nodeVars
    <2> QED
      BY <1>1, <2>3, <2>4, <2>5, <2>6, <2>7, <2>8, <2>9, <2>10, <2>11
      DEF Next, Loop, User
  <1>2. IInv /\ [Next]_vars =>
            [\A n \in Node : called[n] /\ n[1] \in live' => value'[n] = value[n]]_vars
    BY <1>1
  <1> QED
    BY <1>2, Invariance, PTL DEF Spec, FirstResultStays

-----------------------------------------------------------------------------
(* No chain is destroyed half-way. *)

(* A submission of the first node of f that is queued and not being executed *)
Submitted(f) ==
    \E i \in 1..Len(tasks) :
        tasks[i].kind = "trig" /\ tasks[i].node = <<f, 1>> /\ ~(running /\ i = 1)

(* The first node of a live flow is triggered, or something holds the flow that will  *)
(* trigger it.                                                                        *)
Started ==
    \A f \in live : called[<<f, 1>>] \/ (\E p \in pend : p[1] = f) \/ Submitted(f)

(* What the function of n did when it ended: it triggered the next node, or an inner  *)
(* flow lives that will.                                                              *)
Handed(n) ==
    IF IsForward(n) THEN parent[n[1]] # None => called[parent[n[1]]]
    ELSE called[Next1(n)] \/ \E g \in live : parent[g] = Next1(n)

HandedOn == \A n \in Node : runs[n] = 1 /\ ~OnStack(n) => Handed(n)

ChainInv == IInv /\ Started /\ HandedOn

(* An unreferenced flow has all of its nodes triggered, one after the other. *)
LEMMA AllTriggered ==
    ASSUME ChainInv, NEW f \in live, ~Referenced(f)
    PROVE  \A i \in 1..(Depth + 1) : <<f, i>> \in Node /\ called[<<f, i>>]
  <1>1. f \in Flow /\ Depth \in Nat \ {0}
    BY FlowConstants DEF ChainInv, IInv, TypeOK
  <1>2. /\ \A i \in 1..Len(stack) : stack[i].node[1] # f
        /\ \A i \in 1..Len(tasks) : tasks[i].node[1] # f
        /\ \A p \in pend : p[1] # f
        /\ \A g \in live : parent[g] # None => parent[g][1] # f
    BY DEF Referenced
  <1>3. \A i \in 1..(Depth + 1) : <<f, i>> \in Node
    BY <1>1 DEF Node
  <1>4. called[<<f, 1>>]
    <2>1. ~Submitted(f)
      BY <1>2 DEF Submitted
    <2> QED
      BY <1>2, <2>1 DEF ChainInv, Started
  <1>5. ASSUME NEW i \in 1..Depth, called[<<f, i>>] PROVE called[<<f, i + 1>>]
    <2> DEFINE n == <<f, i>>
    <2>1. n \in Node /\ n[1] = f /\ n[2] = i /\ i <= Depth /\ i + 1 \in 1..(Depth + 1)
      BY <1>1, <1>3
    <2>2. HasAct(n) /\ ~IsForward(n) /\ Next1(n) = <<f, i + 1>>
      BY <1>1, <2>1 DEF HasAct, IsForward, Next1
    <2> HIDE DEF n
    <2>3. called[n]
      BY <1>5 DEF n
    <2>4. runs[n] = 1
      BY <1>2, <2>1, <2>2, <2>3 DEF ChainInv, IInv, TaskInv, RanOrWaiting
    <2>5. ~OnStack(n)
      BY <1>2, <2>1 DEF OnStack
    <2>6. called[Next1(n)] \/ \E g \in live : parent[g] = Next1(n)
      BY <2>1, <2>2, <2>4, <2>5 DEF ChainInv, HandedOn, Handed
    <2>7. Next1(n) \in Node /\ Next1(n)[1] = f /\ Next1(n) # None
      BY <2>1, <2>2, Next1Facts, NodeFacts
    <2>8. ~ \E g \in live : parent[g] = Next1(n)
      BY <1>2, <2>7
    <2> QED
      BY <2>2, <2>6, <2>8
  <1> DEFINE Bad == { i \in 1..(Depth + 1) : ~called[<<f, i>>] }
  <1>6. ASSUME Bad # {} PROVE FALSE
    <2>1. Bad \in SUBSET Nat
      OBVIOUS
    <2> DEFINE Less == { ss \in Nat \X Nat : ss[1] < ss[2] }
    <2>2. IsWellFoundedOn(Less, Nat)
      BY NatLessThanWellFounded DEF OpToRel
    <2> HIDE DEF Less, Bad
    <2>3. PICK x \in Bad : \A y \in Bad : ~(<<y, x>> \in Less)
      BY <1>6, <2>1, <2>2, WFMin
    <2>4. x \in 1..(Depth + 1) /\ ~called[<<f, x>>]
      BY DEF Bad
    <2>5. x # 1
      BY <1>4, <2>4
    <2> PICK y \in Nat : y = x - 1
      BY <1>1, <2>4
    <2>6. y \in 1..Depth /\ y + 1 = x /\ y \in 1..(Depth + 1) /\ y < x
      BY <1>1, <2>4, <2>5
    <2>7. ~called[<<f, y>>]
      BY <1>5, <2>4, <2>6
    <2>8. y \in Bad
      BY <2>6, <2>7 DEF Bad
    <2>9. <<y, x>> \in Less
      BY <2>1, <2>6 DEF Less
    <2> QED
      BY <2>3, <2>8, <2>9
  <1> QED
    BY <1>3, <1>6

(* So all of its functions have run. *)
LEMMA AllRun ==
    ASSUME ChainInv, NEW f \in live, ~Referenced(f), NEW n \in Node, n[1] = f, HasAct(n)
    PROVE  runs[n] = 1
  <1>1. n[2] \in 1..(Depth + 1) /\ n = <<f, n[2]>>
    BY DEF Node
  <1>2. called[n]
    BY <1>1, AllTriggered
  <1>3. \A i \in 1..Len(tasks) : tasks[i].node # n
    BY DEF Referenced
  <1> QED
    BY <1>2, <1>3 DEF ChainInv, IInv, TaskInv, RanOrWaiting

-----------------------------------------------------------------------------
(* The steps keep ChainInv. *)

(* What was handed on stays so while flows are only added and nodes only triggered. *)
LEMMA StaysHanded ==
    ASSUME \A m \in Node : called[m] => called'[m], live \subseteq live',
           \A g \in live : parent'[g] = parent[g], TypeOK,
           NEW n \in Node, n[1] \in live, Handed(n)
    PROVE  Handed(n)'
  <1>1. CASE IsForward(n)
    <2>1. parent'[n[1]] = parent[n[1]] /\ parent[n[1]] \in Node \cup {None}
      BY NodeFacts DEF TypeOK
    <2> QED
      BY <1>1, <2>1 DEF Handed
  <1>2. CASE ~IsForward(n)
    <2>1. Next1(n) \in Node
      BY <1>2, Next1Facts
    <2> QED
      BY <1>2, <2>1 DEF Handed
  <1> QED
    BY <1>1, <1>2

(* A step that adds frames to what is left of the stack hands on for all functions   *)
(* that ended, if it does so for the one it takes off.                               *)
LEMMA HandedKeeps ==
    ASSUME IInv, HandedOn, \A m \in Node : called[m] => called'[m], live \subseteq live',
           \A g \in live : parent'[g] = parent[g],
           \A n \in Node : runs'[n] = 1 /\ ~OnStack(n)' => runs[n] = 1,
           \A n \in Node : OnStack(n) /\ ~OnStack(n)' => Handed(n)'
    PROVE  HandedOn'
  <1> SUFFICES ASSUME NEW n \in Node, runs'[n] = 1, ~OnStack(n)' PROVE Handed(n)'
    BY DEF HandedOn
  <1>1. runs[n] = 1
    OBVIOUS
  <1>2. n[1] \in live
    BY <1>1 DEF IInv, TaskInv, DeadUntouched
  <1>3. CASE ~OnStack(n)
    <2>1. Handed(n)
      BY <1>1, <1>3 DEF HandedOn
    <2> QED
      BY <1>2, <2>1, StaysHanded DEF IInv
  <1> QED
    BY <1>3

(* A flow stays started as long as the list grows at its end. *)
LEMMA StartedKeeps ==
    ASSUME TypeOK, Started, \A m \in Node : called[m] => called'[m],
           \A i \in 1..Len(tasks) : i \in 1..Len(tasks') /\ tasks'[i] = tasks[i],
           running' => running \/ (tasks # << >> /\ called'[tasks[1].node]),
           \A p \in pend : called'[<<p[1], 1>>] \/ \E q \in pend' : q[1] = p[1],
           NEW f \in live
    PROVE  called'[<<f, 1>>] \/ (\E p \in pend' : p[1] = f) \/ Submitted(f)'
  <1>1. <<f, 1>> \in Node
    BY NodeFacts DEF TypeOK
  <1>2. CASE called[<<f, 1>>]
    BY <1>1, <1>2
  <1>3. CASE \E p \in pend : p[1] = f
    BY <1>3
  <1>4. CASE Submitted(f)
    <2>1. PICK i \in 1..Len(tasks) : /\ tasks[i].kind = "trig" /\ tasks[i].node = <<f, 1>>
                                     /\ ~(running /\ i = 1)
      BY <1>4 DEF Submitted
    <2>2. i \in 1..Len(tasks') /\ tasks'[i].kind = "trig" /\ tasks'[i].node = <<f, 1>>
      BY <2>1
    <2>3. CASE running' /\ i = 1
      BY <2>1, <2>3
    <2>4. CASE ~(running' /\ i = 1)
      BY <2>2, <2>4 DEF Submitted
    <2> QED
      BY <2>3, <2>4
  <1> QED
    BY <1>2, <1>3, <1>4 DEF Started

(* What trigge and active change, node by node and list by list *)
LEMMA TriggeOf ==
    ASSUME IInv, NEW n \in Node, NEW v, NEW st \in Seq(FrameSet), Trigge(n, v, st)
    PROVE  /\ \A m \in Node : called[m] => called'[m]
           /\ called'[n]
           /\ \A m \in Node : runs'[m] = runs[m] \/ OnStack(m)'
           /\ \A i \in 1..Len(st) : i \in 1..Len(stack') /\ stack'[i] = st[i]
           /\ \A i \in 1..Len(tasks) : i \in 1..Len(tasks') /\ tasks'[i] = tasks[i]
  <1>1. TypeOK /\ tasks \in Seq(TaskSet)
    BY TaskFacts DEF IInv
  <1>2. called \in [Node -> BOOLEAN] /\ runs \in [Node -> Nat]
    BY <1>1 DEF TypeOK
  <1>3. (\A m \in Node : called[m] => called'[m]) /\ called'[n]
    BY <1>2 DEF Trigge, AlreadyCalled, nodeVars
  <1>4. CASE stack' = st /\ UNCHANGED <<tasks, runs>>
    BY <1>3, <1>4
  <1>5. CASE stack' = st /\ UNCHANGED runs /\ tasks' = Append(tasks, Act(n))
    <2>1. Act(n) \in TaskSet
      BY DEF Act, TaskSet
    <2>2. /\ Len(tasks') = Len(tasks) + 1 /\ Len(tasks) \in Nat
          /\ \A i \in 1..Len(tasks) : tasks'[i] = tasks[i]
      BY <1>1, <1>5, <2>1, AppendFacts
    <2>3. \A i \in 1..Len(tasks) : i \in 1..Len(tasks')
      BY <2>2
    <2> QED
      BY <1>3, <1>5, <2>2, <2>3
  <1>6. CASE /\ stack' = Append(st, Frame(n)) /\ UNCHANGED tasks
             /\ runs' = [runs EXCEPT ![n] = @ + 1]
    <2>1. Frame(n) \in FrameSet /\ Frame(n).node = n
      BY DEF Frame, FrameSet
    <2>2. /\ Len(stack') = Len(st) + 1 /\ Len(st) \in Nat /\ stack'[Len(st) + 1] = Frame(n)
          /\ \A i \in 1..Len(st) : stack'[i] = st[i]
      BY <1>6, <2>1, AppendFacts
    <2>3. (\A i \in 1..Len(st) : i \in 1..Len(stack')) /\ Len(st) + 1 \in 1..Len(stack')
      BY <2>2
    <2>4. OnStack(n)'
      BY <2>1, <2>2, <2>3 DEF OnStack
    <2>5. \A m \in Node : m # n => runs'[m] = runs[m]
      BY <1>2, <1>6
    <2>6. \A m \in Node : runs'[m] = runs[m] \/ OnStack(m)'
      BY <2>4, <2>5
    <2> QED
      BY <1>3, <1>6, <2>2, <2>3, <2>6
  <1> QED
    BY <1>4, <1>5, <1>6 DEF Trigge, nodeVars

(* The frames that are left are those of the stack without its top. *)
LEMMA PoppedFrames ==
    ASSUME IInv, stack # << >>, NEW st \in Seq(FrameSet),
           Len(Pop(stack)) <= Len(st), \A i \in 1..Len(Pop(stack)) : st[i] = Pop(stack)[i],
           \A i \in 1..Len(st) : i \in 1..Len(stack') /\ stack'[i] = st[i],
           NEW n \in Node, OnStack(n), ~OnStack(n)'
    PROVE  n = Top.node
  <1>1. stack \in Seq(FrameSet)
    BY FrameFacts DEF IInv
  <1>2. /\ Len(Pop(stack)) = Len(stack) - 1 /\ Len(stack) \in Nat \ {0} /\ Len(st) \in Nat
        /\ \A i \in 1..Len(Pop(stack)) : Pop(stack)[i] = stack[i]
    BY <1>1, PopFacts
  <1>3. PICK i \in 1..Len(stack) : stack[i].node = n
    BY DEF OnStack
  <1>4. ASSUME i # Len(stack) PROVE FALSE
    <2>1. i \in 1..Len(Pop(stack)) /\ i \in 1..Len(st)
      BY <1>2, <1>4
    <2>2. i \in 1..Len(stack') /\ stack'[i] = stack[i]
      BY <1>2, <2>1
    <2> QED
      BY <1>3, <2>2 DEF OnStack
  <1> QED
    BY <1>3, <1>4 DEF Top

(* What submit changes *)
LEMMA SubmitOf ==
    ASSUME IInv, NEW g \in Flow, g \notin live, NEW p \in Node \cup {None}, NEW kind \in Kinds,
           NEW st \in Seq(FrameSet), Submit(g, p, kind, st), UNCHANGED running
    PROVE  /\ \A m \in Node : called[m] => called'[m]
           /\ \A m \in Node : runs'[m] = runs[m] \/ OnStack(m)'
           /\ \A i \in 1..Len(st) : i \in 1..Len(stack') /\ stack'[i] = st[i]
           /\ \A i \in 1..Len(tasks) : i \in 1..Len(tasks') /\ tasks'[i] = tasks[i]
           /\ live' = live \cup {g} /\ parent'[g] = p /\ \A h \in live : parent'[h] = parent[h]
           /\ pend \subseteq pend'
           /\ called'[<<g, 1>>] \/ (\E q \in pend' : q[1] = g) \/ Submitted(g)'
  <1>1. TypeOK /\ tasks \in Seq(TaskSet) /\ HeadRuns
    BY TaskFacts DEF IInv, TaskInv
  <1>2. called \in [Node -> BOOLEAN] /\ runs \in [Node -> Nat]
    BY <1>1 DEF TypeOK
  <1>3. /\ live' = live \cup {g} /\ parent'[g] = p /\ \A h \in live : parent'[h] = parent[h]
        /\ pend \subseteq pend'
    BY <1>1 DEF Submit, TypeOK
  <1> PICK n \in Node : n = <<g, 1>>
    BY NodeFacts
  <1>4. CASE kind[1] = "immediate" /\ kind[2] = "immediate"
    <2>1. /\ called' = [called EXCEPT ![n] = TRUE] /\ runs' = [runs EXCEPT ![n] = @ + 1]
          /\ stack' = Append(st, Frame(n)) /\ UNCHANGED tasks
      BY <1>4 DEF Submit
    <2>2. Frame(n) \in FrameSet /\ Frame(n).node = n
      BY DEF Frame, FrameSet
    <2>3. /\ Len(stack') = Len(st) + 1 /\ Len(st) \in Nat /\ stack'[Len(st) + 1] = Frame(n)
          /\ \A i \in 1..Len(st) : stack'[i] = st[i]
      BY <2>1, <2>2, AppendFacts
    <2>4. (\A i \in 1..Len(st) : i \in 1..Len(stack')) /\ Len(st) + 1 \in 1..Len(stack')
      BY <2>3
    <2>5. OnStack(n)'
      BY <2>2, <2>3, <2>4 DEF OnStack
    <2>6. \A m \in Node : runs'[m] = runs[m] \/ OnStack(m)'
      BY <1>2, <2>1, <2>5
    <2>7. (\A m \in Node : called[m] => called'[m]) /\ called'[n]
      BY <1>2, <2>1
    <2> QED
      BY <1>3, <2>1, <2>3, <2>4, <2>6, <2>7
  <1>5. CASE kind[1] = "immediate" /\ kind[2] = "center"
    <2>1. /\ called' = [called EXCEPT ![n] = TRUE] /\ UNCHANGED runs
          /\ stack' = st /\ tasks' = Append(tasks, Act(n))
      BY <1>5 DEF Submit
    <2>2. Act(n) \in TaskSet
      BY DEF Act, TaskSet
    <2>3. /\ Len(tasks') = Len(tasks) + 1 /\ Len(tasks) \in Nat
          /\ \A i \in 1..Len(tasks) : tasks'[i] = tasks[i]
      BY <1>1, <2>1, <2>2, AppendFacts
    <2>4. \A i \in 1..Len(tasks) : i \in 1..Len(tasks')
      BY <2>3
    <2>5. (\A m \in Node : called[m] => called'[m]) /\ called'[n]
      BY <1>2, <2>1
    <2> QED
      BY <1>3, <2>1, <2>3, <2>4, <2>5
  <1>6. CASE kind[1] = "center"
    <2>1. UNCHANGED <<called, runs>> /\ stack' = st /\ tasks' = Append(tasks, Trig(n))
      BY <1>6 DEF Submit, nodeVars
    <2>2. Trig(n) \in TaskSet /\ Trig(n).kind = "trig" /\ Trig(n).node = n
      BY DEF Trig, TaskSet
    <2>3. /\ Len(tasks') = Len(tasks) + 1 /\ Len(tasks) \in Nat
          /\ tasks'[Len(tasks) + 1] = Trig(n)
          /\ \A i \in 1..Len(tasks) : tasks'[i] = tasks[i]
      BY <1>1, <2>1, <2>2, AppendFacts
    <2>4. (\A i \in 1..Len(tasks) : i \in 1..Len(tasks')) /\ Len(tasks) + 1 \in 1..Len(tasks')
      BY <2>3
    <2>5. ~(running' /\ Len(tasks) + 1 = 1)
      <3>1. running => Len(tasks) # 0
        BY <1>1 DEF HeadRuns
      <3> QED
        BY <2>3, <3>1
    <2>6. Submitted(g)'
      BY <2>2, <2>3, <2>4, <2>5 DEF Submitted
    <2> QED
      BY <1>3, <2>1, <2>3, <2>4, <2>6
  <1>7. CASE kind[1] \in {"io", "both"}
    <2>1. UNCHANGED <<called, runs, tasks>> /\ stack' = st
      BY <1>7 DEF Submit, nodeVars
    <2>2. <<g, "io">> \in pend'
      BY <1>7 DEF Submit, Sources
    <2>3. <<g, "io">>[1] = g
      OBVIOUS
    <2> QED
      BY <1>3, <2>1, <2>2, <2>3
  <1> QED
    BY <1>4, <1>5, <1>6, <1>7 DEF Kinds

(* A function ends: it triggers the next node, or the lambda of an inner flow the      *)
(* node that waits for it.                                                             *)
LEMMA EndHands ==
    ASSUME ChainInv, stack # << >>, NEW n \in Node, NEW v, NEW st, st = Pop(stack),
           Trigge(n, v, st), UNCHANGED <<flowVars, running, pend>>,
           n = IF IsForward(Top.node) THEN parent[Top.node[1]] ELSE Next1(Top.node)
    PROVE  Started' /\ HandedOn'
  <1>1. IInv /\ TypeOK /\ Started /\ HandedOn
    BY DEF ChainInv, IInv
  <1>2. st \in Seq(FrameSet) /\ Top.node \in Node
    BY <1>1, TopFacts DEF FramesOK
  <1>3. UNCHANGED <<live, parent>>
    BY DEF flowVars
  <1>4. /\ \A m \in Node : called[m] => called'[m]
        /\ called'[n]
        /\ \A m \in Node : runs'[m] = runs[m] \/ OnStack(m)'
        /\ \A i \in 1..Len(st) : i \in 1..Len(stack') /\ stack'[i] = st[i]
        /\ \A i \in 1..Len(tasks) : i \in 1..Len(tasks') /\ tasks'[i] = tasks[i]
    BY <1>1, <1>2, TriggeOf
  <1>5. Started'
    <2>1. \A f \in live : called'[<<f, 1>>] \/ (\E q \in pend' : q[1] = f) \/ Submitted(f)'
      BY <1>1, <1>4, StartedKeeps
    <2> QED
      BY <1>3, <2>1 DEF Started
  <1> PICK t \in Node : t = Top.node
    BY <1>2
  <1>6. Handed(t)'
    BY <1>3, <1>4 DEF Handed
  <1>7. ASSUME NEW m \in Node, OnStack(m), ~OnStack(m)' PROVE Handed(m)'
    <2>1. Len(Pop(stack)) <= Len(st) /\ \A i \in 1..Len(Pop(stack)) : st[i] = Pop(stack)[i]
      BY <1>2
    <2>2. m = t
      BY <1>1, <1>2, <1>4, <1>7, <2>1, PoppedFrames
    <2> QED
      BY <1>6, <2>2
  <1>8. HandedOn'
    BY <1>1, <1>3, <1>4, <1>7, HandedKeeps
  <1> QED
    BY <1>5, <1>8

(* The loop triggers a node: a submission that is executed, an event or a timer, which *)
(* then no longer hold their flow.                                                     *)
LEMMA LoopHands ==
    ASSUME ChainInv, stack = << >>, NEW n \in Node, NEW v, Trigge(n, v, stack), UNCHANGED flowVars,
           running' => running \/ (tasks # << >> /\ tasks[1].node = n),
           \A p \in pend : p \in pend' \/ <<p[1], 1>> = n
    PROVE  Started' /\ HandedOn'
  <1>1. IInv /\ TypeOK /\ Started /\ HandedOn
    BY DEF ChainInv, IInv
  <1> PICK st \in Seq(FrameSet) : st = stack
    BY <1>1, FrameFacts
  <1>2. Trigge(n, v, st)
    OBVIOUS
  <1>3. UNCHANGED <<live, parent>>
    BY DEF flowVars
  <1>4. /\ \A m \in Node : called[m] => called'[m]
        /\ called'[n]
        /\ \A m \in Node : runs'[m] = runs[m] \/ OnStack(m)'
        /\ \A i \in 1..Len(tasks) : i \in 1..Len(tasks') /\ tasks'[i] = tasks[i]
    BY <1>1, <1>2, TriggeOf
  <1>5. Started'
    <2>1. \A p \in pend : called'[<<p[1], 1>>] \/ \E q \in pend' : q[1] = p[1]
      BY <1>4
    <2>2. running' => running \/ (tasks # << >> /\ called'[tasks[1].node])
      BY <1>4
    <2>3. \A f \in live : called'[<<f, 1>>] \/ (\E q \in pend' : q[1] = f) \/ Submitted(f)'
      BY <1>1, <1>4, <2>1, <2>2, StartedKeeps
    <2> QED
      BY <1>3, <2>3 DEF Started
  <1>6. \A m \in Node : ~OnStack(m)
    BY DEF OnStack
  <1>7. HandedOn'
    BY <1>1, <1>3, <1>4, <1>6, HandedKeeps
  <1> QED
    BY <1>5, <1>7

(* A function builds a flow: an inner one, for whose result the next node then waits,  *)
(* or an independent one, and then the function goes on.                               *)
LEMMA BuildHands ==
    ASSUME ChainInv, stack # << >>, NEW g \in Flow, g \notin live, NEW p \in Node \cup {None},
           NEW kind \in Kinds, NEW st \in Seq(FrameSet), Submit(g, p, kind, st), UNCHANGED running,
           Len(Pop(stack)) <= Len(st), \A i \in 1..Len(Pop(stack)) : st[i] = Pop(stack)[i],
           \/ ~IsForward(Top.node) /\ p = Next1(Top.node)
           \/ \E i \in 1..Len(st) : st[i].node = Top.node
    PROVE  Started' /\ HandedOn'
  <1>1. IInv /\ TypeOK /\ Started /\ HandedOn
    BY DEF ChainInv, IInv
  <1> PICK t \in Node : t = Top.node
    BY <1>1, TopFacts
  <1>2. /\ \A m \in Node : called[m] => called'[m]
        /\ \A m \in Node : runs'[m] = runs[m] \/ OnStack(m)'
        /\ \A i \in 1..Len(st) : i \in 1..Len(stack') /\ stack'[i] = st[i]
        /\ \A i \in 1..Len(tasks) : i \in 1..Len(tasks') /\ tasks'[i] = tasks[i]
        /\ live' = live \cup {g} /\ parent'[g] = p /\ \A h \in live : parent'[h] = parent[h]
        /\ pend \subseteq pend'
        /\ called'[<<g, 1>>] \/ (\E q \in pend' : q[1] = g) \/ Submitted(g)'
    BY <1>1, SubmitOf
  <1>3. Started'
    <2>1. \A q \in pend : called'[<<q[1], 1>>] \/ \E r \in pend' : r[1] = q[1]
      BY <1>2
    <2>2. \A f \in live : called'[<<f, 1>>] \/ (\E q \in pend' : q[1] = f) \/ Submitted(f)'
      BY <1>1, <1>2, <2>1, StartedKeeps
    <2> QED
      BY <1>2, <2>2 DEF Started
  <1>4. ASSUME NEW m \in Node, OnStack(m), ~OnStack(m)' PROVE Handed(m)'
    <2>1. m = t
      BY <1>1, <1>2, <1>4, PoppedFrames
    <2>2. CASE ~IsForward(t) /\ p = Next1(t)
      BY <1>2, <2>1, <2>2 DEF Handed
    <2>3. CASE \E i \in 1..Len(st) : st[i].node = t
      BY <1>2, <1>4, <2>1, <2>3 DEF OnStack
    <2> QED
      BY <2>2, <2>3
  <1>5. HandedOn'
    BY <1>1, <1>2, <1>4, HandedKeeps
  <1> QED
    BY <1>3, <1>5

(* A flow that nothing refers to goes: the node that waits for it has been triggered, *)
(* because all functions of the flow ran.                                             *)
LEMMA DestroyHands ==
    ASSUME ChainInv, NEW f \in Flow, Destroy(f)
    PROVE  Started' /\ HandedOn'
  <1>1. IInv /\ TypeOK /\ Started /\ HandedOn
    BY DEF ChainInv, IInv
  <1>2. /\ f \in live /\ ~Referenced(f) /\ live' = live \ {f}
        /\ parent' = [parent EXCEPT ![f] = None]
        /\ UNCHANGED <<tasks, running, stack, pend>>
    BY DEF Destroy
  <1>3. /\ \A m \in Node : m[1] # f => (called'[m] <=> called[m]) /\ runs'[m] = runs[m]
        /\ \A m \in Node : m[1] = f => runs'[m] = 0
    BY DEF Destroy
  <1>4. /\ \A i \in 1..Len(stack) : stack[i].node[1] # f
        /\ \A g \in live : parent[g] # None => parent[g][1] # f
    BY <1>2 DEF Referenced
  <1>5. Started'
    <2> SUFFICES ASSUME NEW h \in live, h # f
                 PROVE  called'[<<h, 1>>] \/ (\E q \in pend : q[1] = h) \/ Submitted(h)
      BY <1>2 DEF Started, Submitted
    <2>1. <<h, 1>> \in Node /\ <<h, 1>>[1] = h
      BY <1>1, NodeFacts DEF TypeOK
    <2> QED
      BY <1>1, <1>3, <2>1 DEF Started
  <1>6. ASSUME NEW n \in Node, runs'[n] = 1, ~OnStack(n)' PROVE Handed(n)'
    <2>1. n[1] # f /\ runs[n] = 1
      BY <1>3, <1>6
    <2>2. n[1] \in live /\ n[1] \in Flow
      <3>1. n[1] \notin live => runs[n] = 0
        BY <1>1 DEF IInv, TaskInv, DeadUntouched
      <3>2. n[1] \in live
        BY <2>1, <3>1
      <3>3. n[1] \in Flow
        BY DEF Node
      <3> QED
        BY <3>2, <3>3
    <2>3. Handed(n)
      BY <1>1, <1>2, <1>6, <2>1 DEF HandedOn, OnStack
    <2>4. CASE IsForward(n)
      <3>1. parent'[n[1]] = parent[n[1]] /\ parent[n[1]] \in Node \cup {None}
        BY <1>1, <1>2, <2>1, <2>2 DEF TypeOK
      <3>2. parent[n[1]] # None => called[parent[n[1]]] /\ parent[n[1]][1] # f
        BY <1>4, <2>2, <2>3, <2>4 DEF Handed
      <3>3. parent[n[1]] # None => called'[parent[n[1]]]
        BY <1>3, <3>1, <3>2
      <3> QED
        BY <2>4, <3>1, <3>3 DEF Handed
    <2>5. CASE ~IsForward(n)
      <3>1. Next1(n) \in Node /\ Next1(n)[1] # f /\ Next1(n) # None
        BY <2>1, <2>5, Next1Facts, NodeFacts
      <3>2. CASE called[Next1(n)]
        BY <1>3, <2>5, <3>1, <3>2 DEF Handed
      <3>3. CASE \E g \in live : parent[g] = Next1(n)
        <4>1. PICK g \in live : parent[g] = Next1(n)
          BY <3>3
        <4>2. CASE g # f
          <5>1. g \in live' /\ parent'[g] = Next1(n)
            BY <1>1, <1>2, <4>1, <4>2 DEF TypeOK
          <5> QED
            BY <2>5, <5>1 DEF Handed
        <4>3. CASE g = f
          <5> PICK t : t = <<f, Depth + 1>>
            OBVIOUS
          <5>1. t \in Node /\ t[1] = f /\ IsForward(t)
            BY FlowConstants DEF Node, IsForward
          <5>2. HasAct(t) /\ parent[t[1]] = Next1(n)
            BY <3>1, <4>1, <4>3, <5>1 DEF HasAct
          <5>3. runs[t] = 1
            BY <1>2, <5>1, <5>2, AllRun
          <5>4. ~OnStack(t)
            BY <1>4, <5>1 DEF OnStack
          <5>5. called[Next1(n)]
            BY <1>1, <3>1, <5>1, <5>2, <5>3, <5>4 DEF HandedOn, Handed
          <5> QED
            BY <1>3, <2>5, <3>1, <5>5 DEF Handed
        <4> QED
          BY <4>2, <4>3
      <3> QED
        BY <2>3, <2>5, <3>2, <3>3 DEF Handed
    <2> QED
      BY <2>4, <2>5
  <1> QED
    BY <1>5, <1>6 DEF HandedOn

(* The executed task is removed: a submission has triggered its node. *)
LEMMA PopHands == ChainInv /\ PopTask => Started' /\ HandedOn'
  <1> SUFFICES ASSUME ChainInv, PopTask PROVE Started' /\ HandedOn'
    OBVIOUS
  <1>1. IInv /\ TypeOK /\ Started /\ HandedOn /\ HeadRuns
    BY DEF ChainInv, IInv, TaskInv
  <1>2. /\ running /\ ~running' /\ tasks' = Tail(tasks) /\ tasks # << >>
        /\ UNCHANGED <<live, parent, called, runs, stack, pend>>
    BY <1>1 DEF PopTask, Rest, flowVars, nodeVars, HeadRuns
  <1>3. tasks \in Seq(TaskSet)
    BY <1>1, TaskFacts
  <1>4. /\ Len(tasks') = Len(tasks) - 1 /\ Len(tasks) \in Nat \ {0}
        /\ \A i \in 1..Len(tasks') : tasks'[i] = tasks[i + 1]
    BY <1>2, <1>3, TailFacts
  <1>5. ASSUME NEW f, Submitted(f) PROVE Submitted(f)'
    <2>1. PICK i \in 1..Len(tasks) : tasks[i].kind = "trig" /\ tasks[i].node = <<f, 1>> /\ i # 1
      BY <1>2, <1>5 DEF Submitted
    <2> PICK j \in Int : j = i - 1
      OBVIOUS
    <2>2. j \in 1..Len(tasks') /\ j + 1 = i
      BY <1>4, <2>1
    <2>3. tasks'[j].kind = "trig" /\ tasks'[j].node = <<f, 1>>
      BY <1>4, <2>1, <2>2
    <2> QED
      BY <1>2, <2>2, <2>3 DEF Submitted
  <1>6. Started'
    BY <1>1, <1>2, <1>5 DEF Started
  <1>7. HandedOn'
    BY <1>1, <1>2 DEF HandedOn, Handed, OnStack
  <1> QED
    BY <1>6, <1>7

(* A queued function is called: it is now on the stack. *)
LEMMA RunHands == ChainInv /\ RunTask => Started' /\ HandedOn'
  <1> SUFFICES ASSUME ChainInv, RunTask PROVE Started' /\ HandedOn'
    OBVIOUS
  <1>1. IInv /\ TypeOK /\ Started /\ HandedOn /\ QueuedTriggered
    BY DEF ChainInv, IInv, TaskInv
  <1>2. /\ stack = << >> /\ ~running /\ tasks # << >> /\ running' /\ UNCHANGED <<flowVars, pend>>
    BY DEF RunTask, More
  <1>3. tasks \in Seq(TaskSet) /\ 1 \in 1..Len(tasks) /\ Head(tasks) = tasks[1]
        /\ tasks[1].node \in Node
    BY <1>1, <1>2, TaskFacts
  <1> PICK n \in Node : n = tasks[1].node
    BY <1>3
  <1>4. CASE tasks[1].kind = "trig" /\ Trigge(n, "val", stack)
    BY <1>2, <1>4, LoopHands
  <1>5. CASE /\ tasks[1].kind = "act" /\ stack' = << Frame(n) >>
             /\ runs' = [runs EXCEPT ![n] = @ + 1] /\ UNCHANGED <<called, tasks>>
    <2>1. UNCHANGED <<live, parent>> /\ called[n]
      BY <1>1, <1>2, <1>3, <1>5 DEF flowVars, QueuedTriggered
    <2>2. \A f \in live : called'[<<f, 1>>] \/ (\E q \in pend' : q[1] = f) \/ Submitted(f)'
      <3>1. \A q \in pend : called'[<<q[1], 1>>] \/ \E r \in pend' : r[1] = q[1]
        BY <1>2
      <3>2. running' => running \/ (tasks # << >> /\ called'[tasks[1].node])
        BY <1>2, <1>5, <2>1
      <3>3. \A i \in 1..Len(tasks) : i \in 1..Len(tasks') /\ tasks'[i] = tasks[i]
        BY <1>5
      <3> QED
        BY <1>1, <1>5, <3>1, <3>2, <3>3, StartedKeeps
    <2>3. Started'
      BY <2>1, <2>2 DEF Started
    <2>4. OnStack(n)'
      <3>1. Len(stack') = 1 /\ stack'[1].node = n
        BY <1>5 DEF Frame
      <3> QED
        BY <3>1 DEF OnStack
    <2>5. \A m \in Node : m # n => runs'[m] = runs[m]
      BY <1>1, <1>5 DEF TypeOK
    <2>6. \A m \in Node : ~OnStack(m)
      BY <1>2 DEF OnStack
    <2>7. HandedOn'
      BY <1>1, <1>5, <2>1, <2>4, <2>5, <2>6, HandedKeeps
    <2> QED
      BY <2>3, <2>7
  <1> QED
    BY <1>3, <1>4, <1>5 DEF RunTask

\* Every step keeps ChainInv.
LEMMA NextHands == ChainInv /\ [Next]_vars => ChainInv'
  <1> SUFFICES ASSUME ChainInv, [Next]_vars PROVE Started' /\ HandedOn'
    BY NextKeeps DEF ChainInv
  <1>0. IInv /\ TypeOK /\ Started /\ HandedOn /\ PendLive /\ ParentLive
    BY DEF ChainInv, IInv
  <1>1. CASE Forward
    <2>1. stack # << >> /\ IsForward(Top.node)
      BY <1>1 DEF Forward
    <2>2. Top.node \in Node /\ Top.node[1] \in live /\ HasAct(Top.node)
      BY <1>0, <2>1, TopFacts
    <2>3. parent[Top.node[1]] # None /\ Top.node[1] \in Flow
      BY <2>1, <2>2, FlowConstants DEF HasAct, IsForward, Node
    <2> PICK n \in Node : n = parent[Top.node[1]]
      BY <1>0, <2>3 DEF TypeOK
    <2> PICK st : st = Pop(stack)
      OBVIOUS
    <2> PICK v : v = value[Top.node]
      OBVIOUS
    <2>4. Trigge(n, v, st) /\ UNCHANGED <<flowVars, running, pend>>
      BY <1>1 DEF Forward
    <2> QED
      BY <2>1, <2>4, EndHands
  <1>2. ASSUME NEW v, Finish(v) PROVE Started' /\ HandedOn'
    <2>1. stack # << >> /\ ~IsForward(Top.node)
      BY <1>2 DEF Finish
    <2> PICK n \in Node : n = Next1(Top.node)
      BY <1>0, <2>1, TopFacts, Next1Facts
    <2> PICK st : st = Pop(stack)
      OBVIOUS
    <2>2. Trigge(n, v, st) /\ UNCHANGED <<flowVars, running, pend>>
      BY <1>2 DEF Finish
    <2> QED
      BY <2>1, <2>2, EndHands
  <1>3. ASSUME NEW g \in Flow, NEW k \in Kinds, FinishInner(g, k) PROVE Started' /\ HandedOn'
    <2>1. stack # << >> /\ ~IsForward(Top.node) /\ g \notin live
      BY <1>3 DEF FinishInner
    <2>2. Next1(Top.node) \in Node /\ Pop(stack) \in Seq(FrameSet)
      BY <1>0, <2>1, TopFacts, Next1Facts DEF FramesOK
    <2> PICK p \in Node \cup {None} : p = Next1(Top.node)
      BY <2>2
    <2> PICK st \in Seq(FrameSet) : st = Pop(stack)
      BY <2>2
    <2>3. Submit(g, p, k, st) /\ UNCHANGED running
      BY <1>3 DEF FinishInner
    <2>4. Len(Pop(stack)) <= Len(st) /\ \A i \in 1..Len(Pop(stack)) : st[i] = Pop(stack)[i]
      OBVIOUS
    <2> QED
      BY <2>1, <2>3, <2>4, BuildHands
  <1>4. ASSUME NEW g \in Flow, NEW k \in Kinds, Spawn(g, k) PROVE Started' /\ HandedOn'
    <2>1. stack # << >> /\ g \notin live
      BY <1>4 DEF Spawn
    <2>2. Top \in FrameSet /\ Pop(stack) \in Seq(FrameSet)
      BY <1>0, <2>1, TopFacts DEF FramesOK
    <2> DEFINE e == [Top EXCEPT !.spawned = TRUE]
    <2>3. e \in FrameSet /\ e.node = Top.node
      BY <2>2 DEF FrameSet
    <2>4. Submit(g, None, k, Append(Pop(stack), e)) /\ UNCHANGED running
      BY <1>4 DEF Spawn
    <2> HIDE DEF e
    <2> PICK st : st = Append(Pop(stack), e)
      OBVIOUS
    <2>5. /\ st \in Seq(FrameSet) /\ Len(st) = Len(Pop(stack)) + 1
          /\ Len(Pop(stack)) \in Nat /\ st[Len(Pop(stack)) + 1] = e
          /\ \A i \in 1..Len(Pop(stack)) : st[i] = Pop(stack)[i]
      BY <2>2, <2>3, AppendFacts
    <2>6. Len(Pop(stack)) <= Len(st) /\ Len(Pop(stack)) + 1 \in 1..Len(st)
      BY <2>5
    <2>7. \E i \in 1..Len(st) : st[i].node = Top.node
      BY <2>3, <2>5, <2>6
    <2>8. Submit(g, None, k, st) /\ None \in Node \cup {None}
      BY <2>4
    <2> QED
      BY <2>1, <2>4, <2>5, <2>6, <2>7, <2>8, BuildHands
  <1>5. CASE StartTimers \/ StartTasks \/ EndTasks \/ UNCHANGED vars
    <2>1. UNCHANGED <<live, parent, called, runs, tasks, running, stack, pend>>
      BY <1>5 DEF StartTimers, StartTasks, EndTasks, vars, flowVars, nodeVars
    <2> QED
      BY <1>0, <2>1 DEF Started, Submitted, HandedOn, Handed, OnStack
  <1>6. CASE RunTask
    BY <1>6, RunHands
  <1>7. CASE PopTask
    BY <1>7, PopHands
  <1>8. ASSUME NEW f \in Flow, NEW v, FireTimer(f) \/ FireIo(f, v) PROVE Started' /\ HandedOn'
    <2>1. /\ stack = << >> /\ \E w : Trigge(<<f, 1>>, w, stack)
          /\ \E w : pend' = pend \ {<<f, w>>}
          /\ UNCHANGED <<flowVars, running>>
      BY <1>8 DEF FireTimer, FireIo
    <2> PICK n \in Node : n = <<f, 1>>
      BY NodeFacts
    <2>2. PICK w : Trigge(n, w, stack)
      BY <2>1
    <2>3. PICK z : pend' = pend \ {<<f, z>>}
      BY <2>1
    <2>4. \A q \in pend : q \in pend' \/ <<q[1], 1>> = n
      BY <2>3
    <2> QED
      BY <2>1, <2>2, <2>4, LoopHands
  <1>9. ASSUME NEW f \in Flow, Destroy(f) PROVE Started' /\ HandedOn'
    BY <1>9, DestroyHands
  <1>10. ASSUME NEW f \in Flow, Expire(f) PROVE Started' /\ HandedOn'
    <2>1. /\ UNCHANGED <<live, parent, called, runs, tasks, running, stack>>
          /\ pend' = (pend \ {<<f, "timer">>}) \cup {<<f, "due">>}
      BY <1>10 DEF Expire, flowVars, nodeVars
    <2>2. ASSUME NEW q \in pend PROVE \E r \in pend' : r[1] = q[1]
      <3>1. CASE q = <<f, "timer">>
        <4>1. <<f, "due">> \in pend' /\ <<f, "due">>[1] = q[1]
          BY <2>1, <3>1
        <4> QED
          BY <4>1
      <3>2. CASE q # <<f, "timer">>
        BY <2>1, <3>2
      <3> QED
        BY <3>1, <3>2
    <2>3. ASSUME NEW h \in live
          PROVE  called'[<<h, 1>>] \/ (\E q \in pend' : q[1] = h) \/ Submitted(h)'
      <3>1. \A i \in 1..Len(tasks) : i \in 1..Len(tasks') /\ tasks'[i] = tasks[i]
        BY <2>1
      <3>2. \A m \in Node : called[m] => called'[m]
        BY <2>1
      <3> QED
        BY <1>0, <2>1, <2>2, <3>1, <3>2, StartedKeeps
    <2>4. Started'
      BY <2>1, <2>3 DEF Started
    <2>5. HandedOn'
      BY <1>0, <2>1 DEF HandedOn, Handed, OnStack
    <2> QED
      BY <2>4, <2>5
  <1> QED
    BY <1>1, <1>2, <1>3, <1>4, <1>5, <1>6, <1>7, <1>8, <1>9, <1>10 DEF Next, Loop, User

\* It holds initially: main's flow waits for its event.
LEMMA InitHands == Init => ChainInv
  <1> SUFFICES ASSUME Init PROVE Started /\ HandedOn
    BY InitEstablishes DEF ChainInv
  <1>1. Started
    <2>1. PICK f \in Flow : live = {f} /\ pend = {<<f, "io">>}
      BY DEF Init
    <2> QED
      BY <2>1 DEF Started
  <1>2. HandedOn
    <2>1. \A n \in Node : runs[n] = 0
      BY DEF Init
    <2> QED
      BY <2>1 DEF HandedOn
  <1> QED
    BY <1>1, <1>2

(* When the last shared_ptr to a flow goes, all of its functions have run, in any      *)
(* number of nested chains of any length, whatever throws or returns inner flows.      *)
THEOREM NoneHalfDone == Spec => []NoHalfDoneFlow
  <1>1. ChainInv => NoHalfDoneFlow
    <2> SUFFICES ASSUME ChainInv, NEW f \in live, ~Referenced(f),
                        NEW n \in {f} \X (1..(Depth + 1)), HasAct(n)
                 PROVE  runs[n] = 1
      BY DEF NoHalfDoneFlow
    <2>1. n \in Node /\ n[1] = f
      BY DEF ChainInv, IInv, TypeOK, Node
    <2> QED
      BY <2>1, AllRun
  <1>2. Spec => []ChainInv
    BY InitHands, NextHands, PTL DEF Spec
  <1> QED
    BY <1>1, <1>2, PTL

-----------------------------------------------------------------------------
(* Chains run in order. *)

(* No two frames of a stack are of the same node. *)
FramesOnce(st) == \A i, j \in 1..Len(st) : st[i].node = st[j].node => i = j

InFrames(st, n) == \E i \in 1..Len(st) : st[i].node = n

(* The function in front of the node that waits for g has run and returned. *)
WaitsBehind(g) ==
    \E n \in Node : ~IsForward(n) /\ parent[g] = Next1(n) /\ runs[n] = 1 /\ ~OnStack(n)

StackOnce  == FramesOnce(stack)
StackRan   == \A n \in Node : OnStack(n) => runs[n] = 1
TrigFirst  == \A i \in 1..Len(tasks) : tasks[i].kind = "trig" => tasks[i].node[2] = 1
ParentOnce == \A g, h \in live : parent[g] # None /\ parent[g] = parent[h] => g = h
InnerAfter == \A g \in live : parent[g] # None => WaitsBehind(g)

OrderPart ==
    StackOnce /\ StackRan /\ TrigFirst /\ ParentOnce /\ InnerAfter /\ ChainInOrder

OrderInv == IInv /\ OrderPart

(* No node is behind itself, and none is behind two. *)
LEMMA Next1Once ==
    ASSUME NEW m \in Node, NEW n \in Node, ~IsForward(m)
    PROVE  Next1(m) # m /\ (Next1(m) = Next1(n) => m = n) /\ Next1(m)[2] # 1 /\ Next1(m) # None
  BY FlowConstants DEF Node, Next1, IsForward

(* The stack becomes st, or st with a function of n that is called now. *)
LEMMA StackMove ==
    ASSUME IInv, StackRan, NEW st \in Seq(FrameSet), FramesOnce(st),
           \A i \in 1..Len(st) : OnStack(st[i].node), NEW n \in Node,
           \/ stack' = st /\ UNCHANGED runs
           \/ /\ stack' = Append(st, Frame(n)) /\ runs[n] = 0
              /\ runs' = [runs EXCEPT ![n] = @ + 1]
    PROVE  /\ StackOnce' /\ StackRan'
           /\ \A m \in Node : runs[m] = 1 => runs'[m] = 1
           /\ \A m \in Node : runs[m] = 1 /\ OnStack(m)' => InFrames(st, m)
  <1>1. runs \in [Node -> Nat]
    BY DEF IInv, TypeOK
  <1>2. \A i \in 1..Len(st) : st[i].node \in Node /\ runs[st[i].node] = 1
    <2> SUFFICES ASSUME NEW i \in 1..Len(st)
                 PROVE  st[i].node \in Node /\ runs[st[i].node] = 1
      OBVIOUS
    <2>1. st[i] \in FrameSet
      OBVIOUS
    <2>2. st[i].node \in Node
      BY <2>1 DEF FrameSet
    <2> QED
      BY <2>2 DEF StackRan
  <1>3. CASE stack' = st /\ UNCHANGED runs
    BY <1>2, <1>3 DEF StackOnce, StackRan, FramesOnce, OnStack, InFrames
  <1>4. CASE /\ stack' = Append(st, Frame(n)) /\ runs[n] = 0
             /\ runs' = [runs EXCEPT ![n] = @ + 1]
    <2>1. Frame(n) \in FrameSet /\ Frame(n).node = n
      BY DEF Frame, FrameSet
    <2> PICK k \in Nat : k = Len(st)
      OBVIOUS
    <2>2. /\ Len(stack') = k + 1 /\ stack'[k + 1].node = n
          /\ \A i \in 1..k : stack'[i] = st[i]
      BY <1>4, <2>1, AppendFacts
    <2>3. \A i \in 1..(k + 1) : i \in 1..k \/ i = k + 1
      OBVIOUS
    <2>4. runs'[n] = 1 /\ \A m \in Node : m # n => runs'[m] = runs[m]
      BY <1>1, <1>4
    <2>5. \A i \in 1..k : stack'[i].node \in Node /\ stack'[i].node # n
      BY <1>2, <1>4, <2>2
    <2>6. StackOnce'
      <3> SUFFICES ASSUME NEW i \in 1..(k + 1), NEW j \in 1..(k + 1),
                          stack'[i].node = stack'[j].node
                   PROVE  i = j
        BY <2>2 DEF StackOnce, FramesOnce
      <3>1. CASE i = k + 1 \/ j = k + 1
        BY <2>2, <2>3, <2>5, <3>1
      <3>2. CASE i \in 1..k /\ j \in 1..k
        BY <2>2, <3>2 DEF FramesOnce
      <3> QED
        BY <2>3, <3>1, <3>2
    <2>7. \A m \in Node : OnStack(m)' => m = n \/ InFrames(st, m)
      BY <2>2, <2>3 DEF OnStack, InFrames
    <2>8. \A m \in Node : InFrames(st, m) => runs[m] = 1 /\ m # n
      BY <1>2, <1>4 DEF InFrames
    <2>9. StackRan'
      BY <2>4, <2>7, <2>8 DEF StackRan
    <2>10. \A m \in Node : runs[m] = 1 => m # n /\ runs'[m] = 1
      BY <1>4, <2>4
    <2> QED
      BY <2>6, <2>7, <2>9, <2>10
  <1> QED
    BY <1>3, <1>4

(* Functions go on, nodes of a set N are triggered and at most one flow is built: what  *)
(* has run stays so, what has returned does not come back.                              *)
LEMMA OrderGrows ==
    ASSUME IInv, ParentOnce, InnerAfter, ChainInOrder,
           \A m \in Node : runs[m] = 1 => runs'[m] = 1,
           \A m \in Node : runs[m] = 1 /\ OnStack(m)' => OnStack(m),
           NEW N, \A m \in Node : called'[m] => called[m] \/ m \in N,
           \A m \in Node : ~IsForward(m) /\ Next1(m) \in N => runs'[m] = 1 /\ ~OnStack(m)',
           \A g \in live : parent[g] \in N => runs[<<g, Depth + 1>>] = 1,
           NEW new, live' = live \cup new, \A g, h \in new : g = h,
           \A g \in live : parent'[g] = parent[g],
           \A g \in new : parent'[g] # None =>
               WaitsBehind(g)' /\ ~called'[parent'[g]] /\ \A h \in live : parent[h] # parent'[g]
    PROVE  ParentOnce' /\ InnerAfter' /\ ChainInOrder'
  <1>1. live \subseteq Flow /\ \A g \in live : parent[g] \in Node \cup {None}
    BY DEF IInv, TypeOK
  <1>2. ParentOnce'
    BY DEF ParentOnce
  <1>3. InnerAfter'
    <2> SUFFICES ASSUME NEW g \in live, parent[g] # None PROVE WaitsBehind(g)'
      BY DEF InnerAfter
    <2>1. PICK n \in Node : ~IsForward(n) /\ parent[g] = Next1(n) /\ runs[n] = 1 /\ ~OnStack(n)
      BY DEF InnerAfter, WaitsBehind
    <2>2. parent'[g] = Next1(n) /\ runs'[n] = 1 /\ ~OnStack(n)'
      BY <2>1
    <2> QED
      BY <2>1, <2>2 DEF WaitsBehind
  <1>4. ASSUME NEW m \in Node, ~IsForward(m), called'[Next1(m)]
        PROVE  runs'[m] = 1 /\ ~OnStack(m)'
    <2>1. Next1(m) \in Node
      BY <1>4, Next1Facts
    <2>2. CASE called[Next1(m)]
      BY <1>4, <2>2 DEF ChainInOrder
    <2>3. CASE Next1(m) \in N
      BY <1>4, <2>3
    <2> QED
      BY <1>4, <2>1, <2>2, <2>3
  <1>5. ASSUME NEW g \in live', parent'[g] # None, called'[parent'[g]]
        PROVE  runs'[<<g, Depth + 1>>] = 1
    <2>1. g \in live /\ parent'[g] = parent[g] /\ parent[g] \in Node
      BY <1>1, <1>5
    <2>2. runs[<<g, Depth + 1>>] = 1
      BY <1>5, <2>1 DEF ChainInOrder
    <2>3. <<g, Depth + 1>> \in Node
      BY <1>1, <2>1, FlowConstants DEF Node
    <2> QED
      BY <2>2, <2>3
  <1>6. ChainInOrder'
    BY <1>4, <1>5 DEF ChainInOrder
  <1> QED
    BY <1>2, <1>3, <1>6

(* The list of tasks keeps its submissions, and a new one is of a first node. *)
LEMMA TrigFirstKeeps ==
    ASSUME TypeOK, TrigFirst, NEW t \in TaskSet, t.kind = "trig" => t.node[2] = 1,
           UNCHANGED tasks \/ tasks' = Append(tasks, t)
    PROVE  TrigFirst'
  <1>1. tasks \in Seq(TaskSet)
    BY TaskFacts
  <1>2. CASE UNCHANGED tasks
    BY <1>2 DEF TrigFirst
  <1>3. CASE tasks' = Append(tasks, t)
    <2> PICK k \in Nat : k = Len(tasks)
      BY <1>1
    <2>1. /\ Len(tasks') = k + 1 /\ tasks'[k + 1] = t
          /\ \A i \in 1..k : tasks'[i] = tasks[i]
      BY <1>1, <1>3, AppendFacts
    <2>2. \A i \in 1..(k + 1) : i \in 1..k \/ i = k + 1
      OBVIOUS
    <2> QED
      BY <2>1, <2>2 DEF TrigFirst
  <1> QED
    BY <1>2, <1>3

(* What trigge needs to keep the order: the node in front of n has run and returned,    *)
(* and if an inner flow's result is passed to n, the inner flow is through.             *)
LEMMA TriggeOrder ==
    ASSUME OrderInv, NEW n \in Node, NEW v, NEW st \in Seq(FrameSet), FramesOnce(st),
           \A i \in 1..Len(st) : OnStack(st[i].node),
           Trigge(n, v, st), UNCHANGED flowVars,
           \A m \in Node : ~IsForward(m) /\ Next1(m) = n => runs[m] = 1 /\ ~InFrames(st, m),
           \A g \in live : parent[g] = n => runs[<<g, Depth + 1>>] = 1
    PROVE  OrderPart'
  <1>1. IInv /\ TypeOK /\ StackRan /\ TrigFirst /\ ParentOnce /\ InnerAfter /\ ChainInOrder
    BY DEF OrderInv, OrderPart, IInv
  <1>2. UNCHANGED <<live, parent>>
    BY DEF flowVars
  <1>3. ~called[n] => runs[n] = 0
    BY <1>1 DEF IInv, TaskInv, RanOnce
  <1>4. /\ \A m \in Node : called'[m] => called[m] \/ m = n
        /\ UNCHANGED tasks \/ tasks' = Append(tasks, Act(n))
        /\ \/ stack' = st /\ UNCHANGED runs
           \/ /\ stack' = Append(st, Frame(n)) /\ runs[n] = 0
              /\ runs' = [runs EXCEPT ![n] = @ + 1]
    <2>1. called \in [Node -> BOOLEAN]
      BY <1>1 DEF TypeOK
    <2> QED
      BY <1>3, <2>1 DEF Trigge, AlreadyCalled, nodeVars
  <1>5. /\ StackOnce' /\ StackRan'
        /\ \A m \in Node : runs[m] = 1 => runs'[m] = 1
        /\ \A m \in Node : runs[m] = 1 /\ OnStack(m)' => InFrames(st, m)
    BY <1>1, <1>4, StackMove
  <1>6. TrigFirst'
    <2>1. Act(n) \in TaskSet /\ Act(n).kind # "trig"
      BY DEF Act, TaskSet
    <2> QED
      BY <1>1, <1>4, <2>1, TrigFirstKeeps
  <1>7. \A m \in Node : runs[m] = 1 /\ OnStack(m)' => OnStack(m)
    BY <1>5 DEF InFrames
  <1>8. \A m \in Node : ~IsForward(m) /\ Next1(m) \in {n} => runs'[m] = 1 /\ ~OnStack(m)'
    BY <1>5
  <1>9. ParentOnce' /\ InnerAfter' /\ ChainInOrder'
    <2>1. \A m \in Node : called'[m] => called[m] \/ m \in {n}
      BY <1>4
    <2>2. \A g \in live : parent[g] \in {n} => runs[<<g, Depth + 1>>] = 1
      OBVIOUS
    <2> PICK none : none = {}
      OBVIOUS
    <2>3. live' = live \cup none /\ \A g \in live : parent'[g] = parent[g]
      BY <1>2
    <2>4. /\ \A g, h \in none : g = h
          /\ \A g \in none : parent'[g] # None =>
               /\ WaitsBehind(g)' /\ ~called'[parent'[g]]
               /\ \A h \in live : parent[h] # parent'[g]
      OBVIOUS
    <2> QED
      BY <1>1, <1>5, <1>7, <1>8, <2>1, <2>2, <2>3, <2>4, OrderGrows
  <1> QED
    BY <1>5, <1>6, <1>9 DEF OrderPart

(* The stack without its top: the function on top is not in it, nor twice on it.        *)
LEMMA PoppedOnce ==
    ASSUME IInv, StackOnce, stack # << >>
    PROVE  /\ Pop(stack) \in Seq(FrameSet) /\ FramesOnce(Pop(stack))
           /\ \A i \in 1..Len(Pop(stack)) : OnStack(Pop(stack)[i].node)
           /\ ~InFrames(Pop(stack), Top.node) /\ OnStack(Top.node)
  <1>1. stack \in Seq(FrameSet)
    BY FrameFacts DEF IInv
  <1>2. /\ Pop(stack) \in Seq(FrameSet) /\ Len(Pop(stack)) = Len(stack) - 1
        /\ Len(stack) \in Nat \ {0}
        /\ \A i \in 1..Len(Pop(stack)) : Pop(stack)[i] = stack[i]
    BY <1>1, PopFacts
  <1>3. \A i \in 1..Len(Pop(stack)) : i \in 1..Len(stack) /\ i # Len(stack)
    BY <1>2
  <1>4. Len(stack) \in 1..Len(stack)
    BY <1>2
  <1>5. FramesOnce(Pop(stack))
    BY <1>2, <1>3 DEF StackOnce, FramesOnce
  <1>6. \A i \in 1..Len(Pop(stack)) : OnStack(Pop(stack)[i].node)
    BY <1>2, <1>3 DEF OnStack
  <1>7. ~InFrames(Pop(stack), Top.node) /\ OnStack(Top.node)
    BY <1>2, <1>3, <1>4 DEF StackOnce, FramesOnce, InFrames, OnStack, Top
  <1> QED
    BY <1>2, <1>5, <1>6, <1>7

\* The lambda behind an inner flow passes its result on: the flow is through, and no
\* other flow reports to the same node.
LEMMA ForwardOrder == OrderInv /\ Forward => OrderPart'
  <1> SUFFICES ASSUME OrderInv, Forward PROVE OrderPart'
    OBVIOUS
  <1>1. /\ IInv /\ TypeOK /\ StackOnce /\ StackRan /\ ParentOnce /\ InnerAfter
        /\ stack # << >> /\ IsForward(Top.node)
    BY DEF OrderInv, OrderPart, IInv, Forward
  <1> PICK t \in Node : t = Top.node
    BY <1>1, TopFacts
  <1>2. t[1] \in live /\ HasAct(t) /\ t = <<t[1], Depth + 1>>
    BY <1>1, TopFacts DEF Node, IsForward
  <1>3. parent[t[1]] # None
    BY <1>1, <1>2, FlowConstants DEF HasAct, IsForward
  <1> PICK n \in Node : n = parent[t[1]]
    BY <1>1, <1>2, <1>3 DEF TypeOK
  <1> PICK st \in Seq(FrameSet) : st = Pop(stack)
    BY <1>1, PoppedOnce
  <1> PICK v : v = value[t]
    OBVIOUS
  <1>4. Trigge(n, v, st) /\ UNCHANGED flowVars
    BY DEF Forward
  <1>5. FramesOnce(st) /\ (\A i \in 1..Len(st) : OnStack(st[i].node)) /\ OnStack(t)
    BY <1>1, PoppedOnce
  <1>6. \A g \in live : parent[g] = n => runs[<<g, Depth + 1>>] = 1
    <2> SUFFICES ASSUME NEW g \in live, parent[g] = n PROVE runs[<<g, Depth + 1>>] = 1
      OBVIOUS
    <2>1. g = t[1]
      BY <1>1, <1>2, <1>3 DEF ParentOnce
    <2> QED
      BY <1>1, <1>2, <1>5, <2>1 DEF StackRan
  <1>7. PICK m \in Node : ~IsForward(m) /\ n = Next1(m) /\ runs[m] = 1 /\ ~OnStack(m)
    BY <1>1, <1>2, <1>3 DEF InnerAfter, WaitsBehind
  <1>8. ASSUME NEW k \in Node, ~IsForward(k), Next1(k) = n
        PROVE  runs[k] = 1 /\ ~InFrames(st, k)
    <2>1. k = m
      BY <1>7, <1>8, Next1Once
    <2> QED
      BY <1>5, <1>7, <2>1 DEF InFrames
  <1> QED
    BY <1>4, <1>5, <1>6, <1>8, TriggeOrder

\* A user's function returns or throws: it has run and is off the stack, and no inner
\* flow reports to the node behind it.
LEMMA FinishOrder ==
    ASSUME OrderInv, NEW v, Finish(v)
    PROVE  OrderPart'
  <1>1. /\ IInv /\ StackOnce /\ StackRan /\ InnerAfter
        /\ stack # << >> /\ ~IsForward(Top.node)
    BY DEF OrderInv, OrderPart, Finish
  <1> PICK t \in Node : t = Top.node
    BY <1>1, TopFacts
  <1> PICK n \in Node : n = Next1(t)
    BY <1>1, Next1Facts
  <1> PICK st \in Seq(FrameSet) : st = Pop(stack)
    BY <1>1, PoppedOnce
  <1>2. Trigge(n, v, st) /\ UNCHANGED flowVars
    BY DEF Finish
  <1>3. /\ FramesOnce(st) /\ \A i \in 1..Len(st) : OnStack(st[i].node)
        /\ ~InFrames(st, t) /\ OnStack(t) /\ runs[t] = 1
    BY <1>1, PoppedOnce DEF StackRan
  <1>4. ASSUME NEW m \in Node, ~IsForward(m), Next1(m) = n
        PROVE  runs[m] = 1 /\ ~InFrames(st, m)
    BY <1>3, <1>4, Next1Once
  <1>5. ASSUME NEW g \in live, parent[g] = n PROVE FALSE
    <2>1. n # None
      BY <1>1, Next1Once
    <2>2. PICK m \in Node : ~IsForward(m) /\ n = Next1(m) /\ ~OnStack(m)
      BY <1>1, <1>5, <2>1 DEF InnerAfter, WaitsBehind
    <2> QED
      BY <1>1, <1>3, <2>2, Next1Once
  <1> QED
    BY <1>2, <1>3, <1>4, <1>5, TriggeOrder

\* The loop triggers the first node of a flow, in front of which there is none.
LEMMA FirstOrder ==
    ASSUME OrderInv, stack = << >>, NEW n \in Node, n[2] = 1, NEW v, Trigge(n, v, stack),
           UNCHANGED flowVars
    PROVE  OrderPart'
  <1>1. IInv /\ InnerAfter
    BY DEF OrderInv, OrderPart
  <1> PICK st \in Seq(FrameSet) : st = stack
    BY <1>1, FrameFacts DEF IInv
  <1>2. FramesOnce(st) /\ \A i \in 1..Len(st) : OnStack(st[i].node)
    BY DEF FramesOnce
  <1>3. \A m \in Node : ~IsForward(m) => Next1(m) # n
    BY Next1Once
  <1>4. n # None
    BY NodeFacts
  <1>5. \A g \in live : parent[g] # n
    BY <1>1, <1>3, <1>4 DEF InnerAfter, WaitsBehind
  <1>6. Trigge(n, v, st)
    OBVIOUS
  <1> QED
    BY <1>2, <1>3, <1>5, <1>6, TriggeOrder

(* A flow is built: if a node waits for its result, the function in front of that node  *)
(* has just returned, so that neither anything triggered the node nor waits for it.      *)
LEMMA SubmitOrder ==
    ASSUME OrderInv, NEW g \in Flow, g \notin live, NEW p \in Node \cup {None},
           NEW kind \in Kinds, NEW st \in Seq(FrameSet), FramesOnce(st),
           \A i \in 1..Len(st) : OnStack(st[i].node), Submit(g, p, kind, st),
           p # None => \E t \in Node :
               ~IsForward(t) /\ p = Next1(t) /\ OnStack(t) /\ ~InFrames(st, t)
    PROVE  OrderPart'
  <1>1. IInv /\ TypeOK /\ StackRan /\ TrigFirst /\ ParentOnce /\ InnerAfter /\ ChainInOrder
    BY DEF OrderInv, OrderPart, IInv
  <1> PICK n \in Node : n = <<g, 1>>
    BY NodeFacts
  <1>2. runs[n] = 0 /\ n[2] = 1 /\ n # None
    BY <1>1, NodeFacts DEF IInv, TaskInv, DeadUntouched
  <1>3. /\ live' = live \cup {g} /\ parent'[g] = p /\ \A h \in live : parent'[h] = parent[h]
    BY <1>1 DEF Submit, TypeOK
  <1>4. /\ \A m \in Node : called'[m] => called[m] \/ m = n
        /\ UNCHANGED tasks \/ tasks' = Append(tasks, Act(n)) \/ tasks' = Append(tasks, Trig(n))
        /\ \/ stack' = st /\ UNCHANGED runs
           \/ /\ stack' = Append(st, Frame(n)) /\ runs[n] = 0
              /\ runs' = [runs EXCEPT ![n] = @ + 1]
    <2>1. called \in [Node -> BOOLEAN]
      BY <1>1 DEF TypeOK
    <2> QED
      BY <1>2, <2>1 DEF Submit, nodeVars
  <1>5. /\ StackOnce' /\ StackRan'
        /\ \A m \in Node : runs[m] = 1 => runs'[m] = 1
        /\ \A m \in Node : runs[m] = 1 /\ OnStack(m)' => InFrames(st, m)
    BY <1>1, <1>4, StackMove
  <1>6. TrigFirst'
    <2>1. /\ Act(n) \in TaskSet /\ Act(n).kind # "trig"
          /\ Trig(n) \in TaskSet /\ Trig(n).node[2] = 1
      BY <1>2 DEF Act, Trig, TaskSet
    <2> QED
      BY <1>1, <1>4, <2>1, TrigFirstKeeps
  <1>7. \A m \in Node : runs[m] = 1 /\ OnStack(m)' => OnStack(m)
    BY <1>5 DEF InFrames
  <1>8. \A m \in Node : ~IsForward(m) => Next1(m) \notin {n}
    BY <1>2, Next1Once
  <1>9. \A h \in live : parent[h] \notin {n}
    BY <1>1, <1>2, <1>8 DEF InnerAfter, WaitsBehind
  <1>10. ASSUME p # None
         PROVE  WaitsBehind(g)' /\ ~called'[p] /\ \A h \in live : parent[h] # p
    <2>1. PICK t \in Node : ~IsForward(t) /\ p = Next1(t) /\ OnStack(t) /\ ~InFrames(st, t)
      BY <1>10
    <2>2. runs[t] = 1
      BY <1>1, <2>1 DEF StackRan
    <2>3. runs'[t] = 1 /\ ~OnStack(t)'
      BY <1>5, <2>1, <2>2
    <2>4. WaitsBehind(g)'
      BY <1>3, <2>1, <2>3 DEF WaitsBehind
    <2>5. p \in Node /\ p # n /\ ~called[p]
      BY <1>1, <1>8, <1>10, <2>1 DEF ChainInOrder
    <2>6. ASSUME NEW h \in live, parent[h] = p PROVE FALSE
      <3>1. PICK m \in Node : ~IsForward(m) /\ p = Next1(m) /\ ~OnStack(m)
        BY <1>1, <1>10, <2>6 DEF InnerAfter, WaitsBehind
      <3> QED
        BY <2>1, <3>1, Next1Once
    <2> QED
      BY <1>4, <2>4, <2>5, <2>6
  <1>11. ParentOnce' /\ InnerAfter' /\ ChainInOrder'
    <2> PICK new : new = {g}
      OBVIOUS
    <2>1. \A m \in Node : called'[m] => called[m] \/ m \in {n}
      BY <1>4
    <2>2. live' = live \cup new /\ \A h, k \in new : h = k
      BY <1>3
    <2>3. \A h \in new : parent'[h] # None =>
            WaitsBehind(h)' /\ ~called'[parent'[h]] /\ \A k \in live : parent[k] # parent'[h]
      <3> SUFFICES ASSUME NEW h \in new, parent'[h] # None
                   PROVE  /\ WaitsBehind(h)' /\ ~called'[parent'[h]]
                          /\ \A k \in live : parent[k] # parent'[h]
        OBVIOUS
      <3>1. h = g /\ parent'[h] = p
        BY <1>3
      <3>2. WaitsBehind(g)' => WaitsBehind(h)'
        BY <3>1 DEF WaitsBehind
      <3> QED
        BY <1>10, <3>1, <3>2
    <2>4. \A m \in Node : ~IsForward(m) /\ Next1(m) \in {n} => runs'[m] = 1 /\ ~OnStack(m)'
      BY <1>8
    <2>5. \A h \in live : parent[h] \in {n} => runs[<<h, Depth + 1>>] = 1
      BY <1>9
    <2> QED
      BY <1>1, <1>3, <1>5, <1>7, <2>1, <2>2, <2>3, <2>4, <2>5, OrderGrows
  <1> QED
    BY <1>5, <1>6, <1>11 DEF OrderPart

\* A function returns an inner flow.
LEMMA FinishInnerOrder ==
    ASSUME OrderInv, NEW g \in Flow, NEW kind \in Kinds, FinishInner(g, kind)
    PROVE  OrderPart'
  <1>1. /\ IInv /\ StackOnce /\ stack # << >> /\ ~IsForward(Top.node) /\ g \notin live
    BY DEF OrderInv, OrderPart, FinishInner
  <1> PICK t \in Node : t = Top.node
    BY <1>1, TopFacts
  <1> PICK p \in Node \cup {None} : p = Next1(t)
    BY <1>1, Next1Facts
  <1> PICK st \in Seq(FrameSet) : st = Pop(stack)
    BY <1>1, PoppedOnce
  <1>2. Submit(g, p, kind, st)
    BY DEF FinishInner
  <1>3. /\ FramesOnce(st) /\ \A i \in 1..Len(st) : OnStack(st[i].node)
        /\ ~InFrames(st, t) /\ OnStack(t)
    BY <1>1, PoppedOnce
  <1> QED
    BY <1>1, <1>2, <1>3, SubmitOrder

\* A function submits an independent flow and goes on.
LEMMA SpawnOrder ==
    ASSUME OrderInv, NEW g \in Flow, NEW kind \in Kinds, Spawn(g, kind)
    PROVE  OrderPart'
  <1>1. IInv /\ StackOnce /\ stack # << >> /\ g \notin live
    BY DEF OrderInv, OrderPart, Spawn
  <1>2. Top \in FrameSet /\ Pop(stack) \in Seq(FrameSet)
    BY <1>1, TopFacts DEF FramesOK
  <1> DEFINE e == [Top EXCEPT !.spawned = TRUE]
  <1>3. e \in FrameSet /\ e.node = Top.node
    BY <1>2 DEF FrameSet
  <1>4. Submit(g, None, kind, Append(Pop(stack), e))
    BY DEF Spawn
  <1> HIDE DEF e
  <1> PICK q \in Seq(FrameSet) : q = Pop(stack)
    BY <1>2
  <1> PICK k \in Nat : k = Len(q)
    OBVIOUS
  <1> PICK st : st = Append(q, e)
    OBVIOUS
  <1>5. /\ st \in Seq(FrameSet) /\ Len(st) = k + 1 /\ st[k + 1] = e
        /\ \A i \in 1..k : st[i] = q[i]
    BY <1>3, AppendFacts
  <1>6. \A i \in 1..(k + 1) : i \in 1..k \/ i = k + 1
    OBVIOUS
  <1>7. /\ FramesOnce(q) /\ \A i \in 1..k : OnStack(q[i].node)
        /\ ~InFrames(q, Top.node) /\ OnStack(Top.node)
    BY <1>1, PoppedOnce
  <1>8. \A i \in 1..Len(st) : OnStack(st[i].node)
    <2> SUFFICES ASSUME NEW i \in 1..(k + 1) PROVE OnStack(st[i].node)
      BY <1>5
    <2>1. CASE i = k + 1
      <3>1. st[i].node = Top.node
        BY <1>3, <1>5, <2>1
      <3> QED
        BY <1>7, <3>1 DEF OnStack
    <2>2. CASE i \in 1..k
      BY <1>5, <1>7, <2>2 DEF OnStack
    <2> QED
      BY <1>6, <2>1, <2>2
  <1>9. FramesOnce(st)
    <2> SUFFICES ASSUME NEW i \in 1..(k + 1), NEW j \in 1..(k + 1), st[i].node = st[j].node
                 PROVE  i = j
      BY <1>5 DEF FramesOnce
    <2>1. \A l \in 1..k : st[l].node # Top.node
      BY <1>5, <1>7 DEF InFrames
    <2>2. CASE i = k + 1 \/ j = k + 1
      BY <1>3, <1>5, <1>6, <2>1, <2>2
    <2>3. CASE i \in 1..k /\ j \in 1..k
      BY <1>5, <1>7, <2>3 DEF FramesOnce
    <2> QED
      BY <1>6, <2>2, <2>3
  <1>10. Submit(g, None, kind, st) /\ None \in Node \cup {None}
    BY <1>4
  <1> QED
    BY <1>1, <1>5, <1>8, <1>9, <1>10, SubmitOrder

\* A flow that nothing refers to goes: no other flow waits in it or reports to it.
LEMMA DestroyOrder ==
    ASSUME OrderInv, NEW f \in Flow, Destroy(f)
    PROVE  OrderPart'
  <1>1. /\ IInv /\ TypeOK /\ StackOnce /\ StackRan /\ TrigFirst /\ ParentOnce /\ InnerAfter
        /\ ChainInOrder
    BY DEF OrderInv, OrderPart, IInv
  <1>2. /\ ~Referenced(f) /\ live' = live \ {f} /\ parent' = [parent EXCEPT ![f] = None]
        /\ UNCHANGED <<tasks, stack>>
    BY DEF Destroy
  <1>3. /\ \A m \in Node : m[1] # f => (called'[m] <=> called[m]) /\ runs'[m] = runs[m]
        /\ \A m \in Node : m[1] = f => ~called'[m]
    BY DEF Destroy
  <1>4. /\ \A i \in 1..Len(stack) : stack[i].node[1] # f
        /\ \A g \in live : parent[g] # None => parent[g][1] # f
    BY <1>2 DEF Referenced
  <1>5. \A m : OnStack(m)' <=> OnStack(m)
    BY <1>2 DEF OnStack
  <1>6. StackOnce' /\ TrigFirst'
    BY <1>1, <1>2 DEF StackOnce, TrigFirst, FramesOnce
  <1>7. StackRan'
    <2>1. \A m \in Node : OnStack(m) => m[1] # f
      BY <1>4 DEF OnStack
    <2> QED
      BY <1>1, <1>3, <1>5, <2>1 DEF StackRan
  <1>8. \A g \in live' : g \in live /\ g # f /\ g \in Flow /\ parent'[g] = parent[g]
    BY <1>1, <1>2 DEF TypeOK
  <1>9. ParentOnce'
    BY <1>1, <1>8 DEF ParentOnce
  <1>10. InnerAfter'
    <2> SUFFICES ASSUME NEW g \in live', parent'[g] # None PROVE WaitsBehind(g)'
      BY DEF InnerAfter
    <2>1. g \in live /\ parent'[g] = parent[g] /\ parent[g] # None
      BY <1>8
    <2>2. PICK n \in Node : ~IsForward(n) /\ parent[g] = Next1(n) /\ runs[n] = 1 /\ ~OnStack(n)
      BY <1>1, <2>1 DEF InnerAfter, WaitsBehind
    <2>3. n[1] # f
      BY <1>4, <2>1, <2>2, Next1Facts
    <2>4. parent'[g] = Next1(n) /\ runs'[n] = 1 /\ ~OnStack(n)'
      BY <1>3, <1>5, <2>1, <2>2, <2>3
    <2> QED
      BY <2>2, <2>4 DEF WaitsBehind
  <1>11. ASSUME NEW m \in Node, ~IsForward(m), called'[Next1(m)]
         PROVE  runs'[m] = 1 /\ ~OnStack(m)'
    <2>1. Next1(m) \in Node /\ Next1(m)[1] = m[1]
      BY <1>11, Next1Facts
    <2>2. m[1] # f /\ called[Next1(m)]
      BY <1>3, <1>11, <2>1
    <2>3. runs[m] = 1 /\ ~OnStack(m)
      BY <1>1, <1>11, <2>2 DEF ChainInOrder
    <2> QED
      BY <1>3, <1>5, <2>2, <2>3
  <1>12. ASSUME NEW g \in live', parent'[g] # None, called'[parent'[g]]
         PROVE  runs'[<<g, Depth + 1>>] = 1
    <2>1. g \in live /\ g # f /\ g \in Flow /\ parent'[g] = parent[g] /\ parent[g] # None
      BY <1>8, <1>12
    <2>2. parent[g] \in Node /\ parent[g][1] # f
      BY <1>1, <1>4, <2>1 DEF TypeOK
    <2>3. called[parent[g]]
      BY <1>3, <1>12, <2>1, <2>2
    <2>4. runs[<<g, Depth + 1>>] = 1
      BY <1>1, <2>1, <2>3 DEF ChainInOrder
    <2>5. <<g, Depth + 1>> \in Node /\ <<g, Depth + 1>>[1] # f
      BY <2>1, FlowConstants DEF Node
    <2> QED
      BY <1>3, <2>4, <2>5
  <1>13. ChainInOrder'
    BY <1>11, <1>12 DEF ChainInOrder
  <1> QED
    BY <1>6, <1>7, <1>9, <1>10, <1>13 DEF OrderPart

\* A task is executed: a submission triggers a first node, and a queued function has
\* not run, so that nothing behind it has been triggered.
LEMMA RunOrder == OrderInv /\ RunTask => OrderPart'
  <1> SUFFICES ASSUME OrderInv, RunTask PROVE OrderPart'
    OBVIOUS
  <1>1. /\ IInv /\ TypeOK /\ StackRan /\ TrigFirst /\ ParentOnce /\ InnerAfter /\ ChainInOrder
        /\ QueuedNotRun
    BY DEF OrderInv, OrderPart, IInv, TaskInv
  <1>2. stack = << >> /\ ~running /\ tasks # << >> /\ UNCHANGED flowVars
    BY DEF RunTask, More
  <1>3. /\ tasks \in Seq(TaskSet) /\ 1 \in 1..Len(tasks) /\ Head(tasks) = tasks[1]
        /\ tasks[1].node \in Node
    BY <1>1, <1>2, TaskFacts
  <1> PICK n \in Node : n = tasks[1].node
    BY <1>3
  <1>4. CASE tasks[1].kind = "trig" /\ Trigge(n, "val", stack)
    <2>1. n[2] = 1
      BY <1>1, <1>3, <1>4 DEF TrigFirst
    <2> QED
      BY <1>2, <1>4, <2>1, FirstOrder
  <1>5. CASE /\ tasks[1].kind = "act" /\ stack' = << Frame(n) >>
             /\ runs' = [runs EXCEPT ![n] = @ + 1] /\ UNCHANGED <<called, tasks>>
    <2> PICK st \in Seq(FrameSet) : st = << >>
      BY <1>1, <1>2, FrameFacts
    <2>1. runs[n] = 0
      BY <1>1, <1>2, <1>3, <1>5 DEF QueuedNotRun, Waiting
    <2>2. FramesOnce(st) /\ \A i \in 1..Len(st) : OnStack(st[i].node)
      BY DEF FramesOnce
    <2>3. stack' = Append(st, Frame(n))
      BY <1>5
    <2>4. /\ StackOnce' /\ StackRan'
          /\ \A m \in Node : runs[m] = 1 => runs'[m] = 1
          /\ \A m \in Node : runs[m] = 1 /\ OnStack(m)' => InFrames(st, m)
      BY <1>1, <1>5, <2>1, <2>2, <2>3, StackMove
    <2>5. \A m \in Node : runs[m] = 1 /\ OnStack(m)' => OnStack(m)
      BY <2>4 DEF InFrames
    <2>6. TrigFirst'
      BY <1>1, <1>5 DEF TrigFirst
    <2> PICK none : none = {}
      OBVIOUS
    <2>7. /\ \A m \in Node : called'[m] => called[m] \/ m \in none
          /\ \A m \in Node : ~IsForward(m) /\ Next1(m) \in none => runs'[m] = 1 /\ ~OnStack(m)'
          /\ \A g \in live : parent[g] \in none => runs[<<g, Depth + 1>>] = 1
      BY <1>5
    <2>8. live' = live \cup none /\ \A g \in live : parent'[g] = parent[g]
      BY <1>2 DEF flowVars
    <2>9. /\ \A g, h \in none : g = h
          /\ \A g \in none : parent'[g] # None =>
               /\ WaitsBehind(g)' /\ ~called'[parent'[g]]
               /\ \A h \in live : parent[h] # parent'[g]
      OBVIOUS
    <2>10. ParentOnce' /\ InnerAfter' /\ ChainInOrder'
      BY <1>1, <2>4, <2>5, <2>7, <2>8, <2>9, OrderGrows
    <2> QED
      BY <2>4, <2>6, <2>10 DEF OrderPart
  <1> QED
    BY <1>3, <1>4, <1>5 DEF RunTask

\* Nothing that concerns the order changes, but for tasks that are removed.
LEMMA IdleOrder ==
    ASSUME OrderPart, TrigFirst', UNCHANGED <<live, parent, called, runs, stack>>
    PROVE  OrderPart'
  <1>1. \A m : OnStack(m)' <=> OnStack(m)
    BY DEF OnStack
  <1>2. StackOnce' /\ StackRan' /\ ParentOnce'
    BY <1>1 DEF OrderPart, StackOnce, FramesOnce, StackRan, ParentOnce
  <1>3. InnerAfter'
    BY <1>1 DEF OrderPart, InnerAfter, WaitsBehind
  <1>4. ChainInOrder'
    BY <1>1 DEF OrderPart, ChainInOrder
  <1> QED
    BY <1>2, <1>3, <1>4 DEF OrderPart

\* Every step keeps OrderInv.
LEMMA NextOrder == OrderInv /\ [Next]_vars => OrderInv'
  <1> SUFFICES ASSUME OrderInv, [Next]_vars PROVE OrderPart'
    BY NextKeeps DEF OrderInv
  <1>0. IInv /\ TypeOK /\ OrderPart /\ TrigFirst
    BY DEF OrderInv, OrderPart, IInv
  <1>1. CASE Forward
    BY <1>1, ForwardOrder
  <1>2. ASSUME NEW v, Finish(v) PROVE OrderPart'
    BY <1>2, FinishOrder
  <1>3. ASSUME NEW g \in Flow, NEW k \in Kinds, FinishInner(g, k) PROVE OrderPart'
    BY <1>3, FinishInnerOrder
  <1>4. ASSUME NEW g \in Flow, NEW k \in Kinds, Spawn(g, k) PROVE OrderPart'
    BY <1>4, SpawnOrder
  <1>5. ASSUME \/ StartTimers \/ StartTasks \/ EndTasks \/ UNCHANGED vars
               \/ \E f \in Flow : Expire(f)
        PROVE  OrderPart'
    <2>1. UNCHANGED <<live, parent, called, runs, tasks, stack>>
      BY <1>5 DEF StartTimers, StartTasks, EndTasks, Expire, vars, flowVars, nodeVars
    <2>2. TrigFirst'
      BY <1>0, <2>1 DEF TrigFirst
    <2> QED
      BY <1>0, <2>1, <2>2, IdleOrder
  <1>6. CASE RunTask
    BY <1>6, RunOrder
  <1>7. CASE PopTask
    <2>1. /\ UNCHANGED <<live, parent, called, runs, stack>> /\ tasks' = Tail(tasks)
          /\ tasks # << >>
      BY <1>0, <1>7 DEF PopTask, Rest, flowVars, nodeVars, IInv, TaskInv, HeadRuns
    <2>2. tasks \in Seq(TaskSet)
      BY <1>0, TaskFacts
    <2>3. /\ Len(tasks') = Len(tasks) - 1 /\ Len(tasks) \in Nat \ {0}
          /\ \A i \in 1..Len(tasks') : tasks'[i] = tasks[i + 1]
      BY <2>1, <2>2, TailFacts
    <2>4. \A i \in 1..Len(tasks') : i + 1 \in 1..Len(tasks)
      BY <2>3
    <2>5. TrigFirst'
      BY <1>0, <2>3, <2>4 DEF TrigFirst
    <2> QED
      BY <1>0, <2>1, <2>5, IdleOrder
  <1>8. ASSUME NEW f \in Flow, NEW v, FireTimer(f) \/ FireIo(f, v) PROVE OrderPart'
    <2>1. /\ stack = << >> /\ \E w : Trigge(<<f, 1>>, w, stack)
          /\ UNCHANGED flowVars
      BY <1>8 DEF FireTimer, FireIo
    <2> PICK n \in Node : n = <<f, 1>>
      BY NodeFacts
    <2>2. PICK w : Trigge(n, w, stack)
      BY <2>1
    <2>3. n[2] = 1
      OBVIOUS
    <2> QED
      BY <2>1, <2>2, <2>3, FirstOrder
  <1>9. ASSUME NEW f \in Flow, Destroy(f) PROVE OrderPart'
    BY <1>9, DestroyOrder
  <1> QED
    BY <1>1, <1>2, <1>3, <1>4, <1>5, <1>6, <1>7, <1>8, <1>9 DEF Next, Loop, User

\* It holds initially: nothing has been triggered.
LEMMA InitOrder == Init => OrderInv
  <1> SUFFICES ASSUME Init PROVE OrderPart
    BY InitEstablishes DEF OrderInv
  <1>1. /\ stack = << >> /\ tasks = << >>
        /\ \A n \in Node : ~called[n]
        /\ live \subseteq Flow /\ \A g \in Flow : parent[g] = None
    BY DEF Init
  <1>2. StackOnce /\ StackRan /\ TrigFirst
    BY <1>1 DEF StackOnce, FramesOnce, StackRan, OnStack, TrigFirst
  <1>3. ParentOnce /\ InnerAfter
    BY <1>1 DEF ParentOnce, InnerAfter
  <1>4. ChainInOrder
    BY <1>1, Next1Facts DEF ChainInOrder
  <1> QED
    BY <1>2, <1>3, <1>4 DEF OrderPart

(* Chains run in order, in any nesting, of any length and with any runners: a function  *)
(* is triggered only when the one in front of it has returned, and the result of an     *)
(* inner flow passed on only when its last function has run.                            *)
THEOREM ChainsRunInOrder == Spec => []ChainInOrder
  <1>1. OrderInv => ChainInOrder
    BY DEF OrderInv, OrderPart
  <1>2. Spec => []OrderInv
    BY InitOrder, NextOrder, PTL DEF Spec
  <1> QED
    BY <1>1, <1>2, PTL

=============================================================================
