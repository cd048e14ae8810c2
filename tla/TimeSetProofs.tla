---------------------------- MODULE TimeSetProofs ----------------------------
(***************************************************************************)
(* Proofs about TimeSet, for any set of timers and delays and any bound on *)
(* the clock.                                                              *)
(***************************************************************************)
EXTENDS TimeSet, TLAPS

(* _q.top() is an entry of the queue, and there is one unless it is empty. *)
RootInHeap == IF heap = {} THEN root = None ELSE root \in heap

(* Only what was added is queued or called. *)
OnlyAdded == heap \subseteq added /\ \A t \in Timer \ added : fired[t] = 0

(* With a clock that is not set back, the entry on top during a callback is *)
(* the one whose callback runs: it was due at now, and whatever is added    *)
(* later is due at clock or after it, hence not before it.                  *)
CallbackOnTop ==
    ~stepped =>
        /\ now <= clock
        /\ pc = "callback" => /\ root \in heap /\ fired[root] = 1
                              /\ timestamp[root] <= now
        /\ \A t \in heap : (pc = "callback" /\ t = root) \/ fired[t] = 0

(* A timer added with a delay during a pass is due only after the pass. *)
FreshIsLater == ~stepped => \A t \in fresh : t \in added /\ timestamp[t] > now

IInv ==
    /\ TypeOK /\ RootInHeap /\ OnlyAdded /\ CallbackOnTop
    /\ FiresOnce /\ NotLost /\ FreshIsLater

-----------------------------------------------------------------------------

(* No timer has been added yet. *)
LEMMA InitEstablishes == Init => IInv
  <1> SUFFICES ASSUME Init PROVE IInv
    OBVIOUS
  <1>1. TypeOK /\ RootInHeap
    BY DEF Init, TypeOK, RootInHeap
  <1>2. \A t \in Timer : fired[t] = 0
    BY DEF Init
  <1>3. OnlyAdded /\ FiresOnce /\ NotLost
    BY <1>2 DEF Init, OnlyAdded, FiresOnce, NotLost
  <1>4. CallbackOnTop /\ FreshIsLater
    BY DEF Init, CallbackOnTop, FreshIsLater
  <1> QED
    BY <1>1, <1>3, <1>4 DEF IInv

(* A new entry never displaces the entry whose callback is running. *)
LEMMA AddTimerKeeps ==
    ASSUME IInv, NEW t \in Timer, NEW d \in Delays, AddTimer(t, d)
    PROVE  IInv'
  <1> USE TimerConstants DEF TypeOK
  <1>1. TypeOK /\ t \notin heap /\ t \notin added /\ d \in Nat /\ fired[t] = 0
    BY DEF IInv, OnlyAdded, AddTimer
  <1>2. /\ timestamp' = [timestamp EXCEPT ![t] = clock + d]
        /\ heap' = heap \cup {t} /\ added' = added \cup {t}
        /\ UNCHANGED <<clock, pc, now, fired, stepped>>
    BY DEF AddTimer, ComputeTimestamp
  <1>3. root' \in {t, root} /\ (root = None => root' = t)
    BY DEF AddTimer, Displaces
  <1>4. TypeOK'
    BY <1>1, <1>2, <1>3 DEF AddTimer
  <1>5. RootInHeap' /\ OnlyAdded'
    BY <1>1, <1>2, <1>3 DEF IInv, RootInHeap, OnlyAdded
  <1>6. ASSUME ~stepped, pc = "callback"
        PROVE  root' = root /\ root \in heap /\ timestamp'[root] = timestamp[root]
    <2>1. root \in heap /\ timestamp[root] <= now /\ now <= clock
      BY <1>6 DEF IInv, CallbackOnTop
    <2>2. root \in Timer /\ root # None /\ timestamp[root] \in Nat
      BY <1>1, <2>1
    <2>3. ~Displaces(clock + d)
      BY <1>1, <2>1, <2>2 DEF Displaces
    <2>4. root' = root
      BY <2>3 DEF AddTimer, ComputeTimestamp
    <2> QED
      BY <1>1, <1>2, <2>1, <2>2, <2>4
  <1>7. CallbackOnTop'
    <2> SUFFICES ASSUME ~stepped' PROVE CallbackOnTop'
      BY DEF CallbackOnTop
    <2>1. ~stepped /\ now' <= clock'
      BY <1>2 DEF IInv, CallbackOnTop
    <2>2. pc' = "callback" => /\ root' \in heap' /\ fired'[root'] = 1
                              /\ timestamp'[root'] <= now'
      BY <1>2, <1>6, <2>1 DEF IInv, CallbackOnTop
    <2>3. \A u \in heap' : (pc' = "callback" /\ u = root') \/ fired'[u] = 0
      BY <1>1, <1>2, <1>6, <2>1 DEF IInv, CallbackOnTop
    <2> QED
      BY <2>1, <2>2, <2>3 DEF CallbackOnTop
  <1>8. FiresOnce' /\ NotLost'
    BY <1>1, <1>2 DEF IInv, FiresOnce, NotLost
  <1>9. FreshIsLater'
    <2> SUFFICES ASSUME ~stepped', NEW u \in fresh'
                 PROVE  u \in added' /\ timestamp'[u] > now'
      BY DEF FreshIsLater
    <2>1. now <= clock /\ ~stepped
      BY <1>2 DEF IInv, CallbackOnTop
    <2>2. CASE u \in fresh
      BY <1>1, <1>2, <2>1, <2>2 DEF IInv, FreshIsLater
    <2>3. CASE u \notin fresh
      <3>1. u = t /\ d > 0
        BY <2>3 DEF AddTimer
      <3> QED
        BY <1>1, <1>2, <2>1, <3>1
    <2> QED
      BY <2>2, <2>3
  <1> QED
    BY <1>4, <1>5, <1>7, <1>8, <1>9 DEF IInv

\* Calling the callback on top keeps the invariant.
LEMMA FireKeeps == IInv /\ Fire => IInv'
  <1> SUFFICES ASSUME IInv, Fire PROVE IInv'
    OBVIOUS
  <1> USE DEF TypeOK
  <1>1. /\ root \in heap /\ root \in Timer /\ timestamp[root] <= now /\ TypeOK
        /\ pc = "scan"
    BY DEF IInv, RootInHeap, Fire, Due
  <1>2. /\ fired' = [fired EXCEPT ![root] = @ + 1] /\ pc' = "callback"
        /\ UNCHANGED <<clock, timestamp, heap, root, now, added, fresh, stepped>>
    BY DEF Fire
  <1>3. TypeOK' /\ RootInHeap' /\ FreshIsLater'
    BY <1>1, <1>2 DEF IInv, RootInHeap, FreshIsLater
  <1>4. OnlyAdded'
    BY <1>1, <1>2 DEF IInv, OnlyAdded
  <1>5. ~stepped => fired[root] = 0
    BY <1>1 DEF IInv, CallbackOnTop
  <1>6. CallbackOnTop' /\ FiresOnce' /\ NotLost'
    BY <1>1, <1>2, <1>5 DEF IInv, CallbackOnTop, FiresOnce, NotLost
  <1> QED
    BY <1>3, <1>4, <1>6 DEF IInv

(* The entry removed after a callback is the one that was called. *)
LEMMA PopKeeps == IInv /\ Pop => IInv'
  <1> SUFFICES ASSUME IInv, Pop PROVE IInv'
    OBVIOUS
  <1> USE DEF TypeOK
  <1>1. TypeOK /\ pc = "callback" /\ pc' = "scan" /\ heap' = heap \ {root}
    BY DEF IInv, Pop
  <1>2. UNCHANGED <<clock, timestamp, now, added, fired, fresh, stepped>>
    BY DEF Pop
  <1>3. RootInHeap'
    BY DEF Pop, Tops, RootInHeap
  <1>4. TypeOK'
    BY <1>1, <1>2, <1>3 DEF RootInHeap
  <1>5. OnlyAdded' /\ FreshIsLater' /\ FiresOnce'
    BY <1>1, <1>2 DEF IInv, OnlyAdded, FreshIsLater, FiresOnce
  <1>6. CallbackOnTop' /\ NotLost'
    BY <1>1, <1>2 DEF IInv, CallbackOnTop, NotLost
  <1> QED
    BY <1>3, <1>4, <1>5, <1>6 DEF IInv

\* Every step keeps the invariant.
LEMMA NextKeeps == IInv /\ [Next]_vars => IInv'
  <1> SUFFICES ASSUME IInv, [Next]_vars PROVE IInv'
    OBVIOUS
  <1> USE DEF IInv, TypeOK, RootInHeap, OnlyAdded, CallbackOnTop, FiresOnce,
              NotLost, FreshIsLater
  <1>1. CASE Tick
    BY <1>1 DEF Tick
  <1>2. CASE StepBack
    BY <1>2 DEF StepBack
  <1>3. ASSUME NEW t \in Timer, NEW d \in Delays, AddTimer(t, d)
        PROVE  IInv'
    BY <1>3, AddTimerKeeps
  <1>4. CASE HandleTimeout
    BY <1>4 DEF HandleTimeout
  <1>5. CASE Fire
    BY <1>5, FireKeeps
  <1>6. CASE Pop
    BY <1>6, PopKeeps
  <1>7. CASE Return
    BY <1>7 DEF Return
  <1>8. CASE UNCHANGED vars
    BY <1>8 DEF vars
  <1> QED
    BY <1>1, <1>2, <1>3, <1>4, <1>5, <1>6, <1>7, <1>8 DEF Next, Handle

(* The inductive invariant holds of every reachable state. *)
LEMMA Invariance == Spec => []IInv
  BY InitEstablishes, NextKeeps, PTL DEF Spec

(* Every variable of the timer set keeps its type. *)
THEOREM TypeCorrect == Spec => []TypeOK
  <1>1. IInv => TypeOK
    BY DEF IInv
  <1> QED
    BY <1>1, Invariance, PTL

(* handle_timeout, which pops after the callback, calls no callback twice    *)
(* and loses no timer as long as gettimeofday is not set back.               *)
THEOREM OnceAndNotLost == Spec => [](FiresOnce /\ NotLost)
  <1>1. IInv => FiresOnce /\ NotLost
    BY DEF IInv
  <1> QED
    BY <1>1, Invariance, PTL

(* A timer added with a delay from a callback is not called in the same      *)
(* handle_timeout, however much time its callbacks take.                     *)
THEOREM NotInSameTurn == Spec => NextTurn
  <1>1. IInv /\ [Next]_vars => [\A t \in fresh : fired'[t] = fired[t] \/ stepped]_vars
    <2> SUFFICES ASSUME IInv, Next, NEW t \in fresh, ~stepped
                 PROVE  fired'[t] = fired[t]
      OBVIOUS
    <2>1. TypeOK /\ timestamp[t] > now /\ t \in Timer
      BY DEF IInv, FreshIsLater, TypeOK
    <2>2. CASE Fire
      <3>1. root # t
        BY <2>1, <2>2 DEF Fire, Due, TypeOK
      <3> QED
        BY <2>1, <2>2, <3>1 DEF Fire, TypeOK
    <2>3. CASE ~Fire
      BY <2>3 DEF Next, Handle, Tick, StepBack, AddTimer, HandleTimeout, Pop, Return
    <2> QED
      BY <2>2, <2>3
  <1> QED
    BY <1>1, Invariance, PTL DEF Spec, NextTurn

(* The top of the queue is due first, also after callbacks have added timers. *)
RootLeast == \A t \in heap : timestamp[root] <= timestamp[t]

\* Adding a timer leaves the earliest one on top.
LEMMA AddTimerLeast ==
    ASSUME IInv, RootLeast, NEW t \in Timer, NEW d \in Delays, AddTimer(t, d)
    PROVE  RootLeast'
  <1> DEFINE ts == clock + d
  <1>1. /\ TypeOK /\ RootInHeap /\ t \notin heap /\ ts \in Nat
        /\ \A u \in heap : u \in Timer /\ timestamp[u] \in Nat
    BY TimerConstants DEF IInv, OnlyAdded, AddTimer, TypeOK
  <1>2. /\ timestamp' = [timestamp EXCEPT ![t] = ts] /\ heap' = heap \cup {t}
        /\ root' = IF root = None \/ timestamp[root] > ts THEN t ELSE root
    BY DEF AddTimer, ComputeTimestamp, Displaces
  <1>3. timestamp'[t] = ts /\ \A u \in heap : timestamp'[u] = timestamp[u]
    BY <1>1, <1>2 DEF TypeOK
  <1> HIDE DEF ts
  <1>4. CASE heap = {}
    <2>1. root = None /\ heap' = {t} /\ root' = t
      BY <1>1, <1>2, <1>4 DEF RootInHeap
    <2> QED
      BY <1>1, <1>3, <2>1 DEF RootLeast
  <1>5. CASE heap # {}
    <2>1. root \in heap /\ root # None
      BY <1>1, <1>5, TimerConstants DEF RootInHeap
    <2>2. CASE timestamp[root] > ts
      <3>1. root' = t /\ \A u \in heap : ts <= timestamp[u]
        BY <1>1, <1>2, <2>1, <2>2 DEF RootLeast
      <3> QED
        BY <1>1, <1>2, <1>3, <3>1 DEF RootLeast
    <2>3. CASE ~(timestamp[root] > ts)
      <3>1. root' = root /\ timestamp[root] <= ts
        BY <1>1, <1>2, <2>1, <2>3
      <3> QED
        BY <1>1, <1>2, <1>3, <2>1, <3>1 DEF RootLeast
    <2> QED
      BY <2>2, <2>3
  <1> QED
    BY <1>4, <1>5

\* Every step leaves the earliest timer on top.
LEMMA NextLeast == IInv /\ RootLeast /\ [Next]_vars => RootLeast'
  <1> SUFFICES ASSUME IInv, RootLeast, [Next]_vars PROVE RootLeast'
    OBVIOUS
  <1>1. ASSUME NEW t \in Timer, NEW d \in Delays, AddTimer(t, d) PROVE RootLeast'
    BY <1>1, AddTimerLeast
  <1>2. CASE Pop
    BY <1>2 DEF Pop, Tops, RootLeast
  <1>3. CASE Tick \/ StepBack \/ HandleTimeout \/ Fire \/ Return \/ UNCHANGED vars
    BY <1>3 DEF Tick, StepBack, HandleTimeout, Fire, Return, vars, RootLeast
  <1> QED
    BY <1>1, <1>2, <1>3 DEF Next, Handle

(* When handle_timeout returns, every timer that is left is due later, for   *)
(* any timers, delays and clock: what EveryTimerFires needs of one turn.     *)
THEOREM TurnIsThorough == Spec => NothingDueLeft
  <1>1. Init => RootLeast
    BY DEF Init, RootLeast
  <1>2. Spec => []RootLeast
    BY <1>1, Invariance, NextLeast, PTL DEF Spec
  <1>3. IInv /\ RootLeast /\ [Next]_vars =>
            [pc = "scan" /\ pc' = "idle" => \A t \in heap : timestamp[t] > now]_vars
    <2> SUFFICES ASSUME IInv, RootLeast, Next, pc = "scan", pc' = "idle", NEW t \in heap
                 PROVE  timestamp[t] > now
      OBVIOUS
    <2>1. Return
      BY DEF Next, Handle, Tick, StepBack, AddTimer, HandleTimeout, Fire, Pop
    <2>2. root \in heap /\ timestamp \in [Timer -> Nat] /\ heap \subseteq Timer /\ now \in Nat
      BY DEF IInv, RootInHeap, TypeOK
    <2>3. timestamp[root] > now /\ timestamp[root] <= timestamp[t]
      BY <2>1, <2>2 DEF Return, Due, RootLeast
    <2> QED
      BY <2>2, <2>3
  <1> QED
    BY <1>2, <1>3, Invariance, PTL DEF Spec, NothingDueLeft

=============================================================================
