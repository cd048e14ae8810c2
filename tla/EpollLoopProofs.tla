--------------------------- MODULE EpollLoopProofs ---------------------------
(***************************************************************************)
(* Theorems about the loop of the epoll engine, for any set of timers, any *)
(* delays and any width of int.                                            *)
(***************************************************************************)
EXTENDS EpollLoop, WellFoundedInduction, TLAPS

\* The types that the bound on the sleep needs
Types ==
    /\ clock \in Nat /\ now \in Nat /\ since \in Nat
    /\ timestamp \in [Timer -> Nat \cup {Unset}]
    /\ tasks \in Nat /\ wait_timer \in Int

\* No function runs while the loop sleeps.
SleepsAlone == phase = "sleep" => ~inUser

\* From nearest_delay on, the argument of epoll_wait is right for the timers
\* that nearest_delay saw.
WaitCovers ==
    phase \in {"tasks", "sleep"} =>
        \A t \in Pending \ unseen :
            timestamp[t] - now < IntLimit =>
                /\ wait_timer >= 0
                /\ wait_timer <= timestamp[t] - now \/ wait_timer = 0

Inv == Types /\ SleepsAlone /\ WaitCovers

-----------------------------------------------------------------------------

\* A set of natural numbers has a smallest one.
LEMMA MinIsLeast == ASSUME NEW S \in SUBSET Nat, S # {}
                    PROVE  Min(S) \in S /\ \A y \in S : Min(S) <= y
<1> DEFINE Less == {ss \in Nat \X Nat : ss[1] < ss[2]}
<1>1. IsWellFoundedOn(Less, Nat)
  BY NatLessThanWellFounded DEF OpToRel
<1> HIDE DEF Less
<1>2. PICK x \in S : \A y \in S : ~(<<y, x>> \in Less)
  BY <1>1, WFMin
<1>3. ASSUME NEW y \in S PROVE x <= y
  <2>1. x \in Nat /\ y \in Nat /\ <<y, x>> \notin Less
    BY <1>2
  <2>2. <<y, x>> \in Less <=> y < x
    BY <2>1 DEF Less
  <2> QED
    BY <2>1, <2>2
<1> QED
  BY <1>3 DEF Min

\* The larger of two numbers
LEMMA MaxOfTwo == ASSUME NEW a \in Int, NEW b \in Int
                  PROVE  Max({a, b}) = IF a >= b THEN a ELSE b
<1> DEFINE m == IF a >= b THEN a ELSE b
<1>1. m \in {a, b} /\ \A y \in {a, b} : m >= y
  OBVIOUS
<1>2. \A x \in {a, b} : (\A y \in {a, b} : x >= y) => x = m
  OBVIOUS
<1> QED
  BY <1>1, <1>2 DEF Max

\* A number that an int has is not changed by the cast.
LEMMA ToIntKeeps == ASSUME NEW x \in Nat, x < IntLimit PROVE ToInt(x) = x
<1>1. IntLimit \in Nat \ {0}
  BY EpollConstants
<1>2. ASSUME NEW a \in Nat, NEW b \in Nat, a < b PROVE a % b = a
  BY <1>2
<1>3. (x + IntLimit) % (2 * IntLimit) = x + IntLimit
  BY <1>1, <1>2
<1> QED
  BY <1>1, <1>3 DEF ToInt

\* The cast yields a number.
LEMMA ToIntNumber == ASSUME NEW x \in Nat PROVE ToInt(x) \in Int
  BY EpollConstants DEF ToInt

\* nearest_delay is no longer than the time to any timer.
LEMMA NearestDelayBound ==
    ASSUME Types, NEW n \in Nat, NEW t \in Pending
    PROVE  /\ NearestDelay(n) \in Nat
           /\ NearestDelay(n) = 0 \/ NearestDelay(n) <= timestamp[t] - n
<1> DEFINE S == {timestamp[u] : u \in Pending}
<1>1. S \in SUBSET Nat /\ timestamp[t] \in S
  BY DEF Types, Pending
<1>2. Min(S) \in Nat /\ Min(S) <= timestamp[t] /\ timestamp[t] \in Nat
  BY <1>1, MinIsLeast
<1> HIDE DEF S
<1>3. NearestDelay(n) = IF Min(S) <= n THEN 0 ELSE Min(S) - n
  BY DEF NearestDelay, Top, S
<1> QED
  BY <1>2, <1>3

\* The step that calls nearest_delay keeps the invariant.
LEMMA ComputeWaitKeeps == ASSUME Inv, ComputeWait PROVE Inv'
<1>1. /\ now' = clock /\ UNCHANGED <<clock, timestamp, tasks, since>> /\ unseen' = {}
      /\ wait_timer' = IF Pending = {} THEN -1 ELSE ToInt(NearestDelay(clock))
      /\ phase' = "tasks" /\ clock \in Nat /\ Pending' = Pending
  BY DEF ComputeWait, Inv, Types, Pending
<1>2. wait_timer' \in Int
  BY <1>1, NearestDelayBound, ToIntNumber DEF Inv
<1>3. ASSUME NEW t \in Pending, timestamp[t] - clock < IntLimit
      PROVE  wait_timer' >= 0 /\ (wait_timer' <= timestamp[t] - clock \/ wait_timer' = 0)
  <2>1. /\ NearestDelay(clock) \in Nat /\ timestamp[t] \in Int
        /\ NearestDelay(clock) = 0 \/ NearestDelay(clock) <= timestamp[t] - clock
    BY <1>1, NearestDelayBound DEF Inv, Types, Pending
  <2>2. NearestDelay(clock) < IntLimit
    BY <1>1, <1>3, <2>1, EpollConstants
  <2>3. wait_timer' = NearestDelay(clock)
    BY <1>1, <2>1, <2>2, ToIntKeeps
  <2> QED
    BY <2>1, <2>3
<1> QED
  BY <1>1, <1>2, <1>3 DEF Inv, Types, SleepsAlone, WaitCovers

\* The initial states satisfy the invariant.
LEMMA InitInv == Init => Inv
  BY EpollConstants DEF Init, Inv, Types, SleepsAlone, WaitCovers, Unset

\* Every step keeps it.
LEMMA NextInv == Inv /\ [Next]_vars => Inv'
<1> SUFFICES ASSUME Inv, [Next]_vars PROVE Inv'
  OBVIOUS
<1> USE EpollConstants DEF Inv, Types, SleepsAlone, WaitCovers, Pending
<1>1. CASE Tick
  BY <1>1 DEF Tick
<1>2. ASSUME NEW t \in Timer, NEW d \in Delays, AddTimer(t, d) PROVE Inv'
  BY <1>2 DEF AddTimer
<1>3. CASE AddTask \/ Return
  BY <1>3 DEF AddTask, Return
<1>4. CASE HandleTimeout
  BY <1>4 DEF HandleTimeout
<1>5. ASSUME NEW t \in Timer, Fire(t) PROVE Inv'
  BY <1>5 DEF Fire
<1>6. CASE ComputeWait
  BY <1>6, ComputeWaitKeeps
<1>7. CASE RunTask
  BY <1>7 DEF RunTask, More
<1>8. CASE EpollWait
  BY <1>8 DEF EpollWait, WaitUnlessTasks
<1>9. CASE WakeByTime \/ Event \/ EndEvents
  BY <1>9 DEF WakeByTime, Event, EndEvents
<1>10. CASE UNCHANGED vars
  BY <1>10 DEF vars
<1> QED
  BY <1>1, <1>2, <1>3, <1>4, <1>5, <1>6, <1>7, <1>8, <1>9, <1>10 DEF Next, User, Loop

(***************************************************************************)
(* The loop never sleeps past a timer that nearest_delay saw by more than  *)
(* the time its tasks took (task_proc.hh, time_set.hh).                    *)
(***************************************************************************)
THEOREM NoOversleep == Spec => []SleepBounded
<1>1. Inv => SleepBounded
  <2> SUFFICES ASSUME Inv, phase = "sleep", NEW t \in Pending \ unseen,
                      timestamp[t] - now < IntLimit
               PROVE  /\ wait_timer >= 0
                      /\ since + wait_timer <= Max({timestamp[t], now}) + (since - now)
    BY DEF SleepBounded
  <2>1. /\ wait_timer >= 0 /\ (wait_timer <= timestamp[t] - now \/ wait_timer = 0)
        /\ timestamp[t] \in Int /\ now \in Int /\ since \in Int /\ wait_timer \in Int
    BY DEF Inv, WaitCovers, Types, Unset, Pending
  <2>2. Max({timestamp[t], now}) = IF timestamp[t] >= now THEN timestamp[t] ELSE now
    BY <2>1, MaxOfTwo
  <2> QED
    BY <2>1, <2>2
<1> QED
  BY <1>1, InitInv, NextInv, PTL DEF Spec

=============================================================================
