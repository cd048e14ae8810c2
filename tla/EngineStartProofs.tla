------------------------- MODULE EngineStartProofs -------------------------
(***************************************************************************)
(* Theorems about the start of the processes, for any set of cores, any    *)
(* width of the mask and any number of rounds.                             *)
(***************************************************************************)
EXTENDS EngineStart, TLAPS

Early == {"off", "publicRing", "publicPool", "createRing", "createPool"}

\* Before it searches a process has found nothing; from createPool on its ring exists.
Fresh == \A p \in Core : pc[p] \in Early => mask[p] = {} /\ oterRings[p] = {}
Made == \A p \in Core : pc[p] \in (Places \ Early) \cup {"createPool"} => p \in ringOf

RingsReal == \A p \in Core : oterRings[p] \subseteq ringOf

\* Every core to wait for is in the mask or has been found, and in both only
\* between the two lookups.
Accounted == \A p \in Core : pc[p] \notin Early => Others(p) \subseteq mask[p] \cup oterRings[p]
FoundLeaves ==
    \A p \in Core : \A q \in mask[p] \cap oterRings[p] : pc[p] = "lookupPool" /\ cursor[p] = q

Decided == \A p \in Core : /\ pc[p] = "started" => mask[p] = {}
                           /\ pc[p] = "failed" => wait[p] = 0

PoolsAccounted ==
    \A p \in Core : \A c \in oterRings[p] :
        \/ c \in oterPools[p]
        \/ <<p, c>> \in early
        \/ pc[p] = "lookupPool" /\ cursor[p] = c /\ c \in poolOf

\* p has looked up the ring of q at least once, and has not found it.
Looked(p, q) ==
    /\ pc[p] \in {"search", "lookupPool", "failed"}
    /\ \/ wait[p] < MaxWait
       \/ cursor[p] > q
       \/ pc[p] = "lookupPool" /\ cursor[p] = q

Missed(p, q) == Looked(p, q) /\ q \in mask[p] /\ q \notin oterRings[p]

NotBothMissed == \A p, q \in Core : p # q => ~(Missed(p, q) /\ Missed(q, p))

Inv == /\ TypeOK /\ Fresh /\ Made /\ RingsReal /\ Accounted /\ FoundLeaves /\ Decided
       /\ PoolsAccounted /\ NotBothMissed

-----------------------------------------------------------------------------

\* A process waits only for cores of the mask.
LEMMA OthersType == \A p \in Core : Others(p) \subseteq Core
  BY DEF Others

\* The initial states satisfy the invariant.
LEMMA InitInv == Init => Inv
  BY StartConstants DEF Init, Inv, TypeOK, Fresh, Made, RingsReal, Accounted, FoundLeaves,
     Decided, PoolsAccounted, NotBothMissed, Missed, Looked, Places, Early

\* Every step keeps the types.
LEMMA NextTypes == TypeOK /\ [Next]_vars => TypeOK'
<1> SUFFICES ASSUME TypeOK, [Next]_vars PROVE TypeOK'
  OBVIOUS
<1> USE StartConstants DEF TypeOK, search
<1>1. ASSUME NEW p \in Core, FfInit(p) PROVE TypeOK'
  BY <1>1 DEF FfInit, Goto, Places
<1>2. ASSUME NEW p \in Core, Public(p, "publicRing", "ring", "publicPool") PROVE TypeOK'
  BY <1>2 DEF Public, Goto, Places
<1>3. ASSUME NEW p \in Core, Public(p, "publicPool", "pool", "createRing") PROVE TypeOK'
  BY <1>3 DEF Public, Goto, Places
<1>4. ASSUME NEW p \in Core, CreateRing(p) PROVE TypeOK'
  BY <1>4 DEF CreateRing, Goto, Places, NameOf
<1>5. ASSUME NEW p \in Core, CreatePool(p) PROVE TypeOK'
  BY <1>5, OthersType DEF CreatePool, Goto, Places, NameOf
<1>6. ASSUME NEW p \in Core, LookupRing(p) PROVE TypeOK'
  BY <1>6 DEF LookupRing, Goto, Places, Ahead
<1>7. ASSUME NEW p \in Core, LookupPool(p) PROVE TypeOK'
  BY <1>7 DEF LookupPool, Goto, Places, FoundPool
<1>8. ASSUME NEW p \in Core, NextRound(p) PROVE TypeOK'
  BY <1>8 DEF NextRound, Searching
<1>9. ASSUME NEW p \in Core, Decide(p) PROVE TypeOK'
  BY <1>9 DEF Decide, Goto, Places
<1>10. CASE UNCHANGED vars
  BY <1>10 DEF vars
<1> QED
  BY <1>1, <1>2, <1>3, <1>4, <1>5, <1>6, <1>7, <1>8, <1>9, <1>10 DEF Next, Step, AllDecided

\* What the search keeps account of: Inv without the types and NotBothMissed.
Accounts == Fresh /\ Made /\ RingsReal /\ Accounted /\ FoundLeaves /\ Decided /\ PoolsAccounted

\* Every step keeps the accounts.
LEMMA NextAccounts == Inv /\ [Next]_vars => Accounts'
<1> SUFFICES ASSUME Inv, [Next]_vars PROVE Accounts'
  OBVIOUS
<1>0. TypeOK /\ Accounts
  BY DEF Inv, Accounts
<1> USE StartConstants DEF TypeOK, Accounts, Fresh, Made, RingsReal, Accounted, FoundLeaves,
      Decided, PoolsAccounted, Early, Places, search
<1>1. ASSUME NEW p \in Core, FfInit(p) PROVE Accounts'
  BY <1>0, <1>1 DEF FfInit, Goto, Others
<1>2. ASSUME NEW p \in Core, Public(p, "publicRing", "ring", "publicPool") PROVE Accounts'
  BY <1>0, <1>2 DEF Public, Goto, Others
<1>3. ASSUME NEW p \in Core, Public(p, "publicPool", "pool", "createRing") PROVE Accounts'
  BY <1>0, <1>3 DEF Public, Goto, Others
<1>4. ASSUME NEW p \in Core, CreateRing(p) PROVE Accounts'
  BY <1>0, <1>4 DEF CreateRing, Goto, NameOf, Others
<1>5. ASSUME NEW p \in Core, CreatePool(p) PROVE Accounts'
  BY <1>0, <1>5 DEF CreatePool, Goto, NameOf, Others
<1>6. ASSUME NEW p \in Core, LookupRing(p) PROVE Accounts'
  BY <1>0, <1>6 DEF LookupRing, Goto, Ahead, Others
<1>7. ASSUME NEW p \in Core, LookupPool(p) PROVE Accounts'
  BY <1>0, <1>7 DEF LookupPool, Goto, FoundPool, Ticked, Others
<1>8. ASSUME NEW p \in Core, NextRound(p) PROVE Accounts'
  BY <1>0, <1>8 DEF NextRound, Searching, Others
<1>9. ASSUME NEW p \in Core, Decide(p) PROVE Accounts'
  BY <1>0, <1>9 DEF Decide, Goto, Searching, Others
<1>10. CASE UNCHANGED vars
  BY <1>0, <1>10 DEF vars, Others
<1> QED
  BY <1>1, <1>2, <1>3, <1>4, <1>5, <1>6, <1>7, <1>8, <1>9, <1>10 DEF Next, Step, AllDecided

\* A step makes a core newly missed only if that core has no ring yet.
LEMMA NewlyMissed ==
  ASSUME Inv, [Next]_vars, NEW p \in Core, NEW q \in Core, Missed(p, q)'
  PROVE  Missed(p, q) \/ q \notin ringOf
<1>0. TypeOK /\ Accounts
  BY DEF Inv, Accounts
<1> USE StartConstants DEF TypeOK, Missed, Looked, Places, search
<1>1. ASSUME NEW r \in Core, FfInit(r) PROVE Missed(p, q)
  BY <1>0, <1>1 DEF FfInit, Goto
<1>2. ASSUME NEW r \in Core, Public(r, "publicRing", "ring", "publicPool") PROVE Missed(p, q)
  BY <1>0, <1>2 DEF Public, Goto
<1>3. ASSUME NEW r \in Core, Public(r, "publicPool", "pool", "createRing") PROVE Missed(p, q)
  BY <1>0, <1>3 DEF Public, Goto
<1>4. ASSUME NEW r \in Core, CreateRing(r) PROVE Missed(p, q)
  BY <1>0, <1>4 DEF CreateRing, Goto
<1>5. ASSUME NEW r \in Core, CreatePool(r) PROVE Missed(p, q)
  BY <1>0, <1>5 DEF CreatePool, Goto
<1>6. ASSUME NEW r \in Core, LookupRing(r) PROVE Missed(p, q) \/ q \notin ringOf
  BY <1>0, <1>6 DEF LookupRing, Goto, Ahead
<1>7. ASSUME NEW r \in Core, LookupPool(r) PROVE Missed(p, q)
  BY <1>0, <1>7 DEF LookupPool, Goto
<1>8. ASSUME NEW r \in Core, NextRound(r) PROVE Missed(p, q)
  BY <1>0, <1>8 DEF NextRound, Ahead, Searching
<1>9. ASSUME NEW r \in Core, Decide(r) PROVE Missed(p, q)
  BY <1>0, <1>9 DEF Decide, Goto, Searching
<1>10. CASE UNCHANGED vars
  BY <1>10 DEF vars
<1> QED
  BY <1>1, <1>2, <1>3, <1>4, <1>5, <1>6, <1>7, <1>8, <1>9, <1>10 DEF Next, Step, AllDecided

\* A process that misses another has made its own ring before this step.
LEMMA MissingMade ==
  ASSUME Inv, [Next]_vars, NEW p \in Core, NEW q \in Core, Missed(p, q)'
  PROVE  p \in ringOf
<1>1. TypeOK /\ Made
  BY DEF Inv
<1>2. pc'[p] \in {"search", "lookupPool", "failed"}
  BY DEF Missed, Looked
<1>3. pc[p] \in {"createPool", "search", "lookupPool", "failed"}
  BY <1>1, <1>2 DEF TypeOK, Next, Step, AllDecided, FfInit, Public, CreateRing, CreatePool,
     LookupRing, LookupPool, NextRound, Decide, Goto, vars
<1> QED
  BY <1>1, <1>3 DEF Made, Places, Early

\* Every step keeps the invariant.
LEMMA NextInv == Inv /\ [Next]_vars => Inv'
<1> SUFFICES ASSUME Inv, [Next]_vars PROVE Inv'
  OBVIOUS
<1>1. TypeOK' /\ Accounts'
  BY NextTypes, NextAccounts DEF Inv
<1>2. ASSUME NEW p \in Core, NEW q \in Core, p # q, Missed(p, q)', Missed(q, p)'
      PROVE  FALSE
  <2>1. p \in ringOf /\ q \in ringOf
    BY <1>2, MissingMade
  <2>2. Missed(p, q) /\ Missed(q, p)
    BY <1>2, <2>1, NewlyMissed
  <2> QED
    BY <1>2, <2>2 DEF Inv, NotBothMissed
<1>3. NotBothMissed'
  BY <1>2 DEF NotBothMissed
<1> QED
  BY <1>1, <1>3 DEF Inv, Accounts

\* The invariant holds always.
LEMMA Invariant == Spec => []Inv
<1> QED
  BY InitInv, NextInv, PTL DEF Spec

-----------------------------------------------------------------------------

(***************************************************************************)
(* Types of the start-up state, for any cores and rounds.                  *)
(***************************************************************************)
THEOREM TypeCorrect == Spec => []TypeOK
<1>1. Inv => TypeOK
  BY DEF Inv
<1> QED
  BY <1>1, Invariant, PTL

(***************************************************************************)
(* No process enters its event loop without the rings it waits for         *)
(* (wait_engine_initialled returns only with an empty mask).               *)
(***************************************************************************)
THEOREM RingsComplete == Spec => []StartedHasRings
<1>1. Inv => StartedHasRings
  BY DEF Inv, StartedHasRings, RingsReal, Accounted, Decided, Early
<1> QED
  BY <1>1, Invariant, PTL

(***************************************************************************)
(* The window between the creation of a ring and of its pool is the only   *)
(* way to start without a pool.                                            *)
(***************************************************************************)
THEOREM PoolWindow == Spec => []PoolMissedOnlyInWindow
<1>1. Inv => PoolMissedOnlyInWindow
  BY DEF Inv, PoolMissedOnlyInWindow, Accounted, Decided, PoolsAccounted, Early
<1> QED
  BY <1>1, Invariant, PTL

(***************************************************************************)
(* Two processes never both give up on each other.                         *)
(***************************************************************************)
THEOREM LaterFindsEarlier == Spec => []NoMutualMiss
<1>1. ASSUME Inv, NEW p \in Core, NEW q \in Core, pc[p] = "failed", q \in mask[p]
      PROVE  Missed(p, q)
  <2>1. q \notin oterRings[p]
    BY <1>1 DEF Inv, FoundLeaves
  <2>2. wait[p] < MaxWait
    BY <1>1, StartConstants DEF Inv, Decided
  <2> QED
    BY <1>1, <2>1, <2>2 DEF Missed, Looked
<1>2. Inv => NoMutualMiss
  BY <1>1 DEF Inv, NoMutualMiss, NotBothMissed
<1> QED
  BY <1>2, Invariant, PTL

=============================================================================
