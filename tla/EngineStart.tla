----------------------------- MODULE EngineStart -----------------------------
(***************************************************************************)
(* src/src/dpdk/engine.hh, wait_engine_initialled: the processes of one    *)
(* server, one per core, are started independently.  Each creates a        *)
(* message ring and a message pool named after its core in memory that     *)
(* all of them share, and then looks up those of the other cores, at most  *)
(* MaxWait times a second apart, before it enters its event loop.  Every   *)
(* call of DPDK is a step of its own, because the others run meanwhile.    *)
(***************************************************************************)
EXTENDS Integers

CONSTANTS
    Core,       \* cpu_mask, as a set of core numbers
    Primary,    \* the core of the process that runs as RTE_PROC_PRIMARY
    WordBits,   \* width of unsigned int
    MaxWait     \* rounds of the search (60)

ASSUME StartConstants ==
    /\ Core \subseteq Nat
    /\ Primary \in Core
    /\ WordBits \in Nat \ {0}
    /\ MaxWait \in Nat \ {0}

VARIABLES
    pc,         \* where each process is
    ringOf,     \* cores whose ring exists
    poolOf,     \* cores whose pool exists
    public,     \* what exists of the ring and pool the primary makes for all
    seenPublic, \* what each process has of these
    mask,       \* cores each process still waits for
    cursor,     \* its i, the core it looks up
    wait,       \* rounds it has left
    oterRings, oterPools,   \* the cores whose ring and pool it has found
    early       \* <<p, c>>: when p found the ring of c, c had made no pool yet

vars == <<pc, ringOf, poolOf, public, seenPublic, mask, cursor, wait, oterRings,
          oterPools, early>>

search == <<mask, cursor, wait, oterRings, oterPools, early>>

(***************************************************************************)
(* cpu_mask & ~(1u << id).  The operand is 32 bits wide and is widened     *)
(* with zeros, so that the cores from 32 on drop out; for a core of that   *)
(* kind itself, the shift is undefined and the machine takes the count     *)
(* modulo the width.                                                       *)
(***************************************************************************)
Others(p) == {c \in Core : c < WordBits /\ c # p % WordBits}

Init ==
    /\ pc = [p \in Core |-> "off"]
    /\ ringOf = {} /\ poolOf = {} /\ public = {}
    /\ seenPublic = [p \in Core |-> {}]
    /\ mask = [p \in Core |-> {}]
    /\ cursor = [p \in Core |-> 0]
    /\ wait = [p \in Core |-> 0]
    /\ oterRings = [p \in Core |-> {}]
    /\ oterPools = [p \in Core |-> {}]
    /\ early = {}

Goto(p, l) == pc' = [pc EXCEPT ![p] = l]

\* ff_init.  A secondary process attaches to the memory of the primary.
FfInit(p) ==
    /\ pc[p] = "off"
    /\ p = Primary \/ pc[Primary] # "off"
    /\ Goto(p, "publicRing")
    /\ UNCHANGED <<ringOf, poolOf, public, seenPublic, search>>

\* The primary makes the public ring and then the public pool; the others look
\* each of them up once.
Public(p, from, what, to) ==
    /\ pc[p] = from
    /\ public' = IF p = Primary THEN public \cup {what} ELSE public
    /\ seenPublic' = [seenPublic EXCEPT ![p] = @ \cup (public' \cap {what})]
    /\ Goto(p, to)
    /\ UNCHANGED <<ringOf, poolOf, search>>

\* Mutated form: the name is the same for all.
SameName(p) == Primary

\* The core in the name under which a process creates its ring and pool.
NameOf(p) == p

CreateRing(p) ==
    /\ pc[p] = "createRing"
    /\ ringOf' = ringOf \cup {NameOf(p)}
    /\ Goto(p, "createPool")
    /\ UNCHANGED <<poolOf, public, seenPublic, search>>

CreatePool(p) ==
    /\ pc[p] = "createPool"
    /\ poolOf' = poolOf \cup {NameOf(p)}
    /\ mask' = [mask EXCEPT ![p] = Others(p)]
    /\ wait' = [wait EXCEPT ![p] = MaxWait]
    /\ cursor' = [cursor EXCEPT ![p] = 0]
    /\ Goto(p, "search")
    /\ UNCHANGED <<ringOf, public, seenPublic, oterRings, oterPools, early>>

-----------------------------------------------------------------------------
(* The search: rounds over the cores that are still in the mask. *)

Ahead(p) == {c \in mask[p] : c >= cursor[p]}

Searching(p) == mask[p] # {} /\ wait[p] > 0

\* rte_ring_lookup of the next core in the mask.
LookupRing(p) ==
    /\ pc[p] = "search" /\ Searching(p)
    /\ \E c \in Ahead(p) :
        /\ \A d \in Ahead(p) : c <= d
        /\ cursor' = [cursor EXCEPT ![p] = c]
        /\ oterRings' = [oterRings EXCEPT ![p] = @ \cup ({c} \cap ringOf)]
        /\ early' = IF c \in ringOf \ poolOf THEN early \cup {<<p, c>>} ELSE early
    /\ Goto(p, "lookupPool")
    /\ UNCHANGED <<ringOf, poolOf, public, seenPublic, mask, wait, oterPools>>

\* Mutated forms: the pool decides; the pool is looked up under the own name.
TickedByPool(p, c) == c \in poolOf
OwnPool(p) == {p} \cap poolOf

Ticked(p, c) == c \in oterRings[p]
FoundPool(p) == {cursor[p]} \cap poolOf

\* rte_mempool_lookup of the same core; it leaves the mask if the ring was found.
LookupPool(p) ==
    /\ pc[p] = "lookupPool"
    /\ oterPools' = [oterPools EXCEPT ![p] = @ \cup FoundPool(p)]
    /\ mask' = [mask EXCEPT ![p] = IF Ticked(p, cursor[p]) THEN @ \ {cursor[p]} ELSE @]
    /\ cursor' = [cursor EXCEPT ![p] = @ + 1]
    /\ Goto(p, "search")
    /\ UNCHANGED <<ringOf, poolOf, public, seenPublic, wait, oterRings, early>>

\* The end of a round: sleep(1).
NextRound(p) ==
    /\ pc[p] = "search" /\ Searching(p) /\ Ahead(p) = {}
    /\ wait' = [wait EXCEPT ![p] = @ - 1]
    /\ cursor' = [cursor EXCEPT ![p] = 0]
    /\ UNCHANGED <<pc, ringOf, poolOf, public, seenPublic, mask, oterRings, oterPools, early>>

\* The flow goes on to engine_run, or ends with the exception "can not get
\* message ring from other cpu".
Decide(p) ==
    /\ pc[p] = "search" /\ ~Searching(p)
    /\ Goto(p, IF mask[p] = {} THEN "started" ELSE "failed")
    /\ UNCHANGED <<ringOf, poolOf, public, seenPublic, search>>

-----------------------------------------------------------------------------

Step(p) ==
    \/ Public(p, "publicRing", "ring", "publicPool")
    \/ Public(p, "publicPool", "pool", "createRing")
    \/ CreateRing(p) \/ CreatePool(p)
    \/ LookupRing(p) \/ LookupPool(p) \/ NextRound(p) \/ Decide(p)

\* All processes have left the start-up code.
AllDecided ==
    /\ \A p \in Core : pc[p] \in {"started", "failed"}
    /\ UNCHANGED vars

Next == AllDecided \/ \E p \in Core : FfInit(p) \/ Step(p)

Spec == Init /\ [][Next]_vars

-----------------------------------------------------------------------------

Places == {"off", "publicRing", "publicPool", "createRing", "createPool",
           "search", "lookupPool", "started", "failed"}

TypeOK ==
    /\ pc \in [Core -> Places]
    /\ ringOf \subseteq Core /\ poolOf \subseteq Core
    /\ public \subseteq {"ring", "pool"}
    /\ seenPublic \in [Core -> SUBSET {"ring", "pool"}]
    /\ mask \in [Core -> SUBSET Core]
    /\ cursor \in [Core -> Nat]
    /\ wait \in [Core -> 0..MaxWait]
    /\ oterRings \in [Core -> SUBSET Core]
    /\ oterPools \in [Core -> SUBSET Core]
    /\ early \subseteq Core \X Core

(***************************************************************************)
(* A process enters its event loop only with the ring of every core it     *)
(* waits for, and these rings exist (engine.hh:173-197).                   *)
(***************************************************************************)
StartedHasRings ==
    \A p \in Core : pc[p] = "started" => Others(p) \subseteq oterRings[p] \cap ringOf

(***************************************************************************)
(* The pool of a core is missing in oter_message_pool only if the search   *)
(* met that core between the creation of its ring and of its pool          *)
(* (engine.hh:157-158 against 179-183: only the ring decides whether the   *)
(* core is looked up again).                                               *)
(***************************************************************************)
PoolMissedOnlyInWindow ==
    \A p \in Core : pc[p] = "started" =>
        \A c \in Others(p) : c \in oterPools[p] \/ <<p, c>> \in early

(***************************************************************************)
(* Two processes never give up waiting for each other: each creates its    *)
(* ring before it searches, so the later one finds the earlier one         *)
(* (engine.hh:157 before 173).                                             *)
(***************************************************************************)
NoMutualMiss ==
    \A p, q \in Core :
        ~ /\ p # q
          /\ pc[p] = "failed" /\ q \in mask[p]
          /\ pc[q] = "failed" /\ p \in mask[q]

=============================================================================
