--------------------------- MODULE OwnedCSProofs ---------------------------
(***************************************************************************)
(* Theorems about the owned critical section, for any finite set of threads *)
(* that share owner classes in any way, and any nesting depth.  Grants and  *)
(* wake-ups are right in every state; exclusion and the counters are right  *)
(* in every state before an increment is overwritten, after which they may  *)
(* be wrong (run ownedcs_exclusion).                                        *)
(***************************************************************************)
EXTENDS OwnedCS, FiniteSetTheorems, TLAPS

(* The steps a thread only takes while it is inside threadLock.             *)
LockedSteps == {"nest", "request", "drop", "stray", "free", "handoff"}
EnteringSteps == {"nest", "request", "wait", "own", "count"}

LockDiscipline == \A t \in Threads : pc[t] \in LockedSteps => threadLock = t

DepthRoom == \A t \in Threads : pc[t] \in EnteringSteps => depth[t] < MaxDepth

(* The right to own the section exists exactly while a request is counted.  *)
GrantExists == hEvent \/ nOwner # None \/ \E t \in Threads : Granted(t)
GrantCounted == GrantExists <=> nRequests >= 0

(* A thread inside threadLock that found its class in nOwner finds it still.  *)
LockedOwner ==
  \A t \in Threads : pc[t] \in {"nest", "drop", "free"} => nOwner = Class[t]

(* The inductive invariant that holds whatever classes the threads share.   *)
GrantInv ==
  /\ TypeOK
  /\ LockDiscipline
  /\ DepthRoom
  /\ OneGrant
  /\ GrantCounted
  /\ LockedOwner

-----------------------------------------------------------------------------
LEMMA ClassIsNat == ASSUME NEW t \in Threads PROVE Class[t] \in Nat /\ Class[t] # None
  BY OwnedCSAssumption DEF None

LEMMA GrantInit == Init => GrantInv
  <1> SUFFICES ASSUME Init PROVE GrantInv
    OBVIOUS
  <1>1. TypeOK
    <2>1. MaxDepth \in Nat /\ 0 \in 0..MaxDepth
      BY OwnedCSAssumption
    <2>2. pc \in [Threads -> Steps] /\ depth \in [Threads -> 0..MaxDepth]
      BY <2>1 DEF Init, Steps
    <2>3. nOwner \in Nat \cup {None} /\ nRequests \in Nat \cup {-1} /\ nRecursiveCount \in Int
      BY DEF Init, None
    <2>4. hEvent \in BOOLEAN /\ threadLock \in Threads \cup {NoThread}
      BY DEF Init
    <2>5. overtaken \in BOOLEAN
      BY Zenon DEF Init
    <2> QED
      BY <2>2, <2>3, <2>4, <2>5, Zenon DEF TypeOK
  <1>2. \A t \in Threads : pc[t] = "out"
    BY DEF Init
  <1>3. LockDiscipline /\ DepthRoom /\ LockedOwner
    BY <1>2 DEF LockDiscipline, LockedSteps, DepthRoom, EnteringSteps, LockedOwner
  <1>4. ~GrantExists /\ OneGrant
    BY <1>2 DEF Init, OneGrant, Granted, GrantExists
  <1>5. GrantCounted
    BY <1>4 DEF Init, GrantCounted
  <1> QED
    BY <1>1, <1>3, <1>4, <1>5 DEF GrantInv

LEMMA GrantNext == GrantInv /\ [Next]_vars => GrantInv'
  <1> SUFFICES ASSUME GrantInv, [Next]_vars PROVE GrantInv'
    OBVIOUS
  <1> USE OwnedCSAssumption, ClassIsNat
      DEF GrantInv, TypeOK, Steps, LockDiscipline, DepthRoom, LockedSteps,
          EnteringSteps, OneGrant, Granted, GrantExists, GrantCounted, LockedOwner, None,
          At, GoTo, Locked, Unlock, GainGuard
  <1>1. ASSUME NEW t \in Threads, EnterTest(t) PROVE GrantInv'
    BY <1>1 DEF EnterTest
  <1>2. ASSUME NEW t \in Threads, Nest(t) PROVE GrantInv'
    <2>1. overtaken' \in BOOLEAN
      BY <1>2, Zenon DEF Nest, Overtake
    <2> QED
      BY <1>2, <2>1 DEF Nest
  <1>3. ASSUME NEW t \in Threads, Request(t) PROVE GrantInv'
    BY <1>3 DEF Request, MustWait
  <1>4. ASSUME NEW t \in Threads, Wake(t) PROVE GrantInv'
    BY <1>4 DEF Wake
  <1>5. ASSUME NEW t \in Threads, Own(t) PROVE GrantInv'
    BY <1>5 DEF Own
  <1>6. ASSUME NEW t \in Threads, Count(t) PROVE GrantInv'
    BY <1>6 DEF Count
  <1>7. ASSUME NEW t \in Threads, LeaveTest(t) PROVE GrantInv'
    BY <1>7 DEF LeaveTest
  <1>8. ASSUME NEW t \in Threads, Drop(t) PROVE GrantInv'
    BY <1>8 DEF Drop, LastGuard
  <1>9. ASSUME NEW t \in Threads, Stray(t) PROVE GrantInv'
    BY <1>9 DEF Stray
  <1>10. ASSUME NEW t \in Threads, Free(t) PROVE GrantInv'
    BY <1>10 DEF Free
  <1>11. ASSUME NEW t \in Threads, HandOff(t) PROVE GrantInv'
    <2>1. nOwner = None /\ ~hEvent /\ \A u \in Threads : Granted(u) => u = t
      BY <1>11 DEF HandOff
    <2>2. \A u \in Threads : ~Granted(u)'
      BY <1>11, <2>1 DEF HandOff
    <2>3. nRequests >= 0
      BY <1>11 DEF HandOff
    <2>4. nRequests' = nRequests - 1 /\ (hEvent' <=> nRequests' >= 0) /\ nOwner' = None
      BY <1>11, <2>1 DEF HandOff, StillRequested
    <2>5. OneGrant' /\ GrantCounted'
      BY <2>2, <2>3, <2>4
    <2>6. TypeOK'
      BY <1>11, <2>3, <2>4 DEF HandOff, StillRequested
    <2>7. LockDiscipline' /\ DepthRoom' /\ LockedOwner'
      BY <1>11, <2>4 DEF HandOff
    <2> QED
      BY <2>5, <2>6, <2>7
  <1>12. CASE UNCHANGED vars
    BY <1>12 DEF vars
  <1> QED
    BY <1>1, <1>2, <1>3, <1>4, <1>5, <1>6, <1>7, <1>8, <1>9, <1>10, <1>11, <1>12
    DEF Next, Enter, Leave

(* The fields keep their types: no call takes back a request twice.         *)
THEOREM TypeCorrect == Spec => []TypeOK
  <1>1. GrantInv => TypeOK
    BY DEF GrantInv
  <1> QED
    BY <1>1, GrantInit, GrantNext, PTL DEF Spec

(* At most one right to own the section exists, whatever classes the        *)
(* threads share.                                                           *)
THEOREM SingleGrant == Spec => []OneGrant
  <1>1. GrantInv => OneGrant
    BY DEF GrantInv
  <1> QED
    BY <1>1, GrantInit, GrantNext, PTL DEF Spec

-----------------------------------------------------------------------------
(* nRequests + 1 is the number of threads that wait, plus one for the one   *)
(* that owns the section or is about to.  A waiter that is not counted      *)
(* would not be signalled.                                                  *)
Waiters == {t \in Threads : pc[t] = "wait"}
Held == nOwner # None \/ \E t \in Threads : Granted(t)
QueueCounted == nRequests + 1 = Cardinality(Waiters) + (IF Held THEN 1 ELSE 0)

LEMMA WaitersFinite ==
  /\ IsFiniteSet(Waiters) /\ Cardinality(Waiters) \in Nat
  /\ IsFiniteSet(Waiters') /\ Cardinality(Waiters)' \in Nat
  <1>1. Waiters \subseteq Threads /\ Waiters' \subseteq Threads
    BY DEF Waiters
  <1> QED
    BY <1>1, OwnedCSAssumption, FS_Subset, FS_CardinalityType

LEMMA QueueInit == Init => QueueCounted
  <1> SUFFICES ASSUME Init PROVE QueueCounted
    OBVIOUS
  <1>1. Waiters = {} /\ ~Held /\ nOwner = None
    BY DEF Init, Waiters, Held, Granted
  <1>2. Cardinality(Waiters) = 0
    BY <1>1, FS_EmptySet
  <1> QED
    BY <1>1, <1>2 DEF Init, QueueCounted

LEMMA QueueNext ==
  ASSUME GrantInv, QueueCounted, [Next]_vars
  PROVE  QueueCounted'
  <1> DEFINE HeldCount == IF Held THEN 1 ELSE 0
  <1>0. /\ nRequests \in Int /\ nRequests + 1 = Cardinality(Waiters) + HeldCount
        /\ Cardinality(Waiters) \in Nat
        /\ Held \in BOOLEAN /\ Held' \in BOOLEAN
    BY WaitersFinite DEF GrantInv, TypeOK, QueueCounted, Held
  <1>1. ASSUME NEW t \in Threads, Request(t) PROVE QueueCounted'
    <2>1. pc[t] = "request" /\ (Held' <=> Held \/ pc'[t] = "own") /\ nRequests' = nRequests + 1
      BY <1>1 DEF Request, Held, Granted, At, GoTo, GrantInv, TypeOK
    <2>2. CASE MustWait(nRequests')
      <3>0. pc' = [pc EXCEPT ![t] = "wait"] /\ pc \in [Threads -> Steps]
        BY <1>1, <2>2 DEF Request, GoTo, GrantInv, TypeOK
      <3>1. Waiters' = Waiters \cup {t} /\ t \notin Waiters /\ (Held' <=> Held)
        BY <1>0, <2>1, <3>0 DEF Waiters
      <3>2. Cardinality(Waiters') = Cardinality(Waiters) + 1
        BY <3>1, WaitersFinite, FS_AddElement
      <3> QED
        BY <1>0, <2>1, <3>1, <3>2 DEF QueueCounted
    <2>3. CASE ~MustWait(nRequests')
      <3>1. Waiters' = Waiters /\ Held'
        BY <1>1, <2>1, <2>3 DEF Request, Waiters, GoTo, GrantInv, TypeOK
      <3>2. ~(nRequests >= 0)
        BY <1>0, <2>1, <2>3 DEF MustWait
      <3>3. ~Held
        BY <3>2 DEF GrantInv, GrantCounted, GrantExists, Held
      <3> QED
        BY <1>0, <2>1, <3>1, <3>3 DEF QueueCounted
    <2> QED
      BY <2>2, <2>3
  <1>2. ASSUME NEW t \in Threads, Wake(t) PROVE QueueCounted'
    <2>1. ~Held
      BY <1>2 DEF Wake, GrantInv, OneGrant, Held
    <2>2. Held' /\ Waiters' = Waiters \ {t} /\ t \in Waiters /\ nRequests' = nRequests
      BY <1>2 DEF Wake, Held, Granted, Waiters, At, GoTo, GrantInv, TypeOK
    <2>3. Cardinality(Waiters') = Cardinality(Waiters) - 1
      BY <2>2, WaitersFinite, FS_RemoveElement
    <2> QED
      BY <1>0, <2>1, <2>2, <2>3 DEF QueueCounted
  <1>3. ASSUME NEW t \in Threads, HandOff(t) PROVE QueueCounted'
    <2>1. Held /\ ~Held'
      BY <1>3 DEF HandOff, Held, Granted, At, GoTo, GrantInv, TypeOK, OneGrant
    <2>2. Waiters' = Waiters /\ nRequests' = nRequests - 1
      BY <1>3 DEF HandOff, Waiters, At, GoTo, GrantInv, TypeOK
    <2> QED
      BY <1>0, <2>1, <2>2 DEF QueueCounted
  <1>4. ASSUME NEW t \in Threads, Own(t) \/ Free(t) PROVE QueueCounted'
    <2>1. Held /\ Held'
      BY <1>4, ClassIsNat DEF Own, Free, Held, Granted, At, GoTo, GrantInv, TypeOK, LockedOwner
    <2>2. Waiters' = Waiters /\ nRequests' = nRequests
      BY <1>4 DEF Own, Free, Waiters, At, GoTo, GrantInv, TypeOK
    <2> QED
      BY <1>0, <2>1, <2>2 DEF QueueCounted
  <1>5. ASSUME NEW t \in Threads,
               EnterTest(t) \/ Nest(t) \/ Count(t) \/ LeaveTest(t) \/ Drop(t) \/ Stray(t)
        PROVE  QueueCounted'
    <2>1. (Held' <=> Held) /\ Waiters' = Waiters /\ nRequests' = nRequests
      BY <1>5 DEF EnterTest, Nest, Count, LeaveTest, Drop, Stray, Held, Granted, Waiters,
         At, GoTo, GrantInv, TypeOK
    <2> QED
      BY <1>0, <2>1 DEF QueueCounted
  <1>6. ASSUME UNCHANGED vars PROVE QueueCounted'
    <2>1. (Held' <=> Held) /\ Waiters' = Waiters /\ nRequests' = nRequests
      BY <1>6 DEF vars, Held, Granted, Waiters
    <2> QED
      BY <1>0, <2>1 DEF QueueCounted
  <1> QED
    BY <1>1, <1>2, <1>3, <1>4, <1>5, <1>6 DEF Next, Enter, Leave

-----------------------------------------------------------------------------
(* The guards of a class are counted one by one.                            *)
LEMMA GuardsCount ==
  ASSUME NEW c
  PROVE  /\ IsFiniteSet(Guards(c)) /\ Cardinality(Guards(c)) \in Nat
         /\ IsFiniteSet(Guards(c)') /\ Cardinality(Guards(c)') \in Nat
<1>1. IsFiniteSet(1 .. MaxDepth)
  BY OwnedCSAssumption, FS_Interval
<1>2. IsFiniteSet(Threads \X (1 .. MaxDepth))
  BY <1>1, OwnedCSAssumption, FS_Product
<1>3. /\ Guards(c) \subseteq Threads \X (1 .. MaxDepth)
      /\ Guards(c)' \subseteq Threads \X (1 .. MaxDepth)
  BY DEF Guards
<1> QED
  BY <1>2, <1>3, FS_Subset, FS_CardinalityType

LEMMA GuardInside ==
  ASSUME GrantInv, NEW c
  PROVE  Cardinality(Guards(c)) > 0 <=> \E t \in Threads : Class[t] = c /\ Inside(t)
<1>1. Cardinality(Guards(c)) > 0 <=> Guards(c) # {}
  BY GuardsCount, FS_EmptySet
<1>2. ASSUME NEW g \in Guards(c) PROVE \E t \in Threads : Class[t] = c /\ Inside(t)
  <2>1. g[1] \in Threads /\ Class[g[1]] = c /\ g[2] \in 1 .. MaxDepth /\ g[2] <= depth[g[1]]
    BY DEF Guards
  <2>2. depth[g[1]] \in Int /\ depth[g[1]] > 0
    BY <2>1, OwnedCSAssumption DEF GrantInv, TypeOK
  <2> QED
    BY <2>1, <2>2 DEF Inside
<1>3. ASSUME NEW t \in Threads, Class[t] = c, Inside(t) PROVE <<t, 1>> \in Guards(c)
  <2>1. 1 <= depth[t] /\ 1 \in 1 .. MaxDepth
    BY <1>3, OwnedCSAssumption DEF GrantInv, TypeOK, Inside
  <2> QED
    BY <1>3, <2>1 DEF Guards
<1> QED
  BY <1>1, <1>2, <1>3

LEMMA GuardsGain ==
  ASSUME GrantInv, NEW t \in Threads, GainGuard(t), depth[t] < MaxDepth, NEW c
  PROVE  Cardinality(Guards(c))' = Cardinality(Guards(c)) + (IF Class[t] = c THEN 1 ELSE 0)
<1> DEFINE g == <<t, depth[t] + 1>>
<1>1. /\ depth \in [Threads -> Int] /\ \A u \in Threads : depth[u] \in 0 .. MaxDepth
      /\ MaxDepth \in Nat
  BY OwnedCSAssumption DEF GrantInv, TypeOK
<1>2. depth'[t] = depth[t] + 1 /\ \A u \in Threads \ {t} : depth'[u] = depth[u]
  BY <1>1 DEF GainGuard
<1>3. CASE Class[t] = c
  <2>1. g \in Threads \X (1 .. MaxDepth) /\ g \notin Guards(c)
    BY <1>1 DEF Guards
  <2>2. Guards(c)' = Guards(c) \cup {g}
    <3>1. ASSUME NEW h \in Threads \X (1 .. MaxDepth)
          PROVE  h[2] <= depth'[h[1]] <=> h[2] <= depth[h[1]] \/ h = g
      <4>1. CASE h[1] # t
        BY <1>2, <4>1
      <4>2. CASE h[1] = t
        <5>1. h = <<t, h[2]>> /\ h[2] \in Int
          BY <4>2
        <5>2. h[2] <= depth[t] + 1 <=> h[2] <= depth[t] \/ h[2] = depth[t] + 1
          BY <1>1, <5>1
        <5> QED
          BY <1>2, <4>2, <5>1, <5>2
      <4> QED
        BY <4>1, <4>2
    <3> QED
      BY <1>3, <2>1, <3>1 DEF Guards
  <2> QED
    BY <1>3, <2>1, <2>2, GuardsCount, FS_AddElement
<1>4. CASE Class[t] # c
  <2>1. Guards(c)' = Guards(c)
    BY <1>2, <1>4 DEF Guards
  <2> QED
    BY <1>4, <2>1, GuardsCount
<1> QED
  BY <1>3, <1>4

LEMMA GuardsLose ==
  ASSUME GrantInv, NEW t \in Threads, LeaveTest(t), NEW c
  PROVE  Cardinality(Guards(c))' = Cardinality(Guards(c)) - (IF Class[t] = c THEN 1 ELSE 0)
<1> DEFINE g == <<t, depth[t]>>
<1>1. /\ depth \in [Threads -> Int] /\ \A u \in Threads : depth[u] \in 0 .. MaxDepth
      /\ MaxDepth \in Nat
  BY OwnedCSAssumption DEF GrantInv, TypeOK
<1>2. /\ depth[t] > 0
      /\ depth'[t] = depth[t] - 1 /\ \A u \in Threads \ {t} : depth'[u] = depth[u]
  BY <1>1 DEF LeaveTest
<1>3. CASE Class[t] = c
  <2>1. g \in Guards(c)
    BY <1>1, <1>2, <1>3 DEF Guards
  <2>2. Guards(c)' = Guards(c) \ {g}
    <3>1. ASSUME NEW h \in Threads \X (1 .. MaxDepth)
          PROVE  h[2] <= depth'[h[1]] <=> h[2] <= depth[h[1]] /\ h # g
      <4>1. CASE h[1] # t
        BY <1>2, <4>1
      <4>2. CASE h[1] = t
        <5>1. h = <<t, h[2]>> /\ h[2] \in Int
          BY <4>2
        <5>2. h[2] <= depth[t] - 1 <=> h[2] <= depth[t] /\ h[2] # depth[t]
          BY <1>1, <5>1
        <5> QED
          BY <1>2, <4>2, <5>1, <5>2
      <4> QED
        BY <4>1, <4>2
    <3> QED
      BY <2>1, <3>1 DEF Guards
  <2> QED
    BY <1>3, <2>1, <2>2, GuardsCount, FS_RemoveElement
<1>4. CASE Class[t] # c
  <2>1. Guards(c)' = Guards(c)
    BY <1>2, <1>4 DEF Guards
  <2> QED
    BY <1>4, <2>1, GuardsCount
<1> QED
  BY <1>3, <1>4

LEMMA GuardsSame ==
  ASSUME UNCHANGED depth, NEW c
  PROVE  Cardinality(Guards(c))' = Cardinality(Guards(c))
  BY DEF Guards

-----------------------------------------------------------------------------
(* While a class owns the section one of its threads is inside, or about to *)
(* be, or about to hand over: nRecursiveCount may fall behind the number of *)
(* its guards but never gets ahead of it, so the last guard hands over.     *)
Dropping == IF \E t \in Threads : pc[t] = "drop" THEN 1 ELSE 0

Accounted(c) ==
  /\ Cardinality(Guards(c)) + Dropping > 0
  /\ nRecursiveCount <= Cardinality(Guards(c)) + Dropping

Changing(c) == \E t \in Threads : pc[t] \in {"count", "free"} /\ Class[t] = c

CountCovered == \A c \in Nat : nOwner = c => Changing(c) \/ Accounted(c)

LEMMA CoveredNext ==
  ASSUME GrantInv, CountCovered, [Next]_vars
  PROVE  CountCovered'
<1> SUFFICES ASSUME NEW c \in Nat, nOwner' = c PROVE Changing(c)' \/ Accounted(c)'
  BY DEF CountCovered
<1> DEFINE N == Cardinality(Guards(c))
<1>0. /\ N \in Nat /\ N' \in Nat /\ nRecursiveCount \in Int
      /\ Dropping \in {0, 1} /\ Dropping' \in {0, 1}
      /\ nOwner = c => Changing(c) \/ Accounted(c)
      /\ pc \in [Threads -> Steps] /\ c # None
      /\ \A t, u \in Threads : pc[t] \in LockedSteps /\ pc[u] \in LockedSteps => t = u
      /\ \A t \in Threads : pc[t] \in LockedSteps => threadLock # NoThread
  BY GuardsCount, OwnedCSAssumption
  DEF GrantInv, TypeOK, CountCovered, Dropping, LockDiscipline, None
<1> USE DEF LockedSteps
<1>1. ASSUME NEW t \in Threads, nOwner' = nOwner, nRecursiveCount' = nRecursiveCount,
             depth' = depth, NEW s \in Steps \ {"count", "drop", "free"},
             pc' = [pc EXCEPT ![t] = s], pc[t] \notin {"count", "drop", "free"}
      PROVE  Changing(c)' \/ Accounted(c)'
  <2>1. N' = N /\ Dropping' = Dropping
    BY <1>0, <1>1, GuardsSame DEF Dropping
  <2>2. Changing(c) => Changing(c)'
    BY <1>0, <1>1 DEF Changing
  <2> QED
    BY <1>0, <1>1, <2>1, <2>2 DEF Accounted
<1>2. ASSUME NEW t \in Threads, EnterTest(t) \/ Request(t) \/ Wake(t) \/ HandOff(t)
      PROVE  Changing(c)' \/ Accounted(c)'
  <2>1. /\ nOwner' = nOwner /\ nRecursiveCount' = nRecursiveCount /\ depth' = depth
        /\ pc[t] \notin {"count", "drop", "free"}
        /\ \E s \in {"nest", "request", "wait", "own", "out"} : pc' = [pc EXCEPT ![t] = s]
    BY <1>2 DEF EnterTest, Request, Wake, HandOff, At, GoTo
  <2>2. {"nest", "request", "wait", "own", "out"} \subseteq Steps \ {"count", "drop", "free"}
    BY DEF Steps
  <2> QED
    BY <1>1, <2>1, <2>2
<1>3. ASSUME NEW t \in Threads, Nest(t) PROVE Changing(c)' \/ Accounted(c)'
  <2>1. /\ pc[t] = "nest" /\ pc' = [pc EXCEPT ![t] = "out"] /\ GainGuard(t)
        /\ nRecursiveCount' = nRecursiveCount + 1 /\ nOwner' = nOwner
    BY <1>3 DEF Nest, At, GoTo
  <2>2. Class[t] = c /\ depth[t] < MaxDepth
    BY <2>1 DEF GrantInv, LockedOwner, DepthRoom, EnteringSteps
  <2>3. N' = N + 1
    BY <2>1, <2>2, GuardsGain
  <2>4. Dropping = 0 /\ Dropping' = 0
    BY <1>0, <2>1 DEF Dropping
  <2>5. Changing(c) => Changing(c)'
    BY <1>0, <2>1 DEF Changing
  <2> QED
    BY <1>0, <2>1, <2>3, <2>4, <2>5 DEF Accounted
<1>4. ASSUME NEW t \in Threads, Own(t) PROVE Changing(c)' \/ Accounted(c)'
  <2>1. pc'[t] = "count" /\ Class[t] = c
    BY <1>0, <1>4 DEF Own, GoTo
  <2> QED
    BY <2>1 DEF Changing
<1>5. ASSUME NEW t \in Threads, Count(t) PROVE Changing(c)' \/ Accounted(c)'
  <2>1. /\ pc[t] = "count" /\ pc' = [pc EXCEPT ![t] = "out"] /\ GainGuard(t)
        /\ nRecursiveCount' = 1 /\ nOwner' = nOwner
    BY <1>5 DEF Count, At, GoTo
  <2>2. depth[t] < MaxDepth
    BY <2>1 DEF GrantInv, DepthRoom, EnteringSteps
  <2>3. N' = N + (IF Class[t] = c THEN 1 ELSE 0)
    BY <2>1, <2>2, GuardsGain
  <2>4. Dropping' = Dropping
    BY <1>0, <2>1 DEF Dropping
  <2>5. Changing(c) /\ Class[t] # c => Changing(c)'
    BY <1>0, <2>1 DEF Changing
  <2> QED
    BY <1>0, <2>1, <2>3, <2>4, <2>5 DEF Accounted
<1>6. ASSUME NEW t \in Threads, LeaveTest(t) PROVE Changing(c)' \/ Accounted(c)'
  <2>1. /\ pc[t] = "out" /\ nRecursiveCount' = nRecursiveCount /\ nOwner' = nOwner
        /\ pc' = [pc EXCEPT ![t] = IF Class[t] = c THEN "drop" ELSE "stray"]
        /\ threadLock = NoThread
    BY <1>6 DEF LeaveTest, At, GoTo
  <2>2. N' = N - (IF Class[t] = c THEN 1 ELSE 0)
    BY <1>6, GuardsLose
  <2>3. Dropping = 0 /\ Dropping' = IF Class[t] = c THEN 1 ELSE 0
    BY <1>0, <2>1 DEF Dropping
  <2>4. Changing(c) => Changing(c)'
    BY <1>0, <2>1 DEF Changing
  <2>5. N' + Dropping' = N + Dropping
    BY <1>0, <2>2, <2>3
  <2> QED
    BY <1>0, <2>1, <2>4, <2>5 DEF Accounted
<1>7. ASSUME NEW t \in Threads, Drop(t) PROVE Changing(c)' \/ Accounted(c)'
  <2>1. /\ pc[t] = "drop" /\ nRecursiveCount' = nRecursiveCount - 1 /\ nOwner' = nOwner
        /\ pc' = [pc EXCEPT ![t] = IF nRecursiveCount' <= 0 THEN "free" ELSE "out"]
        /\ depth' = depth
    BY <1>7 DEF Drop, LastGuard, At, GoTo
  <2>2. Class[t] = c
    BY <2>1 DEF GrantInv, LockedOwner
  <2>3. CASE nRecursiveCount' <= 0
    BY <1>0, <2>1, <2>2, <2>3 DEF Changing
  <2>4. CASE ~(nRecursiveCount' <= 0)
    <3>1. N' = N /\ Dropping = 1 /\ Dropping' = 0
      BY <1>0, <2>1, <2>4, GuardsSame DEF Dropping
    <3>2. Changing(c) => Changing(c)'
      BY <1>0, <2>1, <2>4 DEF Changing
    <3> QED
      BY <1>0, <2>1, <2>4, <3>1, <3>2 DEF Accounted
  <2> QED
    BY <2>3, <2>4
<1>8. ASSUME NEW t \in Threads, Stray(t) PROVE Changing(c)' \/ Accounted(c)'
  <2>1. /\ pc[t] = "stray" /\ nRecursiveCount' = nRecursiveCount - 1 /\ nOwner' = nOwner
        /\ pc' = [pc EXCEPT ![t] = "out"] /\ depth' = depth
    BY <1>8 DEF Stray, At, GoTo
  <2>2. N' = N /\ Dropping' = Dropping
    BY <1>0, <2>1, GuardsSame DEF Dropping
  <2>3. Changing(c) => Changing(c)'
    BY <1>0, <2>1 DEF Changing
  <2> QED
    BY <1>0, <2>1, <2>2, <2>3 DEF Accounted
<1>9. ASSUME NEW t \in Threads, Free(t) PROVE Changing(c)' \/ Accounted(c)'
  BY <1>0, <1>9 DEF Free
<1>10. CASE UNCHANGED vars
  BY <1>0, <1>10, GuardsSame DEF vars, Changing, Accounted, Dropping
<1> QED
  BY <1>2, <1>3, <1>4, <1>5, <1>6, <1>7, <1>8, <1>9, <1>10 DEF Next, Enter, Leave

(* A waiting thread is never forgotten, whatever classes the threads share  *)
(* and however far the counters have drifted.                               *)
THEOREM Wakeup == Spec => []NoLostWakeup
<1> DEFINE Inv == GrantInv /\ QueueCounted /\ CountCovered
<1>1. Init => Inv
  BY GrantInit, QueueInit DEF Init, CountCovered, None
<1>2. Inv /\ [Next]_vars => Inv'
  BY GrantNext, QueueNext, CoveredNext
<1>3. Inv => NoLostWakeup
  <2> SUFFICES ASSUME Inv, NEW t \in Threads, pc[t] = "wait" PROVE NoLostWakeup
    BY DEF NoLostWakeup, At
  <2>1. Cardinality(Waiters) # 0 /\ Cardinality(Waiters) \in Nat
    BY WaitersFinite, FS_EmptySet DEF Waiters
  <2>2. GrantExists
    BY <2>1 DEF QueueCounted, GrantInv, GrantCounted, TypeOK
  <2>3. CASE nOwner # None
    <3>1. nOwner \in Nat
      BY <2>3 DEF GrantInv, TypeOK
    <3>2. CASE Changing(nOwner)
      BY <3>2 DEF Changing, NoLostWakeup
    <3>3. CASE Dropping = 1
      BY <3>3 DEF Dropping, NoLostWakeup
    <3>4. CASE Accounted(nOwner) /\ Dropping # 1
      <4>1. Cardinality(Guards(nOwner)) > 0
        BY <3>4, GuardsCount DEF Accounted, Dropping
      <4> QED
        BY <4>1, GuardInside DEF NoLostWakeup
    <3> QED
      BY <3>1, <3>2, <3>3, <3>4 DEF CountCovered
  <2>4. CASE hEvent \/ \E u \in Threads : Granted(u)
    BY <2>4 DEF NoLostWakeup, Granted
  <2> QED
    BY <2>2, <2>3, <2>4 DEF GrantExists
<1> QED
  BY <1>1, <1>2, <1>3, PTL DEF Spec

-----------------------------------------------------------------------------
(* As long as no increment is overwritten: the threads inside are of the    *)
(* class in nOwner, nobody is inside when a granted thread writes the       *)
(* count, no guard is left as a stray one, and the count is exact.          *)
InsideOwns == \A t \in Threads : Inside(t) => nOwner = Class[t]

CountingAlone ==
  \A t \in Threads : pc[t] = "count" =>
    /\ nOwner = Class[t]
    /\ \A u \in Threads : ~Inside(u) /\ (pc[u] \in {"count", "drop", "free"} => u = t)

FreedEmpty == \A t \in Threads : pc[t] = "free" => \A u \in Threads : ~Inside(u)

CountIsGuards ==
  \A c \in Nat : nOwner = c /\ (\A t \in Threads : pc[t] \notin {"count", "free"}) =>
    nRecursiveCount = Cardinality(Guards(c)) + Dropping

KeptInv ==
  /\ InsideOwns /\ CountingAlone /\ FreedEmpty /\ CountIsGuards
  /\ \A t \in Threads : pc[t] # "stray"

LEMMA KeptInit == Init => KeptInv
  BY DEF Init, KeptInv, InsideOwns, CountingAlone, FreedEmpty, CountIsGuards, Inside, None

LEMMA KeptNext ==
  ASSUME GrantInv, KeptInv, [Next]_vars, ~overtaken'
  PROVE  KeptInv'
<1>0. /\ depth \in [Threads -> Int] /\ pc \in [Threads -> Steps]
      /\ nRecursiveCount \in Int /\ Dropping \in {0, 1} /\ Dropping' \in {0, 1}
      /\ \A c \in Nat : Cardinality(Guards(c)) \in Nat
      /\ \A t \in Threads : depth[t] \in Nat
      /\ \A t \in Threads : Class[t] \in Nat /\ Class[t] # None
      /\ \A t, u \in Threads : pc[t] \in LockedSteps /\ pc[u] \in LockedSteps => t = u
      /\ \A t \in Threads : pc[t] \in LockedSteps => threadLock # NoThread
  BY GuardsCount, OwnedCSAssumption, ClassIsNat
  DEF GrantInv, TypeOK, Dropping, LockDiscipline
<1> USE DEF LockedSteps
<1>1. ASSUME NEW t \in Threads, nOwner' = nOwner, nRecursiveCount' = nRecursiveCount,
             depth' = depth, NEW s \in Steps \ {"count", "drop", "free", "stray"},
             pc' = [pc EXCEPT ![t] = s], pc[t] \notin {"count", "drop", "free"}
      PROVE  KeptInv'
  <2>1. Dropping' = Dropping /\ \A c : Cardinality(Guards(c))' = Cardinality(Guards(c))
    BY <1>0, <1>1, GuardsSame DEF Dropping
  <2>2. \A u \in Threads : pc'[u] \in {"count", "drop", "free", "stray"} => pc'[u] = pc[u]
    BY <1>0, <1>1
  <2>3. \A u \in Threads : pc[u] \in {"count", "drop", "free"} => pc'[u] = pc[u]
    BY <1>0, <1>1
  <2>4. CountIsGuards'
    BY <1>1, <2>1, <2>3 DEF KeptInv, CountIsGuards
  <2> QED
    BY <1>1, <2>2, <2>4 DEF KeptInv, InsideOwns, CountingAlone, FreedEmpty, Inside
<1>2. ASSUME NEW t \in Threads, EnterTest(t) \/ Request(t) \/ Wake(t) \/ HandOff(t)
      PROVE  KeptInv'
  <2>1. /\ nOwner' = nOwner /\ nRecursiveCount' = nRecursiveCount /\ depth' = depth
        /\ pc[t] \notin {"count", "drop", "free"}
        /\ \E s \in {"nest", "request", "wait", "own", "out"} : pc' = [pc EXCEPT ![t] = s]
    BY <1>2 DEF EnterTest, Request, Wake, HandOff, At, GoTo
  <2>2. {"nest", "request", "wait", "own", "out"} \subseteq Steps \ {"count", "drop", "free", "stray"}
    BY DEF Steps
  <2> QED
    BY <1>1, <2>1, <2>2
<1>3. ASSUME NEW t \in Threads, Nest(t) PROVE KeptInv'
  <2>1. /\ pc[t] = "nest" /\ pc' = [pc EXCEPT ![t] = "out"] /\ GainGuard(t)
        /\ nRecursiveCount' = nRecursiveCount + 1 /\ nOwner' = nOwner
    BY <1>3 DEF Nest, At, GoTo
  <2>2. nOwner = Class[t] /\ depth[t] < MaxDepth
    BY <2>1 DEF GrantInv, LockedOwner, DepthRoom, EnteringSteps
  <2>3. \A u \in Threads : pc[u] \notin {"count", "drop", "free"}
    <3>1. \A u \in Threads : pc[u] # "count"
      BY <1>3 DEF Nest, Overtake, At
    <3> QED
      BY <1>0, <2>1, <3>1
  <2>4. \A u \in Threads : pc'[u] \notin {"count", "drop", "free", "stray"}
    BY <1>0, <2>1, <2>3 DEF KeptInv
  <2>5. Dropping = 0 /\ Dropping' = 0
    BY <2>3, <2>4 DEF Dropping
  <2>6. Cardinality(Guards(Class[t]))' = Cardinality(Guards(Class[t])) + 1
    BY <2>1, <2>2, GuardsGain
  <2>7. CountIsGuards'
    BY <1>0, <2>1, <2>2, <2>3, <2>5, <2>6 DEF KeptInv, CountIsGuards
  <2>8. InsideOwns'
    BY <1>0, <2>1, <2>2 DEF KeptInv, InsideOwns, Inside, GainGuard
  <2> QED
    BY <2>4, <2>7, <2>8 DEF KeptInv, CountingAlone, FreedEmpty
<1>4. ASSUME NEW t \in Threads, Own(t) PROVE KeptInv'
  <2>1. /\ pc[t] = "own" /\ pc' = [pc EXCEPT ![t] = "count"] /\ nOwner' = Class[t]
        /\ depth' = depth
    BY <1>4 DEF Own, At, GoTo
  <2>2. nOwner = None
    BY <2>1 DEF GrantInv, OneGrant, Granted
  <2>3. \A u \in Threads : ~Inside(u) /\ pc[u] \notin {"count", "drop", "free"}
    BY <1>0, <2>2 DEF KeptInv, InsideOwns, CountingAlone, GrantInv, LockedOwner
  <2> QED
    BY <1>0, <2>1, <2>3
    DEF KeptInv, InsideOwns, CountingAlone, FreedEmpty, CountIsGuards, Inside
<1>5. ASSUME NEW t \in Threads, Count(t) PROVE KeptInv'
  <2>1. /\ pc[t] = "count" /\ pc' = [pc EXCEPT ![t] = "out"] /\ GainGuard(t)
        /\ nRecursiveCount' = 1 /\ nOwner' = nOwner
    BY <1>5 DEF Count, At, GoTo
  <2>2. nOwner = Class[t] /\ depth[t] < MaxDepth
    BY <2>1 DEF KeptInv, CountingAlone, GrantInv, DepthRoom, EnteringSteps
  <2>3. \A u \in Threads : ~Inside(u) /\ (pc[u] \in {"count", "drop", "free"} => u = t)
    BY <2>1 DEF KeptInv, CountingAlone
  <2>4. \A u \in Threads : pc'[u] \notin {"count", "drop", "free", "stray"}
    BY <1>0, <2>1, <2>3 DEF KeptInv
  <2>5. Dropping' = 0
    BY <2>4 DEF Dropping
  <2>6. Cardinality(Guards(Class[t])) = 0
    BY <1>0, <2>3, GuardInside
  <2>7. Cardinality(Guards(Class[t]))' = 1
    BY <2>1, <2>2, <2>6, GuardsGain
  <2>8. CountIsGuards'
    BY <2>1, <2>2, <2>5, <2>7 DEF CountIsGuards
  <2>9. InsideOwns'
    BY <1>0, <2>1, <2>2, <2>3 DEF InsideOwns, Inside, GainGuard
  <2> QED
    BY <2>4, <2>8, <2>9 DEF KeptInv, CountingAlone, FreedEmpty
<1>6. ASSUME NEW t \in Threads, LeaveTest(t) PROVE KeptInv'
  <2>1. Inside(t)
    BY <1>6 DEF LeaveTest, Inside
  <2>2. nOwner = Class[t] /\ \A u \in Threads : pc[u] \notin {"count", "free"}
    BY <2>1 DEF KeptInv, InsideOwns, CountingAlone, FreedEmpty
  <2>3. /\ pc[t] = "out" /\ nRecursiveCount' = nRecursiveCount /\ nOwner' = nOwner
        /\ pc' = [pc EXCEPT ![t] = "drop"] /\ threadLock = NoThread
        /\ depth' = [depth EXCEPT ![t] = @ - 1]
    BY <1>6, <2>2 DEF LeaveTest, At, GoTo
  <2>4. \A u \in Threads : pc'[u] \notin {"count", "free", "stray"}
    BY <1>0, <2>2, <2>3 DEF KeptInv
  <2>5. Dropping = 0 /\ Dropping' = 1
    BY <1>0, <2>3 DEF Dropping
  <2>6. Cardinality(Guards(Class[t]))' = Cardinality(Guards(Class[t])) - 1
    BY <1>6, GuardsLose
  <2>7. CountIsGuards'
    BY <1>0, <2>2, <2>3, <2>5, <2>6 DEF KeptInv, CountIsGuards
  <2>8. InsideOwns'
    BY <1>0, <2>2, <2>3 DEF KeptInv, InsideOwns, Inside
  <2> QED
    BY <2>4, <2>7, <2>8 DEF KeptInv, CountingAlone, FreedEmpty
<1>7. ASSUME NEW t \in Threads, Drop(t) PROVE KeptInv'
  <2>1. /\ pc[t] = "drop" /\ nRecursiveCount' = nRecursiveCount - 1 /\ nOwner' = nOwner
        /\ pc' = [pc EXCEPT ![t] = IF nRecursiveCount' <= 0 THEN "free" ELSE "out"]
        /\ depth' = depth
    BY <1>7 DEF Drop, LastGuard, At, GoTo
  <2>2. nOwner = Class[t]
    BY <2>1 DEF GrantInv, LockedOwner
  <2>3. \A u \in Threads : pc[u] \notin {"count", "free"} /\ (pc[u] = "drop" => u = t)
    BY <1>0, <2>1 DEF KeptInv, CountingAlone
  <2>4. nRecursiveCount' = Cardinality(Guards(Class[t]))
    <3>1. Dropping = 1
      BY <2>1 DEF Dropping
    <3> QED
      BY <1>0, <2>1, <2>2, <2>3, <3>1 DEF KeptInv, CountIsGuards
  <2>5. InsideOwns'
    BY <2>1 DEF KeptInv, InsideOwns, Inside
  <2>6. CASE nRecursiveCount' <= 0
    <3>1. \A u \in Threads : ~Inside(u)
      BY <1>0, <2>2, <2>4, <2>6, GuardInside DEF KeptInv, InsideOwns
    <3>2. \A u \in Threads : pc'[u] \notin {"count", "stray"} /\ pc'[t] = "free"
      BY <1>0, <2>1, <2>3, <2>6 DEF KeptInv
    <3> QED
      BY <2>1, <2>5, <3>1, <3>2 DEF KeptInv, CountingAlone, FreedEmpty, CountIsGuards, Inside
  <2>7. CASE ~(nRecursiveCount' <= 0)
    <3>1. \A u \in Threads : pc'[u] \notin {"count", "drop", "free", "stray"}
      BY <1>0, <2>1, <2>3, <2>7 DEF KeptInv
    <3>2. Dropping' = 0
      BY <3>1 DEF Dropping
    <3>3. Cardinality(Guards(Class[t]))' = Cardinality(Guards(Class[t]))
      BY <2>1, GuardsSame
    <3>4. CountIsGuards'
      BY <1>0, <2>1, <2>2, <2>4, <3>2, <3>3 DEF CountIsGuards
    <3> QED
      BY <2>5, <3>1, <3>4 DEF KeptInv, CountingAlone, FreedEmpty
  <2> QED
    BY <2>6, <2>7
<1>8. ASSUME NEW t \in Threads, Stray(t) PROVE KeptInv'
  BY <1>8 DEF Stray, At, KeptInv
<1>9. ASSUME NEW t \in Threads, Free(t) PROVE KeptInv'
  <2>1. /\ pc[t] = "free" /\ pc' = [pc EXCEPT ![t] = "handoff"] /\ nOwner' = None
        /\ depth' = depth
    BY <1>9 DEF Free, At, GoTo
  <2>2. \A u \in Threads : ~Inside(u) /\ pc[u] # "count" /\ (pc[u] = "free" => u = t)
    BY <1>0, <2>1 DEF KeptInv, FreedEmpty, CountingAlone
  <2>3. \A u \in Threads : pc'[u] \notin {"count", "free", "stray"} /\ ~Inside(u)'
    BY <1>0, <2>1, <2>2 DEF KeptInv, Inside
  <2> QED
    BY <2>1, <2>3 DEF KeptInv, InsideOwns, CountingAlone, FreedEmpty, CountIsGuards, None
<1>10. CASE UNCHANGED vars
  <2>1. \A c : Cardinality(Guards(c))' = Cardinality(Guards(c))
    BY <1>10, GuardsSame DEF vars
  <2> QED
    BY <1>10, <2>1
    DEF vars, KeptInv, InsideOwns, CountingAlone, FreedEmpty, CountIsGuards, Inside, Dropping
<1> QED
  BY <1>2, <1>3, <1>4, <1>5, <1>6, <1>7, <1>8, <1>9, <1>10 DEF Next, Enter, Leave

(* The history variable only rises.                                         *)
LEMMA OvertakenStays == [Next]_vars /\ overtaken => overtaken'
<1> SUFFICES ASSUME [Next]_vars, overtaken PROVE overtaken'
  OBVIOUS
<1>1. ASSUME NEW t \in Threads, Nest(t) PROVE overtaken'
  BY <1>1 DEF Nest, Overtake
<1>2. ASSUME UNCHANGED overtaken PROVE overtaken'
  BY <1>2
<1>3. ASSUME NEW t \in Threads,
             \/ EnterTest(t) \/ Request(t) \/ Wake(t) \/ Own(t) \/ Count(t)
             \/ LeaveTest(t) \/ Drop(t) \/ Stray(t) \/ Free(t) \/ HandOff(t)
      PROVE  UNCHANGED overtaken
  BY <1>3 DEF EnterTest, Request, Wake, Own, Count, LeaveTest, Drop, Stray, Free, HandOff
<1>4. CASE UNCHANGED vars
  BY <1>2, <1>4 DEF vars
<1> QED
  BY <1>1, <1>2, <1>3, <1>4 DEF Next, Enter, Leave

(* The inductive invariant of the theorems below.                           *)
CountInv == GrantInv /\ (overtaken \/ KeptInv)

LEMMA CountInit == Init => CountInv
  BY GrantInit, KeptInit DEF CountInv

LEMMA CountNext == CountInv /\ [Next]_vars => CountInv'
<1> SUFFICES ASSUME CountInv, [Next]_vars PROVE CountInv'
  OBVIOUS
<1>1. GrantInv'
  BY GrantNext DEF CountInv
<1>2. CASE overtaken'
  BY <1>1, <1>2 DEF CountInv
<1>3. CASE ~overtaken'
  <2>1. GrantInv /\ KeptInv
    BY <1>3, OvertakenStays DEF CountInv
  <2> QED
    BY <1>1, <1>3, <2>1, KeptNext DEF CountInv
<1> QED
  BY <1>2, <1>3

(* Drawing and font removal exclude each other, whatever threads share a    *)
(* class, in every state before an increment is overwritten.                *)
THEOREM Exclusion == Spec => []ExclusionKept
<1>1. CountInv => ExclusionKept
  BY DEF CountInv, KeptInv, InsideOwns, ExclusionKept, ClassExclusion
<1> QED
  BY <1>1, CountInit, CountNext, PTL DEF Spec

(* And the counters are exact between calls.                                *)
LEMMA KeptExact == GrantInv /\ KeptInv => CountersExact
<1> SUFFICES ASSUME GrantInv, KeptInv,
                    \A t \in Threads : At(t, "out") \/ At(t, "wait")
             PROVE  CountersExact
  BY DEF CountersExact
<1>1. ASSUME NEW t \in Threads, Inside(t)
      PROVE  nRecursiveCount = Cardinality(Guards(Class[t]))
  <2>1. nOwner = Class[t] /\ Class[t] \in Nat /\ Dropping = 0
    BY <1>1, ClassIsNat DEF KeptInv, InsideOwns, Dropping, At
  <2> QED
    BY <2>1, GuardsCount DEF KeptInv, CountIsGuards, At
<1>2. (nOwner = None /\ ~hEvent) <=> ~GrantExists
  BY DEF GrantExists, Granted, At
<1>3. nRequests \in Nat \cup {-1} /\ (GrantExists <=> nRequests >= 0)
  BY DEF GrantInv, TypeOK, GrantCounted
<1>4. (nOwner = None /\ ~hEvent) <=> nRequests = -1
  BY <1>2, <1>3
<1> QED
  BY <1>1, <1>4 DEF CountersExact

(* No sequence of nested calls and hand-overs lets the counters drift       *)
(* before an increment is overwritten.                                      *)
THEOREM Counters == Spec => []CountersKept
<1>1. CountInv => CountersKept
  BY KeptExact DEF CountInv, CountersKept
<1> QED
  BY <1>1, CountInit, CountNext, PTL DEF Spec

-----------------------------------------------------------------------------
(* The section implements the abstract class lock: a guard begins in Nest   *)
(* or Count, ends in LeaveTest, and every other step is invisible to the    *)
(* callers.                                                                 *)
LEMMA StepImplements ==
  ASSUME GrantInv, KeptInv, [Next]_vars
  PROVE  [Promise!Next]_depth
<1>1. ASSUME NEW t \in Threads, pc[t] \in {"nest", "count"}, NEW u \in Threads, Inside(u)
      PROVE  Class[u] = Class[t]
  <2>1. nOwner = Class[t]
    BY <1>1 DEF KeptInv, CountingAlone, GrantInv, LockedOwner
  <2>2. nOwner = Class[u]
    BY <1>1 DEF KeptInv, InsideOwns
  <2> QED
    BY <2>1, <2>2
<1>2. ASSUME NEW t \in Threads, Nest(t) \/ Count(t) PROVE Promise!Acquire(t)
  <2>1. pc[t] \in {"nest", "count"} /\ GainGuard(t)
    BY <1>2 DEF Nest, Count, At
  <2>2. depth[t] < MaxDepth
    BY <2>1 DEF GrantInv, DepthRoom, EnteringSteps
  <2> QED
    BY <1>1, <2>1, <2>2 DEF Promise!Acquire, GainGuard, Inside
<1>3. ASSUME NEW t \in Threads, LeaveTest(t) PROVE Promise!Release(t)
  BY <1>3 DEF LeaveTest, Promise!Release
<1>4. ASSUME NEW t \in Threads,
             \/ EnterTest(t) \/ Request(t) \/ Wake(t) \/ Own(t)
             \/ Drop(t) \/ Stray(t) \/ Free(t) \/ HandOff(t)
      PROVE  UNCHANGED depth
  BY <1>4 DEF EnterTest, Request, Wake, Own, Drop, Stray, Free, HandOff
<1>5. CASE UNCHANGED vars
  BY <1>5 DEF vars
<1> QED
  BY <1>2, <1>3, <1>4, <1>5 DEF Next, Enter, Leave, Promise!Next

(* Every step before an increment is overwritten is one of the class lock.  *)
THEOREM Implementation == Spec => ImplementsClassLock
<1>1. Init => Promise!Init
  BY DEF Init, Promise!Init
<1>2. CountInv /\ [Next]_vars => [overtaken \/ Promise!Next]_depth
  BY StepImplements DEF CountInv
<1> QED
  BY <1>1, <1>2, CountInit, CountNext, PTL DEF Spec, ImplementsClassLock

-----------------------------------------------------------------------------
(* Only a thread of the same class can be between the test of nOwner and    *)
(* the count.  A section no two threads of one class enter is therefore the *)
(* class lock without reservation, which is what FontEngine takes OCS_DC    *)
(* and OCS_FREETYPE for, with one thread of each class on either.           *)
THEOREM UnsharedLock ==
  ASSUME \A t, u \in Threads : Class[t] = Class[u] => t = u
  PROVE  Spec => Promise!Spec
<1> DEFINE Inv == GrantInv /\ KeptInv /\ ~overtaken
<1>1. Init => Inv
  BY GrantInit, KeptInit DEF Init
<1>2. Inv /\ [Next]_vars => Inv'
  <2> SUFFICES ASSUME Inv, [Next]_vars PROVE Inv'
    OBVIOUS
  <2>1. ASSUME NEW t \in Threads, Nest(t) PROVE ~overtaken'
    <3>1. nOwner = Class[t] /\ pc[t] = "nest"
      BY <2>1 DEF Nest, At, GrantInv, LockedOwner
    <3>2. \A u \in Threads : pc[u] # "count"
      BY <3>1 DEF KeptInv, CountingAlone
    <3> QED
      BY <2>1, <3>2 DEF Nest, Overtake, At
  <2>2. ASSUME UNCHANGED overtaken PROVE ~overtaken'
    BY <2>2
  <2>3. ASSUME NEW t \in Threads,
               \/ EnterTest(t) \/ Request(t) \/ Wake(t) \/ Own(t) \/ Count(t)
               \/ LeaveTest(t) \/ Drop(t) \/ Stray(t) \/ Free(t) \/ HandOff(t)
        PROVE  UNCHANGED overtaken
    BY <2>3 DEF EnterTest, Request, Wake, Own, Count, LeaveTest, Drop, Stray, Free, HandOff
  <2>4. ASSUME UNCHANGED vars PROVE ~overtaken'
    BY <2>2, <2>4 DEF vars
  <2>5. ~overtaken'
    BY <2>1, <2>2, <2>3, <2>4 DEF Next, Enter, Leave
  <2>6. GrantInv'
    BY GrantNext
  <2>7. KeptInv'
    BY <2>5, KeptNext
  <2> QED
    BY <2>5, <2>6, <2>7
<1>3. Init => Promise!Init
  BY DEF Init, Promise!Init
<1>4. Inv /\ [Next]_vars => [Promise!Next]_depth
  BY StepImplements
<1> QED
  BY <1>1, <1>2, <1>3, <1>4, PTL DEF Spec, Promise!Spec
=============================================================================
