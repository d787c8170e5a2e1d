------------------------------ MODULE OwnedCS ------------------------------
(***************************************************************************)
(* The owned critical section of src/src/cache/ownedcs.cpp, through the     *)
(* guard COwnedCriticalSectionLock of src/src/utils/common.h.               *)
(*                                                                         *)
(* A thread enters on behalf of an owner class, not of itself.  The fields  *)
(* are read and counted under threadLock, but the thread that is granted    *)
(* the section writes nOwner and nRecursiveCount after it has left          *)
(* threadLock, so every interlocked operation is an action of its own.      *)
(***************************************************************************)
EXTENDS Integers, FiniteSets

CONSTANTS Threads,  (* the threads of the process                           *)
          Class,    (* Class[t]: the Owner argument thread t passes         *)
          MaxDepth, (* bound on the guards one thread nests                 *)
          NoThread  (* threadLock is free                                   *)

ASSUME OwnedCSAssumption ==
  /\ Class \in [Threads -> Nat]
  /\ MaxDepth \in Nat \ {0}
  /\ NoThread \notin Threads
  /\ IsFiniteSet(Threads)

None == -1          (* the value of nOwner when nobody owns the section     *)

VARIABLES
  nOwner, nRequests, nRecursiveCount, (* the fields of OWNED_CRITIAL_SECTION *)
  hEvent,           (* the auto-reset event is signalled                    *)
  threadLock,       (* the thread inside the plain critical section         *)
  pc,               (* what each thread does next inside Enter or Leave     *)
  depth,            (* guards of a thread that are constructed and whose    *)
                    (* destructor has not begun                             *)
  overtaken         (* history: a nested guard was counted while another    *)
                    (* thread of the class, which has written nOwner, had   *)
                    (* still to write the count.  Its 1 overwrites the      *)
                    (* increment; the code does not see to it.              *)

vars == <<nOwner, nRequests, nRecursiveCount, hEvent, threadLock, pc, depth, overtaken>>

Steps == {"out", "nest", "request", "wait", "own", "count",
          "drop", "stray", "free", "handoff"}

Init ==
  /\ nOwner = None
  /\ nRequests = -1
  /\ nRecursiveCount = 0
  /\ hEvent = FALSE
  /\ threadLock = NoThread
  /\ pc = [t \in Threads |-> "out"]
  /\ depth = [t \in Threads |-> 0]
  /\ overtaken = FALSE

At(t, step) == pc[t] = step
GoTo(t, step) == pc' = [pc EXCEPT ![t] = step]

(* Between EnterCriticalSection and LeaveCriticalSection of threadLock.     *)
Locked(t) == threadLock = t
Unlock == threadLock' = NoThread

Overtake == overtaken' = (overtaken \/ \E u \in Threads : At(u, "count"))

GainGuard(t) == depth' = [depth EXCEPT ![t] = @ + 1]

(* The three comparisons that decide who owns the section, each after a     *)
(* mutated form that a slip of one would give.                              *)
MustWaitOffByOne(requests) == requests > 1
MustWait(requests) == requests > 0

LastGuardOffByOne(count) == count <= 1
LastGuard(count) == count <= 0

StillRequestedOffByOne(requests) == requests > 0
StillRequested(requests) == requests >= 0

-----------------------------------------------------------------------------
(* EnterOwnedCritialSection: take threadLock and compare nOwner.            *)
EnterTest(t) ==
  /\ At(t, "out") /\ depth[t] < MaxDepth
  /\ threadLock = NoThread
  /\ threadLock' = t
  /\ GoTo(t, IF nOwner = Class[t] THEN "nest" ELSE "request")
  /\ UNCHANGED <<nOwner, nRequests, nRecursiveCount, hEvent, depth, overtaken>>

(* Mutated form of Nest: set the count as the granted thread does.          *)
NestAsFirst(t) ==
  /\ At(t, "nest") /\ Locked(t)
  /\ nRecursiveCount' = 1
  /\ Unlock
  /\ GoTo(t, "out")
  /\ GainGuard(t)
  /\ Overtake
  /\ UNCHANGED <<nOwner, nRequests, hEvent>>

(* The class owns the section already: one more guard of that class.        *)
Nest(t) ==
  /\ At(t, "nest") /\ Locked(t)
  /\ nRecursiveCount' = nRecursiveCount + 1
  /\ Unlock
  /\ GoTo(t, "out")
  /\ GainGuard(t)
  /\ Overtake
  /\ UNCHANGED <<nOwner, nRequests, hEvent>>

(* The first request takes the section, every further one waits.            *)
Request(t) ==
  /\ At(t, "request") /\ Locked(t)
  /\ nRequests' = nRequests + 1
  /\ Unlock
  /\ GoTo(t, IF MustWait(nRequests') THEN "wait" ELSE "own")
  /\ UNCHANGED <<nOwner, nRecursiveCount, hEvent, depth, overtaken>>

(* WaitForSingleObject returns and resets the auto-reset event.             *)
Wake(t) ==
  /\ At(t, "wait") /\ hEvent
  /\ hEvent' = FALSE
  /\ GoTo(t, "own")
  /\ UNCHANGED <<nOwner, nRequests, nRecursiveCount, threadLock, depth, overtaken>>

(* The two exchanges of the granted thread, outside threadLock.             *)
Own(t) ==
  /\ At(t, "own")
  /\ nOwner' = Class[t]
  /\ GoTo(t, "count")
  /\ UNCHANGED <<nRequests, nRecursiveCount, hEvent, threadLock, depth, overtaken>>

Count(t) ==
  /\ At(t, "count")
  /\ nRecursiveCount' = 1
  /\ GoTo(t, "out")
  /\ GainGuard(t)
  /\ UNCHANGED <<nOwner, nRequests, hEvent, threadLock, overtaken>>

-----------------------------------------------------------------------------
(* LeaveOwnedCritialSection: take threadLock and compare nOwner.            *)
LeaveTest(t) ==
  /\ At(t, "out") /\ depth[t] > 0
  /\ threadLock = NoThread
  /\ threadLock' = t
  /\ depth' = [depth EXCEPT ![t] = @ - 1]
  /\ GoTo(t, IF nOwner = Class[t] THEN "drop" ELSE "stray")
  /\ UNCHANGED <<nOwner, nRequests, nRecursiveCount, hEvent, overtaken>>

(* The class owns the section: one guard less, the last one frees it.       *)
Drop(t) ==
  /\ At(t, "drop") /\ Locked(t)
  /\ nRecursiveCount' = nRecursiveCount - 1
  /\ IF LastGuard(nRecursiveCount')
     THEN GoTo(t, "free") /\ UNCHANGED threadLock
     ELSE GoTo(t, "out") /\ Unlock
  /\ UNCHANGED <<nOwner, nRequests, hEvent, depth, overtaken>>

(* Mutated form of Stray: take back the request as well.                    *)
StrayTakesRequest(t) ==
  /\ At(t, "stray") /\ Locked(t)
  /\ nRecursiveCount' = nRecursiveCount - 1
  /\ nRequests' = nRequests - 1
  /\ Unlock
  /\ GoTo(t, "out")
  /\ UNCHANGED <<nOwner, hEvent, depth, overtaken>>

(* Another class, or nobody, owns the section: the count drops all the same. *)
Stray(t) ==
  /\ At(t, "stray") /\ Locked(t)
  /\ nRecursiveCount' = nRecursiveCount - 1
  /\ Unlock
  /\ GoTo(t, "out")
  /\ UNCHANGED <<nOwner, nRequests, hEvent, depth, overtaken>>

Free(t) ==
  /\ At(t, "free") /\ Locked(t)
  /\ nOwner' = None
  /\ GoTo(t, "handoff")
  /\ UNCHANGED <<nRequests, nRecursiveCount, hEvent, threadLock, depth, overtaken>>

(* Take back the request; if another one is queued, signal the event.       *)
HandOff(t) ==
  /\ At(t, "handoff") /\ Locked(t)
  /\ nRequests' = nRequests - 1
  /\ hEvent' = (hEvent \/ StillRequested(nRequests'))
  /\ Unlock
  /\ GoTo(t, "out")
  /\ UNCHANGED <<nOwner, nRecursiveCount, depth, overtaken>>

Enter(t) == EnterTest(t) \/ Nest(t) \/ Request(t) \/ Wake(t) \/ Own(t) \/ Count(t)
Leave(t) == LeaveTest(t) \/ Drop(t) \/ Stray(t) \/ Free(t) \/ HandOff(t)

Next == \E t \in Threads : Enter(t) \/ Leave(t)

Spec == Init /\ [][Next]_vars

(* A call that has begun is scheduled again; a drawing or removing call     *)
(* that holds the section returns, which runs the destructors of its        *)
(* guards down to the outermost one; the event does not pass over a waiter  *)
(* for ever (a Windows event releases its waiters in the order they came).  *)
Fairness ==
  \A t \in Threads :
    /\ WF_vars(Nest(t) \/ Request(t) \/ Own(t) \/ Count(t)
               \/ Drop(t) \/ Stray(t) \/ Free(t) \/ HandOff(t))
    /\ SF_vars(LeaveTest(t))
    /\ SF_vars(LeaveTest(t) /\ depth[t] = 1)
    /\ SF_vars(Wake(t))

FairSpec == Spec /\ Fairness

-----------------------------------------------------------------------------
(* Types.  nRequests never falls below the -1 of InitializeOwned...: a      *)
(* request is taken back at most once.                                      *)
TypeOK ==
  /\ nOwner \in Nat \cup {None}
  /\ nRequests \in Nat \cup {-1}
  /\ nRecursiveCount \in Int
  /\ hEvent \in BOOLEAN
  /\ threadLock \in Threads \cup {NoThread}
  /\ pc \in [Threads -> Steps]
  /\ depth \in [Threads -> 0..MaxDepth]
  /\ overtaken \in BOOLEAN

Inside(t) == depth[t] > 0

(* While a thread of one class is inside the section no thread of another   *)
(* class is: what fteng.cpp:550 takes the section for ("take ownership, DCs  *)
(* are handled now, forbid every drawing function").                        *)
ClassExclusion ==
  \A t, u \in Threads : Inside(t) /\ Inside(u) => Class[t] = Class[u]

(* Classes exclude each other as long as no increment is overwritten:       *)
(* threads of one class inside together do no harm by themselves, the order *)
(* of the two writes of lines 41 and 42 is all that is wrong.               *)
ExclusionKept == overtaken \/ ClassExclusion

(* When no call is in progress, nRecursiveCount is the number of guards     *)
(* that the threads of the owning class have alive, and nRequests tells     *)
(* whether the section is owned: the counters do not drift over any         *)
(* sequence of nested calls and hand-overs.                                 *)
Guards(c) == {g \in Threads \X (1 .. MaxDepth) : Class[g[1]] = c /\ g[2] <= depth[g[1]]}

CountersExact ==
  (\A t \in Threads : At(t, "out") \/ At(t, "wait")) =>
    /\ \A t \in Threads : Inside(t) => nRecursiveCount = Cardinality(Guards(Class[t]))
    /\ (nOwner = None /\ ~hEvent) <=> nRequests = -1

(* The right to own the section is in exactly one place: an owner written   *)
(* to nOwner, a thread granted it that has not written nOwner yet, a        *)
(* signalled event, or a thread about to hand over.  Two requests are never *)
(* granted together, whatever classes the threads share.                    *)
Granted(t) == pc[t] \in {"own", "handoff"}

OneGrant ==
  /\ \A t, u \in Threads : Granted(t) /\ Granted(u) => t = u
  /\ (\E t \in Threads : Granted(t)) => nOwner = None /\ ~hEvent
  /\ hEvent => nOwner = None

(* A waiting thread is never forgotten: as long as one waits, the event is  *)
(* signalled, or a thread of the class in nOwner is still inside, or one is *)
(* in the middle of a call that signals the event or ends up inside.  Holds *)
(* even when threads share a class and increments get lost.                 *)
NoLostWakeup ==
  (\E t \in Threads : At(t, "wait")) =>
    \/ hEvent
    \/ \E u \in Threads : \/ Inside(u) /\ nOwner = Class[u]
                          \/ pc[u] \in {"nest", "own", "count", "drop", "free", "handoff"}

(* The same bound for the counters: nested guards, leaves and hand-overs in *)
(* any order keep them exact until an increment is overwritten.             *)
CountersKept == overtaken \/ CountersExact

(* Every thread that waits for the section gets in, unless from some time   *)
(* on the section is never empty again: threads of one class may relieve    *)
(* each other in it for good, which the code does nothing against.          *)
Occupied == \E t \in Threads : Inside(t)
WaiterEnters == \A t \in Threads : At(t, "wait") ~> (Inside(t) \/ []Occupied)

(* The section implements the class lock its callers rely on until an       *)
(* increment is overwritten.                                                *)
Promise == INSTANCE ClassLock WITH held <- depth
ImplementsClassLock == Promise!Init /\ [][overtaken \/ Promise!Next]_depth
=============================================================================
