----------------------------- MODULE ClassLock -----------------------------
(***************************************************************************)
(* What the callers of COwnedCriticalSectionLock rely on: a lock owned by   *)
(* a class of threads (1 = drawing, 2 = removing or reloading fonts).       *)
(* Threads of one class may hold it together and again and again; as long   *)
(* as one of them does, no thread of another class gets in.                 *)
(***************************************************************************)
EXTENDS Naturals

CONSTANTS Threads,  (* the threads of the process                           *)
          Class,    (* Class[t]: the owner value thread t passes            *)
          MaxDepth  (* bound on the guards one thread nests                 *)

VARIABLE held       (* held[t]: guards alive on the stack of thread t       *)

Init == held = [t \in Threads |-> 0]

Acquire(t) ==
  /\ held[t] < MaxDepth
  /\ \A u \in Threads : held[u] > 0 => Class[u] = Class[t]
  /\ held' = [held EXCEPT ![t] = @ + 1]

Release(t) ==
  /\ held[t] > 0
  /\ held' = [held EXCEPT ![t] = @ - 1]

Next == \E t \in Threads : Acquire(t) \/ Release(t)

Spec == Init /\ [][Next]_held
=============================================================================
