------------------------------ MODULE MCSsmem ------------------------------
(***************************************************************************)
(* Ssmem for TLC, with a bound on the versions of the timestamps. The      *)
(* lists of an allocator belong to one thread, and all it sees of the      *)
(* others is their timestamps: here thread 0 allocates, frees and          *)
(* releases, and the others move on at any moment.                         *)
(***************************************************************************)
EXTENDS Ssmem, TLC

CONSTANTS MaxVersion, MaxVersionOfOthers

(* The first allocator of a thread has sets of two objects, the second of one. *)
SetSizes == [a \in Allocators |-> IF a[2] = 1 THEN 2 ELSE 1]

BudgetFree(a, o) == version[0] < MaxVersion /\ FreeCall(a, o)

BudgetSafe(t) == version[t] < MaxVersionOfOthers /\ SSMEM_SAFE_TO_RECLAIM(t)

(* Blocks are alike, so they are released in their order. *)
BudgetRelease(a, b) ==
  /\ \A c \in inUse \intersect Blocks : b <= c
  /\ ReleaseCall(a, b)

BudgetNext ==
  \/ \E t \in Threads : \/ Register(t) \/ Count(t) \/ Cross(t) \/ Leave(t)
                        \/ CollectOne(t) \/ Reclaim(t) \/ Put(t)
                        \/ StampOne(t) \/ ReleaseDone(t)
  \/ \E t \in Threads \ {0} : BudgetSafe(t)
  \/ \E a \in {b \in Allocators : Owner(b) = 0}, o \in Objects :
       AllocCollected(a, o) \/ AllocNew(a, o) \/ BudgetFree(a, o)
  \/ \E b \in Blocks : BudgetRelease(<<0, 2>>, b)

BudgetSpec == Init /\ [][BudgetNext]_vars

Symmetry == Permutations(Objects)
=============================================================================
