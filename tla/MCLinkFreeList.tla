--------------------------- MODULE MCLinkFreeList ---------------------------
(* Instances of LinkFreeList for TLC. *)
EXTENDS LinkFreeListInv, TLC

Symmetry == Permutations(Threads) \union Permutations(Nodes)

(* Liveness is observed on one thread. It alone is scheduled: all others may  *)
(* stop anywhere, for ever.                                                  *)
Runner == CHOOSE t \in Threads : TRUE

(* A bound on the calls: the observed thread looks for every key, and inserts *)
(* and removes the largest; the others insert and remove every key. So the    *)
(* observed thread meets another on its own key and behind a neighbour.      *)
LargestKey == CHOOSE k \in Keys : \A m \in Keys : m <= k

LiveCalls(t) ==
  {c \in DS!Calls : IF t = Runner THEN c.op = "contains" \/ c.arg = LargestKey
                                  ELSE c.op # "contains"}

LiveNext ==
  /\ Next
  /\ \A t \in Threads : call'[t] \in {call[t], DS!None} \union LiveCalls(t)

LiveSpec == Init /\ [][LiveNext]_vars /\ WF_vars(Step(Runner))

(* LockFree of the observed thread. *)
RunnerIsLockFree == LockFree(Runner)

(* WaitFreeContains of the observed thread. *)
RunnerContainsReturns == WaitFreeContains(Runner)
=============================================================================
