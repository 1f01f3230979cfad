----------------------------- MODULE MCSOFTList -----------------------------
(***************************************************************************)
(* SOFTList for TLC, with any number of calls.                             *)
(***************************************************************************)
EXTENDS SOFTList, TLC

Symmetry == Permutations(Threads) \union Permutations(Nodes) \union Permutations(PNodes)

(* The thread of the liveness runs: only its steps are fair. *)
Runner == CHOOSE t \in Threads : TRUE

(* A bound on the calls of the liveness runs: all threads insert, remove and  *)
(* look for the smallest key, and the observed one looks for the others too,  *)
(* past whatever is under way at the smallest.                               *)
SmallestKey == CHOOSE k \in Keys : \A m \in Keys : k <= m

LiveCalls(t) ==
  {c \in DS!Calls : c.arg = SmallestKey \/ (t = Runner /\ c.op = "contains")}

LiveNext ==
  /\ Next
  /\ \A t \in Threads : call'[t] \in {call[t], DS!None} \union LiveCalls(t)

LiveSpec == Init /\ [][LiveNext]_vars /\ WF_vars(Step(Runner))

(* SOFT's insert, remove and contains are lock-free for the thread that runs. *)
RunnerIsLockFree == LockFree(Runner)

(* SOFT's contains is wait-free for the thread that runs. *)
RunnerContainsReturns == WaitFreeContains(Runner)
=============================================================================
