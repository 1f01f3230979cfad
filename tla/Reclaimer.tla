----------------------------- MODULE Reclaimer -----------------------------
(***************************************************************************)
(* What ssmem promises to the sets that use it: memory is handed out again *)
(* only once it was freed and every thread has since passed a quiescent    *)
(* point, at which it drops the references it held. LinkFreeList and       *)
(* SOFTList reuse memory by this rule when QuiesceOnFree is TRUE.          *)
(***************************************************************************)
CONSTANTS Threads, Objects

VARIABLES
  status,  (* of an object: "unused", "inUse", "freed" or "returned" *)
  holders  (* the threads that may hold a reference to a freed object *)

vars == <<status, holders>>

Init ==
  /\ status \in [Objects -> {"unused", "inUse"}]
  /\ holders = [o \in Objects |-> {}]

Alloc(o) ==
  /\ status[o] \in {"unused", "freed"}
  /\ holders[o] = {}
  /\ status' = [status EXCEPT ![o] = "inUse"]
  /\ UNCHANGED holders

Free(o) ==
  /\ status[o] = "inUse"
  /\ status' = [status EXCEPT ![o] = "freed"]
  /\ holders' = [holders EXCEPT ![o] = Threads]

Unreferenced == {o \in Objects : status[o] = "freed" /\ holders[o] = {}}

(* Back to the operating system, for ever. *)
Return(S) ==
  /\ S \subseteq Unreferenced
  /\ status' = [o \in Objects |-> IF o \in S THEN "returned" ELSE status[o]]
  /\ UNCHANGED holders

Quiesce(t) ==
  /\ holders' = [o \in Objects |-> holders[o] \ {t}]
  /\ UNCHANGED status

Next ==
  \/ \E o \in Objects : Alloc(o) \/ Free(o)
  \/ \E S \in SUBSET Unreferenced : Return(S)
  \/ \E t \in Threads : Quiesce(t)

Spec == Init /\ [][Next]_vars
=============================================================================
