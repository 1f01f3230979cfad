------------------------------ MODULE SOFTList ------------------------------
(***************************************************************************)
(* The SOFT list: SOFT/SOFTList.h, SOFT/VolatileNode.h, SOFT/PNode.h and   *)
(* SOFT/utilities.h. A member is a volatile node, which threads traverse,  *)
(* and a persistent node (PNode), which only recovery reads. The state of  *)
(* a volatile node is kept in the low bits of its own next pointer, so one *)
(* load or compare-and-swap of next sees both.                             *)
(*                                                                         *)
(* A step is one access to shared memory with the thread-local computation *)
(* before it. As in LinkFreeList, an invocation includes the first read of *)
(* head->next and a response the last access. Two more mergers:            *)
(*  - the test of a state loop and the load in stateCAS are one step: if   *)
(*    the state changes between them the compare-and-swap fails;           *)
(*  - key, value and validEnd are stored in one step: a PNode whose        *)
(*    validStart and validEnd differ is invalid whatever its key is.       *)
(*                                                                         *)
(* A PNode is 32 bytes, aligned, so part of one cache line: its stores     *)
(* reach the line in program order, and the line reaches NVM when flushed  *)
(* or, at any moment, when evicted.                                        *)
(***************************************************************************)
EXTENDS Integers, FiniteSets

CONSTANTS
  Threads,
  Keys,           (* the keys callers use *)
  Nodes,          (* volatile nodes *)
  PNodes,         (* the memory of the persistent chunks, one element a PNode *)
  Head, Tail,     (* the sentinels *)
  Nil,            (* nullptr *)
  MinKey, MaxKey, (* INT_MIN and INT_MAX *)
  MaxCrashes,     (* bound on the crashes of a behaviour *)
  QuiesceOnFree   (* TRUE: each ssmem_free is a quiescent point of its caller *)

AllNodes == Nodes \union {Head, Tail}

ASSUME KeysAssumption ==
  /\ Keys \subseteq Int
  /\ MinKey \in Int /\ MaxKey \in Int /\ MinKey < MaxKey
  /\ \A k \in Keys : MinKey < k /\ k < MaxKey

ASSUME NodesAssumption ==
  /\ IsFiniteSet(Nodes)
  /\ Head # Tail
  /\ Head \notin Nodes /\ Tail \notin Nodes /\ Nil \notin AllNodes
  /\ Nil \notin PNodes /\ Nodes \intersect PNodes = {}

ASSUME ThreadsAssumption == IsFiniteSet(Threads)

ASSUME BoundsAssumption == MaxCrashes \in Nat /\ QuiesceOnFree \in BOOLEAN

INSERTED == 0
INTEND_TO_DELETE == 1
INTEND_TO_INSERT == 2
DELETED == 3

VARIABLES
  (* the fields of a volatile node; next as its reference and its state *)
  key, pptr, pValidity, next, state,
  (* the fields of a PNode *)
  validStart, validEnd, deleted, pkey,
  nvm,      (* the persistent copy of each PNode *)
  heap,     (* of a node: "free", "owned" by an insert, "linked", "unlinked" *)
  pheap,    (* of a PNode: "free" or "used" *)
  waits,    (* the threads a node or PNode may not be reused before *)
  (* the local variables of a running operation *)
  call, pc, pred, predState, curr, succ, newNode, result,
  phase,    (* "running" or "recovering" *)
  todo,     (* the PNodes recovery() has not yet visited *)
  crashes,
  outcomes  (* history: see DurableSet *)

volatile == <<key, pptr, pValidity, next, state>>
persistent == <<validStart, validEnd, deleted, pkey>>
memory == <<heap, pheap, waits>>
search == <<pred, predState, curr>>
locals == <<call, pc, search, succ, newNode, result>>
recovering == <<phase, todo, crashes>>
vars == <<volatile, persistent, nvm, memory, locals, recovering, outcomes>>

DS == INSTANCE DurableSet

-----------------------------------------------------------------------------
(* Persistent memory. *)

Line(p) ==
  [validStart |-> validStart[p], validEnd |-> validEnd[p], deleted |-> deleted[p],
   key |-> pkey[p]]

BARRIER(p) == nvm' = [nvm EXCEPT ![p] = Line(p)]

(* A line may be written back at any time. Once no crash is left to come    *)
(* nobody reads NVM again, and the guard saves the states.                  *)
Evict(p) ==
  /\ crashes < MaxCrashes
  /\ nvm[p] # Line(p)
  /\ BARRIER(p)
  /\ UNCHANGED <<volatile, persistent, memory, locals, recovering, outcomes>>

(* PNode::isValid, of a PNode or of its persistent copy. *)
IsValid(line) ==
  line.validStart = line.validEnd /\ line.validEnd # line.deleted

-----------------------------------------------------------------------------
(* Memory reclamation. A PNode is reused once it is freed and every          *)
(* operation that ran when its node was unlinked has ended, the earliest     *)
(* that any such reclaimer may be, or, with QuiesceOnFree, by ssmem's own    *)
(* rule: once every thread has freed something since. A volatile node that   *)
(* was unlinked is never freed by the code: here it is blank again when no   *)
(* operation can have a reference to it, as a stand-in for a fresh one.      *)

Busy == {u \in Threads : pc[u] # "idle"}

Unlink(n) ==
  /\ heap' = [heap EXCEPT ![n] = "unlinked"]
  /\ waits' = IF QuiesceOnFree
              THEN [waits EXCEPT ![n] = Busy]
              ELSE [waits EXCEPT ![n] = Busy, ![pptr[n]] = Busy]

(* Fault: nobody is waited for. *)
FreeForgetsOthers(t, p) ==
  /\ pheap' = [pheap EXCEPT ![p] = "free"]
  /\ UNCHANGED waits

Free(t, p) ==
  /\ pheap' = [pheap EXCEPT ![p] = "free"]
  /\ waits' = IF QuiesceOnFree
              THEN [m \in Nodes \union PNodes |->
                      IF m = p THEN Threads
                      ELSE IF m \in PNodes THEN waits[m] \ {t} ELSE waits[m]]
              ELSE waits

-----------------------------------------------------------------------------
Goto(t, label) == pc' = [pc EXCEPT ![t] = label]

Blanked(f, gone, v) == [n \in DOMAIN f |-> IF n \in gone THEN v ELSE f[n]]

Blank(gone) ==
  /\ heap' = Blanked(heap, gone, "free")
  /\ key' = Blanked(key, gone, 0)
  /\ pptr' = Blanked(pptr, gone, Nil)
  /\ pValidity' = Blanked(pValidity, gone, FALSE)
  /\ next' = Blanked(next, gone, Nil)
  /\ state' = Blanked(state, gone, INSERTED)

Return(t, r) ==
  /\ call' = [call EXCEPT ![t] = DS!None]
  /\ outcomes' = DS!AfterAnswer(t, r)
  /\ pc' = [pc EXCEPT ![t] = "idle"]
  /\ pred' = [pred EXCEPT ![t] = Nil]
  /\ predState' = [predState EXCEPT ![t] = INSERTED]
  /\ curr' = [curr EXCEPT ![t] = Nil]
  /\ succ' = [succ EXCEPT ![t] = Nil]
  /\ newNode' = [newNode EXCEPT ![t] = Nil]
  /\ result' = [result EXCEPT ![t] = FALSE]
  /\ waits' = [m \in Nodes \union PNodes |->
                IF QuiesceOnFree /\ m \in PNodes THEN waits[m] ELSE waits[m] \ {t}]
  /\ Blank({n \in Nodes : heap[n] = "unlinked" /\ waits[n] \subseteq {t}})

(* All operations start at the head. *)
StartSearch(t) ==
  /\ pred' = [pred EXCEPT ![t] = Head]
  /\ predState' = [predState EXCEPT ![t] = state[Head]]
  /\ curr' = [curr EXCEPT ![t] = next[Head]]

Invoke(t, c) ==
  /\ phase = "running"
  /\ pc[t] = "idle"
  /\ call' = [call EXCEPT ![t] = c]
  /\ StartSearch(t)
  /\ Goto(t, IF c.op = "contains" THEN "walk" ELSE "find")
  /\ UNCHANGED <<volatile, persistent, nvm, memory, succ, newNode, result, recovering, outcomes>>

(* The end of a trim that was remove's last act. *)
Done(t) ==
  /\ pc[t] = "done"
  /\ Return(t, TRUE)
  /\ UNCHANGED <<persistent, nvm, pheap, recovering>>

-----------------------------------------------------------------------------
(* find: trim every deleted node on the way, stop at the first other one     *)
(* whose key is not smaller. The load of curr->next gives curr's state and   *)
(* the reference to go on with.                                              *)

FindPass(t) ==
  /\ pc[t] = "find"
  /\ state[curr[t]] # DELETED /\ key[curr[t]] < call[t].arg
  /\ pred' = [pred EXCEPT ![t] = curr[t]]
  /\ predState' = [predState EXCEPT ![t] = state[curr[t]]]
  /\ curr' = [curr EXCEPT ![t] = next[curr[t]]]
  /\ UNCHANGED <<volatile, persistent, nvm, memory, call, pc, succ, newNode, result,
                 recovering, outcomes>>

FindDeleted(t) ==
  /\ pc[t] = "find"
  /\ state[curr[t]] = DELETED
  /\ Goto(t, "trim")
  /\ UNCHANGED <<volatile, persistent, nvm, memory, call, search, succ, newNode, result,
                 recovering, outcomes>>

(* A compare-and-swap of p->next from a reference to n with p's state s.     *)
(* Fault: the state is not compared. *)
ExpectsAnyState(p, n, s) == next[p] = n

Expects(p, n, s) == next[p] = n /\ state[p] = s

(* A deleted node's next does not change any more: what trim and find read   *)
(* of it before the compare-and-swap is what it holds.                       *)
Trim(t) ==
  /\ pc[t] = "trim"
  /\ \/ /\ Expects(pred[t], curr[t], predState[t])
        /\ next' = [next EXCEPT ![pred[t]] = next[curr[t]]]
        /\ state' = [state EXCEPT ![pred[t]] = predState[t]]
        /\ Unlink(curr[t])
        /\ Goto(t, "free")
        /\ UNCHANGED curr
     \/ /\ ~Expects(pred[t], curr[t], predState[t])
        /\ IF result[t]
           THEN Goto(t, "done") /\ UNCHANGED curr
           ELSE /\ Goto(t, "find")
                /\ curr' = [curr EXCEPT ![t] = next[curr[t]]]
        /\ UNCHANGED <<next, state, heap, waits>>
  /\ UNCHANGED <<key, pptr, pValidity, persistent, nvm, pheap, call, pred, predState, succ,
                 newNode, result, recovering, outcomes>>

(* ssmem_free of the PNode; the volatile node leaks. *)
FreeTrimmed(t) ==
  /\ pc[t] = "free"
  /\ Free(t, pptr[curr[t]])
  /\ IF result[t]
     THEN Goto(t, "done") /\ UNCHANGED curr
     ELSE /\ Goto(t, "find")
          /\ curr' = [curr EXCEPT ![t] = next[curr[t]]]
  /\ UNCHANGED <<volatile, persistent, nvm, heap, call, pred, predState, succ, newNode, result,
                 recovering, outcomes>>

FindStops(t) ==
  /\ pc[t] = "find"
  /\ state[curr[t]] # DELETED /\ key[curr[t]] >= call[t].arg

Found(t) == key[curr[t]] = call[t].arg

-----------------------------------------------------------------------------
(* insert *)

(* The key is in the set, even if its removal has begun. *)
InsertFound(t) ==
  /\ FindStops(t) /\ call[t].op = "insert" /\ Found(t)
  /\ state[curr[t]] # INTEND_TO_INSERT
  /\ Return(t, FALSE)
  /\ UNCHANGED <<persistent, nvm, pheap, recovering>>

(* Fault: the insertion found under way counts as done. *)
InsertHelpsNobody(t) ==
  /\ FindStops(t) /\ call[t].op = "insert" /\ Found(t)
  /\ state[curr[t]] = INTEND_TO_INSERT
  /\ Return(t, FALSE)
  /\ UNCHANGED <<persistent, nvm, pheap, recovering>>

(* Another insertion of the key is under way: help it. *)
InsertHelps(t) ==
  /\ FindStops(t) /\ call[t].op = "insert" /\ Found(t)
  /\ state[curr[t]] = INTEND_TO_INSERT
  /\ Goto(t, "create")
  /\ UNCHANGED <<volatile, persistent, nvm, memory, call, search, succ, newNode, result,
                 recovering, outcomes>>

InsertMiss(t) ==
  /\ FindStops(t) /\ call[t].op = "insert" /\ ~Found(t)
  /\ Goto(t, "alloc")
  /\ UNCHANGED <<volatile, persistent, nvm, memory, call, search, succ, newNode, result,
                 recovering, outcomes>>

Allocatable(p) == pheap[p] = "free" /\ waits[p] = {}

(* PNode::alloc: the validity that will make the PNode valid. *)
alloc(p) == ~validStart[p]

(* Nobody else reaches the two nodes before LinkNode. *)
AllocNode(t) ==
  /\ pc[t] = "alloc"
  /\ \E n \in Nodes, p \in PNodes :
       /\ heap[n] = "free" /\ Allocatable(p)
       /\ heap' = [heap EXCEPT ![n] = "owned"]
       /\ pheap' = [pheap EXCEPT ![p] = "used"]
       /\ key' = [key EXCEPT ![n] = call[t].arg]
       /\ pptr' = [pptr EXCEPT ![n] = p]
       /\ pValidity' = [pValidity EXCEPT ![n] = alloc(p)]
       /\ next' = [next EXCEPT ![n] = curr[t]]
       /\ state' = [state EXCEPT ![n] = INTEND_TO_INSERT]
       /\ newNode' = [newNode EXCEPT ![t] = n]
  /\ Goto(t, "link")
  /\ UNCHANGED <<persistent, nvm, waits, call, search, succ, result, recovering, outcomes>>

(* Fault: the link is stored, not compared and swapped. *)
LinkNodeOverwrites(t) ==
  /\ pc[t] = "link"
  /\ next' = [next EXCEPT ![pred[t]] = newNode[t]]
  /\ state' = [state EXCEPT ![pred[t]] = predState[t]]
  /\ heap' = [heap EXCEPT ![newNode[t]] = "linked"]
  /\ result' = [result EXCEPT ![t] = TRUE]
  /\ Goto(t, "create")
  /\ UNCHANGED <<key, pptr, pValidity, persistent, nvm, pheap, waits, call, search, succ,
                 newNode, recovering, outcomes>>

LinkNode(t) ==
  /\ pc[t] = "link"
  /\ \/ /\ Expects(pred[t], curr[t], predState[t])
        /\ next' = [next EXCEPT ![pred[t]] = newNode[t]]
        /\ state' = [state EXCEPT ![pred[t]] = predState[t]]
        /\ heap' = [heap EXCEPT ![newNode[t]] = "linked"]
        /\ result' = [result EXCEPT ![t] = TRUE]
        /\ Goto(t, "create")
     \/ /\ ~Expects(pred[t], curr[t], predState[t])
        /\ Goto(t, "retry")
        /\ UNCHANGED <<next, state, heap, result>>
  /\ UNCHANGED <<key, pptr, pValidity, persistent, nvm, pheap, waits, call, search, succ,
                 newNode, recovering, outcomes>>

(* Both nodes go back, and the search begins again. *)
Retry(t) ==
  /\ pc[t] = "retry"
  /\ Free(t, pptr[newNode[t]])
  /\ Blank({newNode[t]})
  /\ newNode' = [newNode EXCEPT ![t] = Nil]
  /\ StartSearch(t)
  /\ Goto(t, "find")
  /\ UNCHANGED <<persistent, nvm, call, succ, result, recovering, outcomes>>

-----------------------------------------------------------------------------
(* PNode::create, by the thread that linked the node or by one that helps.   *)

Target(t) == IF newNode[t] # Nil THEN newNode[t] ELSE curr[t]

CreateStart(t) ==
  /\ pc[t] = "create"
  /\ validStart' = [validStart EXCEPT ![pptr[Target(t)]] = pValidity[Target(t)]]
  /\ Goto(t, "createEnd")
  /\ UNCHANGED <<volatile, validEnd, deleted, pkey, nvm, memory, call, search, succ, newNode,
                 result, recovering, outcomes>>

(* Fault: create returns before its BARRIER. *)
CreateEndWithoutFlush(t) ==
  /\ pc[t] = "createEnd"
  /\ LET n == Target(t) IN
       /\ pkey' = [pkey EXCEPT ![pptr[n]] = key[n]]
       /\ validEnd' = [validEnd EXCEPT ![pptr[n]] = pValidity[n]]
  /\ Goto(t, "publish")
  /\ UNCHANGED <<volatile, validStart, deleted, nvm, memory, call, search, succ, newNode,
                 result, recovering, outcomes>>

CreateEnd(t) ==
  /\ pc[t] = "createEnd"
  /\ LET n == Target(t) IN
       /\ pkey' = [pkey EXCEPT ![pptr[n]] = key[n]]
       /\ validEnd' = [validEnd EXCEPT ![pptr[n]] = pValidity[n]]
  /\ Goto(t, "flushCreate")
  /\ UNCHANGED <<volatile, validStart, deleted, nvm, memory, call, search, succ, newNode,
                 result, recovering, outcomes>>

FlushCreate(t) ==
  /\ pc[t] = "flushCreate"
  /\ BARRIER(pptr[Target(t)])
  /\ Goto(t, "publish")
  /\ UNCHANGED <<volatile, persistent, memory, call, search, succ, newNode, result,
                 recovering, outcomes>>

-----------------------------------------------------------------------------
(* stateCAS, in the loops that move a state on. It compares the reference    *)
(* too: a node linked behind the target in between makes it fail.            *)

LoadForCAS(t, from, label) ==
  /\ state[Target(t)] = from
  /\ succ' = [succ EXCEPT ![t] = next[Target(t)]]
  /\ Goto(t, label)
  /\ UNCHANGED <<volatile, persistent, nvm, memory, call, search, newNode, result,
                 recovering, outcomes>>

stateCAS(t, from, to) ==
  state' = IF Expects(Target(t), succ[t], from)
           THEN [state EXCEPT ![Target(t)] = to]
           ELSE state

Publish(t) ==
  /\ pc[t] = "publish"
  /\ LoadForCAS(t, INTEND_TO_INSERT, "publishCAS")

PublishCAS(t) ==
  /\ pc[t] = "publishCAS"
  /\ stateCAS(t, INTEND_TO_INSERT, INSERTED)
  /\ Goto(t, "publish")
  /\ UNCHANGED <<key, pptr, pValidity, next, persistent, nvm, memory, call, search, succ,
                 newNode, result, recovering, outcomes>>

Published(t) ==
  /\ pc[t] = "publish"
  /\ state[Target(t)] # INTEND_TO_INSERT
  /\ Return(t, result[t])
  /\ UNCHANGED <<persistent, nvm, pheap, recovering>>

-----------------------------------------------------------------------------
(* remove: one caller claims the removal, every caller that finds it claimed *)
(* completes it before it answers.                                           *)

RemoveMiss(t) ==
  /\ FindStops(t) /\ call[t].op = "remove"
  /\ ~Found(t) \/ state[curr[t]] = INTEND_TO_INSERT
  /\ Return(t, FALSE)
  /\ UNCHANGED <<persistent, nvm, pheap, recovering>>

RemoveFound(t) ==
  /\ FindStops(t) /\ call[t].op = "remove"
  /\ Found(t) /\ state[curr[t]] # INTEND_TO_INSERT
  /\ Goto(t, "claim")
  /\ UNCHANGED <<volatile, persistent, nvm, memory, call, search, succ, newNode, result,
                 recovering, outcomes>>

Claim(t) ==
  /\ pc[t] = "claim"
  /\ LoadForCAS(t, INSERTED, "claimCAS")

(* Fault: the loop tests the compare-and-swap, not the state. *)
ClaimCASKeepsTrying(t) ==
  /\ pc[t] = "claimCAS"
  /\ Expects(curr[t], succ[t], INSERTED)
  /\ stateCAS(t, INSERTED, INTEND_TO_DELETE)
  /\ result' = [result EXCEPT ![t] = TRUE]
  /\ Goto(t, "destroy")
  /\ UNCHANGED <<key, pptr, pValidity, next, persistent, nvm, memory, call, search, succ,
                 newNode, recovering, outcomes>>

ClaimCAS(t) ==
  /\ pc[t] = "claimCAS"
  /\ stateCAS(t, INSERTED, INTEND_TO_DELETE)
  /\ result' = [result EXCEPT ![t] = Expects(curr[t], succ[t], INSERTED)]
  /\ Goto(t, IF result'[t] THEN "destroy" ELSE "claim")
  /\ UNCHANGED <<key, pptr, pValidity, next, persistent, nvm, memory, call, search, succ,
                 newNode, recovering, outcomes>>

(* Fault: only the caller that claimed the node destroys it. *)
ClaimedBuriesOnly(t) ==
  /\ pc[t] = "claim"
  /\ state[curr[t]] # INSERTED
  /\ Goto(t, IF result[t] THEN "destroy" ELSE "bury")
  /\ UNCHANGED <<volatile, persistent, nvm, memory, call, search, succ, newNode, result,
                 recovering, outcomes>>

Claimed(t) ==
  /\ pc[t] = "claim"
  /\ state[curr[t]] # INSERTED
  /\ Goto(t, "destroy")
  /\ UNCHANGED <<volatile, persistent, nvm, memory, call, search, succ, newNode, result,
                 recovering, outcomes>>

(* PNode::destroy *)
Destroy(t) ==
  /\ pc[t] = "destroy"
  /\ deleted' = [deleted EXCEPT ![pptr[curr[t]]] = pValidity[curr[t]]]
  /\ Goto(t, "flushDestroy")
  /\ UNCHANGED <<volatile, validStart, validEnd, pkey, nvm, memory, call, search, succ, newNode,
                 result, recovering, outcomes>>

(* Fault: destroy returns before its BARRIER. *)
FlushDestroyForgets(t) ==
  /\ pc[t] = "flushDestroy"
  /\ Goto(t, "bury")
  /\ UNCHANGED <<volatile, persistent, nvm, memory, call, search, succ, newNode, result,
                 recovering, outcomes>>

FlushDestroy(t) ==
  /\ pc[t] = "flushDestroy"
  /\ BARRIER(pptr[curr[t]])
  /\ Goto(t, "bury")
  /\ UNCHANGED <<volatile, persistent, memory, call, search, succ, newNode, result,
                 recovering, outcomes>>

Bury(t) ==
  /\ pc[t] = "bury"
  /\ LoadForCAS(t, INTEND_TO_DELETE, "buryCAS")

BuryCAS(t) ==
  /\ pc[t] = "buryCAS"
  /\ stateCAS(t, INTEND_TO_DELETE, DELETED)
  /\ Goto(t, "bury")
  /\ UNCHANGED <<key, pptr, pValidity, next, persistent, nvm, memory, call, search, succ,
                 newNode, result, recovering, outcomes>>

(* The caller that claimed the node trims it; the others answer. *)
BuriedByThis(t) ==
  /\ pc[t] = "bury"
  /\ state[curr[t]] # INTEND_TO_DELETE /\ result[t]
  /\ Goto(t, "trim")
  /\ UNCHANGED <<volatile, persistent, nvm, memory, call, search, succ, newNode, result,
                 recovering, outcomes>>

BuriedByOther(t) ==
  /\ pc[t] = "bury"
  /\ state[curr[t]] # INTEND_TO_DELETE /\ ~result[t]
  /\ Return(t, FALSE)
  /\ UNCHANGED <<persistent, nvm, pheap, recovering>>

-----------------------------------------------------------------------------
(* contains *)

(* Fault: an insertion met on the way is waited for. *)
ContainsStepWaits(t) ==
  /\ pc[t] = "walk"
  /\ key[curr[t]] < call[t].arg
  /\ state[curr[t]] # INTEND_TO_INSERT
  /\ curr' = [curr EXCEPT ![t] = next[curr[t]]]
  /\ UNCHANGED <<volatile, persistent, nvm, memory, call, pc, pred, predState, succ, newNode,
                 result, recovering, outcomes>>

ContainsStep(t) ==
  /\ pc[t] = "walk"
  /\ key[curr[t]] < call[t].arg
  /\ curr' = [curr EXCEPT ![t] = next[curr[t]]]
  /\ UNCHANGED <<volatile, persistent, nvm, memory, call, pc, pred, predState, succ, newNode,
                 result, recovering, outcomes>>

ContainsAnswers(t) ==
  /\ pc[t] = "walk"
  /\ key[curr[t]] >= call[t].arg
  /\ Return(t, Found(t) /\ state[curr[t]] \in {INSERTED, INTEND_TO_DELETE})
  /\ UNCHANGED <<persistent, nvm, pheap, recovering>>

-----------------------------------------------------------------------------
(* Fault: the walk of the chunks meets the volatile nodes too. *)
ChunksOfBothAllocators == PNodes \union Nodes

(* The memory of alloc's chunks, which recovery() walks. *)
ChunkPNodes == PNodes

(* A crash ends every operation, loses the volatile nodes and leaves of the  *)
(* PNodes what NVM holds. It may also strike during recovery.                *)

Crash ==
  /\ crashes < MaxCrashes
  /\ crashes' = crashes + 1
  /\ validStart' = [p \in PNodes |-> nvm[p].validStart]
  /\ validEnd' = [p \in PNodes |-> nvm[p].validEnd]
  /\ deleted' = [p \in PNodes |-> nvm[p].deleted]
  /\ pkey' = [p \in PNodes |-> nvm[p].key]
  /\ key' = [n \in AllNodes |-> IF n \in Nodes THEN 0 ELSE key[n]]
  /\ pptr' = [n \in Nodes |-> Nil]
  /\ pValidity' = [n \in Nodes |-> FALSE]
  /\ next' = [n \in AllNodes |-> IF n = Head THEN Tail ELSE Nil]
  /\ state' = [n \in AllNodes |-> INSERTED]
  /\ heap' = [n \in Nodes |-> "free"]
  /\ pheap' = [p \in PNodes |-> "free"]
  /\ waits' = [m \in Nodes \union PNodes |-> {}]
  /\ call' = [t \in Threads |-> DS!None]
  /\ pc' = [t \in Threads |-> "idle"]
  /\ pred' = [t \in Threads |-> Nil]
  /\ predState' = [t \in Threads |-> INSERTED]
  /\ curr' = [t \in Threads |-> Nil]
  /\ succ' = [t \in Threads |-> Nil]
  /\ newNode' = [t \in Threads |-> Nil]
  /\ result' = [t \in Threads |-> FALSE]
  /\ phase' = "recovering"
  /\ todo' = ChunkPNodes
  /\ outcomes' = DS!AfterCrash
  /\ UNCHANGED nvm

(* The nodes on the list but the tail, deleted ones included: what a walk     *)
(* from the head meets, for ListIsSorted leaves no other way to the tail.     *)
Linked == {Head} \union {n \in Nodes : heap[n] = "linked"}

(* recovery() visits every PNode of the chunks, one thread at work. *)
RecoverDead(p) ==
  /\ phase = "recovering" /\ p \in todo
  /\ ~IsValid(Line(p))
  /\ validStart' = [validStart EXCEPT ![p] = validEnd[p]]
  /\ todo' = todo \ {p}
  /\ UNCHANGED <<volatile, validEnd, deleted, pkey, nvm, memory, locals, phase, crashes, outcomes>>

(* quickInsert stops the program, here: has no step, when one of its two     *)
(* assertions fails.                                                         *)
AssertionFails(p) ==
  \E m \in Linked : state[m] = DELETED \/ key[m] = pkey[p]

QuickInsert(p) ==
  /\ phase = "recovering" /\ p \in todo
  /\ IsValid(Line(p)) /\ ~AssertionFails(p)
  /\ \E n \in Nodes, m \in Linked :
       /\ heap[n] = "free"
       /\ key[m] < pkey[p] /\ pkey[p] < key[next[m]]
       /\ key' = [key EXCEPT ![n] = pkey[p]]
       /\ pptr' = [pptr EXCEPT ![n] = p]
       /\ pValidity' = [pValidity EXCEPT ![n] = validStart[p]]
       /\ next' = [next EXCEPT ![n] = next[m], ![m] = n]
       /\ state' = [state EXCEPT ![n] = INSERTED]
       /\ heap' = [heap EXCEPT ![n] = "linked"]
  /\ pheap' = [pheap EXCEPT ![p] = "used"]
  /\ todo' = todo \ {p}
  /\ UNCHANGED <<persistent, nvm, waits, locals, phase, crashes, outcomes>>

(* What a walk from the head meets, and the keys that a search would find.   *)
Reachable ==
  LET f[i \in 0..(Cardinality(Nodes) + 1)] ==
        IF i = 0 THEN {Head}
        ELSE f[i-1] \union ({next[n] : n \in f[i-1]} \ {Nil})
  IN  f[Cardinality(Nodes) + 1]

Contents ==
  {key[n] : n \in {m \in Reachable \ {Head, Tail} :
                      state[m] \in {INSERTED, INTEND_TO_DELETE}}}

RecoverDone ==
  /\ phase = "recovering" /\ todo = {}
  /\ phase' = "running"
  /\ outcomes' = DS!AfterRecovery(Contents)
  /\ UNCHANGED <<volatile, persistent, nvm, memory, locals, todo, crashes>>

-----------------------------------------------------------------------------
(* ssmem hands out zeroed chunks: a fresh PNode is a deleted one.            *)
Init ==
  /\ key = [n \in AllNodes |->
       IF n = Head THEN MinKey ELSE IF n = Tail THEN MaxKey ELSE 0]
  /\ pptr = [n \in Nodes |-> Nil]
  /\ pValidity = [n \in Nodes |-> FALSE]
  /\ next = [n \in AllNodes |-> IF n = Head THEN Tail ELSE Nil]
  /\ state = [n \in AllNodes |-> INSERTED]
  /\ validStart = [p \in PNodes |-> FALSE]
  /\ validEnd = [p \in PNodes |-> FALSE]
  /\ deleted = [p \in PNodes |-> FALSE]
  /\ pkey = [p \in PNodes |-> 0]
  /\ nvm = [p \in PNodes |-> Line(p)]
  /\ heap = [n \in Nodes |-> "free"]
  /\ pheap = [p \in PNodes |-> "free"]
  /\ waits = [m \in Nodes \union PNodes |-> {}]
  /\ call = [t \in Threads |-> DS!None]
  /\ pc = [t \in Threads |-> "idle"]
  /\ pred = [t \in Threads |-> Nil]
  /\ predState = [t \in Threads |-> INSERTED]
  /\ curr = [t \in Threads |-> Nil]
  /\ succ = [t \in Threads |-> Nil]
  /\ newNode = [t \in Threads |-> Nil]
  /\ result = [t \in Threads |-> FALSE]
  /\ phase = "running"
  /\ todo = {}
  /\ crashes = 0
  /\ outcomes = {[set |-> {}, res |-> DS!NoAnswer]}

(* What a thread does inside an operation. *)
Step(t) ==
  \/ FindPass(t) \/ FindDeleted(t) \/ Trim(t) \/ FreeTrimmed(t) \/ Done(t)
  \/ InsertFound(t) \/ InsertHelps(t) \/ InsertMiss(t)
  \/ AllocNode(t) \/ LinkNode(t) \/ Retry(t)
  \/ CreateStart(t) \/ CreateEnd(t) \/ FlushCreate(t)
  \/ Publish(t) \/ PublishCAS(t) \/ Published(t)
  \/ RemoveMiss(t) \/ RemoveFound(t) \/ Claim(t) \/ ClaimCAS(t) \/ Claimed(t)
  \/ Destroy(t) \/ FlushDestroy(t)
  \/ Bury(t) \/ BuryCAS(t) \/ BuriedByThis(t) \/ BuriedByOther(t)
  \/ ContainsStep(t) \/ ContainsAnswers(t)

Recover ==
  \/ \E p \in PNodes : RecoverDead(p) \/ QuickInsert(p)
  \/ RecoverDone

Next ==
  \/ \E t \in Threads : \/ \E c \in DS!Calls : Invoke(t, c)
                        \/ Step(t)
  \/ \E p \in PNodes : Evict(p)
  \/ Crash
  \/ Recover

Spec == Init /\ [][Next]_vars

-----------------------------------------------------------------------------
Labels ==
  {"idle", "walk", "find", "trim", "free", "done", "alloc", "link", "retry",
   "create", "createEnd", "flushCreate", "publish", "publishCAS",
   "claim", "claimCAS", "destroy", "flushDestroy", "bury", "buryCAS"}

States == {INSERTED, INTEND_TO_DELETE, INTEND_TO_INSERT, DELETED}

(* The variables have their types. *)
TypeOK ==
  /\ key \in [AllNodes -> Int]
  /\ pptr \in [Nodes -> PNodes \union {Nil}]
  /\ pValidity \in [Nodes -> BOOLEAN]
  /\ next \in [AllNodes -> AllNodes \union {Nil}]
  /\ state \in [AllNodes -> States]
  /\ validStart \in [PNodes -> BOOLEAN]
  /\ validEnd \in [PNodes -> BOOLEAN]
  /\ deleted \in [PNodes -> BOOLEAN]
  /\ pkey \in [PNodes -> Int]
  /\ nvm \in [PNodes -> [validStart : BOOLEAN, validEnd : BOOLEAN, deleted : BOOLEAN, key : Int]]
  /\ heap \in [Nodes -> {"free", "owned", "linked", "unlinked"}]
  /\ pheap \in [PNodes -> {"free", "used"}]
  /\ waits \in [Nodes \union PNodes -> SUBSET Threads]
  /\ call \in [Threads -> DS!Calls \union {DS!None}]
  /\ pc \in [Threads -> Labels]
  /\ \A t \in Threads : pc[t] # "idle" => call[t] \in DS!Calls
  /\ pred \in [Threads -> AllNodes \union {Nil}]
  /\ predState \in [Threads -> States]
  /\ curr \in [Threads -> AllNodes \union {Nil}]
  /\ succ \in [Threads -> AllNodes \union {Nil}]
  /\ newNode \in [Threads -> Nodes \union {Nil}]
  /\ result \in [Threads -> BOOLEAN]
  /\ phase \in {"running", "recovering"}
  /\ todo \in SUBSET PNodes
  /\ crashes \in Nat

(* Every history of calls, answers, crashes and recoveries is one of the     *)
(* durably linearizable set.                                                 *)
DurablyLinearizable == DS!Spec

(* The nodes on the list, the deleted ones too, are linked in strict order of *)
(* their keys with no member left out between two neighbours: no              *)
(* compare-and-swap drops a node or revives one.                             *)
ListIsSorted ==
  /\ \A m \in Linked : next[m] \in Linked \union {Tail} /\ key[m] < key[next[m]]
  /\ \A m, n \in Linked : ~(key[m] < key[n] /\ key[n] < key[next[m]])
  /\ \A m, n \in Linked : key[m] = key[n] => m = n

(* A state that others answer by is in NVM first: an inserted node's PNode is *)
(* a member there, with its key, and a deleted node's PNode is none.         *)
StatesArePersisted ==
  phase = "running" =>
    \A n \in Nodes : heap[n] = "linked" =>
      /\ state[n] = INSERTED => IsValid(nvm[pptr[n]]) /\ nvm[pptr[n]].key = key[n]
      /\ state[n] = DELETED => ~IsValid(nvm[pptr[n]])

(* NVM never holds two members with one key, at any moment at which a crash  *)
(* may come: the old PNode of a key is dead in NVM before a new one is made. *)
PersistedKeysAreUnique ==
  \A p, q \in PNodes :
    IsValid(nvm[p]) /\ IsValid(nvm[q]) /\ nvm[p].key = nvm[q].key => p = q

(* A PNode that was freed is no member in NVM: after a crash it does not come *)
(* back.                                                                     *)
FreedPNodesStayDead ==
  phase = "running" =>
    \A p \in PNodes : pheap[p] = "free" => ~IsValid(nvm[p])

(* quickInsert's assertions: recovery meets no deleted node and no key twice. *)
RecoveryAssertionsHold ==
  phase = "recovering" =>
    \A p \in todo : IsValid(Line(p)) => ~AssertionFails(p)

(* create and destroy, called late by a helper, still write the PNode of the  *)
(* node they were called for: it has not become another node's meanwhile.    *)
HelpedPNodesAreNotReused ==
  \A t \in Threads, n \in Nodes :
    /\ pc[t] \in {"create", "createEnd", "flushCreate", "destroy", "flushDestroy"}
    /\ heap[n] \in {"owned", "linked"}
    /\ pptr[n] = pptr[Target(t)]
    => n = Target(t)

(* A state only moves forward, one step of the node's life at a time, for as  *)
(* long as a thread can meet the node; a deleted node's link is frozen.      *)
StatesOnlyAdvance ==
  [][phase' = "running" /\ crashes' = crashes =>
       \A n \in Nodes : heap[n] # "free" /\ heap'[n] \in {"linked", "unlinked"} =>
         /\ <<state[n], state'[n]>> \in
              {<<s, s>> : s \in States} \union
              {<<INTEND_TO_INSERT, INSERTED>>, <<INSERTED, INTEND_TO_DELETE>>,
               <<INTEND_TO_DELETE, DELETED>>}
         /\ state[n] = DELETED => next'[n] = next[n]]_vars

-----------------------------------------------------------------------------
SomeCallReturns == \E u \in Threads : call[u] # DS!None /\ call'[u] = DS!None

(* Lock freedom: if t goes on taking steps inside an operation, operations    *)
(* keep returning, whoever's they are and wherever the other threads stopped.*)
(* Waiting for memory is excepted: the program would be given a new chunk.   *)
LockFree(t) ==
  <>[](pc[t] # "idle") /\ []<>(pc[t] # "alloc") => []<><<SomeCallReturns>>_vars

(* A contains that takes steps returns, whatever the others do meanwhile.     *)
WaitFreeContains(t) == pc[t] = "walk" ~> pc[t] = "idle"
=============================================================================
