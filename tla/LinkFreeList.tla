---------------------------- MODULE LinkFreeList ----------------------------
(***************************************************************************)
(* The link-free list: LinkFree/LinkFreeList.h and LinkFree/utilities.h,   *)
(* on persistent memory, with crashes, recovery and node reuse.            *)
(*                                                                         *)
(* A step is one access to shared memory, together with the thread-local   *)
(* computation before it. Four mergers shorten an operation and lose no    *)
(* behaviour:                                                              *)
(*  - an invocation includes the first read of head->next and a response   *)
(*    the last access, which only shortens the interval in which an        *)
(*    operation may take effect;                                           *)
(*  - makeValid is one step: the bit it reads changes under it only from   *)
(*    invalid to valid (module MetaData), which its store then repeats;    *)
(*  - the test of a flag and the flush it guards are one step: a flush     *)
(*    that comes later than a true flag is an eviction of the line;        *)
(*  - reading the successor of a marked node belongs to the step that uses *)
(*    it, for the link of a marked node is frozen (MarkedLinksAreFrozen).  *)
(*                                                                         *)
(* Memory is sequentially consistent with x86's persistency: a node lies   *)
(* in one cache line, its stores reach the line in program order, and the  *)
(* line reaches NVM when flushed or, at any moment, when evicted.          *)
(***************************************************************************)
EXTENDS Integers, FiniteSets

CONSTANTS
  Threads,
  Keys,           (* the keys callers use *)
  Nodes,          (* the memory of ssmem's chunks, one element a node *)
  Head, Tail,     (* the sentinels, outside the chunks *)
  Nil,            (* nullptr *)
  MinKey, MaxKey, (* INT_MIN and INT_MAX *)
  MaxCrashes,     (* bound on the crashes of a behaviour *)
  QuiesceOnFree   (* TRUE: each ssmem_free is a quiescent point of its caller *)

AllNodes == Nodes \union {Head, Tail}

ASSUME KeysAssumption ==
  /\ Keys \subseteq Int
  /\ MinKey \in Int /\ MaxKey \in Int /\ MinKey < MaxKey
  /\ \A k \in Keys : MinKey < k /\ k < MaxKey

ASSUME NodesAssumption ==
  /\ IsFiniteSet(Nodes)
  /\ Head # Tail
  /\ Head \notin Nodes /\ Tail \notin Nodes /\ Nil \notin AllNodes

ASSUME ThreadsAssumption == IsFiniteSet(Threads)

ASSUME BoundsAssumption == MaxCrashes \in Nat /\ QuiesceOnFree \in BOOLEAN

VARIABLES
  (* the fields of a node; metaData only as isValid(metaData), and next as   *)
  (* its reference and its mark                                              *)
  valid, insertFlag, deleteFlag, key, next, marked,
  nvm,      (* the persistent copy of each node *)
  heap,     (* "free", "owned" by an insert, "linked", "unlinked" but not freed *)
  waits,    (* the threads a node off the list may not be reused before *)
  (* the local variables of a running operation *)
  call, pc, pred, curr, succ, newNode, result,
  phase,    (* "running" or "recovering" *)
  todo,     (* the nodes recover() has not yet visited *)
  burying,  (* the node recover() has marked and not yet made valid *)
  crashes,
  outcomes  (* history: see DurableSet *)

fields == <<valid, insertFlag, deleteFlag, key, next, marked>>
locals == <<call, pc, pred, curr, succ, newNode, result>>
recovery == <<phase, todo, burying, crashes>>
vars == <<fields, nvm, heap, waits, locals, recovery, outcomes>>

DS == INSTANCE DurableSet

-----------------------------------------------------------------------------
(* Persistent memory. Recovery tells apart three links only: a stale        *)
(* reference is overwritten before anyone follows it.                       *)

Link(n) == IF marked[n] THEN "marked" ELSE IF next[n] = Nil THEN "null" ELSE "ref"

Line(n) ==
  [valid |-> valid[n], insertFlag |-> insertFlag[n], deleteFlag |-> deleteFlag[n],
   key |-> key[n], link |-> Link(n)]

FLUSH(n) == nvm' = [nvm EXCEPT ![n] = Line(n)]

(* A line may be written back at any time. Once no crash is left to come    *)
(* nobody reads NVM again, and the guard saves the states.                  *)
Evict(n) ==
  /\ crashes < MaxCrashes
  /\ nvm[n] # Line(n)
  /\ FLUSH(n)
  /\ UNCHANGED <<fields, heap, waits, locals, recovery, outcomes>>

-----------------------------------------------------------------------------
(* Memory reclamation, as the list relies on it: a node is reused once it is *)
(* freed and every operation that ran when it was unlinked has ended. This   *)
(* is the earliest that any such reclaimer may be. With QuiesceOnFree it is  *)
(* ssmem's own rule, SSMEM_TS_INCR_ON_FREE: once every thread has freed      *)
(* something since.                                                          *)

Busy == {u \in Threads : pc[u] # "idle"}

(* Fault: nobody is waited for. *)
UnlinkForgetsOthers(n) ==
  /\ heap' = [heap EXCEPT ![n] = "unlinked"]
  /\ UNCHANGED waits

Unlink(n) ==
  /\ heap' = [heap EXCEPT ![n] = "unlinked"]
  /\ waits' = IF QuiesceOnFree THEN waits ELSE [waits EXCEPT ![n] = Busy]

Free(t, n) ==
  /\ heap' = [heap EXCEPT ![n] = "free"]
  /\ waits' = IF QuiesceOnFree
              THEN [m \in Nodes |-> IF m = n THEN Threads ELSE waits[m] \ {t}]
              ELSE waits

Allocatable(n) == heap[n] = "free" /\ waits[n] = {}

-----------------------------------------------------------------------------
Goto(t, label) == pc' = [pc EXCEPT ![t] = label]

Return(t, r) ==
  /\ call' = [call EXCEPT ![t] = DS!None]
  /\ outcomes' = DS!AfterAnswer(t, r)
  /\ pc' = [pc EXCEPT ![t] = "idle"]
  /\ pred' = [pred EXCEPT ![t] = Nil]
  /\ curr' = [curr EXCEPT ![t] = Nil]
  /\ succ' = [succ EXCEPT ![t] = Nil]
  /\ newNode' = [newNode EXCEPT ![t] = Nil]
  /\ result' = [result EXCEPT ![t] = FALSE]
  /\ waits' = IF QuiesceOnFree THEN waits ELSE [n \in Nodes |-> waits[n] \ {t}]

(* All operations start at the head. *)
StartSearch(t) ==
  /\ pred' = [pred EXCEPT ![t] = Head]
  /\ curr' = [curr EXCEPT ![t] = next[Head]]

Invoke(t, c) ==
  /\ phase = "running"
  /\ pc[t] = "idle"
  /\ call' = [call EXCEPT ![t] = c]
  /\ StartSearch(t)
  /\ Goto(t, IF c.op = "contains" THEN "walk" ELSE "find")
  /\ UNCHANGED <<fields, nvm, heap, waits, succ, newNode, result, recovery, outcomes>>

(* The end of a trim that was remove's last act. *)
Done(t) ==
  /\ pc[t] = "done"
  /\ Return(t, TRUE)
  /\ UNCHANGED <<fields, nvm, heap, recovery>>

-----------------------------------------------------------------------------
(* find: trim every marked node on the way, stop at the first unmarked one  *)
(* whose key is not smaller.                                                *)

FindPass(t) ==
  /\ pc[t] = "find"
  /\ ~marked[curr[t]] /\ key[curr[t]] < call[t].arg
  /\ pred' = [pred EXCEPT ![t] = curr[t]]
  /\ Goto(t, "advance")
  /\ UNCHANGED <<fields, nvm, heap, waits, call, curr, succ, newNode, result, recovery, outcomes>>

(* Fault: find trims without FLUSH_DELETE. *)
FindMarkedWithoutFlush(t) ==
  /\ pc[t] = "find"
  /\ marked[curr[t]]
  /\ Goto(t, "trim")
  /\ UNCHANGED <<fields, nvm, heap, waits, call, pred, curr, succ, newNode, result, recovery, outcomes>>

FindMarked(t) ==
  /\ pc[t] = "find"
  /\ marked[curr[t]]
  /\ Goto(t, "flushDelete")
  /\ UNCHANGED <<fields, nvm, heap, waits, call, pred, curr, succ, newNode, result, recovery, outcomes>>

FindAdvance(t) ==
  /\ pc[t] = "advance"
  /\ curr' = [curr EXCEPT ![t] = next[curr[t]]]
  /\ Goto(t, "find")
  /\ UNCHANGED <<fields, nvm, heap, waits, call, pred, succ, newNode, result, recovery, outcomes>>

FindStops(t) ==
  /\ pc[t] = "find"
  /\ ~marked[curr[t]] /\ key[curr[t]] >= call[t].arg

FindHit(t) ==
  /\ FindStops(t)
  /\ key[curr[t]] = call[t].arg
  /\ Goto(t, IF call[t].op = "insert" THEN "makeValid" ELSE "readSucc")
  /\ UNCHANGED <<fields, nvm, heap, waits, call, pred, curr, succ, newNode, result, recovery, outcomes>>

FindMissInsert(t) ==
  /\ FindStops(t)
  /\ key[curr[t]] # call[t].arg /\ call[t].op = "insert"
  /\ Goto(t, "alloc")
  /\ UNCHANGED <<fields, nvm, heap, waits, call, pred, curr, succ, newNode, result, recovery, outcomes>>

FindMissRemove(t) ==
  /\ FindStops(t)
  /\ key[curr[t]] # call[t].arg /\ call[t].op = "remove"
  /\ Return(t, FALSE)
  /\ UNCHANGED <<fields, nvm, heap, recovery>>

(* The search of a failed insert or remove begins again. *)
Restart(t) ==
  /\ pc[t] = "restart"
  /\ StartSearch(t)
  /\ Goto(t, "find")
  /\ UNCHANGED <<fields, nvm, heap, waits, call, succ, newNode, result, recovery, outcomes>>

-----------------------------------------------------------------------------
(* FLUSH_DELETE and trim, called on curr[t] by find, by remove once it has   *)
(* marked the node, and (FLUSH_DELETE alone) by contains.                    *)

AfterFlushDelete(t) ==
  IF call[t].op = "contains"
  THEN Return(t, FALSE)
  ELSE /\ Goto(t, "trim")
       /\ UNCHANGED <<waits, call, pred, curr, succ, newNode, result, outcomes>>

FlushDelete(t) ==
  /\ pc[t] = "flushDelete"
  /\ \/ /\ deleteFlag[curr[t]]
        /\ AfterFlushDelete(t)
        /\ UNCHANGED nvm
     \/ /\ ~deleteFlag[curr[t]]
        /\ FLUSH(curr[t])
        /\ Goto(t, "setDelete")
        /\ UNCHANGED <<waits, call, pred, curr, succ, newNode, result, outcomes>>
  /\ UNCHANGED <<fields, heap, recovery>>

SetDeleteFlag(t) ==
  /\ pc[t] = "setDelete"
  /\ deleteFlag' = [deleteFlag EXCEPT ![curr[t]] = TRUE]
  /\ AfterFlushDelete(t)
  /\ UNCHANGED <<valid, insertFlag, key, next, marked, nvm, heap, recovery>>

(* Fault: the mark bit is not compared. *)
ExpectsAnyMark(p, n) == next[p] = n

(* A compare-and-swap of p->next from an unmarked reference to n. *)
Expects(p, n) == next[p] = n /\ ~marked[p]

(* Fault: a trim that fails is tried again. *)
TrimRetries(t) ==
  /\ pc[t] = "trim"
  /\ Expects(pred[t], curr[t])
  /\ next' = [next EXCEPT ![pred[t]] = next[curr[t]]]
  /\ Unlink(curr[t])
  /\ Goto(t, "free")
  /\ UNCHANGED <<valid, insertFlag, deleteFlag, key, marked, nvm, call, pred, curr, succ, newNode, result, recovery, outcomes>>

Trim(t) ==
  /\ pc[t] = "trim"
  /\ \/ /\ Expects(pred[t], curr[t])
        /\ next' = [next EXCEPT ![pred[t]] = next[curr[t]]]
        /\ Unlink(curr[t])
        /\ Goto(t, "free")
     \/ /\ ~Expects(pred[t], curr[t])
        /\ Goto(t, IF result[t] THEN "done" ELSE "advance")
        /\ UNCHANGED <<next, heap, waits>>
  /\ UNCHANGED <<valid, insertFlag, deleteFlag, key, marked, nvm, call, pred, curr, succ, newNode, result, recovery, outcomes>>

(* ssmem_free, by the thread whose compare-and-swap took the node out. *)
FreeTrimmed(t) ==
  /\ pc[t] = "free"
  /\ Free(t, curr[t])
  /\ Goto(t, IF result[t] THEN "done" ELSE "advance")
  /\ UNCHANGED <<fields, nvm, call, pred, curr, succ, newNode, result, recovery, outcomes>>

-----------------------------------------------------------------------------
(* makeValid and FLUSH_INSERT, on the node insert linked, on the one it      *)
(* found in its place, or on the one contains found.                         *)

Target(t) == IF newNode[t] # Nil THEN newNode[t] ELSE curr[t]

MakeValid(t) ==
  /\ pc[t] = "makeValid"
  /\ valid' = [valid EXCEPT ![Target(t)] = TRUE]
  /\ Goto(t, IF call[t].op = "remove" THEN "mark" ELSE "flushInsert")
  /\ UNCHANGED <<insertFlag, deleteFlag, key, next, marked, nvm, heap, waits, call,
                 pred, curr, succ, newNode, result, recovery, outcomes>>

(* Fault: the flag is raised without the flush. *)
FlushInsertWithoutFlush(t) ==
  /\ pc[t] = "flushInsert"
  /\ IF insertFlag[Target(t)]
     THEN Return(t, result[t])
     ELSE /\ Goto(t, "setInsert")
          /\ UNCHANGED <<waits, call, pred, curr, succ, newNode, result, outcomes>>
  /\ UNCHANGED <<fields, nvm, heap, recovery>>

FlushInsert(t) ==
  /\ pc[t] = "flushInsert"
  /\ \/ /\ insertFlag[Target(t)]
        /\ Return(t, result[t])
        /\ UNCHANGED nvm
     \/ /\ ~insertFlag[Target(t)]
        /\ FLUSH(Target(t))
        /\ Goto(t, "setInsert")
        /\ UNCHANGED <<waits, call, pred, curr, succ, newNode, result, outcomes>>
  /\ UNCHANGED <<fields, heap, recovery>>

SetInsertFlag(t) ==
  /\ pc[t] = "setInsert"
  /\ insertFlag' = [insertFlag EXCEPT ![Target(t)] = TRUE]
  /\ Return(t, result[t])
  /\ UNCHANGED <<valid, deleteFlag, key, next, marked, nvm, heap, recovery>>

-----------------------------------------------------------------------------
(* insert: nobody else reaches the node before LinkNode, so of allocNode's   *)
(* stores only the first, which makes the node invalid, is a step apart.     *)

(* Fault: allocNode does not flip the node to invalid. *)
AllocNodeStillValid(t) ==
  /\ pc[t] = "alloc"
  /\ \E n \in Nodes :
       /\ Allocatable(n)
       /\ heap' = [heap EXCEPT ![n] = "owned"]
       /\ newNode' = [newNode EXCEPT ![t] = n]
  /\ Goto(t, "init")
  /\ UNCHANGED <<valid, insertFlag, deleteFlag, key, next, marked, nvm, waits, call,
                 pred, curr, succ, result, recovery, outcomes>>

AllocNode(t) ==
  /\ pc[t] = "alloc"
  /\ \E n \in Nodes :
       /\ Allocatable(n)
       /\ heap' = [heap EXCEPT ![n] = "owned"]
       /\ valid' = [valid EXCEPT ![n] = ~valid[n]]
       /\ newNode' = [newNode EXCEPT ![t] = n]
  /\ Goto(t, "init")
  /\ UNCHANGED <<insertFlag, deleteFlag, key, next, marked, nvm, waits, call, pred,
                 curr, succ, result, recovery, outcomes>>

(* Fault: a reused node keeps its flags. *)
InitNodeKeepsFlags(t) ==
  /\ pc[t] = "init"
  /\ key' = [key EXCEPT ![newNode[t]] = call[t].arg]
  /\ next' = [next EXCEPT ![newNode[t]] = curr[t]]
  /\ marked' = [marked EXCEPT ![newNode[t]] = FALSE]
  /\ Goto(t, "link")
  /\ UNCHANGED <<valid, insertFlag, deleteFlag, nvm, heap, waits, call, pred, curr,
                 succ, newNode, result, recovery, outcomes>>

InitNode(t) ==
  /\ pc[t] = "init"
  /\ LET n == newNode[t] IN
       /\ insertFlag' = [insertFlag EXCEPT ![n] = FALSE]
       /\ deleteFlag' = [deleteFlag EXCEPT ![n] = FALSE]
       /\ key' = [key EXCEPT ![n] = call[t].arg]
       /\ next' = [next EXCEPT ![n] = curr[t]]
       /\ marked' = [marked EXCEPT ![n] = FALSE]
  /\ Goto(t, "link")
  /\ UNCHANGED <<valid, nvm, heap, waits, call, pred, curr, succ, newNode, result,
                 recovery, outcomes>>

(* Fault: after a failed compare-and-swap the insertion is retried in place, *)
(* before the node that was in the way.                                      *)
LinkNodeInPlace(t) ==
  /\ pc[t] = "link"
  /\ \/ /\ Expects(pred[t], curr[t])
        /\ next' = [next EXCEPT ![pred[t]] = newNode[t]]
        /\ heap' = [heap EXCEPT ![newNode[t]] = "linked"]
        /\ result' = [result EXCEPT ![t] = TRUE]
        /\ Goto(t, "makeValid")
        /\ UNCHANGED curr
     \/ /\ ~Expects(pred[t], curr[t])
        /\ curr' = [curr EXCEPT ![t] = next[pred[t]]]
        /\ Goto(t, "init")
        /\ UNCHANGED <<next, heap, result>>
  /\ UNCHANGED <<valid, insertFlag, deleteFlag, key, marked, nvm, waits, call, pred,
                 succ, newNode, recovery, outcomes>>

LinkNode(t) ==
  /\ pc[t] = "link"
  /\ \/ /\ Expects(pred[t], curr[t])
        /\ next' = [next EXCEPT ![pred[t]] = newNode[t]]
        /\ heap' = [heap EXCEPT ![newNode[t]] = "linked"]
        /\ result' = [result EXCEPT ![t] = TRUE]
        /\ Goto(t, "makeValid")
     \/ /\ ~Expects(pred[t], curr[t])
        /\ Goto(t, "markUnlinked")
        /\ UNCHANGED <<next, heap, result>>
  /\ UNCHANGED <<valid, insertFlag, deleteFlag, key, marked, nvm, waits, call, pred,
                 curr, succ, newNode, recovery, outcomes>>

(* Fault: valid first, then deleted. *)
MarkUnlinkedTooLate(t) ==
  /\ pc[t] = "markUnlinked"
  /\ valid' = [valid EXCEPT ![newNode[t]] = TRUE]
  /\ Goto(t, "undo")
  /\ UNCHANGED <<insertFlag, deleteFlag, key, next, marked, nvm, heap, waits, call,
                 pred, curr, succ, newNode, result, recovery, outcomes>>

(* The node that lost the race goes back deleted, then valid. *)
MarkUnlinked(t) ==
  /\ pc[t] = "markUnlinked"
  /\ next' = [next EXCEPT ![newNode[t]] = Nil]
  /\ marked' = [marked EXCEPT ![newNode[t]] = TRUE]
  /\ Goto(t, "undo")
  /\ UNCHANGED <<valid, insertFlag, deleteFlag, key, nvm, heap, waits, call, pred,
                 curr, succ, newNode, result, recovery, outcomes>>

UndoInsert(t) ==
  /\ pc[t] = "undo"
  /\ valid' = [valid EXCEPT ![newNode[t]] = TRUE]
  /\ Free(t, newNode[t])
  /\ newNode' = [newNode EXCEPT ![t] = Nil]
  /\ Goto(t, "restart")
  /\ UNCHANGED <<insertFlag, deleteFlag, key, next, marked, nvm, call, pred, curr,
                 succ, result, recovery, outcomes>>

-----------------------------------------------------------------------------
(* remove: the mark is the removal; unlinking is left to trim and to others. *)

(* Fault: remove marks a node it has not made valid. *)
ReadSuccToMark(t) ==
  /\ pc[t] = "readSucc"
  /\ succ' = [succ EXCEPT ![t] = next[curr[t]]]
  /\ Goto(t, "mark")
  /\ UNCHANGED <<fields, nvm, heap, waits, call, pred, curr, newNode, result,
                 recovery, outcomes>>

ReadSucc(t) ==
  /\ pc[t] = "readSucc"
  /\ succ' = [succ EXCEPT ![t] = next[curr[t]]]
  /\ Goto(t, "makeValid")
  /\ UNCHANGED <<fields, nvm, heap, waits, call, pred, curr, newNode, result,
                 recovery, outcomes>>

(* Fault: a node found marked counts as removed by this call. *)
MarkClaimsAll(t) ==
  /\ pc[t] = "mark"
  /\ marked' = [marked EXCEPT ![curr[t]] = TRUE]
  /\ result' = [result EXCEPT ![t] = TRUE]
  /\ Goto(t, "flushDelete")
  /\ UNCHANGED <<valid, insertFlag, deleteFlag, key, next, nvm, heap, waits, call,
                 pred, curr, succ, newNode, recovery, outcomes>>

Mark(t) ==
  /\ pc[t] = "mark"
  /\ \/ /\ Expects(curr[t], succ[t])
        /\ marked' = [marked EXCEPT ![curr[t]] = TRUE]
        /\ result' = [result EXCEPT ![t] = TRUE]
        /\ Goto(t, "flushDelete")
     \/ /\ ~Expects(curr[t], succ[t])
        /\ Goto(t, "restart")
        /\ UNCHANGED <<marked, result>>
  /\ UNCHANGED <<valid, insertFlag, deleteFlag, key, next, nvm, heap, waits, call,
                 pred, curr, succ, newNode, recovery, outcomes>>

-----------------------------------------------------------------------------
(* contains: walks past marked nodes and helps only the node it answers for. *)

(* Fault: a walk that meets a marked node on its way begins again. *)
ContainsStepStartsOver(t) ==
  /\ pc[t] = "walk"
  /\ key[curr[t]] < call[t].arg
  /\ IF marked[curr[t]]
     THEN StartSearch(t)
     ELSE curr' = [curr EXCEPT ![t] = next[curr[t]]] /\ UNCHANGED pred
  /\ UNCHANGED <<fields, nvm, heap, waits, call, pc, succ, newNode, result,
                 recovery, outcomes>>

ContainsStep(t) ==
  /\ pc[t] = "walk"
  /\ key[curr[t]] < call[t].arg
  /\ curr' = [curr EXCEPT ![t] = next[curr[t]]]
  /\ UNCHANGED <<fields, nvm, heap, waits, call, pc, pred, succ, newNode, result,
                 recovery, outcomes>>

ContainsMiss(t) ==
  /\ pc[t] = "walk"
  /\ key[curr[t]] > call[t].arg
  /\ Return(t, FALSE)
  /\ UNCHANGED <<fields, nvm, heap, recovery>>

ContainsHit(t) ==
  /\ pc[t] = "walk"
  /\ key[curr[t]] = call[t].arg
  /\ result' = [result EXCEPT ![t] = ~marked[curr[t]]]
  /\ Goto(t, IF marked[curr[t]] THEN "flushDelete" ELSE "makeValid")
  /\ UNCHANGED <<fields, nvm, heap, waits, call, pred, curr, succ, newNode,
                 recovery, outcomes>>

-----------------------------------------------------------------------------
(* Fault: the sentinels are taken for nodes of the chunks. *)
ChunkNodesAndSentinels == AllNodes

(* The nodes recover() enumerates. *)
ChunkNodes == Nodes

(* A crash ends every operation and leaves what NVM holds; the sentinels are *)
(* built anew. It may also strike during recovery.                           *)

Crash ==
  /\ crashes < MaxCrashes
  /\ crashes' = crashes + 1
  /\ valid' = [n \in Nodes |-> nvm[n].valid]
  /\ insertFlag' = [n \in Nodes |-> nvm[n].insertFlag]
  /\ deleteFlag' = [n \in Nodes |-> nvm[n].deleteFlag]
  /\ key' = [n \in AllNodes |-> IF n \in Nodes THEN nvm[n].key ELSE key[n]]
  /\ marked' = [n \in AllNodes |-> n \in Nodes /\ nvm[n].link = "marked"]
  /\ next' = [n \in AllNodes |->
       IF n = Head \/ (n \in Nodes /\ nvm[n].link = "ref") THEN Tail ELSE Nil]
  /\ heap' = [n \in Nodes |-> "free"]
  /\ waits' = [n \in Nodes |-> {}]
  /\ call' = [t \in Threads |-> DS!None]
  /\ pc' = [t \in Threads |-> "idle"]
  /\ pred' = [t \in Threads |-> Nil]
  /\ curr' = [t \in Threads |-> Nil]
  /\ succ' = [t \in Threads |-> Nil]
  /\ newNode' = [t \in Threads |-> Nil]
  /\ result' = [t \in Threads |-> FALSE]
  /\ phase' = "recovering"
  /\ todo' = ChunkNodes
  /\ burying' = Nil
  /\ outcomes' = DS!AfterCrash
  /\ UNCHANGED nvm

(* The nodes on the list but the tail, marked ones included: what a walk from *)
(* the head meets, for ListIsSorted leaves no other way to the tail.          *)
Linked == {Head} \union {n \in Nodes : heap[n] = "linked"}

NeverUsed(n) == valid[n] /\ ~marked[n] /\ next[n] = Nil
Dead(n) == ~valid[n] \/ marked[n]
Alive(n) == ~NeverUsed(n) /\ ~Dead(n)

(* recover() visits every node of the chunks, one thread at work. *)
RecoverNeverUsed(n) ==
  /\ phase = "recovering" /\ burying = Nil /\ n \in todo
  /\ NeverUsed(n)
  /\ todo' = todo \ {n}
  /\ UNCHANGED <<fields, nvm, heap, waits, locals, phase, burying, crashes, outcomes>>

RecoverMarkDead(n) ==
  /\ phase = "recovering" /\ burying = Nil /\ n \in todo
  /\ Dead(n)
  /\ next' = [next EXCEPT ![n] = Nil]
  /\ marked' = [marked EXCEPT ![n] = TRUE]
  /\ burying' = n
  /\ UNCHANGED <<valid, insertFlag, deleteFlag, key, nvm, heap, waits, locals, phase,
                 todo, crashes, outcomes>>

RecoverFreeDead(n) ==
  /\ phase = "recovering" /\ burying = n /\ n \in todo
  /\ valid' = [valid EXCEPT ![n] = TRUE]
  /\ todo' = todo \ {n}
  /\ burying' = Nil
  /\ UNCHANGED <<insertFlag, deleteFlag, key, next, marked, nvm, heap, waits, locals,
                 phase, crashes, outcomes>>

(* quickInsert stops the program, here: has no step, when one of its two     *)
(* assertions fails.                                                         *)
AssertionFails(n) ==
  \E m \in Linked : marked[m] \/ key[m] = key[n]

QuickInsert(n) ==
  /\ phase = "recovering" /\ burying = Nil /\ n \in todo
  /\ Alive(n) /\ ~AssertionFails(n)
  /\ \E p \in Linked :
       /\ key[p] < key[n] /\ key[n] < key[next[p]]
       /\ next' = [next EXCEPT ![n] = next[p], ![p] = n]
  /\ heap' = [heap EXCEPT ![n] = "linked"]
  /\ todo' = todo \ {n}
  /\ UNCHANGED <<valid, insertFlag, deleteFlag, key, marked, nvm, waits, locals, phase,
                 burying, crashes, outcomes>>

(* What a walk from the head meets, and the keys that a search would find.   *)
Reachable ==
  LET f[i \in 0..(Cardinality(Nodes) + 1)] ==
        IF i = 0 THEN {Head}
        ELSE f[i-1] \union ({next[n] : n \in f[i-1]} \ {Nil})
  IN  f[Cardinality(Nodes) + 1]

Contents ==
  {key[n] : n \in {m \in Reachable \ {Head, Tail} : ~marked[m]}}

RecoverDone ==
  /\ phase = "recovering" /\ todo = {}
  /\ phase' = "running"
  /\ outcomes' = DS!AfterRecovery(Contents)
  /\ UNCHANGED <<fields, nvm, heap, waits, locals, todo, burying, crashes>>

-----------------------------------------------------------------------------
(* ssmem hands out zeroed chunks: a fresh node is valid, with a null link.   *)
Init ==
  /\ valid = [n \in Nodes |-> TRUE]
  /\ insertFlag = [n \in Nodes |-> FALSE]
  /\ deleteFlag = [n \in Nodes |-> FALSE]
  /\ key = [n \in AllNodes |->
       IF n = Head THEN MinKey ELSE IF n = Tail THEN MaxKey ELSE 0]
  /\ next = [n \in AllNodes |-> IF n = Head THEN Tail ELSE Nil]
  /\ marked = [n \in AllNodes |-> FALSE]
  /\ nvm = [n \in Nodes |-> Line(n)]
  /\ heap = [n \in Nodes |-> "free"]
  /\ waits = [n \in Nodes |-> {}]
  /\ call = [t \in Threads |-> DS!None]
  /\ pc = [t \in Threads |-> "idle"]
  /\ pred = [t \in Threads |-> Nil]
  /\ curr = [t \in Threads |-> Nil]
  /\ succ = [t \in Threads |-> Nil]
  /\ newNode = [t \in Threads |-> Nil]
  /\ result = [t \in Threads |-> FALSE]
  /\ phase = "running"
  /\ todo = {}
  /\ burying = Nil
  /\ crashes = 0
  /\ outcomes = {[set |-> {}, res |-> DS!NoAnswer]}

(* What a thread does inside an operation. *)
Step(t) ==
  \/ FindPass(t) \/ FindMarked(t) \/ FindAdvance(t) \/ FindHit(t)
  \/ FindMissInsert(t) \/ FindMissRemove(t) \/ Restart(t)
  \/ FlushDelete(t) \/ SetDeleteFlag(t) \/ Trim(t) \/ FreeTrimmed(t)
  \/ MakeValid(t) \/ FlushInsert(t) \/ SetInsertFlag(t)
  \/ AllocNode(t) \/ InitNode(t) \/ LinkNode(t) \/ MarkUnlinked(t) \/ UndoInsert(t)
  \/ ReadSucc(t) \/ Mark(t) \/ Done(t)
  \/ ContainsStep(t) \/ ContainsMiss(t) \/ ContainsHit(t)

Recover ==
  \/ \E n \in Nodes : \/ RecoverNeverUsed(n) \/ RecoverMarkDead(n)
                      \/ RecoverFreeDead(n) \/ QuickInsert(n)
  \/ RecoverDone

Next ==
  \/ \E t \in Threads : \/ \E c \in DS!Calls : Invoke(t, c)
                        \/ Step(t)
  \/ \E n \in Nodes : Evict(n)
  \/ Crash
  \/ Recover

Spec == Init /\ [][Next]_vars

-----------------------------------------------------------------------------
Labels ==
  {"idle", "walk", "find", "advance", "flushDelete", "setDelete", "trim", "free",
   "done",
   "alloc", "init", "link", "makeValid", "flushInsert", "setInsert",
   "markUnlinked", "undo", "restart", "readSucc", "mark"}

Lines ==
  [valid : BOOLEAN, insertFlag : BOOLEAN, deleteFlag : BOOLEAN, key : Int,
   link : {"null", "ref", "marked"}]

(* The variables have their types. *)
TypeOK ==
  /\ valid \in [Nodes -> BOOLEAN]
  /\ insertFlag \in [Nodes -> BOOLEAN]
  /\ deleteFlag \in [Nodes -> BOOLEAN]
  /\ key \in [AllNodes -> Int]
  /\ next \in [AllNodes -> AllNodes \union {Nil}]
  /\ marked \in [AllNodes -> BOOLEAN]
  /\ nvm \in [Nodes -> Lines]
  /\ heap \in [Nodes -> {"free", "owned", "linked", "unlinked"}]
  /\ waits \in [Nodes -> SUBSET Threads]
  /\ call \in [Threads -> DS!Calls \union {DS!None}]
  /\ pc \in [Threads -> Labels]
  /\ \A t \in Threads : pc[t] # "idle" => call[t] \in DS!Calls
  /\ pred \in [Threads -> AllNodes \union {Nil}]
  /\ curr \in [Threads -> AllNodes \union {Nil}]
  /\ succ \in [Threads -> AllNodes \union {Nil}]
  /\ newNode \in [Threads -> Nodes \union {Nil}]
  /\ result \in [Threads -> BOOLEAN]
  /\ phase \in {"running", "recovering"}
  /\ todo \in SUBSET Nodes
  /\ burying \in Nodes \union {Nil}
  /\ crashes \in Nat

(* Every history of calls, answers, crashes and recoveries is one of the     *)
(* durably linearizable set: insert, remove, contains and recover together   *)
(* never answer, lose or resurrect what a sequential set would not.          *)
DurablyLinearizable == DS!Spec

(* The nodes on the list, the marked ones too, are linked in strict order of  *)
(* their keys with no member left out between two neighbours: a walk meets    *)
(* all of them, no compare-and-swap drops or revives one, and where find      *)
(* stops is where the key belongs, even if trims on the way have failed, and  *)
(* no key is on the list twice.                                              *)
ListIsSorted ==
  /\ \A m \in Linked : next[m] \in Linked \union {Tail} /\ key[m] < key[next[m]]
  /\ \A m, n \in Linked : ~(key[m] < key[n] /\ key[n] < key[next[m]])
  /\ \A m, n \in Linked : key[m] = key[n] => m = n

(* "if the node is marked, it must be valid" (contains): a marked node that   *)
(* another thread can meet was made valid by its remover before the mark.    *)
MarkedIsValid ==
  phase = "running" =>
    \A n \in Nodes : marked[n] /\ heap[n] # "owned" => valid[n]

(* A raised flag, which makes every later caller skip the flush, means that  *)
(* NVM holds the insertion or the deletion, for every node a thread can      *)
(* still be looking at.                                                      *)
FlagsArePersisted ==
  phase = "running" =>
    \A n \in Nodes : heap[n] = "linked" \/ waits[n] # {} =>
      /\ insertFlag[n] => nvm[n].valid
      /\ deleteFlag[n] => nvm[n].valid /\ nvm[n].link = "marked"

(* The members recover() would rebuild the list from. *)
PersistedMember(n) == nvm[n].valid /\ nvm[n].link = "ref"

(* NVM never holds two members with one key, at any moment at which a crash  *)
(* may come: an old node of a key is dead in NVM before a new one is alive.  *)
PersistedKeysAreUnique ==
  \A m, n \in Nodes :
    PersistedMember(m) /\ PersistedMember(n) /\ nvm[m].key = nvm[n].key => m = n

(* A node taken off the list, or never put on it, is no member in NVM:       *)
(* after a crash it does not come back.                                      *)
FreedNodesStayDead ==
  phase = "running" =>
    \A n \in Nodes : heap[n] # "linked" => ~PersistedMember(n)

(* quickInsert's assertions: recovery meets no marked node and no key twice. *)
RecoveryAssertionsHold ==
  phase = "recovering" /\ burying = Nil =>
    \A n \in todo : Alive(n) => ~AssertionFails(n)

(* No node is handed out again while a thread in the middle of an operation  *)
(* holds a reference to it: what it read of a node before is still that node. *)
(* A search that starts over and an operation that is about to return follow  *)
(* neither reference any more.                                               *)
HeldNodesAreNotReused ==
  \A t \in Threads, n \in Nodes :
    /\ heap[n] = "owned" /\ n \in {pred[t], curr[t]}
    /\ pc[t] \notin {"restart", "done"}
    => newNode[t] = n

(* Marking freezes a node: until it is reused its mark and link stay.        *)
MarkedLinksAreFrozen ==
  [][phase' = "running" /\ crashes' = crashes =>
       \A n \in Nodes :
         marked[n] /\ heap[n] # "owned" /\ heap'[n] # "owned" =>
           marked'[n] /\ next'[n] = next[n]]_vars

-----------------------------------------------------------------------------
SomeCallReturns == \E u \in Threads : call[u] # DS!None /\ call'[u] = DS!None

(* Lock freedom: if t goes on taking steps inside an operation, operations    *)
(* keep returning, whoever's they are and wherever the other threads stopped.*)
(* Waiting for memory is excepted: the program would be given a new chunk.   *)
LockFree(t) ==
  <>[](pc[t] # "idle") /\ []<>(pc[t] # "alloc") => []<><<SomeCallReturns>>_vars

(* "wait free find" (contains): a contains that takes steps returns, whatever *)
(* the others do to the list meanwhile.                                      *)
WaitFreeContains(t) == pc[t] = "walk" ~> pc[t] = "idle"
=============================================================================
