------------------------- MODULE LinkFreeListProofs -------------------------
(***************************************************************************)
(* The proofs about the link-free list, for any number of threads, keys,   *)
(* nodes and crashes, under a reclaimer that waits for the end of          *)
(* operations (~QuiesceOnFree).                                            *)
(*                                                                         *)
(* First that IInv and PInv are invariants: what a thread may conclude     *)
(* about the nodes it holds, the steps that change neither the list nor    *)
(* what other threads hold, then the others; which nodes NVM holds at any  *)
(* moment at which a crash may come, and what recovery makes of them.      *)
(*                                                                         *)
(* Then that the list implements the durable set. An operation takes       *)
(* effect when NVM does: an insertion when its node becomes a member       *)
(* there, a deletion when the mark of its node does. Either may be the     *)
(* work of another thread, or of an eviction, at a moment when the         *)
(* operation itself does nothing. The outcomes of DurableSet allow for     *)
(* that: what is proved of them is Promised, that some history left the    *)
(* persisted keys behind, with TRUE for each operation that is committed   *)
(* and for the others any answer that they may have come to know (Knows),  *)
(* given by an effect that changes nothing. What Promised needs of         *)
(* DurableSet alone comes first; then that each step keeps DInv, whose     *)
(* insertion or deletion a node on the list stands for; then that each     *)
(* keeps LInv, by what it commits; then recovery; and that each is a step  *)
(* of the durable set.                                                     *)
(*                                                                         *)
(* Last the validity byte, which the list takes for a Boolean.             *)
(***************************************************************************)
EXTENDS LinkFreeListInv, Recursion, TLAPS

-----------------------------------------------------------------------------
(* What a thread may conclude about a node it holds. *)

(* A held node is a node, and no insert's private one. *)
LEMMA HeldIsNode ==
  ASSUME TypeOK, RetiredIsClosed, NEW u \in Threads, NEW n, MayHold(u, n)
  PROVE  /\ n \in AllNodes
         /\ n \in Nodes => heap[n] # "owned"
BY NodesAssumption DEF MayHold, Linked, AllNodes, RetiredIsClosed

(* Following a link from a held node leads to one that may be held. *)
LEMMA FollowLink ==
  ASSUME TypeOK, ListIsSorted, RetiredIsClosed,
         NEW u \in Threads, NEW n, MayHold(u, n), n # Tail
  PROVE  MayHold(u, next[n])
BY NodesAssumption DEF MayHold, Linked, AllNodes, RetiredIsClosed, ListIsSorted

(* A held node without a mark is on the list. *)
LEMMA UnmarkedIsLinked ==
  ASSUME TypeOK, RetiredIsClosed, NEW u \in Threads, NEW n, MayHold(u, n),
         n # Tail, ~marked[n]
  PROVE  n \in Linked
BY NodesAssumption DEF MayHold, Linked, AllNodes, RetiredIsClosed

(* The call of a running operation has a key of its own. *)
LEMMA CallHasKey ==
  ASSUME TypeOK, NEW t \in Threads, pc[t] # "idle"
  PROVE  /\ call[t].arg \in Keys
         /\ call[t].op \in {"insert", "remove", "contains"}
         /\ call[t].arg \in Int /\ MinKey < call[t].arg /\ call[t].arg < MaxKey
BY KeysAssumption DEF TypeOK, DS!Calls, DS!Operations

-----------------------------------------------------------------------------
(* Steps that move one thread only. *)

Local(t) ==
  /\ UNCHANGED <<key, next, marked, heap, waits, phase, todo, burying>>
  /\ phase = "running" \/ pc[t] # "idle"
  /\ pc'[t] # "idle"
  /\ \A u \in Threads \ {t} :
       /\ pc'[u] = pc[u] /\ call'[u] = call[u] /\ pred'[u] = pred[u]
       /\ curr'[u] = curr[u] /\ newNode'[u] = newNode[u]
  /\ pc'[t] \in Private => pc[t] \in Private /\ newNode'[t] = newNode[t]
  /\ pc'[t] # "free"

(* A step that moves only thread t keeps the invariant of the others. *)
LEMMA LocalMove ==
  ASSUME IInv, NEW t \in Threads, Local(t), TypeOK', ThreadInv(t)'
  PROVE  IInv'
<1> USE DEF IInv, Local
<1>1. ListIsSorted'
  BY DEF ListIsSorted, Linked
<1>2. SentinelsAreFixed'
  BY DEF SentinelsAreFixed
<1>3. RetiredIsClosed'
  BY DEF RetiredIsClosed, MayHold, Linked, TypeOK
<1>4. ASSUME NEW u \in Threads
      PROVE  ThreadInv(u)'
  <2>1. CASE u = t
    BY <2>1
  <2>2. CASE u # t
    BY <2>2 DEF ThreadInv, HoldsWhatItMay, NewNodeIsPrivate, SearchIsRight, LinkIsReady,
                TrimsMarkedNodes, MayHold, Linked
  <2> QED
    BY <2>1, <2>2
<1>5. ThreadsAreApart'
  BY DEF ThreadsAreApart
<1>6. RecoveryIsAlone'
  BY DEF RecoveryIsAlone
<1> QED
  BY <1>1, <1>2, <1>3, <1>4, <1>5, <1>6

(* What a running thread holds, and what it will hold if it goes on. *)
LEMMA Holding ==
  ASSUME IInv, NEW t \in Threads, pc[t] # "idle"
  PROVE  /\ MayHold(t, pred[t]) /\ MayHold(t, curr[t])
         /\ pred[t] \in AllNodes /\ curr[t] \in AllNodes
         /\ curr[t] # Tail => MayHold(t, next[curr[t]])
         /\ key[curr[t]] \in Int /\ key[pred[t]] \in Int
<1>1. MayHold(t, pred[t]) /\ MayHold(t, curr[t])
  BY DEF IInv, ThreadInv, HoldsWhatItMay
<1>2. pred[t] \in AllNodes /\ curr[t] \in AllNodes
  BY <1>1, HeldIsNode DEF IInv
<1>3. curr[t] # Tail => MayHold(t, next[curr[t]])
  BY <1>1, FollowLink DEF IInv
<1> QED
  BY <1>1, <1>2, <1>3 DEF IInv, TypeOK

(* find goes past a node with a smaller key: the node becomes the predecessor.*)
LEMMA FindPassInv ==
  ASSUME IInv, NEW t \in Threads, FindPass(t)
  PROVE  IInv'
<1> USE DEF IInv
<1>1. pc[t] # "idle"
  BY DEF FindPass
<1>2. /\ MayHold(t, pred[t]) /\ MayHold(t, curr[t])
      /\ curr[t] \in AllNodes /\ key[curr[t]] \in Int
      /\ curr[t] # Tail => MayHold(t, next[curr[t]])
  BY <1>1, Holding
<1>3. Local(t)
  BY <1>1 DEF FindPass, Local, Goto, Private, TypeOK, fields, recovery
<1>4. TypeOK'
  BY <1>1, <1>2, CallHasKey, NodesAssumption
  DEF FindPass, TypeOK, Labels, Goto, AllNodes, fields, recovery
<1>5. ThreadInv(t)'
  BY SMTT(30), <1>1, <1>2, CallHasKey, NodesAssumption
  DEF FindPass, Goto, TypeOK, ThreadInv, HoldsWhatItMay, NewNodeIsPrivate,
      SearchIsRight, LinkIsReady, TrimsMarkedNodes, MayHold, Linked, Private,
      Publishing, SentinelsAreFixed, ListIsSorted, AllNodes, fields, recovery
<1> QED
  BY <1>3, <1>4, <1>5, LocalMove

(* find met a marked node, to be flushed and trimmed.                       *)
LEMMA FindMarkedInv ==
  ASSUME IInv, NEW t \in Threads, FindMarked(t)
  PROVE  IInv'
<1> USE DEF IInv
<1>1. pc[t] # "idle"
  BY DEF FindMarked
<1>2. /\ MayHold(t, pred[t]) /\ MayHold(t, curr[t])
      /\ curr[t] \in AllNodes /\ key[curr[t]] \in Int
      /\ curr[t] # Tail => MayHold(t, next[curr[t]])
  BY <1>1, Holding
<1>3. Local(t)
  BY <1>1 DEF FindMarked, Local, Goto, Private, TypeOK, fields, recovery
<1>4. TypeOK'
  BY <1>1, <1>2, CallHasKey, NodesAssumption
  DEF FindMarked, TypeOK, Labels, Goto, AllNodes, fields, recovery
<1>5. ThreadInv(t)'
  BY <1>1, <1>2, CallHasKey, NodesAssumption
  DEF FindMarked, Goto, TypeOK, ThreadInv, HoldsWhatItMay, NewNodeIsPrivate,
      SearchIsRight, LinkIsReady, TrimsMarkedNodes, MayHold, Linked, Private,
      Publishing, SentinelsAreFixed, ListIsSorted, AllNodes, fields, recovery
<1> QED
  BY <1>3, <1>4, <1>5, LocalMove

(* find follows the link of the node it has dealt with.                     *)
LEMMA FindAdvanceInv ==
  ASSUME IInv, NEW t \in Threads, FindAdvance(t)
  PROVE  IInv'
<1> USE DEF IInv
<1>1. pc[t] # "idle"
  BY DEF FindAdvance
<1>2. /\ MayHold(t, pred[t]) /\ MayHold(t, curr[t])
      /\ curr[t] \in AllNodes /\ key[curr[t]] \in Int
      /\ curr[t] # Tail => MayHold(t, next[curr[t]])
  BY <1>1, Holding
<1>3. Local(t)
  BY <1>1 DEF FindAdvance, Local, Goto, Private, TypeOK, fields, recovery
<1>4. TypeOK'
  BY <1>1, <1>2, CallHasKey, NodesAssumption
  DEF FindAdvance, TypeOK, Labels, Goto, AllNodes, fields, recovery
<1>5. ThreadInv(t)'
  BY <1>1, <1>2, CallHasKey, NodesAssumption
  DEF FindAdvance, Goto, TypeOK, ThreadInv, HoldsWhatItMay, NewNodeIsPrivate,
      SearchIsRight, LinkIsReady, TrimsMarkedNodes, MayHold, Linked, Private,
      Publishing, SentinelsAreFixed, ListIsSorted, AllNodes, fields, recovery
<1> QED
  BY <1>3, <1>4, <1>5, LocalMove

(* find stops at the key it looks for.                                      *)
LEMMA FindHitInv ==
  ASSUME IInv, NEW t \in Threads, FindHit(t)
  PROVE  IInv'
<1> USE DEF IInv
<1>1. pc[t] # "idle"
  BY DEF FindHit, FindStops
<1>2. /\ MayHold(t, pred[t]) /\ MayHold(t, curr[t])
      /\ curr[t] \in AllNodes /\ key[curr[t]] \in Int
      /\ curr[t] # Tail => MayHold(t, next[curr[t]])
  BY <1>1, Holding
<1>3. Local(t)
  BY <1>1 DEF FindHit, FindStops, Local, Goto, Private, TypeOK, fields, recovery
<1>4. TypeOK'
  BY <1>1, <1>2, CallHasKey, NodesAssumption
  DEF FindHit, FindStops, TypeOK, Labels, Goto, AllNodes, fields, recovery
<1>5. ThreadInv(t)'
  BY <1>1, <1>2, CallHasKey, NodesAssumption
  DEF FindHit, FindStops, Goto, TypeOK, ThreadInv, HoldsWhatItMay, NewNodeIsPrivate,
      SearchIsRight, LinkIsReady, TrimsMarkedNodes, MayHold, Linked, Private,
      Publishing, SentinelsAreFixed, ListIsSorted, AllNodes, fields, recovery
<1> QED
  BY <1>3, <1>4, <1>5, LocalMove

(* find stops after the place of a key to insert.                           *)
LEMMA FindMissInsertInv ==
  ASSUME IInv, NEW t \in Threads, FindMissInsert(t)
  PROVE  IInv'
<1> USE DEF IInv
<1>1. pc[t] # "idle"
  BY DEF FindMissInsert, FindStops
<1>2. /\ MayHold(t, pred[t]) /\ MayHold(t, curr[t])
      /\ curr[t] \in AllNodes /\ key[curr[t]] \in Int
      /\ curr[t] # Tail => MayHold(t, next[curr[t]])
  BY <1>1, Holding
<1>3. Local(t)
  BY <1>1 DEF FindMissInsert, FindStops, Local, Goto, Private, TypeOK, fields, recovery
<1>4. TypeOK'
  BY <1>1, <1>2, CallHasKey, NodesAssumption
  DEF FindMissInsert, FindStops, TypeOK, Labels, Goto, AllNodes, fields, recovery
<1>5. call[t].arg < key[curr[t]]
  <2>1. key[curr[t]] >= call[t].arg /\ key[curr[t]] # call[t].arg
    BY DEF FindMissInsert, FindStops
  <2> QED
    BY <1>1, <1>2, <2>1, CallHasKey
<1>6. ThreadInv(t)'
  BY <1>1, <1>2, <1>5, CallHasKey, NodesAssumption
  DEF FindMissInsert, FindStops, Goto, TypeOK, ThreadInv, HoldsWhatItMay, NewNodeIsPrivate,
      SearchIsRight, LinkIsReady, TrimsMarkedNodes, MayHold, Linked, Private,
      Publishing, SentinelsAreFixed, ListIsSorted, AllNodes, fields, recovery
<1> QED
  BY <1>3, <1>4, <1>6, LocalMove

(* The search begins again at the head.                                     *)
LEMMA RestartInv ==
  ASSUME IInv, NEW t \in Threads, Restart(t)
  PROVE  IInv'
<1> USE DEF IInv
<1>1. pc[t] # "idle"
  BY DEF Restart, StartSearch
<1>2. /\ MayHold(t, pred[t]) /\ MayHold(t, curr[t])
      /\ curr[t] \in AllNodes /\ key[curr[t]] \in Int
      /\ curr[t] # Tail => MayHold(t, next[curr[t]])
  BY <1>1, Holding
<1>3. Local(t)
  BY <1>1 DEF Restart, StartSearch, Local, Goto, Private, TypeOK, fields, recovery
<1>4. TypeOK'
  BY <1>1, <1>2, CallHasKey, NodesAssumption
  DEF Restart, StartSearch, TypeOK, Labels, Goto, AllNodes, fields, recovery
<1>5. ThreadInv(t)'
  BY SMTT(30), <1>1, <1>2, CallHasKey, NodesAssumption
  DEF Restart, StartSearch, Goto, TypeOK, ThreadInv, HoldsWhatItMay, NewNodeIsPrivate,
      SearchIsRight, LinkIsReady, TrimsMarkedNodes, MayHold, Linked, Private,
      Publishing, SentinelsAreFixed, ListIsSorted, AllNodes, fields, recovery
<1> QED
  BY <1>3, <1>4, <1>5, LocalMove

(* remove reads the link it will mark.                                      *)
LEMMA ReadSuccInv ==
  ASSUME IInv, NEW t \in Threads, ReadSucc(t)
  PROVE  IInv'
<1> USE DEF IInv
<1>1. pc[t] # "idle"
  BY DEF ReadSucc
<1>2. /\ MayHold(t, pred[t]) /\ MayHold(t, curr[t])
      /\ curr[t] \in AllNodes /\ key[curr[t]] \in Int
      /\ curr[t] # Tail => MayHold(t, next[curr[t]])
  BY <1>1, Holding
<1>3. Local(t)
  BY <1>1 DEF ReadSucc, Local, Goto, Private, TypeOK, fields, recovery
<1>4. TypeOK'
  BY <1>1, <1>2, CallHasKey, NodesAssumption
  DEF ReadSucc, TypeOK, Labels, Goto, AllNodes, fields, recovery
<1>5. ThreadInv(t)'
  BY <1>1, <1>2, CallHasKey, NodesAssumption
  DEF ReadSucc, Goto, TypeOK, ThreadInv, HoldsWhatItMay, NewNodeIsPrivate,
      SearchIsRight, LinkIsReady, TrimsMarkedNodes, MayHold, Linked, Private,
      Publishing, SentinelsAreFixed, ListIsSorted, AllNodes, fields, recovery
<1> QED
  BY <1>3, <1>4, <1>5, LocalMove

(* makeValid writes no field that the invariant speaks of.                  *)
LEMMA MakeValidInv ==
  ASSUME IInv, NEW t \in Threads, MakeValid(t)
  PROVE  IInv'
<1> USE DEF IInv
<1>1. pc[t] # "idle"
  BY DEF MakeValid, Target
<1>2. /\ MayHold(t, pred[t]) /\ MayHold(t, curr[t])
      /\ curr[t] \in AllNodes /\ key[curr[t]] \in Int
      /\ curr[t] # Tail => MayHold(t, next[curr[t]])
  BY <1>1, Holding
<1>3. Local(t)
  BY <1>1 DEF MakeValid, Target, Local, Goto, Private, TypeOK, fields, recovery
<1>4. TypeOK'
  BY <1>1, <1>2, CallHasKey, NodesAssumption
  DEF MakeValid, Target, TypeOK, Labels, Goto, AllNodes, fields, recovery
<1>5. ThreadInv(t)'
  BY <1>1, <1>2, CallHasKey, NodesAssumption
  DEF MakeValid, Target, Goto, TypeOK, ThreadInv, HoldsWhatItMay, NewNodeIsPrivate,
      SearchIsRight, LinkIsReady, TrimsMarkedNodes, MayHold, Linked, Private,
      Publishing, SentinelsAreFixed, ListIsSorted, AllNodes, fields, recovery
<1> QED
  BY <1>3, <1>4, <1>5, LocalMove

(* contains goes on to the next node.                                       *)
LEMMA ContainsStepInv ==
  ASSUME IInv, NEW t \in Threads, ContainsStep(t)
  PROVE  IInv'
<1> USE DEF IInv
<1>1. pc[t] # "idle"
  BY DEF ContainsStep
<1>2. /\ MayHold(t, pred[t]) /\ MayHold(t, curr[t])
      /\ curr[t] \in AllNodes /\ key[curr[t]] \in Int
      /\ curr[t] # Tail => MayHold(t, next[curr[t]])
  BY <1>1, Holding
<1>3. Local(t)
  BY <1>1 DEF ContainsStep, Local, Goto, Private, TypeOK, fields, recovery
<1>4. TypeOK'
  BY <1>1, <1>2, CallHasKey, NodesAssumption
  DEF ContainsStep, TypeOK, Labels, Goto, AllNodes, fields, recovery
<1>5. ThreadInv(t)'
  BY <1>1, <1>2, CallHasKey, NodesAssumption
  DEF ContainsStep, Goto, TypeOK, ThreadInv, HoldsWhatItMay, NewNodeIsPrivate,
      SearchIsRight, LinkIsReady, TrimsMarkedNodes, MayHold, Linked, Private,
      Publishing, SentinelsAreFixed, ListIsSorted, AllNodes, fields, recovery
<1> QED
  BY <1>3, <1>4, <1>5, LocalMove

(* contains stops at the key it looks for.                                  *)
LEMMA ContainsHitInv ==
  ASSUME IInv, NEW t \in Threads, ContainsHit(t)
  PROVE  IInv'
<1> USE DEF IInv
<1>1. pc[t] # "idle"
  BY DEF ContainsHit
<1>2. /\ MayHold(t, pred[t]) /\ MayHold(t, curr[t])
      /\ curr[t] \in AllNodes /\ key[curr[t]] \in Int
      /\ curr[t] # Tail => MayHold(t, next[curr[t]])
  BY <1>1, Holding
<1>3. Local(t)
  BY <1>1 DEF ContainsHit, Local, Goto, Private, TypeOK, fields, recovery
<1>4. TypeOK'
  BY <1>1, <1>2, CallHasKey, NodesAssumption
  DEF ContainsHit, TypeOK, Labels, Goto, AllNodes, fields, recovery
<1>5. ThreadInv(t)'
  BY <1>1, <1>2, CallHasKey, NodesAssumption
  DEF ContainsHit, Goto, TypeOK, ThreadInv, HoldsWhatItMay, NewNodeIsPrivate,
      SearchIsRight, LinkIsReady, TrimsMarkedNodes, MayHold, Linked, Private,
      Publishing, SentinelsAreFixed, ListIsSorted, AllNodes, fields, recovery
<1> QED
  BY <1>3, <1>4, <1>5, LocalMove

-----------------------------------------------------------------------------
(* The tests that fail and the flushes move one thread only, too. *)

(* What a step of the flush-and-flag sequences may change: NVM, its flag, its pc. *)
LEMMA FlagStepInv ==
  ASSUME IInv, NEW t \in Threads,
         pc[t] \in {"flushDelete", "setDelete", "flushInsert", "setInsert"},
         pc'[t] \in {"setDelete", "trim", "setInsert"},
         pc' = [pc EXCEPT ![t] = pc'[t]],
         pc[t] \in {"flushDelete", "setDelete"} <=> pc'[t] \in {"setDelete", "trim"},
         UNCHANGED <<valid, key, next, marked, heap, waits, call, pred, curr, succ,
                     newNode, result, recovery, outcomes>>,
         nvm' \in [Nodes -> Lines],
         insertFlag' \in [Nodes -> BOOLEAN],
         deleteFlag' \in [Nodes -> BOOLEAN]
  PROVE  IInv'
<1> USE DEF IInv
<1>1. Local(t)
  BY DEF Local, Private, TypeOK, recovery
<1>2. TypeOK'
  BY DEF TypeOK, Labels, recovery
<1>3. ThreadInv(t)'
  BY DEF ThreadInv, HoldsWhatItMay, NewNodeIsPrivate, SearchIsRight, LinkIsReady,
         TrimsMarkedNodes, MayHold, Linked, Private, Publishing
<1> QED
  BY <1>1, <1>2, <1>3, LocalMove

(* The cache line of a node is a record of the type nvm holds. *)
LEMMA LineType ==
  ASSUME TypeOK, NEW n \in Nodes
  PROVE  Line(n) \in Lines
BY DEF TypeOK, Line, Lines, Link, AllNodes

-----------------------------------------------------------------------------
(* Steps that change the list, the nodes off it, or who waits for whom.      *)

(* What another thread knows survives a step that takes nothing from it.     *)
LEMMA OthersKeep ==
  ASSUME NEW u \in Threads, ThreadInv(u),
         pc'[u] = pc[u], call'[u] = call[u], pred'[u] = pred[u],
         curr'[u] = curr[u], newNode'[u] = newNode[u],
         \A n : MayHold(u, n) =>
           MayHold(u, n)' /\ key'[n] = key[n] /\ (marked[n] => marked'[n]),
         pc[u] \in Private =>
           LET n == newNode[u]
           IN  heap'[n] = "owned" /\ next'[n] = next[n] /\ key'[n] = key[n] /\ marked'[n] = marked[n],
         pc[u] = "free" => heap'[curr[u]] = "unlinked"
  PROVE  ThreadInv(u)'
<1>1. CASE pc[u] = "idle"
  BY <1>1 DEF ThreadInv
<1>2. CASE pc[u] # "idle"
  <2> USE <1>2 DEF ThreadInv
  <2>1. HoldsWhatItMay(u)'
    BY DEF HoldsWhatItMay
  <2>2. NewNodeIsPrivate(u)'
    BY DEF NewNodeIsPrivate
  <2>3. SearchIsRight(u)'
    BY DEF SearchIsRight, HoldsWhatItMay
  <2>4. LinkIsReady(u)'
    BY DEF LinkIsReady, Private
  <2>5. TrimsMarkedNodes(u)'
    BY DEF TrimsMarkedNodes, HoldsWhatItMay
  <2> QED
    BY <2>1, <2>2, <2>3, <2>4, <2>5
<1> QED
  BY <1>1, <1>2

(* A response: nobody waits for the thread any more. *)
LEMMA ReturnInv ==
  ASSUME IInv, ~QuiesceOnFree, NEW t \in Threads, NEW r, pc[t] # "idle", Return(t, r),
         UNCHANGED <<valid, key, next, marked, heap, recovery>>,
         nvm' \in [Nodes -> Lines],
         insertFlag' \in [Nodes -> BOOLEAN],
         deleteFlag' \in [Nodes -> BOOLEAN]
  PROVE  IInv'
<1> USE DEF IInv
<1>1. TypeOK'
  BY DEF TypeOK, Return, Labels, recovery
<1>2. ListIsSorted' /\ SentinelsAreFixed'
  BY DEF ListIsSorted, Linked, SentinelsAreFixed
<1>3. \A u \in Threads \ {t} : \A n : MayHold(u, n) => MayHold(u, n)'
  BY DEF MayHold, Linked, Return
<1>4. RetiredIsClosed'
  BY <1>3 DEF RetiredIsClosed, Return, TypeOK
<1>5. ASSUME NEW u \in Threads
      PROVE  ThreadInv(u)'
  <2>1. CASE u = t
    BY <2>1 DEF ThreadInv, Return, TypeOK
  <2>2. CASE u # t
    BY <2>2, <1>3, OthersKeep
    DEF ThreadInv, NewNodeIsPrivate, TrimsMarkedNodes, Return, TypeOK
  <2> QED
    BY <2>1, <2>2
<1>6. ThreadsAreApart'
  BY DEF ThreadsAreApart, Return, TypeOK, Private
<1>7. RecoveryIsAlone'
  BY DEF RecoveryIsAlone, Return, TypeOK, recovery
<1> QED
  BY <1>1, <1>2, <1>4, <1>5, <1>6, <1>7

(* The five places where an operation answers without more ado. *)
LEMMA DoneInv ==
  ASSUME IInv, ~QuiesceOnFree, NEW t \in Threads, Done(t)
  PROVE  IInv'
BY ReturnInv DEF Done, IInv, TypeOK, fields

(* remove found no node of its key, and answers. *)
LEMMA FindMissRemoveInv ==
  ASSUME IInv, ~QuiesceOnFree, NEW t \in Threads, FindMissRemove(t)
  PROVE  IInv'
BY ReturnInv DEF FindMissRemove, FindStops, IInv, TypeOK, fields

(* contains found no node of its key, and answers. *)
LEMMA ContainsMissInv ==
  ASSUME IInv, ~QuiesceOnFree, NEW t \in Threads, ContainsMiss(t)
  PROVE  IInv'
BY ReturnInv DEF ContainsMiss, IInv, TypeOK, fields

(* FLUSH_DELETE, from the flush to the flag, wherever it was called. *)
LEMMA FlushDeleteInv ==
  ASSUME IInv, ~QuiesceOnFree, NEW t \in Threads, FlushDelete(t)
  PROVE  IInv'
<1>1. pc[t] = "flushDelete" /\ UNCHANGED <<fields, heap, recovery>>
  BY DEF FlushDelete
<1>2. nvm' \in [Nodes -> Lines] /\ insertFlag' \in [Nodes -> BOOLEAN] /\ deleteFlag' \in [Nodes -> BOOLEAN]
  <2>1. curr[t] \in Nodes
    BY <1>1 DEF IInv, ThreadInv, TrimsMarkedNodes
  <2> QED
    BY <1>1, <2>1, LineType DEF FlushDelete, FLUSH, IInv, TypeOK, fields
<1>3. CASE Return(t, FALSE)
  BY <1>1, <1>2, <1>3, ReturnInv DEF fields
<1>4. CASE ~Return(t, FALSE)
  <2>1. Goto(t, "setDelete") \/ Goto(t, "trim")
    BY <1>4 DEF FlushDelete, AfterFlushDelete
  <2>2. UNCHANGED <<waits, call, pred, curr, succ, newNode, result, outcomes>>
    BY <1>4 DEF FlushDelete, AfterFlushDelete
  <2>3. pc'[t] \in {"setDelete", "trim"} /\ pc' = [pc EXCEPT ![t] = pc'[t]]
    BY <2>1 DEF Goto, IInv, TypeOK
  <2> QED
    BY <1>1, <1>2, <2>2, <2>3, FlagStepInv DEF fields
<1> QED
  BY <1>3, <1>4

(* FLUSH_DELETE sets the flag, and the operation answers or trims. *)
LEMMA SetDeleteFlagInv ==
  ASSUME IInv, ~QuiesceOnFree, NEW t \in Threads, SetDeleteFlag(t)
  PROVE  IInv'
<1>1. /\ pc[t] = "setDelete"
      /\ UNCHANGED <<valid, insertFlag, key, next, marked, nvm, heap, recovery>>
  BY DEF SetDeleteFlag
<1>2. nvm' \in [Nodes -> Lines] /\ insertFlag' \in [Nodes -> BOOLEAN] /\ deleteFlag' \in [Nodes -> BOOLEAN]
  BY <1>1 DEF SetDeleteFlag, IInv, TypeOK
<1>3. CASE Return(t, FALSE)
  BY <1>1, <1>2, <1>3, ReturnInv
<1>4. CASE ~Return(t, FALSE)
  <2>1. Goto(t, "trim") /\ UNCHANGED <<waits, call, pred, curr, succ, newNode, result, outcomes>>
    BY <1>4 DEF SetDeleteFlag, AfterFlushDelete
  <2>2. pc'[t] \in {"setDelete", "trim"} /\ pc' = [pc EXCEPT ![t] = pc'[t]]
    BY <2>1 DEF Goto, IInv, TypeOK
  <2> QED
    BY <1>1, <1>2, <2>1, <2>2, FlagStepInv
<1> QED
  BY <1>3, <1>4

(* FLUSH_INSERT, on the new node or on the one found. *)
LEMMA TargetIsNode ==
  ASSUME IInv, NEW t \in Threads, pc[t] \in Publishing
  PROVE  Target(t) \in Nodes
<1>1. CASE newNode[t] # Nil
  BY <1>1 DEF Target, IInv, TypeOK
<1>2. CASE newNode[t] = Nil
  <2>1. key[curr[t]] = call[t].arg /\ curr[t] \in AllNodes
    BY <1>2, Holding DEF IInv, ThreadInv, SearchIsRight, Publishing
  <2>2. curr[t] # Head /\ curr[t] # Tail
    BY <2>1, CallHasKey, KeysAssumption DEF IInv, SentinelsAreFixed, Publishing
  <2> QED
    BY <1>2, <2>1, <2>2 DEF Target, AllNodes
<1> QED
  BY <1>1, <1>2

(* FLUSH_INSERT flushes the node it is about. *)
LEMMA FlushInsertInv ==
  ASSUME IInv, ~QuiesceOnFree, NEW t \in Threads, FlushInsert(t)
  PROVE  IInv'
<1>1. pc[t] = "flushInsert" /\ UNCHANGED <<fields, heap, recovery>>
  BY DEF FlushInsert
<1>2. nvm' \in [Nodes -> Lines] /\ insertFlag' \in [Nodes -> BOOLEAN] /\ deleteFlag' \in [Nodes -> BOOLEAN]
  <2>1. Target(t) \in Nodes
    BY <1>1, TargetIsNode DEF Publishing
  <2> QED
    BY <1>1, <2>1, LineType DEF FlushInsert, FLUSH, IInv, TypeOK, fields
<1>3. CASE Return(t, result[t])
  BY <1>1, <1>2, <1>3, ReturnInv DEF fields
<1>4. CASE ~Return(t, result[t])
  <2>1. Goto(t, "setInsert") /\ UNCHANGED <<waits, call, pred, curr, succ, newNode, result, outcomes>>
    BY <1>4 DEF FlushInsert
  <2>2. pc'[t] = "setInsert" /\ pc' = [pc EXCEPT ![t] = pc'[t]]
    BY <2>1 DEF Goto, IInv, TypeOK
  <2> QED
    BY <1>1, <1>2, <2>1, <2>2, FlagStepInv DEF fields
<1> QED
  BY <1>3, <1>4

(* FLUSH_INSERT sets the flag, and the operation answers. *)
LEMMA SetInsertFlagInv ==
  ASSUME IInv, ~QuiesceOnFree, NEW t \in Threads, SetInsertFlag(t)
  PROVE  IInv'
BY ReturnInv DEF SetInsertFlag, IInv, TypeOK

-----------------------------------------------------------------------------
(* The steps that change the list, or what other threads hold. *)

(* A node that nobody waits for is held by nobody unless it is on the list:  *)
(* no operation can be looking at the node an insert owns.                   *)
LEMMA OwnedIsNotHeld ==
  ASSUME IInv, NEW n \in Nodes, heap[n] = "owned"
  PROVE  /\ n \notin Linked
         /\ \A u \in Threads : ~MayHold(u, n)
         /\ waits[n] = {}
BY ZenonT(40), NodesAssumption DEF IInv, TypeOK, MayHold, Linked, RetiredIsClosed

(* The predecessor of a search is on the list unless it is marked.           *)
LEMMA PredIsLinked ==
  ASSUME IInv, NEW t \in Threads, pc[t] # "idle", Expects(pred[t], curr[t])
  PROVE  /\ pred[t] \in Linked /\ pred[t] # Tail
         /\ key[pred[t]] < call[t].arg
         /\ next[pred[t]] = curr[t]
         /\ curr[t] \in Linked \union {Tail}
<1>1. MayHold(t, pred[t]) /\ key[pred[t]] < call[t].arg
  BY DEF IInv, ThreadInv, HoldsWhatItMay, SearchIsRight
<1>2. pred[t] # Tail
  BY <1>1, Holding, CallHasKey, KeysAssumption DEF IInv, SentinelsAreFixed
<1>3. pred[t] \in Linked
  BY <1>1, <1>2, UnmarkedIsLinked DEF IInv, Expects
<1> QED
  BY <1>1, <1>2, <1>3 DEF Expects, IInv, ListIsSorted

(* Tail is on the far side of every linked node. *)
LEMMA LinkedIsNode ==
  ASSUME IInv, NEW n \in Linked
  PROVE  /\ n \in AllNodes /\ n # Tail /\ key[n] \in Int
         /\ next[n] \in AllNodes /\ key[next[n]] \in Int
         /\ n # Head => n \in Nodes /\ heap[n] = "linked"
<1>1. n \in AllNodes /\ n # Tail /\ (n # Head => n \in Nodes /\ heap[n] = "linked")
  BY NodesAssumption DEF Linked, AllNodes
<1>2. next[n] \in AllNodes
  BY <1>1, NodesAssumption DEF IInv, ListIsSorted, Linked, AllNodes
<1> QED
  BY <1>1, <1>2 DEF IInv, TypeOK

-----------------------------------------------------------------------------
(* A node is taken off the list. *)

(* The CAS of trim: it unlinks the marked node, or fails and changes nothing. *)
LEMMA TrimInv ==
  ASSUME IInv, ~QuiesceOnFree, NEW t \in Threads, Trim(t)
  PROVE  IInv'
<1> USE DEF IInv
<1>1. pc[t] = "trim" /\ curr[t] \in Nodes /\ marked[curr[t]]
  BY DEF Trim, ThreadInv, TrimsMarkedNodes
<1>2. CASE ~Expects(pred[t], curr[t])
  <2>1. /\ UNCHANGED <<key, next, marked, heap, waits, call, pred, curr, succ, newNode, phase, todo, burying>>
        /\ pc' = [pc EXCEPT ![t] = pc'[t]] /\ pc'[t] \in {"done", "advance"}
    BY <1>2 DEF Trim, Goto, TypeOK, recovery
  <2>2. Local(t)
    BY <1>1, <2>1 DEF Local, Private, TypeOK
  <2>3. TypeOK'
    BY <1>2, <2>1 DEF Trim, TypeOK, Labels, recovery
  <2>4. ThreadInv(t)'
    BY <1>1, <2>1, NodesAssumption
    DEF ThreadInv, HoldsWhatItMay, NewNodeIsPrivate, SearchIsRight, LinkIsReady, TypeOK,
        TrimsMarkedNodes, MayHold, Linked, Private, Publishing, AllNodes
  <2> QED
    BY <2>2, <2>3, <2>4, LocalMove
<1>3. CASE Expects(pred[t], curr[t])
  <2> DEFINE p == pred[t]
             c == curr[t]
  <2>1. /\ p \in Linked /\ c \in Linked /\ next[p] = c /\ heap[c] = "linked"
        /\ key[p] \in Int /\ key[c] \in Int /\ key[next[c]] \in Int /\ p \in AllNodes
        /\ next[c] \in Linked \union {Tail}
        /\ key[p] < key[c] /\ key[c] < key[next[c]]
    <3>1. p \in Linked /\ next[p] = c /\ c \in Linked
      BY <1>1, <1>3, PredIsLinked, NodesAssumption DEF AllNodes
    <3>2. next[c] \in Linked \union {Tail} /\ key[p] < key[c] /\ key[c] < key[next[c]]
      BY <3>1 DEF ListIsSorted
    <3> QED
      BY <1>1, <3>1, <3>2, LinkedIsNode, NodesAssumption DEF Linked
  <2>2. p # c /\ next[c] # c /\ next[c] # p
    BY <2>1
  <2>3. /\ next' = [next EXCEPT ![p] = next[c]]
        /\ heap' = [heap EXCEPT ![c] = "unlinked"]
        /\ waits' = [waits EXCEPT ![c] = Busy]
        /\ pc' = [pc EXCEPT ![t] = "free"]
        /\ UNCHANGED <<valid, insertFlag, deleteFlag, key, marked, nvm, call, pred, curr, succ, newNode, result, recovery>>
    BY <1>3 DEF Trim, Unlink, Goto
  <2>4. Linked' = Linked \ {c}
    BY <1>1, <2>3, NodesAssumption DEF Linked, TypeOK, AllNodes
  <2>5. TypeOK'
    BY <1>1, <2>1, <2>3, LinkedIsNode DEF TypeOK, Busy, Labels, recovery, Linked, AllNodes
  <2>6. \A m \in Linked : next[m] = c => m = p
    <3> TAKE m \in Linked
    <3> HAVE next[m] = c
    <3>1. key[m] \in Int /\ key[m] < key[c]
      BY LinkedIsNode DEF ListIsSorted
    <3>2. ~(key[p] < key[m] /\ key[m] < key[c]) /\ ~(key[m] < key[p] /\ key[p] < key[c])
      BY <2>1 DEF ListIsSorted
    <3>3. key[m] = key[p]
      BY <2>1, <3>1, <3>2
    <3> QED
      BY <2>1, <3>3 DEF ListIsSorted
  <2>7. \A m \in Linked' : m \in Linked /\ m # c /\ next'[m] = IF m = p THEN next[c] ELSE next[m]
    BY <2>1, <2>3, <2>4, LinkedIsNode DEF TypeOK
  <2>8. ListIsSorted'
    <3>1. ASSUME NEW m \in Linked'
          PROVE  next'[m] \in Linked' \union {Tail} /\ key[m] < key[next'[m]]
      <4>1. CASE m = p
        BY <2>1, <2>2, <2>4, <2>7, <4>1
      <4>2. CASE m # p
        BY <2>4, <2>6, <2>7, <4>2 DEF ListIsSorted
      <4> QED
        BY <4>1, <4>2
    <3>2. ASSUME NEW m \in Linked', NEW n \in Linked'
          PROVE  ~(key[m] < key[n] /\ key[n] < key[next'[m]])
      <4>1. CASE m = p
        <5>1. next'[m] = next[c] /\ n \in Linked /\ n # c /\ key[n] \in Int
          BY <2>7, <4>1, LinkedIsNode
        <5>2. ~(key[p] < key[n] /\ key[n] < key[c]) /\ ~(key[c] < key[n] /\ key[n] < key[next[c]])
          BY <2>1, <5>1 DEF ListIsSorted
        <5>3. key[n] # key[c]
          BY <2>1, <5>1 DEF ListIsSorted
        <5> QED
          BY <2>1, <4>1, <5>1, <5>2, <5>3
      <4>2. CASE m # p
        BY <2>7, <4>2 DEF ListIsSorted
      <4> QED
        BY <4>1, <4>2
    <3>3. \A m, n \in Linked' : key[m] = key[n] => m = n
      BY <2>4 DEF ListIsSorted
    <3> QED
      BY <2>3, <3>1, <3>2, <3>3 DEF ListIsSorted
  <2>9. SentinelsAreFixed'
    BY <2>3 DEF SentinelsAreFixed
  <2>10. \A u \in Threads : pc[u] # "idle" => \A n : MayHold(u, n) => MayHold(u, n)'
    BY <1>1, <2>3, <2>4 DEF MayHold, Busy, TypeOK
  <2>11. RetiredIsClosed'
    <3> SUFFICES ASSUME NEW n \in Nodes, NEW u \in waits'[n]
                 PROVE  /\ heap'[n] \in {"unlinked", "free"} /\ marked[n] /\ pc'[u] # "idle"
                        /\ MayHold(u, next[n])'
      BY <2>3 DEF RetiredIsClosed
    <3>1. u \in Threads
      BY <2>5 DEF TypeOK
    <3>2. CASE n = c
      <4>1. heap'[n] = "unlinked" /\ marked[n] /\ u \in Busy
        BY <1>1, <2>3, <3>2 DEF TypeOK
      <4>2. next'[n] = next[c]
        BY <1>1, <2>2, <2>3, <3>2 DEF TypeOK
      <4>3. MayHold(u, next[n])'
        BY <2>1, <2>2, <2>4, <4>2 DEF MayHold
      <4> QED
        BY <1>1, <2>3, <4>1, <4>3, <3>1 DEF Busy, TypeOK
    <3>3. CASE n # c
      <4>1. u \in waits[n] /\ heap'[n] = heap[n]
        BY <1>1, <2>3, <3>3 DEF TypeOK
      <4>2. heap[n] \in {"unlinked", "free"} /\ marked[n] /\ pc[u] # "idle" /\ MayHold(u, next[n])
        BY <4>1 DEF RetiredIsClosed
      <4>3. next'[n] = next[n]
        BY <2>1, <2>3, <4>2, NodesAssumption DEF TypeOK, Linked, AllNodes
      <4> QED
        BY <2>3, <2>10, <3>1, <4>1, <4>2, <4>3 DEF TypeOK
    <3> QED
      BY <3>2, <3>3
  <2>12. ASSUME NEW u \in Threads
         PROVE  ThreadInv(u)'
    <3>1. CASE u = t
      <4>1. /\ pc'[t] = "free" /\ heap'[c] = "unlinked"
            /\ MayHold(t, p)' /\ MayHold(t, c)'
        BY <1>1, <2>3, <2>10, Holding DEF TypeOK
      <4> QED
        BY <1>1, <2>3, <3>1, <4>1
        DEF ThreadInv, HoldsWhatItMay, NewNodeIsPrivate, SearchIsRight, LinkIsReady,
            TrimsMarkedNodes, Private, Publishing
    <3>2. CASE u # t
      <4>1. pc'[u] = pc[u]
        BY <2>3, <3>2 DEF TypeOK
      <4>2. pc[u] \in Private =>
              /\ heap'[newNode[u]] = "owned" /\ next'[newNode[u]] = next[newNode[u]]
        <5> SUFFICES ASSUME pc[u] \in Private
                     PROVE  heap'[newNode[u]] = "owned" /\ next'[newNode[u]] = next[newNode[u]]
          OBVIOUS
        <5>1. newNode[u] \in Nodes /\ heap[newNode[u]] = "owned"
          BY DEF ThreadInv, NewNodeIsPrivate, Private
        <5>2. newNode[u] # c /\ newNode[u] # p
          BY <2>1, <5>1, OwnedIsNotHeld
        <5> QED
          BY <2>3, <5>1, <5>2 DEF TypeOK, AllNodes
      <4>3. pc[u] = "free" => heap'[curr[u]] = "unlinked"
        BY <1>1, <2>3 DEF ThreadInv, TrimsMarkedNodes, TypeOK
      <4>4. pc[u] = "idle" => ThreadInv(u)'
        BY <2>3, <4>1 DEF ThreadInv
      <4>5. pc[u] # "idle" => ThreadInv(u)'
        BY <2>3, <2>10, <4>1, <4>2, <4>3, OthersKeep
      <4> QED
        BY <4>4, <4>5
    <3> QED
      BY <3>1, <3>2
  <2>13. ThreadsAreApart'
    <3>1. \A u \in Threads : pc[u] = "free" => curr[u] # c
      BY <2>1 DEF ThreadInv, TrimsMarkedNodes
    <3> QED
      BY <1>1, <2>3, <3>1 DEF ThreadsAreApart, Private, TypeOK
  <2>14. RecoveryIsAlone'
    BY <1>1, <2>1, <2>3 DEF RecoveryIsAlone, TypeOK, recovery, Busy
  <2> QED
    BY <2>5, <2>8, <2>9, <2>11, <2>12, <2>13, <2>14
<1> QED
  BY <1>2, <1>3

-----------------------------------------------------------------------------
(* A node x off the list, which nobody holds or which keeps its fields, is   *)
(* freed, taken or written by t.                                             *)
OffList(t, x) ==
  /\ pc[t] # "idle" /\ pc'[t] # "idle" /\ pc'[t] # "free"
  /\ heap[x] # "linked"
  /\ heap'[x] \in {"free", "owned"} /\ heap' = [heap EXCEPT ![x] = heap'[x]]
  /\ UNCHANGED <<waits, phase, todo, burying>>
  /\ \A n \in AllNodes \ {x} :
       key'[n] = key[n] /\ next'[n] = next[n] /\ marked'[n] = marked[n]
  /\ waits[x] = {} \/ (heap'[x] = "free" /\ UNCHANGED <<key, next, marked>>)
  /\ \A u \in Threads \ {t} :
       /\ pc'[u] = pc[u] /\ call'[u] = call[u] /\ pred'[u] = pred[u]
       /\ curr'[u] = curr[u] /\ newNode'[u] = newNode[u]
       /\ pc[u] \in Private => newNode[u] # x
       /\ pc[u] = "free" => curr[u] # x
  /\ pc'[t] \in Private => newNode'[t] = x

(* A step that writes only a node no list holds, and moves only its owner. *)
LEMMA OffListStep ==
  ASSUME IInv, NEW t \in Threads, NEW x \in Nodes, OffList(t, x), TypeOK', ThreadInv(t)'
  PROVE  IInv'
<1> USE DEF IInv, OffList
<1>1. x \notin Linked /\ Linked' = Linked
  BY NodesAssumption DEF Linked, TypeOK, AllNodes
<1>2. \A n \in Linked : n \in AllNodes \ {x} /\ key'[n] = key[n] /\ next'[n] = next[n]
  BY <1>1, LinkedIsNode
<1>3. \A n \in Linked : key'[next[n]] = key[next[n]]
  BY <1>1, <1>2, NodesAssumption DEF ListIsSorted, AllNodes
<1>4. ListIsSorted'
  BY <1>1, <1>2, <1>3 DEF ListIsSorted
<1>5. SentinelsAreFixed'
  BY NodesAssumption DEF SentinelsAreFixed, AllNodes
<1>6. \A u \in Threads : \A n : MayHold(u, n) <=> MayHold(u, n)'
  BY <1>1 DEF MayHold
<1>7. RetiredIsClosed'
  <2> SUFFICES ASSUME NEW n \in Nodes, NEW u \in waits[n]
               PROVE  /\ heap'[n] \in {"unlinked", "free"} /\ marked'[n] /\ pc'[u] # "idle"
                      /\ MayHold(u, next[n])'
                      /\ next'[n] = next[n]
    BY DEF RetiredIsClosed
  <2>1. /\ u \in Threads
        /\ heap[n] \in {"unlinked", "free"} /\ marked[n] /\ pc[u] # "idle"
        /\ MayHold(u, next[n])
    BY DEF RetiredIsClosed, TypeOK
  <2>2. heap'[n] \in {"unlinked", "free"}
    BY <2>1 DEF TypeOK
  <2>3. marked'[n] = marked[n] /\ next'[n] = next[n]
    BY DEF AllNodes
  <2> QED
    BY <1>6, <2>1, <2>2, <2>3
<1>8. ASSUME NEW u \in Threads
      PROVE  ThreadInv(u)'
  <2>1. CASE u = t
    BY <2>1
  <2>2. CASE u # t
    <3>1. pc[u] # "idle" => \A n : MayHold(u, n) =>
            /\ MayHold(u, n)' /\ key'[n] = key[n] /\ (marked[n] => marked'[n])
      <4> SUFFICES ASSUME NEW n, MayHold(u, n)
                   PROVE  key'[n] = key[n] /\ marked'[n] = marked[n]
        BY <1>6
      <4>1. CASE n = x
        BY <1>1, <4>1, NodesAssumption DEF MayHold, AllNodes
      <4>2. CASE n # x
        BY <4>2, HeldIsNode
      <4> QED
        BY <4>1, <4>2
    <3>2. pc[u] \in Private =>
            /\ heap'[newNode[u]] = "owned" /\ next'[newNode[u]] = next[newNode[u]]
            /\ key'[newNode[u]] = key[newNode[u]] /\ marked'[newNode[u]] = marked[newNode[u]]
      <4> SUFFICES ASSUME pc[u] \in Private
                   PROVE  newNode[u] \in Nodes /\ newNode[u] # x /\ heap[newNode[u]] = "owned"
        BY DEF TypeOK, AllNodes
      <4> QED
        BY <2>2 DEF ThreadInv, NewNodeIsPrivate, Private
    <3>3. pc[u] = "free" => heap'[curr[u]] = "unlinked"
      BY <2>2 DEF ThreadInv, TrimsMarkedNodes, TypeOK
    <3>4. pc[u] = "idle" => ThreadInv(u)'
      BY <2>2 DEF ThreadInv
    <3> QED
      BY <2>2, <3>1, <3>2, <3>3, <3>4, OthersKeep
  <2> QED
    BY <2>1, <2>2
<1>9. ThreadsAreApart'
  BY DEF ThreadsAreApart
<1>10. RecoveryIsAlone'
  BY DEF RecoveryIsAlone, TypeOK
<1> QED
  BY <1>4, <1>5, <1>7, <1>8, <1>9, <1>10

(* The thread that unlinked a node frees it. *)
LEMMA FreeTrimmedInv ==
  ASSUME IInv, ~QuiesceOnFree, NEW t \in Threads, FreeTrimmed(t)
  PROVE  IInv'
<1> USE DEF IInv
<1>1. pc[t] = "free" /\ curr[t] \in Nodes /\ marked[curr[t]] /\ heap[curr[t]] = "unlinked"
  BY DEF FreeTrimmed, ThreadInv, TrimsMarkedNodes
<1>2. /\ UNCHANGED <<key, next, marked, waits, call, pred, curr, newNode, phase, todo, burying>>
      /\ heap' = [heap EXCEPT ![curr[t]] = "free"]
      /\ pc' = [pc EXCEPT ![t] = pc'[t]] /\ pc'[t] \in {"done", "advance"}
  BY DEF FreeTrimmed, Free, Goto, TypeOK, fields, recovery
<1>3. TypeOK'
  BY <1>1, <1>2 DEF FreeTrimmed, TypeOK, Labels, fields, recovery
<1>4. ThreadInv(t)'
  BY <1>1, <1>2, NodesAssumption
  DEF ThreadInv, HoldsWhatItMay, NewNodeIsPrivate, SearchIsRight, LinkIsReady, TypeOK,
      TrimsMarkedNodes, MayHold, Linked, Private, Publishing, AllNodes
<1>5. \A u \in Threads \ {t} :
        /\ pc[u] \in Private => newNode[u] # curr[t]
        /\ pc[u] = "free" => curr[u] # curr[t]
  BY <1>1 DEF ThreadsAreApart, ThreadInv, NewNodeIsPrivate, Private
<1>6. OffList(t, curr[t])
  BY <1>1, <1>2, <1>5 DEF OffList, Private, TypeOK
<1> QED
  BY <1>6, <1>1, <1>3, <1>4, OffListStep

(* insert takes a free node that nobody holds. *)
LEMMA AllocNodeInv ==
  ASSUME IInv, NEW t \in Threads, AllocNode(t)
  PROVE  IInv'
<1> USE DEF IInv
<1>1. PICK x \in Nodes :
        /\ Allocatable(x)
        /\ heap' = [heap EXCEPT ![x] = "owned"]
        /\ valid' = [valid EXCEPT ![x] = ~valid[x]]
        /\ newNode' = [newNode EXCEPT ![t] = x]
  BY DEF AllocNode
<1>2. /\ pc[t] = "alloc" /\ pc' = [pc EXCEPT ![t] = "init"]
      /\ UNCHANGED <<insertFlag, deleteFlag, key, next, marked, nvm, waits, call, pred,
                     curr, succ, result, recovery>>
  BY DEF AllocNode, Goto
<1>3. heap[x] = "free" /\ waits[x] = {}
  BY <1>1 DEF Allocatable
<1>4. TypeOK'
  BY <1>1, <1>2 DEF TypeOK, Labels, recovery
<1>5. ThreadInv(t)'
  BY <1>1, <1>2, <1>3, NodesAssumption
  DEF ThreadInv, HoldsWhatItMay, NewNodeIsPrivate, SearchIsRight, LinkIsReady, TypeOK,
      TrimsMarkedNodes, MayHold, Linked, Private, Publishing, AllNodes
<1>6. \A u \in Threads \ {t} :
        /\ pc[u] \in Private => newNode[u] # x
        /\ pc[u] = "free" => curr[u] # x
  BY <1>3 DEF ThreadInv, NewNodeIsPrivate, TrimsMarkedNodes, Private
<1>7. OffList(t, x)
  BY <1>1, <1>2, <1>3, <1>6 DEF OffList, TypeOK, recovery
<1> QED
  BY <1>7, <1>4, <1>5, OffListStep

(* What an insert may assume of the node it owns. *)
LEMMA OwnNode ==
  ASSUME IInv, NEW t \in Threads, pc[t] \in Private
  PROVE  /\ newNode[t] \in Nodes /\ heap[newNode[t]] = "owned" /\ waits[newNode[t]] = {}
         /\ newNode[t] \notin Linked /\ newNode[t] # curr[t] /\ newNode[t] # pred[t]
         /\ call[t].op = "insert"
         /\ \A u \in Threads \ {t} :
              /\ pc[u] \in Private => newNode[u] # newNode[t]
              /\ pc[u] = "free" => curr[u] # newNode[t]
<1>1. pc[t] # "idle" /\ newNode[t] \in Nodes /\ heap[newNode[t]] = "owned" /\ call[t].op = "insert"
  BY NodesAssumption DEF IInv, ThreadInv, NewNodeIsPrivate, Private, AllNodes
<1>2. newNode[t] # curr[t] /\ newNode[t] # pred[t]
  BY <1>1, Holding, OwnedIsNotHeld
<1>3. \A u \in Threads \ {t} :
        /\ pc[u] \in Private => newNode[u] # newNode[t]
        /\ pc[u] = "free" => curr[u] # newNode[t]
  BY <1>1 DEF IInv, ThreadsAreApart, ThreadInv, TrimsMarkedNodes
<1> QED
  BY <1>1, <1>2, <1>3, OwnedIsNotHeld

(* insert writes its node before it links it. *)
LEMMA InitNodeInv ==
  ASSUME IInv, NEW t \in Threads, InitNode(t)
  PROVE  IInv'
<1> USE DEF IInv
<1> DEFINE x == newNode[t]
<1>1. /\ pc[t] = "init" /\ pc' = [pc EXCEPT ![t] = "link"]
      /\ insertFlag' = [insertFlag EXCEPT ![x] = FALSE]
      /\ deleteFlag' = [deleteFlag EXCEPT ![x] = FALSE]
      /\ key' = [key EXCEPT ![x] = call[t].arg]
      /\ next' = [next EXCEPT ![x] = curr[t]]
      /\ marked' = [marked EXCEPT ![x] = FALSE]
      /\ UNCHANGED <<valid, nvm, heap, waits, call, pred, curr, succ, newNode, result, recovery>>
  BY DEF InitNode, Goto
<1>2. /\ x \in Nodes /\ heap[x] = "owned" /\ waits[x] = {} /\ x \notin Linked
      /\ x # curr[t] /\ x # pred[t] /\ call[t].op = "insert"
      /\ \A u \in Threads \ {t} : /\ pc[u] \in Private => newNode[u] # x
                                  /\ pc[u] = "free" => curr[u] # x
  BY <1>1, OwnNode DEF Private
<1>3. /\ MayHold(t, pred[t]) /\ MayHold(t, curr[t])
      /\ pred[t] \in AllNodes /\ curr[t] \in AllNodes
  BY <1>1, Holding
<1>4. TypeOK'
  BY <1>1, <1>2, <1>3, CallHasKey DEF TypeOK, Labels, AllNodes, recovery
<1>5. ThreadInv(t)'
  <2>1. key'[pred[t]] = key[pred[t]] /\ key'[curr[t]] = key[curr[t]]
    BY <1>1, <1>2, <1>3 DEF TypeOK
  <2>2. MayHold(t, pred[t])' /\ MayHold(t, curr[t])'
    BY <1>1, <1>3 DEF MayHold, Linked
  <2>3. next'[x] = curr[t] /\ ~marked'[x] /\ key'[x] = call[t].arg
    BY <1>1, <1>2 DEF TypeOK, AllNodes
  <2> QED
    BY <1>1, <1>2, <2>1, <2>2, <2>3
    DEF TypeOK, ThreadInv, HoldsWhatItMay, NewNodeIsPrivate, SearchIsRight, LinkIsReady,
        TrimsMarkedNodes, Private, Publishing
<1>6. heap' = [heap EXCEPT ![x] = "owned"]
  BY <1>1, <1>2 DEF TypeOK
<1>7. \A n \in AllNodes \ {x} :
        key'[n] = key[n] /\ next'[n] = next[n] /\ marked'[n] = marked[n]
  BY <1>1 DEF TypeOK
<1>8. OffList(t, x)
  BY ZenonT(60), <1>1, <1>2, <1>6, <1>7 DEF OffList, TypeOK, recovery
<1> QED
  BY <1>8, <1>2, <1>4, <1>5, OffListStep

(* The node that lost the race is marked. *)
LEMMA MarkUnlinkedInv ==
  ASSUME IInv, NEW t \in Threads, MarkUnlinked(t)
  PROVE  IInv'
<1> USE DEF IInv
<1> DEFINE x == newNode[t]
<1>1. /\ pc[t] = "markUnlinked" /\ pc' = [pc EXCEPT ![t] = "undo"]
      /\ next' = [next EXCEPT ![x] = Nil]
      /\ marked' = [marked EXCEPT ![x] = TRUE]
      /\ UNCHANGED <<valid, insertFlag, deleteFlag, key, nvm, heap, waits, call, pred,
                     curr, succ, newNode, result, recovery>>
  BY DEF MarkUnlinked, Goto
<1>2. /\ x \in Nodes /\ heap[x] = "owned" /\ waits[x] = {} /\ x \notin Linked
      /\ x # curr[t] /\ x # pred[t] /\ call[t].op = "insert"
      /\ \A u \in Threads \ {t} : /\ pc[u] \in Private => newNode[u] # x
                                  /\ pc[u] = "free" => curr[u] # x
  BY <1>1, OwnNode DEF Private
<1>3. TypeOK'
  BY <1>1, <1>2 DEF TypeOK, Labels, AllNodes, recovery
<1>4. ThreadInv(t)'
  <2>1. MayHold(t, pred[t])' /\ MayHold(t, curr[t])'
    BY <1>1, Holding DEF MayHold, Linked
  <2> QED
    BY <1>1, <1>2, <2>1
    DEF TypeOK, ThreadInv, HoldsWhatItMay, NewNodeIsPrivate, SearchIsRight, LinkIsReady,
        TrimsMarkedNodes, Private, Publishing
<1>5. heap' = [heap EXCEPT ![x] = "owned"]
  BY <1>1, <1>2 DEF TypeOK
<1>6. \A n \in AllNodes \ {x} :
        key'[n] = key[n] /\ next'[n] = next[n] /\ marked'[n] = marked[n]
  BY <1>1 DEF TypeOK
<1>7. OffList(t, x)
  BY <1>1, <1>2, <1>5, <1>6 DEF OffList, TypeOK, recovery
<1> QED
  BY <1>7, <1>2, <1>3, <1>4, OffListStep

(* ... and goes back to the allocator. *)
LEMMA UndoInsertInv ==
  ASSUME IInv, ~QuiesceOnFree, NEW t \in Threads, UndoInsert(t)
  PROVE  IInv'
<1> USE DEF IInv
<1> DEFINE x == newNode[t]
<1>1. /\ pc[t] = "undo" /\ pc' = [pc EXCEPT ![t] = "restart"]
      /\ valid' = [valid EXCEPT ![x] = TRUE]
      /\ heap' = [heap EXCEPT ![x] = "free"]
      /\ newNode' = [newNode EXCEPT ![t] = Nil]
      /\ UNCHANGED <<insertFlag, deleteFlag, key, next, marked, nvm, waits, call, pred,
                     curr, succ, result, recovery>>
  BY DEF UndoInsert, Free, Goto
<1>2. /\ x \in Nodes /\ heap[x] = "owned" /\ waits[x] = {} /\ x \notin Linked
      /\ x # curr[t] /\ x # pred[t] /\ call[t].op = "insert"
      /\ \A u \in Threads \ {t} : /\ pc[u] \in Private => newNode[u] # x
                                  /\ pc[u] = "free" => curr[u] # x
  BY <1>1, OwnNode DEF Private
<1>3. TypeOK'
  BY <1>1, <1>2 DEF TypeOK, Labels, recovery
<1>4. ThreadInv(t)'
  <2>1. MayHold(t, pred[t])' /\ MayHold(t, curr[t])'
    BY <1>1, <1>2, Holding DEF MayHold, Linked, TypeOK
  <2> QED
    BY <1>1, <1>2, <2>1
    DEF TypeOK, ThreadInv, HoldsWhatItMay, NewNodeIsPrivate, SearchIsRight, LinkIsReady,
        TrimsMarkedNodes, Private, Publishing
<1>5. OffList(t, x)
  BY <1>1, <1>2 DEF OffList, TypeOK, recovery, Private
<1> QED
  BY <1>5, <1>2, <1>3, <1>4, OffListStep

-----------------------------------------------------------------------------
(* A node x is put on the list between p and its successor. *)
Inserts(p, x) ==
  /\ p \in Linked /\ x \notin Linked
  /\ Linked' = Linked \union {x}
  /\ UNCHANGED key
  /\ \A m \in Linked : next'[m] = IF m = p THEN x ELSE next[m]
  /\ next'[x] = next[p]
  /\ key[x] \in Int
  /\ key[p] < key[x] /\ key[x] < key[next[p]]

(* An insertion where the key belongs keeps the list sorted. *)
LEMMA InsertionSorts ==
  ASSUME IInv, NEW p, NEW x, Inserts(p, x)
  PROVE  ListIsSorted'
<1> USE DEF Inserts
<1>1. \A m \in Linked : key[m] \in Int /\ key[next[m]] \in Int
  BY LinkedIsNode
<1>2. ASSUME NEW m \in Linked, key[m] # key[p]
      PROVE  /\ ~(key[m] < key[p] /\ key[p] < key[next[m]])
             /\ key[p] < key[m] => key[next[p]] <= key[m]
             /\ key[m] < key[p] => key[next[m]] <= key[p]
  BY <1>1 DEF IInv, ListIsSorted
<1>3. ASSUME NEW m \in Linked
      PROVE  key[m] # key[x]
  BY <1>1, <1>2
<1>4. ASSUME NEW m \in Linked'
      PROVE  next'[m] \in Linked' \union {Tail} /\ key[m] < key[next'[m]]
  BY <1>4 DEF IInv, ListIsSorted
<1>5. ASSUME NEW m \in Linked', NEW n \in Linked'
      PROVE  ~(key[m] < key[n] /\ key[n] < key[next'[m]])
  <2>1. CASE m = x /\ n = x
    BY <2>1
  <2>2. CASE m = x /\ n \in Linked
    <3>1. ~(key[p] < key[n] /\ key[n] < key[next[p]])
      BY <2>2 DEF IInv, ListIsSorted
    <3> QED
      BY <1>1, <2>2, <3>1
  <2>3. CASE m = p /\ n \in Linked'
    <3>1. next'[m] = x
      BY <2>3
    <3>2. CASE n = x
      BY <3>1, <3>2
    <3>3. CASE n \in Linked
      <4>1. ~(key[p] < key[n] /\ key[n] < key[next[p]])
        BY <3>3 DEF IInv, ListIsSorted
      <4> QED
        BY <1>1, <2>3, <3>1, <3>3, <4>1
    <3> QED
      BY <2>3, <3>2, <3>3
  <2>4. CASE m \in Linked \ {p} /\ n = x
    <3>1. next'[m] = next[m] /\ key[m] # key[p]
      BY <2>4 DEF IInv, ListIsSorted
    <3>2. key[p] < key[m] => key[x] < key[m]
      BY <1>1, <1>2, <2>4, <3>1
    <3>3. key[m] < key[p] => key[next[m]] < key[x]
      BY <1>1, <1>2, <2>4, <3>1
    <3> QED
      BY <1>1, <2>4, <3>1, <3>2, <3>3
  <2>5. CASE m \in Linked \ {p} /\ n \in Linked
    BY <2>5 DEF IInv, ListIsSorted
  <2> QED
    BY <2>1, <2>2, <2>3, <2>4, <2>5
<1>6. ASSUME NEW m \in Linked', NEW n \in Linked', key[m] = key[n]
      PROVE  m = n
  BY <1>3, <1>6 DEF IInv, ListIsSorted
<1> QED
  BY <1>4, <1>5, <1>6 DEF ListIsSorted

(* insert links its node, or has lost the race. *)
LEMMA LinkNodeInv ==
  ASSUME IInv, NEW t \in Threads, LinkNode(t)
  PROVE  IInv'
<1> USE DEF IInv
<1> DEFINE x == newNode[t]
           p == pred[t]
<1>1. /\ pc[t] = "link"
      /\ UNCHANGED <<valid, insertFlag, deleteFlag, key, marked, nvm, waits, call, pred,
                     curr, succ, newNode, recovery>>
  BY DEF LinkNode
<1>2. /\ x \in Nodes /\ heap[x] = "owned" /\ waits[x] = {} /\ x \notin Linked
      /\ x # curr[t] /\ x # p /\ call[t].op = "insert"
      /\ \A u \in Threads \ {t} : /\ pc[u] \in Private => newNode[u] # x
                                  /\ pc[u] = "free" => curr[u] # x
  BY <1>1, OwnNode DEF Private
<1>3. CASE ~Expects(p, curr[t])
  <2>1. pc' = [pc EXCEPT ![t] = "markUnlinked"] /\ UNCHANGED <<next, heap, result>>
    BY <1>3 DEF LinkNode, Goto
  <2>2. Local(t)
    BY <1>1, <2>1 DEF Local, Private, TypeOK, recovery
  <2>3. TypeOK'
    BY <1>1, <2>1 DEF TypeOK, Labels, recovery
  <2>4. ThreadInv(t)'
    BY <1>1, <2>1
    DEF ThreadInv, HoldsWhatItMay, NewNodeIsPrivate, SearchIsRight, LinkIsReady, TypeOK,
        TrimsMarkedNodes, MayHold, Linked, Private, Publishing
  <2> QED
    BY <2>2, <2>3, <2>4, LocalMove
<1>4. CASE Expects(p, curr[t])
  <2>1. /\ next' = [next EXCEPT ![p] = x]
        /\ heap' = [heap EXCEPT ![x] = "linked"]
        /\ result' = [result EXCEPT ![t] = TRUE]
        /\ pc' = [pc EXCEPT ![t] = "makeValid"]
    BY <1>4 DEF LinkNode, Goto
  <2>2. /\ p \in Linked /\ p \in AllNodes /\ key[p] < call[t].arg
        /\ next[p] = curr[t] /\ curr[t] \in Linked \union {Tail}
    BY <1>1, <1>4, PredIsLinked, LinkedIsNode
  <2>3. /\ next[x] = curr[t] /\ key[x] = call[t].arg
        /\ call[t].arg < key[curr[t]]
    BY <1>1 DEF ThreadInv, LinkIsReady, SearchIsRight
  <2>4. Linked' = Linked \union {x}
    BY <1>2, <2>1 DEF Linked, TypeOK
  <2>5. TypeOK'
    BY <1>1, <1>2, <2>1, <2>2 DEF TypeOK, Labels, AllNodes, recovery
  <2>6. ListIsSorted'
    <3>1. key[x] \in Int /\ x \in AllNodes
      BY <1>2 DEF TypeOK, AllNodes
    <3>2. next'[x] = next[p]
      BY <1>2, <2>1, <2>2, <2>3, <3>1 DEF TypeOK
    <3>3. \A m \in Linked : next'[m] = IF m = p THEN x ELSE next[m]
      BY <2>1, LinkedIsNode DEF TypeOK
    <3>4. Inserts(p, x)
      BY <1>1, <1>2, <2>2, <2>3, <2>4, <3>1, <3>2, <3>3 DEF Inserts
    <3> QED
      BY <3>4, InsertionSorts
  <2>7. SentinelsAreFixed'
    BY <1>1 DEF SentinelsAreFixed
  <2>8. \A u \in Threads : \A n : MayHold(u, n) => MayHold(u, n)'
    BY <1>1, <2>4 DEF MayHold
  <2>9. RetiredIsClosed'
    <3> SUFFICES ASSUME NEW n \in Nodes, NEW u \in waits[n]
                 PROVE  /\ heap'[n] \in {"unlinked", "free"} /\ marked[n] /\ pc'[u] # "idle"
                        /\ next'[n] = next[n] /\ MayHold(u, next[n])'
      BY <1>1 DEF RetiredIsClosed, MayHold
    <3>1. /\ u \in Threads
          /\ heap[n] \in {"unlinked", "free"} /\ marked[n] /\ pc[u] # "idle"
          /\ MayHold(u, next[n])
      BY DEF RetiredIsClosed, TypeOK
    <3>2. n # x /\ n # p
      BY <1>2, <2>2, <3>1, LinkedIsNode, NodesAssumption DEF AllNodes
    <3> QED
      BY <2>1, <2>8, <3>1, <3>2 DEF TypeOK, AllNodes
  <2>10. ASSUME NEW u \in Threads
         PROVE  ThreadInv(u)'
    <3>1. CASE u = t
      <4>1. MayHold(t, p)' /\ MayHold(t, curr[t])' /\ MayHold(t, x)'
        BY <1>1, <2>4, <2>8, Holding DEF MayHold
      <4> QED
        BY <1>1, <1>2, <2>1, <2>2, <3>1, <4>1, NodesAssumption
        DEF ThreadInv, HoldsWhatItMay, NewNodeIsPrivate, SearchIsRight, LinkIsReady,
            TrimsMarkedNodes, Private, Publishing, TypeOK, AllNodes
    <3>2. CASE u # t
      <4>1. pc'[u] = pc[u]
        BY <2>1, <3>2 DEF TypeOK
      <4>2. pc[u] \in Private =>
              /\ heap'[newNode[u]] = "owned" /\ next'[newNode[u]] = next[newNode[u]]
        <5> SUFFICES ASSUME pc[u] \in Private
                     PROVE  heap'[newNode[u]] = "owned" /\ next'[newNode[u]] = next[newNode[u]]
          OBVIOUS
        <5>1. /\ newNode[u] \in Nodes /\ heap[newNode[u]] = "owned" /\ newNode[u] \notin Linked
              /\ newNode[u] # x
          BY <1>2, <3>2, OwnNode
        <5> QED
          BY <2>1, <2>2, <5>1 DEF TypeOK, AllNodes
      <4>3. pc[u] = "free" => heap'[curr[u]] = "unlinked"
        BY <1>2, <2>1, <3>2 DEF ThreadInv, TrimsMarkedNodes, TypeOK
      <4> QED
        BY <1>1, <2>8, <4>1, <4>2, <4>3, OthersKeep
    <3> QED
      BY <3>1, <3>2
  <2>11. ThreadsAreApart'
    BY <1>1, <2>1 DEF ThreadsAreApart, Private, TypeOK
  <2>12. RecoveryIsAlone'
    BY <1>1, <2>1 DEF RecoveryIsAlone, TypeOK, recovery
  <2> QED
    BY <2>5, <2>6, <2>7, <2>9, <2>10, <2>11, <2>12
<1> QED
  BY <1>3, <1>4

(* remove marks the node it found, or has lost the race. *)
LEMMA MarkInv ==
  ASSUME IInv, NEW t \in Threads, Mark(t)
  PROVE  IInv'
<1> USE DEF IInv
<1> DEFINE c == curr[t]
<1>1. /\ pc[t] = "mark"
      /\ UNCHANGED <<valid, insertFlag, deleteFlag, key, next, nvm, heap, waits, call, pred,
                     curr, succ, newNode, recovery>>
  BY DEF Mark
<1>2. CASE ~Expects(c, succ[t])
  <2>1. pc' = [pc EXCEPT ![t] = "restart"] /\ UNCHANGED <<marked, result>>
    BY <1>2 DEF Mark, Goto
  <2>2. Local(t)
    BY <1>1, <2>1 DEF Local, Private, TypeOK, recovery
  <2>3. TypeOK'
    BY <1>1, <2>1 DEF TypeOK, Labels, recovery
  <2>4. ThreadInv(t)'
    BY <1>1, <2>1
    DEF ThreadInv, HoldsWhatItMay, NewNodeIsPrivate, SearchIsRight, LinkIsReady, TypeOK,
        TrimsMarkedNodes, MayHold, Linked, Private, Publishing
  <2> QED
    BY <2>2, <2>3, <2>4, LocalMove
<1>3. CASE Expects(c, succ[t])
  <2>1. /\ marked' = [marked EXCEPT ![c] = TRUE]
        /\ result' = [result EXCEPT ![t] = TRUE]
        /\ pc' = [pc EXCEPT ![t] = "flushDelete"]
    BY <1>3 DEF Mark, Goto
  <2>2. MayHold(t, pred[t]) /\ MayHold(t, c) /\ c \in AllNodes /\ key[c] = call[t].arg
    BY <1>1, Holding DEF ThreadInv, SearchIsRight
  <2>3. c \in Nodes
    BY <1>1, <2>2, CallHasKey DEF SentinelsAreFixed, AllNodes
  <2>4. TypeOK'
    BY <1>1, <2>1, <2>2 DEF TypeOK, Labels, recovery
  <2>5. ListIsSorted'
    BY <1>1 DEF ListIsSorted, Linked
  <2>6. SentinelsAreFixed'
    BY <1>1, <2>1, <2>3, NodesAssumption DEF SentinelsAreFixed, TypeOK, AllNodes
  <2>7. \A u \in Threads : \A n : MayHold(u, n) => MayHold(u, n)'
    BY <1>1 DEF MayHold, Linked
  <2>8. \A n \in AllNodes : marked[n] => marked'[n]
    BY <2>1 DEF TypeOK
  <2>9. RetiredIsClosed'
    <3> SUFFICES ASSUME NEW n \in Nodes, NEW u \in waits[n]
                 PROVE  /\ heap[n] \in {"unlinked", "free"} /\ marked'[n] /\ pc'[u] # "idle"
                        /\ MayHold(u, next[n])'
      BY <1>1 DEF RetiredIsClosed, MayHold, Linked
    <3>1. /\ u \in Threads
          /\ heap[n] \in {"unlinked", "free"} /\ marked[n] /\ pc[u] # "idle"
          /\ MayHold(u, next[n])
      BY DEF RetiredIsClosed, TypeOK
    <3> QED
      BY <1>1, <2>1, <2>7, <2>8, <3>1 DEF TypeOK, AllNodes
  <2>10. ASSUME NEW u \in Threads
         PROVE  ThreadInv(u)'
    <3>1. CASE u = t
      <4>1. marked'[c]
        BY <2>1, <2>2 DEF TypeOK
      <4> QED
        BY <1>1, <2>1, <2>2, <2>3, <2>7, <3>1, <4>1
        DEF ThreadInv, HoldsWhatItMay, NewNodeIsPrivate, SearchIsRight, LinkIsReady,
            TrimsMarkedNodes, Private, Publishing, TypeOK
    <3>2. CASE u # t
      <4>1. pc'[u] = pc[u]
        BY <2>1, <3>2 DEF TypeOK
      <4>2. pc[u] \in Private =>
              heap[newNode[u]] = "owned" /\ marked'[newNode[u]] = marked[newNode[u]]
        <5> SUFFICES ASSUME pc[u] \in Private
                     PROVE  heap[newNode[u]] = "owned" /\ marked'[newNode[u]] = marked[newNode[u]]
          OBVIOUS
        <5>1. newNode[u] \in Nodes /\ heap[newNode[u]] = "owned"
          BY OwnNode
        <5>2. newNode[u] # c
          BY <2>2, <5>1, OwnedIsNotHeld
        <5> QED
          BY <2>1, <5>1, <5>2 DEF TypeOK, AllNodes
      <4>3. pc[u] = "free" => heap[curr[u]] = "unlinked"
        BY DEF ThreadInv, TrimsMarkedNodes
      <4>4. pc[u] # "idle" => \A n : MayHold(u, n) => (marked[n] => marked'[n])
        BY <2>8, HeldIsNode
      <4>5. pc[u] = "idle" => ThreadInv(u)'
        BY <1>1, <4>1 DEF ThreadInv
      <4> QED
        BY <1>1, <2>7, <4>1, <4>2, <4>3, <4>4, <4>5, OthersKeep
    <3> QED
      BY <3>1, <3>2
  <2>11. ThreadsAreApart'
    BY <1>1, <2>1 DEF ThreadsAreApart, Private, TypeOK
  <2>12. RecoveryIsAlone'
    BY <1>1, <2>1 DEF RecoveryIsAlone, TypeOK, recovery
  <2> QED
    BY <2>4, <2>5, <2>6, <2>9, <2>10, <2>11, <2>12
<1> QED
  BY <1>2, <1>3

-----------------------------------------------------------------------------
(* Invocations, evictions, crashes and recovery. *)

(* An operation starts at the head. *)
LEMMA InvokeInv ==
  ASSUME IInv, NEW t \in Threads, NEW c \in DS!Calls, Invoke(t, c)
  PROVE  IInv'
<1> USE DEF IInv
<1>1. /\ pc[t] = "idle" /\ phase = "running"
      /\ pc' = [pc EXCEPT ![t] = IF c.op = "contains" THEN "walk" ELSE "find"]
      /\ call' = [call EXCEPT ![t] = c]
      /\ pred' = [pred EXCEPT ![t] = Head]
      /\ curr' = [curr EXCEPT ![t] = next[Head]]
      /\ UNCHANGED <<fields, nvm, heap, waits, succ, newNode, result, recovery>>
  BY DEF Invoke, StartSearch, Goto
<1>2. c.arg \in Keys /\ c.arg \in Int /\ MinKey < c.arg
  BY KeysAssumption DEF DS!Calls
<1>3. Head \in Linked /\ next[Head] \in Linked \union {Tail}
  BY DEF Linked, ListIsSorted
<1>4. Local(t)
  BY <1>1 DEF Local, Private, TypeOK, fields, recovery
<1>5. TypeOK'
  <2>1. Head \in AllNodes /\ next[Head] \in AllNodes
    BY <1>3, LinkedIsNode
  <2>2. pc'[t] # "idle" /\ call'[t] = c
    BY <1>1 DEF TypeOK
  <2> QED
    BY <1>1, <2>1, <2>2 DEF TypeOK, Labels, fields, recovery
<1>6. ThreadInv(t)'
  BY <1>1, <1>2, <1>3
  DEF ThreadInv, HoldsWhatItMay, NewNodeIsPrivate, SearchIsRight, LinkIsReady, fields,
      TrimsMarkedNodes, MayHold, Linked, Private, Publishing, SentinelsAreFixed, TypeOK
<1> QED
  BY <1>4, <1>5, <1>6, LocalMove

(* Nothing that the invariant speaks of but a type changes. *)
LEMMA QuietStep ==
  ASSUME IInv, TypeOK',
         UNCHANGED <<key, next, marked, heap, waits, call, pc, pred, curr, newNode,
                     phase, todo, burying>>
  PROVE  IInv'
<1> USE DEF IInv
<1>1. ListIsSorted' /\ SentinelsAreFixed' /\ RetiredIsClosed'
  BY DEF ListIsSorted, SentinelsAreFixed, RetiredIsClosed, MayHold, Linked
<1>2. \A t \in Threads : ThreadInv(t)'
  BY DEF ThreadInv, HoldsWhatItMay, NewNodeIsPrivate, SearchIsRight, LinkIsReady,
         TrimsMarkedNodes, MayHold, Linked
<1>3. ThreadsAreApart' /\ RecoveryIsAlone'
  BY DEF ThreadsAreApart, RecoveryIsAlone
<1> QED
  BY <1>1, <1>2, <1>3

(* An eviction writes NVM only. *)
LEMMA EvictInv ==
  ASSUME IInv, NEW n \in Nodes, Evict(n)
  PROVE  IInv'
<1>1. TypeOK'
  BY LineType DEF IInv, Evict, FLUSH, TypeOK, fields, locals, recovery
<1> QED
  BY <1>1, QuietStep DEF Evict, fields, locals, recovery

(* A crash leaves an empty list, free nodes and no operation. *)
LEMMA CrashInv ==
  ASSUME IInv, Crash
  PROVE  IInv'
<1> USE DEF IInv
<1>1. Linked' = {Head}
  BY DEF Crash, Linked
<1>2. TypeOK'
  <2>1. \A n \in Nodes : /\ nvm[n].valid \in BOOLEAN /\ nvm[n].insertFlag \in BOOLEAN
                        /\ nvm[n].deleteFlag \in BOOLEAN /\ nvm[n].key \in Int
    BY DEF TypeOK, Lines
  <2> QED
    BY <2>1, BoundsAssumption DEF Crash, TypeOK, AllNodes, Labels, ChunkNodes
<1>3. ListIsSorted'
  BY <1>1, KeysAssumption, NodesAssumption DEF Crash, ListIsSorted, AllNodes, SentinelsAreFixed
<1>4. SentinelsAreFixed'
  BY NodesAssumption DEF Crash, SentinelsAreFixed, AllNodes
<1>5. RetiredIsClosed'
  BY DEF Crash, RetiredIsClosed
<1>6. \A t \in Threads : ThreadInv(t)'
  BY DEF Crash, ThreadInv
<1>7. ThreadsAreApart' /\ RecoveryIsAlone'
  BY DEF Crash, ThreadsAreApart, RecoveryIsAlone, Private, ChunkNodes
<1> QED
  BY <1>2, <1>3, <1>4, <1>5, <1>6, <1>7

(* While recover() works, nobody runs and nobody is waited for. *)
LEMMA RecoveringAlone ==
  ASSUME IInv, phase = "recovering"
  PROVE  /\ \A t \in Threads : pc[t] = "idle"
         /\ \A n \in Nodes : waits[n] = {}
         /\ \A n \in todo : n \in Nodes /\ heap[n] = "free" /\ n \notin Linked
BY NodesAssumption DEF IInv, RecoveryIsAlone, RetiredIsClosed, TypeOK, Linked, AllNodes

(* recovery passes over a node that was never used, for it is free already. *)
LEMMA RecoverNeverUsedInv ==
  ASSUME IInv, NEW n \in Nodes, RecoverNeverUsed(n)
  PROVE  IInv'
<1> USE DEF IInv, RecoverNeverUsed, fields, locals
<1>1. TypeOK' /\ ListIsSorted' /\ SentinelsAreFixed' /\ RetiredIsClosed'
  BY DEF TypeOK, ListIsSorted, SentinelsAreFixed, RetiredIsClosed, MayHold, Linked
<1>2. \A t \in Threads : ThreadInv(t)'
  BY RecoveringAlone DEF ThreadInv
<1>3. ThreadsAreApart' /\ RecoveryIsAlone'
  BY DEF ThreadsAreApart, RecoveryIsAlone
<1> QED
  BY <1>1, <1>2, <1>3

(* recovery marks a node that is not to be inserted again. *)
LEMMA RecoverMarkDeadInv ==
  ASSUME IInv, NEW n \in Nodes, RecoverMarkDead(n)
  PROVE  IInv'
<1> USE DEF IInv, RecoverMarkDead, locals
<1>1. n \notin Linked /\ \A m \in Nodes : waits[m] = {}
  BY RecoveringAlone
<1>2. TypeOK'
  BY DEF TypeOK
<1>3. \A m \in Linked : next'[m] = next[m]
  BY <1>1, LinkedIsNode DEF TypeOK
<1>4. ListIsSorted'
  BY <1>3 DEF ListIsSorted, Linked
<1>5. SentinelsAreFixed' /\ RetiredIsClosed'
  BY <1>1, NodesAssumption DEF SentinelsAreFixed, RetiredIsClosed, TypeOK, AllNodes
<1>6. \A t \in Threads : ThreadInv(t)'
  BY RecoveringAlone DEF ThreadInv
<1>7. ThreadsAreApart' /\ RecoveryIsAlone'
  BY DEF ThreadsAreApart, RecoveryIsAlone
<1> QED
  BY <1>2, <1>4, <1>5, <1>6, <1>7

(* recovery makes the node it marked valid, which finishes its deletion. *)
LEMMA RecoverFreeDeadInv ==
  ASSUME IInv, NEW n \in Nodes, RecoverFreeDead(n)
  PROVE  IInv'
<1> USE DEF IInv, RecoverFreeDead, locals
<1>1. TypeOK' /\ ListIsSorted' /\ SentinelsAreFixed' /\ RetiredIsClosed'
  BY DEF TypeOK, ListIsSorted, SentinelsAreFixed, RetiredIsClosed, MayHold, Linked
<1>2. \A t \in Threads : ThreadInv(t)'
  BY RecoveringAlone DEF ThreadInv
<1>3. ThreadsAreApart' /\ RecoveryIsAlone'
  BY DEF ThreadsAreApart, RecoveryIsAlone
<1> QED
  BY <1>1, <1>2, <1>3

(* recovery's insertion keeps the list sorted. *)
LEMMA QuickInsertInv ==
  ASSUME IInv, NEW n \in Nodes, QuickInsert(n)
  PROVE  IInv'
<1> USE DEF IInv
<1>1. PICK p \in Linked :
        /\ key[p] < key[n] /\ key[n] < key[next[p]]
        /\ next' = [next EXCEPT ![n] = next[p], ![p] = n]
  BY DEF QuickInsert
<1>2. /\ phase = "recovering" /\ burying = Nil /\ n \in todo
      /\ heap' = [heap EXCEPT ![n] = "linked"]
      /\ todo' = todo \ {n}
      /\ UNCHANGED <<valid, insertFlag, deleteFlag, key, marked, nvm, waits, call, pc, pred,
                     curr, succ, newNode, result, phase, burying, crashes>>
  BY DEF QuickInsert, locals
<1>3. /\ \A t \in Threads : pc[t] = "idle"
      /\ \A m \in Nodes : waits[m] = {}
      /\ n \notin Linked
  BY <1>2, RecoveringAlone
<1>4. p \in AllNodes /\ next[p] \in AllNodes /\ p # n
  BY <1>3, LinkedIsNode
<1>5. TypeOK'
  BY <1>1, <1>2, <1>4 DEF TypeOK, AllNodes
<1>6. ListIsSorted'
  <2>1. Linked' = Linked \union {n}
    BY <1>2 DEF Linked, TypeOK
  <2>2. \A m \in Linked : next'[m] = IF m = p THEN n ELSE next[m]
    BY <1>1, <1>3, <1>4, LinkedIsNode DEF TypeOK
  <2>3. next'[n] = next[p] /\ key[n] \in Int
    BY <1>1, <1>4 DEF TypeOK, AllNodes
  <2>4. Inserts(p, n)
    BY <1>1, <1>2, <1>3, <2>1, <2>2, <2>3 DEF Inserts
  <2> QED
    BY <2>4, InsertionSorts
<1>7. SentinelsAreFixed' /\ RetiredIsClosed'
  BY <1>2, <1>3 DEF SentinelsAreFixed, RetiredIsClosed
<1>8. \A t \in Threads : ThreadInv(t)'
  BY <1>2, <1>3 DEF ThreadInv
<1>9. ThreadsAreApart' /\ RecoveryIsAlone'
  BY <1>2, <1>3 DEF ThreadsAreApart, RecoveryIsAlone, TypeOK
<1> QED
  BY <1>5, <1>6, <1>7, <1>8, <1>9

(* The last node recovered: operations may start. *)
LEMMA RecoverDoneInv ==
  ASSUME IInv, RecoverDone
  PROVE  IInv'
<1> USE DEF IInv, RecoverDone, fields, locals
<1>1. TypeOK' /\ ListIsSorted' /\ SentinelsAreFixed' /\ RetiredIsClosed'
  BY DEF TypeOK, ListIsSorted, SentinelsAreFixed, RetiredIsClosed, MayHold, Linked
<1>2. \A t \in Threads : ThreadInv(t)'
  BY RecoveringAlone DEF ThreadInv
<1>3. ThreadsAreApart' /\ RecoveryIsAlone'
  BY DEF ThreadsAreApart, RecoveryIsAlone
<1> QED
  BY <1>1, <1>2, <1>3

-----------------------------------------------------------------------------
(* The initial states satisfy the invariant. *)
LEMMA InitIInv == Init => IInv
<1> SUFFICES ASSUME Init PROVE IInv
  OBVIOUS
<1> USE DEF Init
<1>1. Linked = {Head}
  BY DEF Linked
<1>2. \A n \in Nodes : Line(n) \in Lines
  BY NodesAssumption DEF Line, Lines, Link, AllNodes
<1>3. TypeOK
  BY <1>2, KeysAssumption, NodesAssumption DEF TypeOK, AllNodes, Labels
<1>4. ListIsSorted /\ SentinelsAreFixed
  BY <1>1, KeysAssumption, NodesAssumption DEF ListIsSorted, SentinelsAreFixed, AllNodes
<1>5. RetiredIsClosed /\ ThreadsAreApart /\ RecoveryIsAlone
  BY DEF RetiredIsClosed, ThreadsAreApart, RecoveryIsAlone, Private
<1>6. \A t \in Threads : ThreadInv(t)
  BY DEF ThreadInv
<1> QED
  BY <1>3, <1>4, <1>5, <1>6 DEF IInv

(* Every step keeps the invariant. *)
LEMMA NextIInv ==
  ASSUME ~QuiesceOnFree, IInv, [Next]_vars
  PROVE  IInv'
<1>1. ASSUME NEW t \in Threads, Step(t)
      PROVE  IInv'
  BY <1>1, FindPassInv, FindMarkedInv, FindAdvanceInv, FindHitInv, FindMissInsertInv,
     FindMissRemoveInv, RestartInv, FlushDeleteInv, SetDeleteFlagInv, TrimInv,
     FreeTrimmedInv, MakeValidInv, FlushInsertInv, SetInsertFlagInv, AllocNodeInv,
     InitNodeInv, LinkNodeInv, MarkUnlinkedInv, UndoInsertInv, ReadSuccInv, MarkInv,
     DoneInv, ContainsStepInv, ContainsMissInv, ContainsHitInv
  DEF Step
<1>2. ASSUME NEW t \in Threads, NEW c \in DS!Calls, Invoke(t, c)
      PROVE  IInv'
  BY <1>2, InvokeInv
<1>3. ASSUME NEW n \in Nodes, Evict(n)
      PROVE  IInv'
  BY <1>3, EvictInv
<1>4. CASE Crash
  BY <1>4, CrashInv
<1>5. CASE Recover
  BY <1>5, RecoverNeverUsedInv, RecoverMarkDeadInv, RecoverFreeDeadInv, QuickInsertInv,
     RecoverDoneInv
  DEF Recover
<1>6. CASE UNCHANGED vars
  <2>1. TypeOK'
    BY <1>6 DEF IInv, vars, fields, locals, recovery, TypeOK
  <2> QED
    BY <1>6, <2>1, QuietStep DEF vars, fields, locals, recovery
<1> QED
  BY <1>1, <1>2, <1>3, <1>4, <1>5, <1>6 DEF Next

(* IInv holds in every state of every behaviour. *)
LEMMA Invariance ==
  ASSUME ~QuiesceOnFree
  PROVE  Spec => []IInv
<1>1. IInv /\ [Next]_vars => IInv'
  BY NextIInv
<1> QED
  BY <1>1, InitIInv, PTL DEF Spec

(* Every variable keeps its type: in particular nobody follows a null link,  *)
(* for a running operation's pred and curr stay nodes.                       *)
THEOREM TypeCorrect ==
  ASSUME ~QuiesceOnFree
  PROVE  Spec => []TypeOK
BY Invariance, PTL DEF IInv

(* The list is sorted and without a gap or a duplicate key at every moment,  *)
(* however inserts, removes and trims interleave and wherever a crash struck.*)
THEOREM SortedList ==
  ASSUME ~QuiesceOnFree
  PROVE  Spec => []ListIsSorted
BY Invariance, PTL DEF IInv

(* Under a reclaimer that waits for running operations, no thread goes on with *)
(* a node that was handed out again: find's use of prev and curr, trim's of  *)
(* both, and the stores of makeValid and the flags are safe.                 *)
THEOREM HeldNodesStay ==
  ASSUME ~QuiesceOnFree
  PROVE  Spec => []HeldNodesAreNotReused
<1>1. IInv => HeldNodesAreNotReused
  <2> SUFFICES ASSUME IInv, NEW t \in Threads, NEW n \in Nodes,
                      heap[n] = "owned", n \in {pred[t], curr[t]},
                      pc[t] \notin {"restart", "done"}
               PROVE  newNode[t] = n
    BY DEF HeldNodesAreNotReused
  <2>1. CASE pc[t] = "idle"
    BY <2>1, NodesAssumption DEF IInv, ThreadInv, AllNodes
  <2>2. CASE pc[t] # "idle"
    BY <2>2, Holding, OwnedIsNotHeld
  <2> QED
    BY <2>1, <2>2
<1> QED
  BY <1>1, Invariance, PTL

(* Nobody writes the link of a marked node before it is reused: only the     *)
(* owner of a node stores to it, and every compare-and-swap expects no mark. *)
THEOREM MarkedLinksStay ==
  ASSUME ~QuiesceOnFree
  PROVE  Spec => MarkedLinksAreFrozen
<1>1. ASSUME IInv, Next, phase' = "running", crashes' = crashes,
             NEW n \in Nodes, marked[n], heap[n] # "owned", heap'[n] # "owned"
      PROVE  marked'[n] /\ next'[n] = next[n]
  <2> USE <1>1
  <2>1. ASSUME NEW t \in Threads, Step(t)
        PROVE  marked'[n] /\ next'[n] = next[n]
    <3>1. CASE Trim(t)
      <4>1. UNCHANGED <<next, marked>> \/ next' = [next EXCEPT ![pred[t]] = next[curr[t]]]
        BY <3>1 DEF Trim
      <4>2. next' # next => ~marked[pred[t]]
        BY <3>1 DEF Trim, Expects
      <4> QED
        BY <3>1, <4>1, <4>2 DEF Trim, IInv, TypeOK, AllNodes
    <3>2. CASE InitNode(t) \/ MarkUnlinked(t)
      <4>1. newNode[t] # n
        BY <3>2, OwnNode DEF InitNode, MarkUnlinked, Private
      <4> QED
        BY <3>2, <4>1 DEF InitNode, MarkUnlinked, IInv, TypeOK, AllNodes
    <3>3. CASE LinkNode(t)
      <4>1. UNCHANGED next \/ (~marked[pred[t]] /\ next' = [next EXCEPT ![pred[t]] = newNode[t]])
        BY <3>3 DEF LinkNode, Expects
      <4> QED
        BY <3>3, <4>1 DEF LinkNode, IInv, TypeOK, AllNodes
    <3>4. CASE Mark(t)
      BY <3>4 DEF Mark, IInv, TypeOK, AllNodes
    <3>5. CASE FindPass(t) \/ FindMarked(t) \/ FindAdvance(t) \/ FindHit(t)
               \/ FindMissInsert(t) \/ FindMissRemove(t) \/ Restart(t) \/ Done(t)
      BY <3>5 DEF FindPass, FindMarked, FindAdvance, FindHit, FindMissInsert,
                  FindMissRemove, Restart, Done, fields
    <3>6. CASE FlushDelete(t) \/ SetDeleteFlag(t) \/ FlushInsert(t) \/ SetInsertFlag(t)
               \/ MakeValid(t) \/ FreeTrimmed(t) \/ UndoInsert(t)
      BY <3>6 DEF FlushDelete, SetDeleteFlag, FlushInsert, SetInsertFlag, MakeValid,
                  FreeTrimmed, UndoInsert, fields
    <3>7. CASE AllocNode(t) \/ ReadSucc(t) \/ ContainsStep(t) \/ ContainsMiss(t)
               \/ ContainsHit(t)
      BY <3>7 DEF AllocNode, ReadSucc, ContainsStep, ContainsMiss, ContainsHit, fields
    <3> QED
      BY <2>1, <3>1, <3>2, <3>3, <3>4, <3>5, <3>6, <3>7 DEF Step
  <2>2. ASSUME NEW t \in Threads, NEW c \in DS!Calls, Invoke(t, c)
        PROVE  marked'[n] /\ next'[n] = next[n]
    BY <2>2 DEF Invoke, fields
  <2>3. ASSUME NEW m \in Nodes, Evict(m)
        PROVE  marked'[n] /\ next'[n] = next[n]
    BY <2>3 DEF Evict, fields
  <2>4. ~Crash
    BY DEF Crash, IInv, TypeOK
  <2>5. CASE Recover
    BY <2>5 DEF Recover, RecoverNeverUsed, RecoverMarkDead, RecoverFreeDead, QuickInsert,
                RecoverDone, fields
  <2> QED
    BY <2>1, <2>2, <2>3, <2>4, <2>5 DEF Next
<1>2. IInv /\ [Next]_vars =>
        [phase' = "running" /\ crashes' = crashes =>
           \A n \in Nodes :
             marked[n] /\ heap[n] # "owned" /\ heap'[n] # "owned" =>
               marked'[n] /\ next'[n] = next[n]]_vars
  BY <1>1
<1> QED
  BY <1>2, Invariance, PTL DEF Spec, MarkedLinksAreFrozen

-----------------------------------------------------------------------------
(* The nodes that a running thread is about to write or flush. *)

(* While an operation runs, recovery has ended. *)
LEMMA Running ==
  ASSUME IInv, NEW t \in Threads, pc[t] # "idle"
  PROVE  phase = "running" /\ todo = {} /\ burying = Nil
BY NodesAssumption DEF IInv, RecoveryIsAlone, TypeOK, AllNodes

(* The node that MakeValid and FLUSH_INSERT work on is held. *)
LEMMA TargetIsHeld ==
  ASSUME IInv, NEW t \in Threads, pc[t] \in Publishing
  PROVE  Target(t) \in Nodes /\ MayHold(t, Target(t))
<1>1. pc[t] # "idle"
  BY DEF Publishing
<1>2. MayHold(t, Target(t))
  BY <1>1 DEF Target, IInv, ThreadInv, HoldsWhatItMay
<1> QED
  BY <1>2, TargetIsNode

(* So are the node that remove marks and the one that trim unlinks. *)
LEMMA CurrIsHeld ==
  ASSUME IInv, NEW t \in Threads,
         pc[t] \in {"mark", "flushDelete", "setDelete", "trim", "free"}
  PROVE  curr[t] \in Nodes /\ MayHold(t, curr[t])
<1>1. MayHold(t, curr[t]) /\ curr[t] \in AllNodes
  BY Holding
<1>2. CASE pc[t] = "mark"
  <2>1. key[curr[t]] = call[t].arg
    BY <1>2 DEF IInv, ThreadInv, SearchIsRight
  <2> QED
    BY <1>1, <1>2, <2>1, CallHasKey, KeysAssumption DEF IInv, SentinelsAreFixed, AllNodes
<1>3. CASE pc[t] # "mark"
  BY <1>1, <1>3 DEF IInv, ThreadInv, TrimsMarkedNodes
<1> QED
  BY <1>2, <1>3

(* What a thread may trust of a node it holds. *)
LEMMA HeldIsSound ==
  ASSUME IInv, PInv, NEW t \in Threads, pc[t] # "idle", NEW n \in Nodes, MayHold(t, n)
  PROVE  /\ heap[n] # "owned"
         /\ marked[n] => valid[n]
         /\ insertFlag[n] => valid[n] /\ nvm[n].valid
         /\ deleteFlag[n] => marked[n] /\ DeletionIsPersisted(n)
<1>1. todo = {} /\ heap[n] # "owned"
  BY Running, HeldIsNode DEF IInv
<1>2. heap[n] = "linked" \/ waits[n] # {}
  BY NodesAssumption DEF MayHold, Linked, AllNodes
<1> QED
  BY <1>1, <1>2 DEF PInv, NodePersists, VolatileIsRight, FlagsAreTrue, IInv, TypeOK

(* What another thread has seen to stays so.                                 *)
LEMMA OthersPersist ==
  ASSUME IInv, PInv, NEW u \in Threads,
         pc'[u] = pc[u], curr'[u] = curr[u], newNode'[u] = newNode[u],
         \A n \in Nodes : pc[u] # "idle" /\ MayHold(u, n) =>
           /\ valid[n] => valid'[n]
           /\ nvm[n].valid /\ valid[n] => nvm'[n].valid
           /\ marked[n] /\ DeletionIsPersisted(n) => DeletionIsPersisted(n)',
         pc[u] \in Private =>
           LET n == newNode[u]
           IN  /\ insertFlag'[n] = insertFlag[n] /\ deleteFlag'[n] = deleteFlag[n]
               /\ marked'[n] = marked[n]
  PROVE  ThreadPersists(u)'
<1>1. Target(u)' = Target(u)
  BY DEF Target
<1>2. ThreadPersists(u)
  BY DEF PInv
<1>3. pc[u] \in {"flushInsert", "setInsert"} =>
        valid'[Target(u)] /\ (pc[u] = "setInsert" => nvm'[Target(u)].valid)
  BY <1>2, TargetIsHeld DEF ThreadPersists, Publishing
<1>4. pc[u] = "mark" => valid'[curr[u]]
  BY <1>2, CurrIsHeld DEF ThreadPersists
<1>5. pc[u] \in {"setDelete", "trim", "free"} => DeletionIsPersisted(curr[u])'
  <2>1. pc[u] \in {"setDelete", "trim", "free"} => marked[curr[u]]
    BY DEF IInv, ThreadInv, TrimsMarkedNodes
  <2> QED
    BY <1>2, <2>1, CurrIsHeld DEF ThreadPersists, DeletionIsPersisted
<1>6. /\ pc[u] = "link" => ~insertFlag'[newNode[u]] /\ ~deleteFlag'[newNode[u]]
      /\ pc[u] = "undo" => marked'[newNode[u]]
  BY <1>2 DEF ThreadPersists, Private
<1> QED
  BY <1>1, <1>3, <1>4, <1>5, <1>6 DEF ThreadPersists, DeletionIsPersisted

-----------------------------------------------------------------------------
(* Steps that write no node. *)

(* A step of thread t that writes neither memory nor NVM. *)
LEMMA WritesNothing ==
  ASSUME IInv, PInv, NEW t \in Threads,
         UNCHANGED <<fields, nvm, heap, phase, todo, burying>>,
         \A n \in Nodes : waits'[n] \subseteq waits[n],
         \A u \in Threads \ {t} :
           pc'[u] = pc[u] /\ curr'[u] = curr[u] /\ newNode'[u] = newNode[u],
         ThreadPersists(t)'
  PROVE  PInv'
<1>1. ASSUME NEW n \in Nodes
      PROVE  NodePersists(n)'
  <2>1. NodePersists(n)
    BY DEF PInv
  <2> QED
    BY <2>1 DEF NodePersists, VolatileIsRight, FlagsAreTrue, MemberIsOnList, RecoveredFromNVM,
                PersistedMember, DeletionIsPersisted, Line, Link, fields
<1>2. ASSUME NEW u \in Threads
      PROVE  ThreadPersists(u)'
  <2>1. CASE u = t
    BY <2>1
  <2>2. CASE u # t
    BY <2>2, OthersPersist DEF fields, DeletionIsPersisted
  <2> QED
    BY <2>1, <2>2
<1>3. PersistedKeysAreUnique'
  BY DEF PInv, PersistedKeysAreUnique, PersistedMember
<1> QED
  BY <1>1, <1>2, <1>3 DEF PInv

(* The program counters of which PInv knows nothing. *)
Silent ==
  {"idle", "walk", "find", "advance", "flushDelete", "done", "alloc", "init",
   "makeValid", "markUnlinked", "restart", "readSucc"}

(* A step that only moves thread t to a counter of which nothing is claimed. *)
LEMMA SilentStep ==
  ASSUME IInv, PInv, NEW t \in Threads,
         UNCHANGED <<fields, nvm, heap, phase, todo, burying>>,
         \A n \in Nodes : waits'[n] \subseteq waits[n],
         \A u \in Threads \ {t} :
           pc'[u] = pc[u] /\ curr'[u] = curr[u] /\ newNode'[u] = newNode[u],
         pc'[t] \in Silent
  PROVE  PInv'
<1>1. ThreadPersists(t)'
  BY DEF ThreadPersists, Silent
<1> QED
  BY <1>1, WritesNothing

(* A response writes no node. *)
LEMMA ReturnPersists ==
  ASSUME IInv, PInv, ~QuiesceOnFree, NEW t \in Threads, NEW r, Return(t, r),
         UNCHANGED <<fields, nvm, heap, recovery>>
  PROVE  PInv'
<1>1. /\ pc' = [pc EXCEPT ![t] = "idle"] /\ curr' = [curr EXCEPT ![t] = Nil]
      /\ newNode' = [newNode EXCEPT ![t] = Nil] /\ waits' = [n \in Nodes |-> waits[n] \ {t}]
  BY DEF Return
<1> QED
  BY <1>1, SilentStep DEF Silent, IInv, TypeOK, recovery

(* The steps of find, of contains and of the tests that fail. *)
LEMMA SearchPersists ==
  ASSUME IInv, PInv, ~QuiesceOnFree, NEW t \in Threads,
         \/ FindPass(t) \/ FindMarked(t) \/ FindAdvance(t) \/ FindHit(t)
         \/ FindMissInsert(t) \/ FindMissRemove(t) \/ Restart(t) \/ ReadSucc(t) \/ Done(t)
         \/ ContainsStep(t) \/ ContainsMiss(t) \/ ContainsHit(t)
         \/ \E c \in DS!Calls : Invoke(t, c)
  PROVE  PInv'
<1>1. CASE FindMissRemove(t) \/ Done(t) \/ ContainsMiss(t)
  BY <1>1, ReturnPersists DEF FindMissRemove, FindStops, Done, ContainsMiss
<1>2. CASE FindPass(t) \/ FindMarked(t) \/ FindAdvance(t) \/ FindHit(t) \/ FindMissInsert(t)
  BY <1>2, SilentStep
  DEF FindPass, FindMarked, FindAdvance, FindHit, FindMissInsert, FindStops, Goto, Silent,
      IInv, TypeOK, recovery
<1>3. CASE Restart(t) \/ ReadSucc(t) \/ ContainsStep(t) \/ ContainsHit(t)
  BY <1>3, SilentStep
  DEF Restart, ReadSucc, ContainsStep, ContainsHit, StartSearch, Goto, Silent, IInv, TypeOK,
      recovery
<1>4. ASSUME NEW c \in DS!Calls, Invoke(t, c)
      PROVE  PInv'
  BY <1>4, SilentStep DEF Invoke, StartSearch, Goto, Silent, IInv, TypeOK, recovery
<1> QED
  BY <1>1, <1>2, <1>3, <1>4

-----------------------------------------------------------------------------
(* Steps that write NVM: the flushes and the evictions. *)

(* A node that would become a member in NVM is on the list, or is one already.*)
LEMMA MemberToBe ==
  ASSUME IInv, PInv, NEW n \in Nodes, valid[n], Link(n) = "ref"
  PROVE  \/ Line(n) = nvm[n]
         \/ /\ phase = "running" /\ heap[n] = "linked" /\ n \in Linked
            /\ key[n] # MinKey /\ ~deleteFlag[n]
<1> USE DEF IInv, PInv
<1>1. NodePersists(n)
  OBVIOUS
<1>2. CASE n \in todo
  BY <1>1, <1>2 DEF NodePersists, RecoveredFromNVM, Link
<1>3. CASE n \notin todo /\ phase = "recovering"
  BY <1>1, <1>3 DEF NodePersists, VolatileIsRight, RecoveredFromNVM, TypeOK
<1>4. CASE n \notin todo /\ phase = "running"
  <2>1. heap[n] = "linked" /\ ~marked[n]
    BY <1>1, <1>4 DEF NodePersists, VolatileIsRight, Link, TypeOK
  <2>2. n \in Linked /\ Head \in Linked /\ n # Head
    BY <2>1, NodesAssumption DEF Linked, AllNodes
  <2>3. key[n] # MinKey
    BY <2>2 DEF ListIsSorted, SentinelsAreFixed
  <2> QED
    BY <1>1, <1>4, <2>1, <2>2, <2>3 DEF NodePersists, FlagsAreTrue
<1> QED
  BY <1>2, <1>3, <1>4 DEF TypeOK

(* Writing back a line keeps what is known of it. *)
LEMMA FlushKeepsNodes ==
  ASSUME IInv, PInv, NEW n \in Nodes, FLUSH(n),
         UNCHANGED <<fields, heap, waits, phase, todo, burying>>
  PROVE  /\ \A m \in Nodes : NodePersists(m)'
         /\ PersistedKeysAreUnique'
<1> USE DEF IInv, PInv
<1>1. nvm' = [nvm EXCEPT ![n] = Line(n)] /\ UNCHANGED fields
  BY DEF FLUSH
<1>2. /\ nvm'[n] = Line(n)
      /\ \A m \in Nodes \ {n} : nvm'[m] = nvm[m]
      /\ \A m \in Nodes : Line(m)' = Line(m) /\ Link(m)' = Link(m)
  BY <1>1 DEF TypeOK, Line, Link, fields
<1>3. /\ Line(n).valid = valid[n] /\ Line(n).link = Link(n) /\ Line(n).key = key[n]
      /\ Line(n).deleteFlag = deleteFlag[n]
  BY DEF Line
<1>4. ASSUME NEW m \in Nodes
      PROVE  NodePersists(m)'
  <2>1. NodePersists(m)
    OBVIOUS
  <2>2. CASE m # n
    BY <1>2, <2>1, <2>2
    DEF NodePersists, VolatileIsRight, FlagsAreTrue, MemberIsOnList, RecoveredFromNVM,
        PersistedMember, DeletionIsPersisted, fields
  <2>3. CASE m = n
    <3>1. VolatileIsRight(n)'
      BY <1>2, <2>1, <2>3 DEF NodePersists, VolatileIsRight, fields
    <3>2. FlagsAreTrue(n)'
      <4>1. marked[n] /\ (heap[n] = "linked" \/ waits[n] # {}) => valid[n]
        BY <2>1, <2>3 DEF NodePersists, VolatileIsRight, RetiredIsClosed, RecoveryIsAlone, TypeOK
      <4>2. marked[n] => Link(n) = "marked"
        BY DEF Link
      <4> QED
        BY <1>2, <1>3, <2>1, <2>3, <4>1, <4>2
        DEF NodePersists, FlagsAreTrue, DeletionIsPersisted, fields
    <3>3. MemberIsOnList(n)'
      BY <1>2, <1>3, <2>1, <2>3, MemberToBe
      DEF NodePersists, MemberIsOnList, PersistedMember, fields
    <3>4. RecoveredFromNVM(n)'
      BY <1>2, <1>3, <2>1, <2>3 DEF NodePersists, RecoveredFromNVM, PersistedMember, Link, fields
    <3> QED
      BY <2>3, <3>1, <3>2, <3>3, <3>4 DEF NodePersists
  <2> QED
    BY <2>2, <2>3
<1>5. PersistedKeysAreUnique'
  <2>1. CASE PersistedMember(n)' /\ nvm'[n] # nvm[n]
    <3>1. phase = "running" /\ n \in Linked /\ todo = {}
      BY <1>2, <1>3, <2>1, MemberToBe DEF PersistedMember, RecoveryIsAlone
    <3>2. ASSUME NEW m \in Nodes, m # n, PersistedMember(m)'
          PROVE  nvm'[m].key # nvm'[n].key
      <4>1. PersistedMember(m) /\ NodePersists(m)
        BY <1>2, <3>2 DEF PersistedMember
      <4>2. m \in Linked /\ nvm[m].key = key[m]
        BY <3>1, <4>1 DEF NodePersists, MemberIsOnList, Linked
      <4> QED
        BY <1>2, <1>3, <3>1, <3>2, <4>2 DEF ListIsSorted
    <3>3. \A m \in Nodes \ {n} : PersistedMember(m)' => PersistedMember(m) /\ nvm'[m] = nvm[m]
      BY <1>2 DEF PersistedMember
    <3>4. \A m, k \in Nodes :
            PersistedMember(m)' /\ PersistedMember(k)' /\ nvm'[m].key = nvm'[k].key => m = k
      BY <3>2, <3>3 DEF PersistedKeysAreUnique
    <3> QED
      BY <3>4 DEF PersistedKeysAreUnique
  <2>2. CASE ~(PersistedMember(n)' /\ nvm'[n] # nvm[n])
    <3>1. \A m \in Nodes : PersistedMember(m)' => PersistedMember(m) /\ nvm'[m] = nvm[m]
      BY <1>2, <2>2 DEF PersistedMember
    <3>2. \A m, k \in Nodes :
            PersistedMember(m)' /\ PersistedMember(k)' /\ nvm'[m].key = nvm'[k].key => m = k
      BY <3>1 DEF PersistedKeysAreUnique
    <3> QED
      BY <3>2 DEF PersistedKeysAreUnique
  <2> QED
    BY <2>1, <2>2
<1> QED
  BY <1>4, <1>5

(* Nor does it lose what a thread has seen to. *)
LEMMA FlushKeepsOthers ==
  ASSUME IInv, PInv, NEW n \in Nodes, FLUSH(n), UNCHANGED fields,
         NEW u \in Threads,
         pc'[u] = pc[u] /\ curr'[u] = curr[u] /\ newNode'[u] = newNode[u]
  PROVE  ThreadPersists(u)'
<1>1. \A m \in Nodes : nvm'[m] = IF m = n THEN Line(n) ELSE nvm[m]
  BY DEF FLUSH, IInv, TypeOK
<1>2. Line(n).valid = valid[n] /\ (marked[n] => Line(n).link = "marked")
  BY DEF Line, Link
<1>3. ASSUME NEW m \in Nodes, pc[u] # "idle", MayHold(u, m)
      PROVE  /\ nvm[m].valid /\ valid[m] => nvm'[m].valid
             /\ marked[m] /\ DeletionIsPersisted(m) => DeletionIsPersisted(m)'
  BY <1>1, <1>2, <1>3, HeldIsSound DEF DeletionIsPersisted
<1> QED
  BY <1>3, OthersPersist DEF fields

(* A line that is evicted. *)
LEMMA EvictPersists ==
  ASSUME IInv, PInv, NEW n \in Nodes, Evict(n)
  PROVE  PInv'
<1>1. FLUSH(n) /\ UNCHANGED <<fields, heap, waits, locals, recovery>>
  BY DEF Evict
<1>2. \A u \in Threads : ThreadPersists(u)'
  BY <1>1, FlushKeepsOthers DEF locals
<1> QED
  BY <1>1, <1>2, FlushKeepsNodes DEF PInv, recovery

(* FLUSH_DELETE: a flag that is up saves the flush. *)
LEMMA FlushDeletePersists ==
  ASSUME IInv, PInv, ~QuiesceOnFree, NEW t \in Threads, FlushDelete(t)
  PROVE  PInv'
<1>1. /\ pc[t] = "flushDelete" /\ UNCHANGED <<fields, heap, recovery>>
      /\ curr[t] \in Nodes /\ MayHold(t, curr[t]) /\ marked[curr[t]] /\ valid[curr[t]]
  BY CurrIsHeld, HeldIsSound DEF FlushDelete, IInv, ThreadInv, TrimsMarkedNodes
<1>2. CASE deleteFlag[curr[t]]
  <2>1. DeletionIsPersisted(curr[t])
    BY <1>1, <1>2, HeldIsSound
  <2>2. AfterFlushDelete(t) /\ UNCHANGED nvm
    BY <1>2 DEF FlushDelete
  <2>3. CASE Return(t, FALSE)
    BY <1>1, <2>2, <2>3, ReturnPersists
  <2>4. CASE Goto(t, "trim") /\ UNCHANGED <<waits, call, pred, curr, succ, newNode, result, outcomes>>
    <3>1. ThreadPersists(t)'
      BY <2>1, <2>2, <2>4 DEF ThreadPersists, Goto, DeletionIsPersisted, IInv, TypeOK
    <3> QED
      BY <1>1, <2>2, <2>4, <3>1, WritesNothing DEF Goto, IInv, TypeOK, recovery
  <2> QED
    BY <2>2, <2>3, <2>4 DEF AfterFlushDelete
<1>3. CASE ~deleteFlag[curr[t]]
  <2>1. /\ FLUSH(curr[t]) /\ pc' = [pc EXCEPT ![t] = "setDelete"]
        /\ UNCHANGED <<waits, call, pred, curr, succ, newNode, result>>
    BY <1>3 DEF FlushDelete, Goto
  <2>2. ThreadPersists(t)'
    <3>1. nvm'[curr[t]] = Line(curr[t])
      BY <1>1, <2>1 DEF FLUSH, IInv, TypeOK
    <3>2. DeletionIsPersisted(curr[t])'
      BY <1>1, <2>1, <3>1 DEF DeletionIsPersisted, Line, Link
    <3> QED
      BY <2>1, <3>2 DEF ThreadPersists, IInv, TypeOK, DeletionIsPersisted
  <2>3. \A u \in Threads \ {t} : ThreadPersists(u)'
    BY <1>1, <2>1, FlushKeepsOthers DEF IInv, TypeOK
  <2> QED
    BY <1>1, <2>1, <2>2, <2>3, FlushKeepsNodes DEF PInv, recovery
<1> QED
  BY <1>2, <1>3

(* FLUSH_INSERT: a flag that is up saves the flush. *)
LEMMA FlushInsertPersists ==
  ASSUME IInv, PInv, ~QuiesceOnFree, NEW t \in Threads, FlushInsert(t)
  PROVE  PInv'
<1>1. /\ pc[t] = "flushInsert" /\ UNCHANGED <<fields, heap, recovery>>
      /\ Target(t) \in Nodes /\ MayHold(t, Target(t)) /\ valid[Target(t)]
  BY TargetIsHeld DEF FlushInsert, PInv, ThreadPersists, Publishing
<1>2. CASE insertFlag[Target(t)]
  BY <1>1, <1>2, ReturnPersists DEF FlushInsert
<1>3. CASE ~insertFlag[Target(t)]
  <2>1. /\ FLUSH(Target(t)) /\ pc' = [pc EXCEPT ![t] = "setInsert"]
        /\ UNCHANGED <<waits, call, pred, curr, succ, newNode, result>>
    BY <1>3 DEF FlushInsert, Goto
  <2>2. ThreadPersists(t)'
    <3>1. nvm'[Target(t)] = Line(Target(t)) /\ Target(t)' = Target(t)
      BY <1>1, <2>1 DEF FLUSH, Target, IInv, TypeOK
    <3>2. nvm'[Target(t)].valid /\ valid'[Target(t)]
      BY <1>1, <3>1 DEF Line, fields
    <3> QED
      BY <2>1, <3>1, <3>2 DEF ThreadPersists, IInv, TypeOK
  <2>3. \A u \in Threads \ {t} : ThreadPersists(u)'
    BY <1>1, <2>1, FlushKeepsOthers DEF IInv, TypeOK
  <2> QED
    BY <1>1, <2>1, <2>2, <2>3, FlushKeepsNodes DEF PInv, recovery
<1> QED
  BY <1>2, <1>3

-----------------------------------------------------------------------------
(* Steps that write a node. *)

(* What PInv says of n it says still. *)
Untouched(n) ==
  /\ valid'[n] = valid[n] /\ insertFlag'[n] = insertFlag[n] /\ deleteFlag'[n] = deleteFlag[n]
  /\ key'[n] = key[n] /\ marked'[n] = marked[n] /\ Link(n)' = Link(n)
  /\ heap'[n] = heap[n] /\ waits'[n] \subseteq waits[n]

(* A step of a running thread that writes no field of n. *)
LEMMA UntouchedPersists ==
  ASSUME PInv, NEW n \in Nodes, Untouched(n), UNCHANGED <<nvm, phase, todo, burying>>
  PROVE  NodePersists(n)'
<1>1. NodePersists(n) /\ Line(n)' = Line(n)
  BY DEF PInv, Untouched, Line
<1> QED
  BY <1>1 DEF Untouched, NodePersists, VolatileIsRight, FlagsAreTrue, MemberIsOnList,
              RecoveredFromNVM, PersistedMember, DeletionIsPersisted

(* t writes nodes of which no other thread relies on what it changes. *)
LEMMA WritesNodes ==
  ASSUME IInv, PInv, NEW t \in Threads, pc[t] # "idle",
         UNCHANGED <<nvm, recovery>>,
         \A n \in Nodes : \/ Untouched(n)
                          \/ VolatileIsRight(n)' /\ FlagsAreTrue(n)' /\ MemberIsOnList(n)',
         ThreadPersists(t)',
         \A u \in Threads \ {t} :
           /\ pc'[u] = pc[u] /\ curr'[u] = curr[u] /\ newNode'[u] = newNode[u]
           /\ \A n \in Nodes : pc[u] # "idle" /\ MayHold(u, n) /\ valid[n] => valid'[n]
           /\ pc[u] \in Private =>
                LET n == newNode[u]
                IN  /\ insertFlag'[n] = insertFlag[n] /\ deleteFlag'[n] = deleteFlag[n]
                    /\ marked'[n] = marked[n]
  PROVE  PInv'
<1>1. phase' = "running" /\ todo' = {} /\ burying' = Nil
  BY Running DEF recovery
<1>2. ASSUME NEW n \in Nodes
      PROVE  NodePersists(n)'
  <2>1. CASE Untouched(n)
    BY <2>1, UntouchedPersists DEF recovery
  <2>2. CASE VolatileIsRight(n)' /\ FlagsAreTrue(n)' /\ MemberIsOnList(n)'
    BY <1>1, <2>2, NodesAssumption DEF NodePersists, RecoveredFromNVM, AllNodes
  <2> QED
    BY <2>1, <2>2
<1>3. ASSUME NEW u \in Threads \ {t}
      PROVE  ThreadPersists(u)'
  BY <1>3, OthersPersist DEF DeletionIsPersisted
<1>4. PersistedKeysAreUnique'
  BY DEF PInv, PersistedKeysAreUnique, PersistedMember
<1> QED
  BY <1>2, <1>3, <1>4 DEF PInv

(* makeValid, on a node that its caller holds. *)
LEMMA MakeValidPersists ==
  ASSUME IInv, PInv, NEW t \in Threads, MakeValid(t)
  PROVE  PInv'
<1> USE DEF IInv
<1> DEFINE x == Target(t)
<1>1. /\ pc[t] = "makeValid" /\ valid' = [valid EXCEPT ![x] = TRUE]
      /\ UNCHANGED <<insertFlag, deleteFlag, key, next, marked, nvm, heap, waits, call,
                     pred, curr, succ, newNode, result, recovery>>
      /\ pc' = [pc EXCEPT ![t] = IF call[t].op = "remove" THEN "mark" ELSE "flushInsert"]
  BY DEF MakeValid, Goto
<1>2. x \in Nodes /\ heap[x] # "owned" /\ MayHold(t, x)
  BY <1>1, TargetIsHeld, HeldIsSound DEF Publishing
<1>3. \A n \in Nodes : n # x => Untouched(n)
  BY <1>1 DEF Untouched, Link, TypeOK
<1>4. ASSUME NEW n \in Nodes, n = x
      PROVE  VolatileIsRight(n)' /\ FlagsAreTrue(n)' /\ MemberIsOnList(n)'
  <2>1. NodePersists(n)
    BY <1>2 DEF PInv
  <2> QED
    BY <1>4, <1>1, <1>2, <2>1
    DEF NodePersists, VolatileIsRight, FlagsAreTrue, MemberIsOnList, PersistedMember, TypeOK,
        DeletionIsPersisted, Link, recovery
<1>5. ThreadPersists(t)'
  <2>1. valid'[x] /\ Target(t)' = x
    BY <1>1, <1>2 DEF Target, TypeOK
  <2>2. call[t].op = "remove" => x = curr[t]
    BY <1>1 DEF Target, ThreadInv, NewNodeIsPrivate
  <2> QED
    BY <1>1, <2>1, <2>2 DEF ThreadPersists, TypeOK
<1> QED
  BY <1>1, <1>3, <1>4, <1>5, WritesNodes DEF TypeOK

(* The flag goes up after the flush: NVM has the insertion. *)
LEMMA SetInsertFlagPersists ==
  ASSUME IInv, PInv, ~QuiesceOnFree, NEW t \in Threads, SetInsertFlag(t)
  PROVE  PInv'
<1> USE DEF IInv
<1> DEFINE x == Target(t)
<1>1. /\ pc[t] = "setInsert" /\ insertFlag' = [insertFlag EXCEPT ![x] = TRUE]
      /\ UNCHANGED <<valid, deleteFlag, key, next, marked, nvm, heap, recovery>>
      /\ pc' = [pc EXCEPT ![t] = "idle"] /\ waits' = [n \in Nodes |-> waits[n] \ {t}]
      /\ curr' = [curr EXCEPT ![t] = Nil] /\ newNode' = [newNode EXCEPT ![t] = Nil]
  BY DEF SetInsertFlag, Return
<1>2. x \in Nodes /\ heap[x] # "owned" /\ valid[x] /\ nvm[x].valid
  BY <1>1, TargetIsHeld, HeldIsSound DEF Publishing, PInv, ThreadPersists
<1>3. \A n \in Nodes : n # x => Untouched(n)
  BY <1>1 DEF Untouched, Link, TypeOK
<1>4. ASSUME NEW n \in Nodes, n = x
      PROVE  VolatileIsRight(n)' /\ FlagsAreTrue(n)' /\ MemberIsOnList(n)'
  <2>1. NodePersists(n)
    BY <1>2 DEF PInv
  <2> QED
    BY <1>4, <1>1, <1>2, <2>1
    DEF NodePersists, VolatileIsRight, FlagsAreTrue, MemberIsOnList, PersistedMember, TypeOK,
        DeletionIsPersisted, Link, recovery
<1>5. ThreadPersists(t)'
  BY <1>1 DEF ThreadPersists, TypeOK
<1>6. \A u \in Threads \ {t} : pc[u] \in Private =>
        newNode[u] \in Nodes /\ heap[newNode[u]] = "owned"
  BY OwnNode
<1> QED
  BY <1>1, <1>2, <1>3, <1>4, <1>5, <1>6, WritesNodes DEF TypeOK

(* The flag goes up after the flush: NVM has the deletion. *)
LEMMA SetDeleteFlagPersists ==
  ASSUME IInv, PInv, ~QuiesceOnFree, NEW t \in Threads, SetDeleteFlag(t)
  PROVE  PInv'
<1> USE DEF IInv
<1> DEFINE x == curr[t]
<1>1. /\ pc[t] = "setDelete" /\ deleteFlag' = [deleteFlag EXCEPT ![x] = TRUE]
      /\ UNCHANGED <<valid, insertFlag, key, next, marked, nvm, heap, recovery>>
  BY DEF SetDeleteFlag
<1>2. \/ /\ pc' = [pc EXCEPT ![t] = "idle"] /\ waits' = [n \in Nodes |-> waits[n] \ {t}]
         /\ curr' = [curr EXCEPT ![t] = Nil] /\ newNode' = [newNode EXCEPT ![t] = Nil]
      \/ pc' = [pc EXCEPT ![t] = "trim"] /\ UNCHANGED <<waits, curr, newNode>>
  BY DEF SetDeleteFlag, AfterFlushDelete, Return, Goto
<1>3. x \in Nodes /\ heap[x] # "owned" /\ marked[x] /\ DeletionIsPersisted(x)
  BY <1>1, CurrIsHeld, HeldIsSound DEF PInv, ThreadPersists, ThreadInv, TrimsMarkedNodes
<1>4. \A n \in Nodes : n # x => Untouched(n)
  BY <1>1, <1>2 DEF Untouched, Link, TypeOK
<1>5. ASSUME NEW n \in Nodes, n = x
      PROVE  VolatileIsRight(n)' /\ FlagsAreTrue(n)' /\ MemberIsOnList(n)'
  <2>1. NodePersists(n)
    BY <1>3 DEF PInv
  <2> QED
    BY <1>5, <1>1, <1>2, <1>3, <2>1
    DEF NodePersists, VolatileIsRight, FlagsAreTrue, MemberIsOnList, PersistedMember, TypeOK,
        DeletionIsPersisted, Link, recovery
<1>6. ThreadPersists(t)'
  BY <1>1, <1>2, <1>3 DEF ThreadPersists, DeletionIsPersisted, TypeOK
<1>7. \A u \in Threads \ {t} : pc[u] \in Private =>
        newNode[u] \in Nodes /\ heap[newNode[u]] = "owned"
  BY OwnNode
<1> QED
  BY ZenonT(40), <1>1, <1>2, <1>3, <1>4, <1>5, <1>6, <1>7, WritesNodes DEF TypeOK

(* Only a node whose deletion NVM has is unlinked. *)
LEMMA TrimPersists ==
  ASSUME IInv, PInv, ~QuiesceOnFree, NEW t \in Threads, Trim(t)
  PROVE  PInv'
<1> USE DEF IInv
<1>1. /\ pc[t] = "trim" /\ curr[t] \in Nodes /\ marked[curr[t]]
      /\ MayHold(t, curr[t]) /\ DeletionIsPersisted(curr[t]) /\ valid[curr[t]]
      /\ UNCHANGED <<valid, insertFlag, deleteFlag, key, marked, nvm, call, pred, curr,
                     succ, newNode, result, recovery>>
  BY CurrIsHeld, HeldIsSound
  DEF Trim, PInv, ThreadPersists, ThreadInv, TrimsMarkedNodes
<1>2. CASE ~Expects(pred[t], curr[t])
  BY <1>1, <1>2, SilentStep DEF Trim, Goto, Silent, TypeOK, fields, recovery
<1>3. CASE Expects(pred[t], curr[t])
  <2>1. /\ next' = [next EXCEPT ![pred[t]] = next[curr[t]]]
        /\ heap' = [heap EXCEPT ![curr[t]] = "unlinked"]
        /\ waits' = [waits EXCEPT ![curr[t]] = Busy]
        /\ pc' = [pc EXCEPT ![t] = "free"]
    BY <1>3 DEF Trim, Unlink, Goto
  <2>2. pred[t] # curr[t] /\ next[pred[t]] # Nil /\ next[curr[t]] # Nil
    <3>1. /\ next[pred[t]] = curr[t] /\ ~marked[pred[t]]
          /\ curr[t] \in Linked
      BY <1>1, <1>3, PredIsLinked, NodesAssumption DEF Expects, AllNodes
    <3> QED
      BY <1>1, <3>1, LinkedIsNode, NodesAssumption DEF AllNodes
  <2>3. \A n \in Nodes : n # curr[t] => Untouched(n)
    BY <1>1, <2>1, <2>2 DEF Untouched, Link, TypeOK
  <2>4. ASSUME NEW n \in Nodes, n = curr[t]
        PROVE  VolatileIsRight(n)' /\ FlagsAreTrue(n)' /\ MemberIsOnList(n)'
    <3>1. FlagsAreTrue(n)'
      BY <1>1, <2>4, HeldIsSound DEF FlagsAreTrue, DeletionIsPersisted
    <3> QED
      BY <1>1, <2>1, <2>4, <3>1
      DEF VolatileIsRight, MemberIsOnList, PersistedMember, DeletionIsPersisted, TypeOK, Link
  <2>5. ThreadPersists(t)'
    BY <1>1, <2>1 DEF ThreadPersists, DeletionIsPersisted, TypeOK
  <2> QED
    BY <1>1, <2>1, <2>3, <2>4, <2>5, WritesNodes DEF TypeOK
<1> QED
  BY <1>2, <1>3

(* The node goes back to the allocator, dead in memory and in NVM. *)
LEMMA FreeTrimmedPersists ==
  ASSUME IInv, PInv, ~QuiesceOnFree, NEW t \in Threads, FreeTrimmed(t)
  PROVE  PInv'
<1> USE DEF IInv
<1>1. /\ pc[t] = "free" /\ curr[t] \in Nodes /\ heap[curr[t]] = "unlinked"
      /\ heap' = [heap EXCEPT ![curr[t]] = "free"]
      /\ pc' = [pc EXCEPT ![t] = IF result[t] THEN "done" ELSE "advance"]
      /\ UNCHANGED <<fields, nvm, waits, call, pred, curr, succ, newNode, result, recovery>>
  BY DEF FreeTrimmed, Free, Goto, ThreadInv, TrimsMarkedNodes
<1>2. \A n \in Nodes : n # curr[t] => Untouched(n)
  BY <1>1 DEF Untouched, Link, TypeOK, fields
<1>3. ASSUME NEW n \in Nodes, n = curr[t]
      PROVE  VolatileIsRight(n)' /\ FlagsAreTrue(n)' /\ MemberIsOnList(n)'
  <2>1. NodePersists(n)
    BY DEF PInv
  <2> QED
    BY <1>1, <1>3, <2>1
    DEF NodePersists, VolatileIsRight, FlagsAreTrue, MemberIsOnList, PersistedMember, TypeOK,
        DeletionIsPersisted, Link, fields, recovery
<1>4. ThreadPersists(t)'
  BY <1>1 DEF ThreadPersists, TypeOK
<1> QED
  BY <1>1, <1>2, <1>3, <1>4, WritesNodes DEF TypeOK, fields

(* insert takes a node that is valid, and flips it to invalid. *)
LEMMA AllocNodePersists ==
  ASSUME IInv, PInv, NEW t \in Threads, AllocNode(t)
  PROVE  PInv'
<1> USE DEF IInv
<1>1. PICK x \in Nodes :
        /\ heap[x] = "free" /\ waits[x] = {}
        /\ heap' = [heap EXCEPT ![x] = "owned"]
        /\ valid' = [valid EXCEPT ![x] = ~valid[x]]
        /\ newNode' = [newNode EXCEPT ![t] = x]
  BY DEF AllocNode, Allocatable
<1>2. /\ pc[t] = "alloc" /\ pc' = [pc EXCEPT ![t] = "init"]
      /\ UNCHANGED <<insertFlag, deleteFlag, key, next, marked, nvm, waits, call, pred,
                     curr, succ, result, recovery>>
  BY DEF AllocNode, Goto
<1>3. \A n \in Nodes : n # x => Untouched(n)
  BY <1>1, <1>2 DEF Untouched, Link, TypeOK
<1>4. VolatileIsRight(x)' /\ FlagsAreTrue(x)' /\ MemberIsOnList(x)'
  <2>1. NodePersists(x) /\ todo = {}
    BY <1>2, Running DEF PInv
  <2> QED
    BY <1>1, <1>2, <2>1
    DEF NodePersists, VolatileIsRight, FlagsAreTrue, MemberIsOnList, PersistedMember, TypeOK,
        recovery
<1>5. ThreadPersists(t)'
  BY <1>2 DEF ThreadPersists, TypeOK
<1>6. \A u \in Threads : ~MayHold(u, x)
  BY <1>1, NodesAssumption DEF MayHold, Linked, AllNodes
<1> QED
  BY <1>1, <1>2, <1>3, <1>4, <1>5, <1>6, WritesNodes DEF TypeOK

(* insert writes the fields of its own node, which NVM may not yet have alive.*)
LEMMA OwnNodePersists ==
  ASSUME IInv, PInv, NEW t \in Threads, NEW x \in Nodes, pc[t] \in Private, x = newNode[t],
         UNCHANGED <<valid, nvm, heap, waits, recovery>>,
         \A n \in Nodes \ {x} :
           /\ insertFlag'[n] = insertFlag[n] /\ deleteFlag'[n] = deleteFlag[n]
           /\ key'[n] = key[n] /\ next'[n] = next[n] /\ marked'[n] = marked[n],
         \A u \in Threads \ {t} :
           pc'[u] = pc[u] /\ curr'[u] = curr[u] /\ newNode'[u] = newNode[u],
         ThreadPersists(t)'
  PROVE  PInv'
<1> USE DEF IInv
<1>1. /\ pc[t] # "idle" /\ heap[x] = "owned" /\ waits[x] = {}
      /\ \A u \in Threads \ {t} : pc[u] \in Private => newNode[u] \in Nodes \ {x}
  BY OwnNode DEF Private
<1>2. \A n \in Nodes : n # x => Untouched(n)
  BY DEF Untouched, Link
<1>3. VolatileIsRight(x)' /\ FlagsAreTrue(x)' /\ MemberIsOnList(x)'
  <2>1. NodePersists(x) /\ todo = {}
    BY <1>1, Running DEF PInv
  <2> QED
    BY <1>1, <2>1
    DEF NodePersists, VolatileIsRight, FlagsAreTrue, MemberIsOnList, PersistedMember, recovery
<1> QED
  BY <1>1, <1>2, <1>3, WritesNodes

(* insert clears the flags of the node it reuses. *)
LEMMA InitNodePersists ==
  ASSUME IInv, PInv, NEW t \in Threads, InitNode(t)
  PROVE  PInv'
<1> USE DEF IInv
<1>1. PICK x \in Nodes : x = newNode[t]
  BY OwnNode DEF InitNode, Private
<1>2. /\ pc[t] = "init" /\ pc' = [pc EXCEPT ![t] = "link"]
      /\ insertFlag' = [insertFlag EXCEPT ![x] = FALSE]
      /\ deleteFlag' = [deleteFlag EXCEPT ![x] = FALSE]
      /\ key' = [key EXCEPT ![x] = call[t].arg]
      /\ next' = [next EXCEPT ![x] = curr[t]]
      /\ marked' = [marked EXCEPT ![x] = FALSE]
      /\ UNCHANGED <<valid, nvm, heap, waits, call, pred, curr, succ, newNode, result, recovery>>
  BY <1>1 DEF InitNode, Goto
<1>3. ThreadPersists(t)'
  BY <1>1, <1>2 DEF ThreadPersists, TypeOK
<1> QED
  BY <1>1, <1>2, <1>3, OwnNodePersists DEF Private, TypeOK, AllNodes

(* A node that lost the race is marked while it is still invalid. *)
LEMMA MarkUnlinkedPersists ==
  ASSUME IInv, PInv, NEW t \in Threads, MarkUnlinked(t)
  PROVE  PInv'
<1> USE DEF IInv
<1>1. PICK x \in Nodes : x = newNode[t]
  BY OwnNode DEF MarkUnlinked, Private
<1>2. /\ pc[t] = "markUnlinked" /\ pc' = [pc EXCEPT ![t] = "undo"]
      /\ next' = [next EXCEPT ![x] = Nil]
      /\ marked' = [marked EXCEPT ![x] = TRUE]
      /\ UNCHANGED <<valid, insertFlag, deleteFlag, key, nvm, heap, waits, call, pred,
                     curr, succ, newNode, result, recovery>>
  BY <1>1 DEF MarkUnlinked, Goto
<1>3. ThreadPersists(t)'
  BY <1>1, <1>2 DEF ThreadPersists, TypeOK, AllNodes
<1> QED
  BY <1>1, <1>2, <1>3, OwnNodePersists DEF Private, TypeOK, AllNodes

(* It goes back valid and marked, as a node that was removed does. *)
LEMMA UndoInsertPersists ==
  ASSUME IInv, PInv, ~QuiesceOnFree, NEW t \in Threads, UndoInsert(t)
  PROVE  PInv'
<1> USE DEF IInv
<1>1. PICK x \in Nodes : x = newNode[t]
  BY OwnNode DEF UndoInsert, Private
<1>2. /\ pc[t] = "undo" /\ pc' = [pc EXCEPT ![t] = "restart"]
      /\ valid' = [valid EXCEPT ![x] = TRUE]
      /\ heap' = [heap EXCEPT ![x] = "free"]
      /\ newNode' = [newNode EXCEPT ![t] = Nil]
      /\ UNCHANGED <<insertFlag, deleteFlag, key, next, marked, nvm, waits, call, pred, curr,
                     succ, result, recovery>>
  BY <1>1 DEF UndoInsert, Free, Goto
<1>3. heap[x] = "owned" /\ waits[x] = {} /\ marked[x]
  BY <1>1, <1>2, OwnNode DEF Private, PInv, ThreadPersists
<1>4. \A n \in Nodes : n # x => Untouched(n)
  BY <1>2 DEF Untouched, Link, TypeOK
<1>5. VolatileIsRight(x)' /\ FlagsAreTrue(x)' /\ MemberIsOnList(x)'
  <2>1. NodePersists(x) /\ todo = {}
    BY <1>2, Running DEF PInv
  <2> QED
    BY <1>2, <1>3, <2>1
    DEF NodePersists, VolatileIsRight, FlagsAreTrue, MemberIsOnList, PersistedMember, TypeOK,
        Link, recovery
<1>6. ThreadPersists(t)'
  BY <1>2 DEF ThreadPersists, TypeOK
<1> QED
  BY <1>2, <1>4, <1>5, <1>6, WritesNodes DEF TypeOK

(* A node enters the list invalid, with both flags down. *)
LEMMA LinkNodePersists ==
  ASSUME IInv, PInv, NEW t \in Threads, LinkNode(t)
  PROVE  PInv'
<1> USE DEF IInv
<1>1. PICK x \in Nodes : x = newNode[t]
  BY OwnNode DEF LinkNode, Private
<1>2. /\ pc[t] = "link"
      /\ UNCHANGED <<valid, insertFlag, deleteFlag, key, marked, nvm, waits, call, pred, curr,
                     succ, newNode, recovery>>
  BY DEF LinkNode
<1>3. CASE ~Expects(pred[t], curr[t])
  BY <1>2, <1>3, SilentStep DEF LinkNode, Goto, Silent, TypeOK, fields, recovery
<1>4. CASE Expects(pred[t], curr[t])
  <2>1. /\ next' = [next EXCEPT ![pred[t]] = x]
        /\ heap' = [heap EXCEPT ![x] = "linked"]
        /\ pc' = [pc EXCEPT ![t] = "makeValid"]
    BY <1>1, <1>4 DEF LinkNode, Goto
  <2>2. /\ heap[x] = "owned" /\ waits[x] = {} /\ x # pred[t]
        /\ ~marked[x] /\ ~insertFlag[x] /\ ~deleteFlag[x]
    BY <1>1, <1>2, OwnNode DEF Private, PInv, ThreadPersists, ThreadInv, LinkIsReady
  <2>3. next[pred[t]] # Nil /\ x # Nil
    BY <1>2, <1>4, Holding, NodesAssumption DEF Expects, AllNodes
  <2>4. \A n \in Nodes : n # x => Untouched(n)
    BY <1>2, <2>1, <2>3 DEF Untouched, Link, TypeOK
  <2>5. VolatileIsRight(x)' /\ FlagsAreTrue(x)' /\ MemberIsOnList(x)'
    <3>1. NodePersists(x) /\ todo = {}
      BY <1>2, Running DEF PInv
    <3> QED
      BY <1>2, <2>1, <2>2, <3>1
      DEF NodePersists, VolatileIsRight, FlagsAreTrue, MemberIsOnList, PersistedMember, TypeOK,
          recovery
  <2>6. ThreadPersists(t)'
    BY <2>1 DEF ThreadPersists, TypeOK
  <2> QED
    BY <1>2, <2>1, <2>4, <2>5, <2>6, WritesNodes DEF TypeOK
<1> QED
  BY <1>3, <1>4

(* The node that remove marks is valid. *)
LEMMA MarkPersists ==
  ASSUME IInv, PInv, NEW t \in Threads, Mark(t)
  PROVE  PInv'
<1> USE DEF IInv
<1>1. PICK x \in Nodes : x = curr[t] /\ MayHold(t, x)
  BY CurrIsHeld DEF Mark
<1>2. /\ pc[t] = "mark" /\ valid[x] /\ heap[x] # "owned"
      /\ UNCHANGED <<valid, insertFlag, deleteFlag, key, next, nvm, heap, waits, call, pred,
                     curr, succ, newNode, recovery>>
  BY <1>1, HeldIsSound DEF Mark, PInv, ThreadPersists
<1>3. CASE ~Expects(curr[t], succ[t])
  BY <1>2, <1>3, SilentStep DEF Mark, Goto, Silent, TypeOK, fields, recovery
<1>4. CASE Expects(curr[t], succ[t])
  <2>1. marked' = [marked EXCEPT ![x] = TRUE] /\ pc' = [pc EXCEPT ![t] = "flushDelete"]
    BY <1>1, <1>4 DEF Mark, Goto
  <2>2. \A n \in Nodes : n # x => Untouched(n)
    BY <1>2, <2>1 DEF Untouched, Link, TypeOK
  <2>3. VolatileIsRight(x)' /\ FlagsAreTrue(x)' /\ MemberIsOnList(x)'
    <3>1. NodePersists(x) /\ marked'[x]
      BY <2>1 DEF PInv, TypeOK, AllNodes
    <3> QED
      BY <1>2, <3>1
      DEF NodePersists, VolatileIsRight, FlagsAreTrue, MemberIsOnList, PersistedMember,
          DeletionIsPersisted, Link, recovery
  <2>4. ThreadPersists(t)'
    BY <2>1 DEF ThreadPersists, TypeOK
  <2>5. \A u \in Threads \ {t} : pc[u] \in Private => newNode[u] \in Nodes \ {x}
    BY <1>2, OwnNode
  <2> QED
    BY <1>2, <2>1, <2>2, <2>3, <2>4, <2>5, WritesNodes DEF TypeOK, AllNodes
<1> QED
  BY <1>3, <1>4

-----------------------------------------------------------------------------
(* The crash and the recovery. *)

(* A crash leaves in memory what NVM holds. *)
LEMMA CrashPersists ==
  ASSUME IInv, PInv, Crash
  PROVE  PInv'
<1> USE DEF IInv
<1>1. ASSUME NEW n \in Nodes
      PROVE  NodePersists(n)'
  <2>1. /\ nvm[n] \in Lines /\ NodePersists(n)
        /\ n \in AllNodes /\ n # Head /\ n # Nil /\ Tail # Nil
    BY NodesAssumption DEF PInv, TypeOK, AllNodes
  <2>2. Line(n)' = nvm[n]
    BY <2>1 DEF Crash, Line, Link, Lines
  <2>3. /\ heap'[n] = "free" /\ waits'[n] = {} /\ todo' = Nodes /\ burying' = Nil
        /\ nvm' = nvm /\ key'[n] = nvm[n].key
    BY <2>1 DEF Crash, ChunkNodes
  <2> QED
    BY <2>1, <2>2, <2>3
    DEF NodePersists, VolatileIsRight, FlagsAreTrue, MemberIsOnList, RecoveredFromNVM,
        PersistedMember
<1>2. \A t \in Threads : ThreadPersists(t)'
  BY DEF Crash, ThreadPersists
<1>3. PersistedKeysAreUnique'
  BY DEF Crash, PInv, PersistedKeysAreUnique, PersistedMember
<1> QED
  BY <1>1, <1>2, <1>3 DEF PInv

(* A step of recover() that deals with one node n and leaves the others alone.*)
LEMMA RecoveryStep ==
  ASSUME IInv, PInv, phase = "recovering", NEW n \in Nodes, NodePersists(n)',
         UNCHANGED <<nvm, locals>>, phase' = phase,
         \A m \in Nodes \ {n} :
           /\ Line(m)' = Line(m) /\ valid'[m] = valid[m] /\ marked'[m] = marked[m]
           /\ insertFlag'[m] = insertFlag[m] /\ deleteFlag'[m] = deleteFlag[m]
           /\ key'[m] = key[m]
           /\ heap'[m] = heap[m] /\ waits'[m] = waits[m]
           /\ m \in todo' <=> m \in todo
           /\ m # burying /\ m # burying'
  PROVE  PInv'
<1>1. ASSUME NEW m \in Nodes \ {n}
      PROVE  NodePersists(m)'
  <2>1. NodePersists(m) /\ Link(m)' = Link(m)
    BY DEF PInv, Line
  <2> QED
    BY <2>1 DEF NodePersists, VolatileIsRight, FlagsAreTrue, MemberIsOnList,
                RecoveredFromNVM, PersistedMember, DeletionIsPersisted
<1>2. \A t \in Threads : ThreadPersists(t)'
  BY RecoveringAlone DEF ThreadPersists, locals
<1>3. PersistedKeysAreUnique'
  BY DEF PInv, PersistedKeysAreUnique, PersistedMember
<1> QED
  BY <1>1, <1>2, <1>3 DEF PInv

(* A node that was never used stays free. *)
LEMMA RecoverNeverUsedPersists ==
  ASSUME IInv, PInv, NEW n \in Nodes, RecoverNeverUsed(n)
  PROVE  PInv'
<1> USE DEF IInv
<1>1. /\ phase = "recovering" /\ burying = Nil /\ n \in todo /\ NeverUsed(n)
      /\ todo' = todo \ {n}
      /\ UNCHANGED <<fields, nvm, heap, waits, locals, phase, burying>>
  BY DEF RecoverNeverUsed
<1>2. Line(n) = nvm[n] /\ heap[n] = "free" /\ waits[n] = {} /\ n # Nil
  BY <1>1, RecoveringAlone, NodesAssumption DEF PInv, NodePersists, RecoveredFromNVM, AllNodes
<1>3. Link(n) = "null" /\ ~PersistedMember(n) /\ valid[n]
  BY <1>1, <1>2 DEF NeverUsed, PersistedMember, Line, Link
<1>4. NodePersists(n)'
  BY <1>1, <1>2, <1>3
  DEF NodePersists, VolatileIsRight, FlagsAreTrue, MemberIsOnList, RecoveredFromNVM,
      PersistedMember, Link, fields
<1>5. \A m \in Nodes : Line(m)' = Line(m) /\ m # Nil
  BY <1>1, NodesAssumption DEF Line, Link, fields, AllNodes
<1> QED
  BY <1>1, <1>4, <1>5, RecoveryStep DEF fields

(* A dead node is marked, and then made valid: it stays dead throughout. *)
LEMMA RecoverMarkDeadPersists ==
  ASSUME IInv, PInv, NEW n \in Nodes, RecoverMarkDead(n)
  PROVE  PInv'
<1> USE DEF IInv
<1>1. /\ phase = "recovering" /\ burying = Nil /\ n \in todo /\ Dead(n)
      /\ next' = [next EXCEPT ![n] = Nil] /\ marked' = [marked EXCEPT ![n] = TRUE]
      /\ burying' = n
      /\ UNCHANGED <<valid, insertFlag, deleteFlag, key, nvm, heap, waits, locals, phase, todo>>
  BY DEF RecoverMarkDead
<1>2. Line(n) = nvm[n] /\ heap[n] = "free" /\ waits[n] = {} /\ n # Nil
  BY <1>1, RecoveringAlone, NodesAssumption DEF PInv, NodePersists, RecoveredFromNVM, AllNodes
<1>3. ~PersistedMember(n)
  BY <1>1, <1>2 DEF Dead, PersistedMember, Line, Link
<1>4. NodePersists(n)'
  <2>1. marked'[n]
    BY <1>1 DEF TypeOK, AllNodes
  <2> QED
    BY <1>1, <1>2, <1>3, <2>1
    DEF NodePersists, VolatileIsRight, FlagsAreTrue, MemberIsOnList, RecoveredFromNVM,
        PersistedMember
<1>5. \A m \in Nodes \ {n} : Line(m)' = Line(m) /\ marked'[m] = marked[m] /\ m # Nil
  BY <1>1, NodesAssumption DEF Line, Link, TypeOK, AllNodes
<1> QED
  BY <1>1, <1>4, <1>5, RecoveryStep

(* The dead node is made valid, and can be handed out again. *)
LEMMA RecoverFreeDeadPersists ==
  ASSUME IInv, PInv, NEW n \in Nodes, RecoverFreeDead(n)
  PROVE  PInv'
<1> USE DEF IInv
<1>1. /\ phase = "recovering" /\ burying = n /\ n \in todo
      /\ valid' = [valid EXCEPT ![n] = TRUE] /\ todo' = todo \ {n} /\ burying' = Nil
      /\ UNCHANGED <<insertFlag, deleteFlag, key, next, marked, nvm, heap, waits, locals, phase>>
  BY DEF RecoverFreeDead
<1>2. marked[n] /\ ~PersistedMember(n) /\ heap[n] = "free" /\ waits[n] = {} /\ n # Nil
  BY <1>1, RecoveringAlone, NodesAssumption DEF PInv, NodePersists, RecoveredFromNVM, AllNodes
<1>3. NodePersists(n)'
  BY <1>1, <1>2
  DEF NodePersists, VolatileIsRight, FlagsAreTrue, MemberIsOnList, RecoveredFromNVM,
      PersistedMember, Link, TypeOK
<1>4. \A m \in Nodes \ {n} : Line(m)' = Line(m) /\ valid'[m] = valid[m] /\ m # Nil
  BY <1>1, NodesAssumption DEF Line, Link, TypeOK, AllNodes
<1> QED
  BY <1>1, <1>3, <1>4, RecoveryStep

(* A member is linked again: what NVM holds of it does not change. *)
LEMMA QuickInsertPersists ==
  ASSUME IInv, PInv, NEW n \in Nodes, QuickInsert(n)
  PROVE  PInv'
<1> USE DEF IInv
<1>1. PICK p \in Linked : next' = [next EXCEPT ![n] = next[p], ![p] = n]
  BY DEF QuickInsert
<1>2. /\ phase = "recovering" /\ burying = Nil /\ n \in todo /\ Alive(n)
      /\ heap' = [heap EXCEPT ![n] = "linked"] /\ todo' = todo \ {n}
      /\ UNCHANGED <<valid, insertFlag, deleteFlag, key, marked, nvm, waits, locals, phase,
                     burying>>
  BY DEF QuickInsert
<1>3. /\ Line(n) = nvm[n] /\ NodePersists(n) /\ n # Nil /\ n \notin Linked
      /\ next[p] # Nil /\ p \in AllNodes /\ p # n
  BY <1>2, RecoveringAlone, LinkedIsNode, NodesAssumption
  DEF PInv, NodePersists, RecoveredFromNVM, AllNodes
<1>4. valid[n] /\ ~marked[n] /\ Link(n) = "ref" /\ PersistedMember(n)
  BY <1>2, <1>3 DEF Alive, NeverUsed, Dead, PersistedMember, Line, Link
<1>5. \A m \in Nodes : Line(m)' = Line(m) /\ m # Nil
  <2>1. next'[n] # Nil /\ next[n] # Nil
    BY <1>1, <1>3, <1>4 DEF Link, TypeOK, AllNodes
  <2>2. next'[p] # Nil
    BY <1>1, <1>3 DEF TypeOK, AllNodes
  <2>3. \A m \in Nodes : next'[m] = Nil <=> next[m] = Nil
    BY <1>1, <1>3, <2>1, <2>2 DEF TypeOK, AllNodes
  <2> QED
    BY <1>2, <2>3, NodesAssumption DEF Line, Link, AllNodes
<1>6. NodePersists(n)'
  <2>1. ~deleteFlag[n] /\ (insertFlag[n] => nvm[n].valid)
    BY <1>3, <1>4 DEF NodePersists, MemberIsOnList, PersistedMember, Line
  <2> QED
    BY <1>2, <1>3, <1>4, <1>5, <2>1
    DEF NodePersists, VolatileIsRight, FlagsAreTrue, MemberIsOnList, RecoveredFromNVM,
        PersistedMember, TypeOK
<1>7. \A m \in Nodes \ {n} : heap'[m] = heap[m] /\ (m \in todo' <=> m \in todo)
  BY <1>2 DEF TypeOK
<1> QED
  BY <1>2, <1>5, <1>6, <1>7, RecoveryStep

(* The last node recovered: NVM and memory agree on the members. *)
LEMMA RecoverDonePersists ==
  ASSUME IInv, PInv, RecoverDone
  PROVE  PInv'
<1> USE DEF IInv
<1>1. /\ phase = "recovering" /\ phase' = "running" /\ todo = {} /\ burying = Nil
      /\ UNCHANGED <<fields, nvm, heap, waits, locals, todo, burying>>
  BY NodesAssumption DEF RecoverDone, RecoveryIsAlone
<1>2. ASSUME NEW n \in Nodes
      PROVE  NodePersists(n)'
  <2>1. NodePersists(n)
    BY DEF PInv
  <2> QED
    BY <1>1, <2>1
    DEF NodePersists, VolatileIsRight, FlagsAreTrue, MemberIsOnList, RecoveredFromNVM,
        PersistedMember, DeletionIsPersisted, Line, Link, fields
<1>3. \A t \in Threads : ThreadPersists(t)'
  BY <1>1, RecoveringAlone DEF ThreadPersists, locals
<1>4. PersistedKeysAreUnique'
  BY <1>1 DEF PInv, PersistedKeysAreUnique, PersistedMember
<1> QED
  BY <1>2, <1>3, <1>4 DEF PInv

-----------------------------------------------------------------------------
(* ssmem's fresh memory is valid and unlinked, in NVM too. *)
LEMMA InitPInv == Init => PInv
<1> SUFFICES ASSUME Init PROVE PInv
  OBVIOUS
<1>1. ASSUME NEW n \in Nodes
      PROVE  NodePersists(n) /\ ~PersistedMember(n)
  <2>1. Link(n) = "null" /\ nvm[n].link = "null" /\ n # Nil
    BY NodesAssumption DEF Init, Link, Line, AllNodes
  <2> QED
    BY <2>1 DEF Init, NodePersists, VolatileIsRight, FlagsAreTrue, MemberIsOnList,
                RecoveredFromNVM, PersistedMember
<1>2. \A t \in Threads : ThreadPersists(t)
  BY DEF Init, ThreadPersists
<1>3. PersistedKeysAreUnique
  BY <1>1 DEF PersistedKeysAreUnique
<1> QED
  BY <1>1, <1>2, <1>3 DEF PInv

(* Every step keeps what is known of NVM. *)
LEMMA NextPInv ==
  ASSUME ~QuiesceOnFree, IInv, PInv, [Next]_vars
  PROVE  PInv'
<1>1. ASSUME NEW t \in Threads, Step(t)
      PROVE  PInv'
  BY <1>1, SearchPersists, FlushDeletePersists, SetDeleteFlagPersists, TrimPersists,
     FreeTrimmedPersists, MakeValidPersists, FlushInsertPersists, SetInsertFlagPersists,
     AllocNodePersists, InitNodePersists, LinkNodePersists, MarkUnlinkedPersists,
     UndoInsertPersists, MarkPersists
  DEF Step
<1>2. ASSUME NEW t \in Threads, NEW c \in DS!Calls, Invoke(t, c)
      PROVE  PInv'
  BY <1>2, SearchPersists
<1>3. ASSUME NEW n \in Nodes, Evict(n)
      PROVE  PInv'
  BY <1>3, EvictPersists
<1>4. CASE Crash
  BY <1>4, CrashPersists
<1>5. CASE Recover
  BY <1>5, RecoverNeverUsedPersists, RecoverMarkDeadPersists, RecoverFreeDeadPersists,
     QuickInsertPersists, RecoverDonePersists
  DEF Recover
<1>6. CASE UNCHANGED vars
  <2>1. \A n \in Nodes : NodePersists(n)'
    BY <1>6 DEF PInv, NodePersists, VolatileIsRight, FlagsAreTrue, MemberIsOnList,
                RecoveredFromNVM, PersistedMember, DeletionIsPersisted, Line, Link, vars,
                fields, recovery
  <2>2. \A t \in Threads : ThreadPersists(t)'
    BY <1>6 DEF PInv, ThreadPersists, Target, DeletionIsPersisted, vars, fields, locals
  <2>3. PersistedKeysAreUnique'
    BY <1>6 DEF PInv, PersistedKeysAreUnique, PersistedMember, vars
  <2> QED
    BY <2>1, <2>2, <2>3 DEF PInv
<1> QED
  BY <1>1, <1>2, <1>3, <1>4, <1>5, <1>6 DEF Next

(* PInv holds in every state of every behaviour. *)
LEMMA PersistenceInvariance ==
  ASSUME ~QuiesceOnFree
  PROVE  Spec => [](IInv /\ PInv)
<1>1. IInv /\ PInv /\ [Next]_vars => PInv'
  BY NextPInv
<1> QED
  BY <1>1, InitPInv, Invariance, PTL DEF Spec

-----------------------------------------------------------------------------
(* "if the node is marked, it must be valid" (contains): whatever node a      *)
(* thread meets with the mark, its deletion can be flushed as it stands.     *)
THEOREM MarkedNodesAreValid ==
  ASSUME ~QuiesceOnFree
  PROVE  Spec => []MarkedIsValid
<1>1. IInv /\ PInv => MarkedIsValid
  <2> SUFFICES ASSUME IInv, PInv, phase = "running", NEW n \in Nodes, marked[n],
                      heap[n] # "owned"
               PROVE  valid[n]
    BY DEF MarkedIsValid
  <2>1. VolatileIsRight(n) /\ todo = {}
    BY DEF PInv, NodePersists, IInv, RecoveryIsAlone
  <2> QED
    BY <2>1 DEF VolatileIsRight, IInv, TypeOK
<1> QED
  BY <1>1, PersistenceInvariance, PTL

(* FLUSH_INSERT and FLUSH_DELETE may skip the flush when the flag is up: NVM  *)
(* has the insertion or the deletion, and keeps it while anyone holds the    *)
(* node.                                                                     *)
THEOREM FlagsTellOfNVM ==
  ASSUME ~QuiesceOnFree
  PROVE  Spec => []FlagsArePersisted
<1>1. PInv => FlagsArePersisted
  BY DEF PInv, NodePersists, FlagsAreTrue, FlagsArePersisted, DeletionIsPersisted
<1> QED
  BY <1>1, PersistenceInvariance, PTL

(* A node that trim unlinked, that lost its race to be linked, or that waits  *)
(* to be reused is no member in NVM, so no crash brings it back.             *)
THEOREM FreedNodesAreDeadInNVM ==
  ASSUME ~QuiesceOnFree
  PROVE  Spec => []FreedNodesStayDead
<1>1. IInv /\ PInv => FreedNodesStayDead
  BY DEF IInv, RecoveryIsAlone, PInv, NodePersists, MemberIsOnList, FreedNodesStayDead
<1> QED
  BY <1>1, PersistenceInvariance, PTL

(* At no moment at which a crash may come does NVM hold two members with one  *)
(* key, the evictions and the old nodes of reused memory included.           *)
THEOREM NVMHoldsNoKeyTwice ==
  ASSUME ~QuiesceOnFree
  PROVE  Spec => []PersistedKeysAreUnique
BY PersistenceInvariance, PTL DEF PInv

(* Neither assertion of quickInsert can fail, whenever the crash came and     *)
(* even if an earlier recovery was itself cut short by one.                  *)
THEOREM QuickInsertAssertionsHold ==
  ASSUME ~QuiesceOnFree
  PROVE  Spec => []RecoveryAssertionsHold
<1>1. IInv /\ PInv => RecoveryAssertionsHold
  <2> SUFFICES ASSUME IInv, PInv, phase = "recovering", burying = Nil, NEW n \in todo, Alive(n),
                      NEW m \in Linked
               PROVE  ~marked[m] /\ key[m] # key[n]
    BY DEF RecoveryAssertionsHold, AssertionFails
  <2>1. n \in Nodes /\ n # Nil /\ NodePersists(n) /\ n \notin Linked
    BY RecoveringAlone, NodesAssumption DEF PInv, AllNodes
  <2>2. Line(n) = nvm[n] /\ PersistedMember(n)
    BY <2>1 DEF NodePersists, RecoveredFromNVM, Alive, NeverUsed, Dead, PersistedMember, Line,
                Link
  <2>3. nvm[n].key = key[n] /\ key[n] # MinKey
    BY <2>1, <2>2 DEF NodePersists, MemberIsOnList
  <2>4. CASE m = Head
    BY <2>3, <2>4 DEF IInv, SentinelsAreFixed
  <2>5. CASE m # Head
    <3>1. m \in Nodes /\ heap[m] = "linked" /\ NodePersists(m)
      BY <2>5, LinkedIsNode DEF PInv
    <3>2. Line(m) = nvm[m] /\ PersistedMember(m) /\ nvm[m].key = key[m]
      BY <3>1 DEF NodePersists, RecoveredFromNVM, MemberIsOnList
    <3>3. ~marked[m]
      BY <3>2 DEF PersistedMember, Line, Link
    <3>4. key[m] # key[n]
      BY <2>1, <2>2, <2>3, <3>1, <3>2 DEF PInv, PersistedKeysAreUnique
    <3> QED
      BY <3>3, <3>4
  <2> QED
    BY <2>4, <2>5
<1> QED
  BY <1>1, PersistenceInvariance, PTL

-----------------------------------------------------------------------------
(* What the histories promise. *)

(* What the calls c are. *)
CallsOf(c) == c \in [Threads -> DS!Calls \union {DS!None}]

(* One operation takes effect. *)
EffectStep(c) ==
  {gh \in DS!Configurations \X DS!Configurations :
     \E t \in DS!Running(c, gh[1]) : gh[2] = DS!TakeEffect(c, gh[1], t)}

(* An effect leads from a configuration to a configuration. *)
LEMMA EffectType ==
  ASSUME NEW c, CallsOf(c), NEW g \in DS!Configurations, NEW t \in DS!Running(c, g)
  PROVE  /\ DS!TakeEffect(c, g, t) \in DS!Configurations
         /\ <<g, DS!TakeEffect(c, g, t)>> \in EffectStep(c)
         /\ c[t] \in DS!Calls
<1>1. t \in Threads /\ c[t] \in DS!Calls /\ t \notin DOMAIN g.res
  BY DEF CallsOf, DS!Running
<1>2. g.set \in SUBSET Keys
  BY DEF DS!Configurations
<1>3. c[t].op \in DS!Operations /\ c[t].arg \in Keys
  BY <1>1 DEF DS!Calls
<1>4. DS!SetAfter(c[t], g.set) \in SUBSET Keys /\ DS!AnswerOf(c[t], g.set) \in BOOLEAN
  <2>1. CASE c[t].op = "insert"
    BY <1>2, <1>3, <2>1 DEF DS!SetAfter, DS!AnswerOf
  <2>2. CASE c[t].op = "remove"
    BY <1>2, <1>3, <2>2 DEF DS!SetAfter, DS!AnswerOf
  <2>3. CASE c[t].op = "contains"
    BY <1>2, <1>3, <2>3 DEF DS!SetAfter, DS!AnswerOf
  <2> QED
    BY <1>3, <2>1, <2>2, <2>3 DEF DS!Operations
<1>5. PICK T \in SUBSET Threads : g.res \in [T -> BOOLEAN]
  BY DEF DS!Configurations
<1> DEFINE h == [u \in DOMAIN g.res \union {t} |->
                   IF u = t THEN DS!AnswerOf(c[t], g.set) ELSE g.res[u]]
<1>6. h \in [T \union {t} -> BOOLEAN] /\ T \union {t} \in SUBSET Threads
  BY <1>1, <1>4, <1>5
<1>7. DS!TakeEffect(c, g, t) = [set |-> DS!SetAfter(c[t], g.set), res |-> h]
  BY DEF DS!TakeEffect
<1> HIDE DEF h
<1>8. DS!TakeEffect(c, g, t) \in DS!Configurations
  BY <1>4, <1>6, <1>7 DEF DS!Configurations
<1> QED
  BY <1>1, <1>8 DEF EffectStep

(* The answers given so far: at most one of each thread, one more with each effect. *)
LEMMA AnswersGrow ==
  ASSUME NEW c, CallsOf(c)
  PROVE  LET r == [g \in DS!Configurations |-> Cardinality(DOMAIN g.res)] IN
         /\ r \in [DS!Configurations -> 0..Cardinality(Threads)]
         /\ \A g, h \in DS!Configurations : <<g, h>> \in EffectStep(c) => r[g] < r[h]
<1> DEFINE C(g) == Cardinality(DOMAIN g.res)
<1>1. ASSUME NEW g \in DS!Configurations
      PROVE  IsFiniteSet(DOMAIN g.res) /\ C(g) \in 0..Cardinality(Threads)
  <2>1. DOMAIN g.res \in SUBSET Threads
    BY DEF DS!Configurations
  <2> QED
    BY <2>1, ThreadsAssumption, FS_Subset, FS_CardinalityType
<1>2. ASSUME NEW g \in DS!Configurations, NEW h \in DS!Configurations, <<g, h>> \in EffectStep(c)
      PROVE  C(g) < C(h)
  <2>1. PICK t \in DS!Running(c, g) : h = DS!TakeEffect(c, g, t)
    BY <1>2 DEF EffectStep
  <2>2. DOMAIN h.res = DOMAIN g.res \union {t} /\ t \notin DOMAIN g.res
    BY <2>1 DEF DS!TakeEffect, DS!Running
  <2>3. C(h) = C(g) + 1
    BY <1>1, <2>2, FS_AddElement
  <2> QED
    BY <1>1, <2>3
<1> HIDE DEF C
<1>3. [g \in DS!Configurations |-> C(g)] \in [DS!Configurations -> 0..Cardinality(Threads)]
  BY <1>1
<1> QED
  BY <1>2, <1>3 DEF C

(* ReachFrom goes as many rounds as there are threads. *)
LEMMA ReachRounds ==
  ASSUME NEW c, CallsOf(c), NEW o \in SUBSET DS!Configurations
  PROVE  \E f : /\ Rounds(f, Cardinality(Threads), DS!Configurations, EffectStep(c), o)
                /\ DS!ReachFrom(c, o) = f[Cardinality(Threads)]
<1> DEFINE N == Cardinality(Threads)
           D == DS!Configurations
           G(x) == x \union UNION {{DS!TakeEffect(c, g, t) : t \in DS!Running(c, g)} : g \in x}
           Rec(f) == f = [k \in 0..N |-> IF k = 0 THEN o ELSE G(f[k-1])]
<1>1. N \in Nat
  BY ThreadsAssumption, FS_CardinalityType
<1>2. ASSUME NEW x \in SUBSET D
      PROVE  G(x) = OneRound(x, D, EffectStep(c))
  <2>1. ASSUME NEW g \in x, NEW t \in DS!Running(c, g)
        PROVE  /\ DS!TakeEffect(c, g, t) \in D
               /\ <<g, DS!TakeEffect(c, g, t)>> \in EffectStep(c)
    BY EffectType
  <2>2. ASSUME NEW g \in x, NEW h \in D, <<g, h>> \in EffectStep(c)
        PROVE  \E t \in DS!Running(c, g) : h = DS!TakeEffect(c, g, t)
    BY <2>2 DEF EffectStep
  <2>3. \A h \in G(x) : h \in OneRound(x, D, EffectStep(c))
    <3> SUFFICES ASSUME NEW h \in G(x) PROVE h \in OneRound(x, D, EffectStep(c))
      OBVIOUS
    <3>1. CASE h \in x
      BY <3>1 DEF OneRound
    <3>2. CASE \E g \in x : \E t \in DS!Running(c, g) : h = DS!TakeEffect(c, g, t)
      BY <2>1, <3>2 DEF OneRound
    <3> QED
      BY <3>1, <3>2
  <2>4. \A h \in OneRound(x, D, EffectStep(c)) : h \in G(x)
    <3> SUFFICES ASSUME NEW h \in D, NEW g \in x, <<g, h>> \in EffectStep(c) PROVE h \in G(x)
      BY DEF OneRound
    <3>1. PICK t \in DS!Running(c, g) : h = DS!TakeEffect(c, g, t)
      BY <2>2
    <3> QED
      BY <3>1
  <2> QED
    BY <2>3, <2>4
<1>3. PICK g : Rounds(g, N, D, EffectStep(c), o)
  <2>1. o \in SUBSET D
    OBVIOUS
  <2> HIDE DEF N, D
  <2> QED
    BY <1>1, <2>1, RoundsExist
<1>4. Rec(g)
  <2>1. g \in [0..N -> SUBSET D] /\ \A k \in 1..N : g[k] = OneRound(g[k-1], D, EffectStep(c))
    BY <1>3 DEF Rounds
  <2>2. \A k \in 1..N : g[k-1] \in SUBSET D
    BY <1>1, <2>1
  <2> HIDE DEF G, D
  <2>3. \A k \in 1..N : g[k] = G(g[k-1])
    BY <1>2, <2>1, <2>2
  <2>4. \A k \in 0..N : g[k] = IF k = 0 THEN o ELSE G(g[k-1])
    BY <1>1, <1>3, <2>3 DEF Rounds
  <2> QED
    BY <2>1, <2>4
<1>5. PICK f : Rec(f) /\ DS!ReachFrom(c, o) = f[N]
  <2>1. Rec(CHOOSE f : Rec(f))
    BY <1>4
  <2>2. DS!ReachFrom(c, o) = (CHOOSE f : Rec(f))[N]
    BY DEF DS!ReachFrom, DS!Cardinality, Cardinality
  <2> QED
    BY <2>1, <2>2
<1>6. f = [k \in 0..N |-> f[k]] /\ f[0] = o /\ \A k \in 1..N : f[k] = G(f[k-1])
  <2> HIDE DEF G
  <2> QED
    BY <1>1, <1>5
<1>7. \A k \in 1..N : f[k-1] \in SUBSET D => f[k] = OneRound(f[k-1], D, EffectStep(c))
  <2> HIDE DEF G, D
  <2> QED
    BY <1>2, <1>6
<1>8. f[0] = o /\ o \in SUBSET D
  BY <1>6
<1> HIDE DEF N, D, G
<1>9. Rounds(f, N, D, EffectStep(c), o)
  BY <1>1, <1>6, <1>7, <1>8, RoundsOfRecursion
<1> QED
  BY <1>5, <1>6, <1>9 DEF N, D

(* The pairs reached: those at hand, and whatever one effect makes of a pair reached. *)
LEMMA ReachCloses ==
  ASSUME NEW c, CallsOf(c), NEW o \in SUBSET DS!Configurations
  PROVE  /\ o \subseteq DS!ReachFrom(c, o)
         /\ DS!ReachFrom(c, o) \subseteq DS!Configurations
         /\ \A g \in DS!ReachFrom(c, o) : \A t \in DS!Running(c, g) :
              DS!TakeEffect(c, g, t) \in DS!ReachFrom(c, o)
<1> DEFINE N == Cardinality(Threads)
           D == DS!Configurations
           r == [g \in DS!Configurations |-> Cardinality(DOMAIN g.res)]
<1>1. N \in Nat
  BY ThreadsAssumption, FS_CardinalityType
<1>2. PICK f : /\ Rounds(f, N, D, EffectStep(c), o)
               /\ DS!ReachFrom(c, o) = f[N]
  BY ReachRounds
<1>3. r \in [D -> 0..N] /\ \A g, h \in D : <<g, h>> \in EffectStep(c) => r[g] < r[h]
  BY AnswersGrow
<1>4. ASSUME NEW g \in D, NEW t \in DS!Running(c, g)
      PROVE  DS!TakeEffect(c, g, t) \in D /\ <<g, DS!TakeEffect(c, g, t)>> \in EffectStep(c)
  BY EffectType
<1> HIDE DEF N, D, r
<1>5. o \subseteq f[N] /\ f[N] \subseteq D
  BY <1>1, <1>2, RoundsGrow
<1>6. \A g \in f[N] : \A h \in D : <<g, h>> \in EffectStep(c) => h \in f[N]
  BY <1>1, <1>2, <1>3, RoundsClose
<1> QED
  BY <1>2, <1>4, <1>5, <1>6 DEF D

(* Nothing else is reached. *)
LEMMA ReachIsLeast ==
  ASSUME NEW c, CallsOf(c), NEW o \in SUBSET DS!Configurations, NEW T, o \subseteq T,
         \A g \in T : g \in DS!Configurations =>
            \A t \in DS!Running(c, g) : DS!TakeEffect(c, g, t) \in T
  PROVE  DS!ReachFrom(c, o) \subseteq T
<1> DEFINE N == Cardinality(Threads)
           D == DS!Configurations
<1>1. N \in Nat
  BY ThreadsAssumption, FS_CardinalityType
<1>2. PICK f : /\ Rounds(f, N, D, EffectStep(c), o)
               /\ DS!ReachFrom(c, o) = f[N]
  BY ReachRounds
<1>3. Stays(T, D, EffectStep(c))
  BY DEF EffectStep, Stays
<1>4. o \subseteq T
  OBVIOUS
<1> HIDE DEF N, D
<1>5. f[N] \subseteq T
  BY <1>1, <1>2, <1>3, <1>4, RoundsStay
<1> QED
  BY <1>2, <1>5

-----------------------------------------------------------------------------
(* What is promised, and how it grows. *)

(* R with the answer of t, which takes effect at the set S. *)
LEMMA OneMore ==
  ASSUME NEW c, CallsOf(c), NEW o \in SUBSET DS!Configurations,
         NEW S \in SUBSET Keys, NEW R \in Answers, NEW t \in DOMAIN R, c[t] # DS!None,
         NEW W, W \in Answers, DOMAIN W = DOMAIN R \ {t},
         \A u \in DOMAIN W : W[u] = R[u],
         [set |-> S, res |-> W] \in DS!ReachFrom(c, o), R[t] = DS!AnswerOf(c[t], S)
  PROVE  [set |-> DS!SetAfter(c[t], S), res |-> R] \in DS!ReachFrom(c, o)
<1> DEFINE g == [set |-> S, res |-> W]
<1>1. t \in Threads
  BY DEF Answers
<1>2. t \in DS!Running(c, g)
  BY <1>1 DEF DS!Running
<1>3. DS!TakeEffect(c, g, t) \in DS!ReachFrom(c, o)
  BY <1>2, ReachCloses
<1> DEFINE h == [u \in DOMAIN W \union {t} |-> IF u = t THEN DS!AnswerOf(c[t], S) ELSE W[u]]
<1>4. DS!TakeEffect(c, g, t) = [set |-> DS!SetAfter(c[t], S), res |-> h]
  BY DEF DS!TakeEffect
<1>5. h = R
  <2>1. DOMAIN h = DOMAIN R /\ \A u \in DOMAIN R : h[u] = R[u]
    OBVIOUS
  <2>2. R = [u \in DOMAIN R |-> R[u]] /\ h = [u \in DOMAIN h |-> h[u]]
    BY DEF Answers
  <2> HIDE DEF h
  <2> QED
    BY <2>1, <2>2
<1> QED
  BY <1>3, <1>4, <1>5

(* The answers without that of t. *)
LEMMA OneLess ==
  ASSUME NEW R \in Answers, NEW t
  PROVE  \E W \in Answers : DOMAIN W = DOMAIN R \ {t} /\ \A u \in DOMAIN W : W[u] = R[u]
<1>1. PICK D \in SUBSET Threads : R \in [D -> BOOLEAN]
  BY DEF Answers
<1> DEFINE W == [u \in D \ {t} |-> R[u]]
<1>2. W \in [D \ {t} -> BOOLEAN] /\ D \ {t} \in SUBSET Threads
  BY <1>1
<1>3. W \in Answers
  BY <1>2 DEF Answers
<1>4. DOMAIN W = DOMAIN R \ {t} /\ \A u \in DOMAIN W : W[u] = R[u]
  BY <1>1
<1> QED
  BY <1>3, <1>4

(* An operation that would now change nothing may take effect now. *)
LEMMA Settle ==
  ASSUME NEW c, CallsOf(c), NEW o \in SUBSET DS!Configurations, NEW S \in SUBSET Keys,
         NEW M, NEW Q, NEW P, Promised(c, o, S, M, Q),
         \A t \in Threads : c[t] # DS!None => P[t] \subseteq Q[t] \union FreeAnswers(c[t], S)
  PROVE  Promised(c, o, S, M, P)
<1> DEFINE New(R) == {t \in DOMAIN R : t \notin M /\ R[t] \notin Q[t]}
           Told(R) == [set |-> S, res |-> R] \in DS!ReachFrom(c, o)
           I == {n \in Nat : \A R \in Answers :
                   Answered(c, M, P, R) /\ Cardinality(New(R)) = n => Told(R)}
<1>1. \A R \in Answers : IsFiniteSet(New(R)) /\ Cardinality(New(R)) \in Nat
  <2> SUFFICES ASSUME NEW R \in Answers PROVE IsFiniteSet(New(R)) /\ Cardinality(New(R)) \in Nat
    OBVIOUS
  <2>1. New(R) \in SUBSET Threads
    BY DEF Answers
  <2> HIDE DEF New
  <2> QED
    BY <2>1, ThreadsAssumption, FS_Subset, FS_CardinalityType
<1>2. 0 \in I
  <2> SUFFICES ASSUME NEW R \in Answers, Answered(c, M, P, R), Cardinality(New(R)) = 0
               PROVE  Told(R)
    OBVIOUS
  <2>1. New(R) = {}
    <3> HIDE DEF New
    <3> QED
      BY <1>1, FS_EmptySet
  <2>2. Answered(c, M, Q, R)
    BY <2>1 DEF Answered
  <2> QED
    BY <2>2 DEF Promised
<1>3. ASSUME NEW n \in Nat, n \in I
      PROVE  n + 1 \in I
  <2> SUFFICES ASSUME NEW R \in Answers, Answered(c, M, P, R), Cardinality(New(R)) = n + 1
               PROVE  Told(R)
    OBVIOUS
  <2>1. New(R) # {}
    <3> HIDE DEF New
    <3> QED
      BY FS_EmptySet
  <2>2. PICK t \in DOMAIN R : t \in New(R)
    BY <2>1
  <2>3. PICK W \in Answers : DOMAIN W = DOMAIN R \ {t} /\ \A u \in DOMAIN W : W[u] = R[u]
    BY OneLess
  <2>4. New(W) = New(R) \ {t}
    BY <2>3
  <2>5. Cardinality(New(W)) = n
    <3>1. IsFiniteSet(New(R)) /\ t \in New(R) /\ New(W) = New(R) \ {t}
      BY <1>1, <2>2, <2>4
    <3> HIDE DEF New
    <3>2. Cardinality(New(W)) = Cardinality(New(R)) - 1
      BY <3>1, FS_RemoveElement, SMTT(30)
    <3> QED
      BY <3>2
  <2>6. Answered(c, M, P, W)
    BY <2>2, <2>3 DEF Answered
  <2>7. Told(W)
    BY <1>3, <2>5, <2>6
  <2>8. t \in Threads /\ c[t] # DS!None /\ R[t] \in FreeAnswers(c[t], S)
    BY <2>2 DEF Answered, Answers
  <2>9. R[t] = DS!AnswerOf(c[t], S) /\ DS!SetAfter(c[t], S) = S
    BY <2>8 DEF FreeAnswers
  <2> QED
    BY <2>3, <2>7, <2>8, <2>9, OneMore
<1> HIDE DEF I
<1>4. Nat \subseteq I
  BY <1>2, <1>3, SetInduction
<1> QED
  BY <1>1, <1>4 DEF I, Promised

(* An operation that answers TRUE takes effect. *)
LEMMA Commit ==
  ASSUME NEW c, CallsOf(c), NEW o \in SUBSET DS!Configurations, NEW S \in SUBSET Keys,
         NEW M, NEW Q, Promised(c, o, S, M, Q),
         NEW t \in Threads, t \notin M, c[t] # DS!None, DS!AnswerOf(c[t], S)
  PROVE  Promised(c, o, DS!SetAfter(c[t], S), M \union {t}, Q)
<1> SUFFICES ASSUME NEW R \in Answers,
                    Answered(c, M \union {t}, Q, R)
             PROVE  [set |-> DS!SetAfter(c[t], S), res |-> R] \in DS!ReachFrom(c, o)
  BY DEF Promised
<1>1. t \in DOMAIN R /\ R[t] = TRUE
  BY DEF Answered
<1>2. PICK W \in Answers : DOMAIN W = DOMAIN R \ {t} /\ \A u \in DOMAIN W : W[u] = R[u]
  BY OneLess
<1>3. Answered(c, M, Q, W)
  BY <1>2 DEF Answered
<1>4. [set |-> S, res |-> W] \in DS!ReachFrom(c, o)
  BY <1>3 DEF Promised
<1>5. DS!AnswerOf(c[t], S) = TRUE
  <2>1. c[t] \in DS!Calls
    BY DEF CallsOf
  <2>2. c[t].op \in {"insert", "remove", "contains"}
    BY <2>1 DEF DS!Calls, DS!Operations
  <2> QED
    BY <2>2 DEF DS!AnswerOf
<1> QED
  BY <1>1, <1>2, <1>4, <1>5, OneMore

(* An invocation. *)
LEMMA PromiseToNew ==
  ASSUME NEW c, CallsOf(c), NEW o \in SUBSET DS!Configurations, NEW S \in SUBSET Keys,
         NEW M, NEW Q, NEW P, Promised(c, o, S, M, Q),
         NEW t \in Threads, c[t] = DS!None, t \notin M, NEW d, CallsOf(d),
         d[t] # DS!None, \A u \in Threads : u # t => d[u] = c[u] /\ P[u] \subseteq Q[u],
         P[t] \subseteq FreeAnswers(d[t], S)
  PROVE  Promised(d, o, S, M, P)
<1> DEFINE E == [u \in Threads |-> IF u = t THEN {} ELSE Q[u]]
           T == DS!ReachFrom(d, o)
<1>1. DS!ReachFrom(c, o) \subseteq T
  <2>1. o \subseteq T /\ T \subseteq DS!Configurations
    BY ReachCloses
  <2>2. ASSUME NEW g \in T, NEW u \in DS!Running(c, g)
        PROVE  DS!TakeEffect(c, g, u) \in T
    <3>1. u \in Threads /\ u # t /\ c[u] = d[u] /\ u \in DS!Running(d, g)
      BY <2>2 DEF DS!Running
    <3>2. DS!TakeEffect(d, g, u) \in T
      BY <3>1, ReachCloses
    <3> QED
      BY <3>1, <3>2 DEF DS!TakeEffect
  <2> HIDE DEF T
  <2> QED
    BY <2>1, <2>2, ReachIsLeast
<1>2. Promised(d, o, S, M, E)
  <2> SUFFICES ASSUME NEW R \in Answers, Answered(d, M, E, R)
               PROVE  [set |-> S, res |-> R] \in T
    BY DEF Promised
  <2>1. DOMAIN R \subseteq Threads
    BY DEF Answers
  <2>2. t \notin DOMAIN R
    BY DEF Answered
  <2>3. Answered(c, M, Q, R)
    BY <2>1, <2>2 DEF Answered
  <2> HIDE DEF T
  <2> QED
    BY <1>1, <2>3 DEF Promised
<1>3. \A u \in Threads : d[u] # DS!None => P[u] \subseteq E[u] \union FreeAnswers(d[u], S)
  OBVIOUS
<1> HIDE DEF E
<1> QED
  BY <1>2, <1>3, Settle

(* What is left of the histories when t answers r. *)
Answering(c, o, t, r) ==
  {[set |-> g.set, res |-> DS!Restrict(g.res, DOMAIN g.res \ {t})] :
     g \in {h \in DS!ReachFrom(c, o) : t \in DOMAIN h.res /\ h.res[t] = r}}

(* An answer. *)
LEMMA PromiseKept ==
  ASSUME NEW c, CallsOf(c), NEW o \in SUBSET DS!Configurations, NEW S \in SUBSET Keys,
         NEW M, NEW Q, Promised(c, o, S, M, Q), M \subseteq {u \in Threads : c[u] # DS!None},
         NEW t \in Threads, c[t] # DS!None, NEW r \in BOOLEAN,
         t \in M => r = TRUE, t \notin M => r \in Q[t],
         NEW d, CallsOf(d), d[t] = DS!None, \A u \in Threads : u # t => d[u] = c[u],
         NEW p, p = Answering(c, o, t, r)
  PROVE  /\ Promised(d, p, S, M \ {t}, Q)
         /\ p # {} /\ p \subseteq DS!Configurations
<1> USE DEF Answering
<1>1. ASSUME NEW R \in Answers, Answered(d, M \ {t}, Q, R)
      PROVE  [set |-> S, res |-> R] \in p
  <2>1. PICK D \in SUBSET Threads : R \in [D -> BOOLEAN]
    BY DEF Answers
  <2>2. t \notin D
    BY <1>1, <2>1 DEF Answered
  <2> DEFINE W == [u \in D \union {t} |-> IF u = t THEN r ELSE R[u]]
             g == [set |-> S, res |-> W]
  <2>3. W \in [D \union {t} -> BOOLEAN] /\ D \union {t} \in SUBSET Threads
    BY <2>1
  <2>4. W \in Answers
    BY <2>3 DEF Answers
  <2>5. DOMAIN W = D \union {t} /\ W[t] = r /\ \A u \in D : W[u] = R[u] /\ u # t
    BY <2>1, <2>2
  <2> HIDE DEF W
  <2>6. Answered(c, M, Q, W)
    <3>1. M \subseteq DOMAIN W
      BY <1>1, <2>1, <2>5 DEF Answered
    <3>2. ASSUME NEW u \in D
          PROVE  c[u] # DS!None /\ IF u \in M THEN W[u] = TRUE ELSE W[u] \in Q[u]
      BY <1>1, <2>1, <2>5 DEF Answered
    <3> QED
      BY <2>5, <3>1, <3>2 DEF Answered
  <2>7. g \in DS!ReachFrom(c, o) /\ t \in DOMAIN g.res /\ g.res[t] = r
    BY <2>4, <2>5, <2>6 DEF Promised
  <2>8. DS!Restrict(W, DOMAIN W \ {t}) = R
    <3>1. DOMAIN W \ {t} = D
      BY <2>2, <2>5
    <3>2. R = [u \in D |-> R[u]]
      BY <2>1
    <3> QED
      BY <2>5, <3>1, <3>2 DEF DS!Restrict
  <2>9. g \in {h \in DS!ReachFrom(c, o) : t \in DOMAIN h.res /\ h.res[t] = r}
    BY <2>7
  <2>10. [set |-> g.set, res |-> DS!Restrict(g.res, DOMAIN g.res \ {t})] \in p
    <3> HIDE DEF g
    <3> QED
      BY <2>9
  <2>11. g.set = S /\ g.res = W
    OBVIOUS
  <2> QED
    BY <2>8, <2>10, <2>11
<1>2. p \subseteq DS!Configurations
  <2> SUFFICES ASSUME NEW g \in DS!ReachFrom(c, o)
               PROVE  [set |-> g.set, res |-> DS!Restrict(g.res, DOMAIN g.res \ {t})]
                        \in DS!Configurations
    OBVIOUS
  <2>1. g \in DS!Configurations
    BY ReachCloses
  <2>2. PICK D \in SUBSET Threads : g.res \in [D -> BOOLEAN] /\ g.set \in SUBSET Keys
    BY <2>1 DEF DS!Configurations
  <2>3. DS!Restrict(g.res, DOMAIN g.res \ {t}) \in [D \ {t} -> BOOLEAN]
    BY <2>2 DEF DS!Restrict
  <2>4. D \ {t} \in SUBSET Threads
    OBVIOUS
  <2>5. DS!Restrict(g.res, DOMAIN g.res \ {t}) \in UNION {[T -> BOOLEAN] : T \in SUBSET Threads}
    BY <2>3, <2>4
  <2> HIDE DEF DS!Restrict
  <2> QED
    BY <2>2, <2>5 DEF DS!Configurations
<1>3. p # {}
  <2> DEFINE R == [u \in M \ {t} |-> TRUE]
  <2>1. R \in [M \ {t} -> BOOLEAN] /\ M \ {t} \in SUBSET Threads
    OBVIOUS
  <2>2. R \in Answers
    BY <2>1 DEF Answers
  <2>3. Answered(d, M \ {t}, Q, R)
    BY DEF Answered
  <2> QED
    BY <1>1, <2>2, <2>3
<1>4. Promised(d, p, S, M \ {t}, Q)
  <2>1. p \subseteq DS!ReachFrom(d, p)
    BY <1>2, ReachCloses
  <2> QED
    BY <1>1, <2>1 DEF Promised
<1> QED
  BY <1>2, <1>3, <1>4

(* The same with the hypotheses under one name. *)
OneAnswers(c, o, S, M, Q, t, r, d, p) ==
  /\ CallsOf(c) /\ o \in SUBSET DS!Configurations /\ S \in SUBSET Keys
  /\ Promised(c, o, S, M, Q) /\ M \subseteq {u \in Threads : c[u] # DS!None}
  /\ t \in Threads /\ c[t] # DS!None /\ r \in BOOLEAN
  /\ t \in M => r = TRUE
  /\ t \notin M => r \in Q[t]
  /\ CallsOf(d) /\ d[t] = DS!None /\ \A u \in Threads : u # t => d[u] = c[u]
  /\ p = Answering(c, o, t, r)

(* PromiseKept, by that name. *)
LEMMA OneAnswerIsKept ==
  ASSUME NEW c, NEW o, NEW S, NEW M, NEW Q, NEW t, NEW r, NEW d, NEW p,
         OneAnswers(c, o, S, M, Q, t, r, d, p)
  PROVE  Promised(d, p, S, M \ {t}, Q) /\ p # {}
BY ZenonT(60), PromiseKept DEF OneAnswers

(* When nothing runs there is nothing to answer. *)
LEMMA PromiseToNobody ==
  ASSUME NEW c, CallsOf(c), NEW o \in SUBSET DS!Configurations, NEW S, NEW Q,
         \A t \in Threads : c[t] = DS!None, [set |-> S, res |-> DS!NoAnswer] \in o
  PROVE  Promised(c, o, S, {}, Q)
<1> SUFFICES ASSUME NEW R \in Answers, Answered(c, {}, Q, R)
             PROVE  [set |-> S, res |-> R] \in DS!ReachFrom(c, o)
  BY DEF Promised
<1>1. PICK D \in SUBSET Threads : R \in [D -> BOOLEAN]
  BY DEF Answers
<1>2. D = {}
  BY <1>1 DEF Answered
<1>3. R = DS!NoAnswer
  BY <1>1, <1>2 DEF DS!NoAnswer
<1> QED
  BY <1>3, ReachCloses

-----------------------------------------------------------------------------
(* What a step leaves of the facts about a node. *)

(* The step is t's own, or nobody's. *)
OthersStay(t) ==
  \A u \in Threads \ {t} :
    /\ pc'[u] = pc[u] /\ call'[u] = call[u] /\ curr'[u] = curr[u]
    /\ newNode'[u] = newNode[u] /\ result'[u] = result[u]

(* A step that n sees nothing of, except that it may become valid. *)
Same(n) ==
  /\ heap'[n] = heap[n] /\ marked'[n] = marked[n] /\ nvm'[n] = nvm[n] /\ key'[n] = key[n]
  /\ (valid[n] => valid'[n]) /\ (insertFlag'[n] => insertFlag[n]) /\ waits'[n] \subseteq waits[n]

(* What every step leaves of n: its key, a persisted deletion, a place on the *)
(* list that only a persisted deletion ends, and an insertion that a crash    *)
(* would keep.                                                                *)
Ages(n) ==
  /\ key'[n] = key[n]
  /\ marked[n] /\ DeletionIsPersisted(n) => DeletionIsPersisted(n)'
  /\ heap'[n] # "linked" => heap[n] # "linked" \/ DeletionIsPersisted(n)'
  /\ Unborn(n)' => Unborn(n)

(* t stays the one who answers for n. *)
StandsFor(t, n) ==
  /\ Unborn(n) /\ Inserted(t) /\ newNode[t] = n /\ pc[t] \in {"makeValid", "flushInsert"} =>
       Inserted(t)' /\ newNode'[t] = n /\ pc'[t] \in {"makeValid", "flushInsert"}
  /\ Pending(n) /\ Removed(t) /\ pc[t] = "flushDelete" /\ curr[t] = n =>
       Removed(t)' /\ pc'[t] = "flushDelete" /\ curr'[t] = n

(* A node that sees nothing of a step ages, with everything else unchanged. *)
LEMMA SameAges ==
  ASSUME NEW n \in Nodes, Same(n)
  PROVE  /\ Ages(n)
         /\ Unborn(n)' <=> Unborn(n)
         /\ Pending(n)' <=> Pending(n)
         /\ PersistedMember(n)' <=> PersistedMember(n)
         /\ DeletionIsPersisted(n)' <=> DeletionIsPersisted(n)
BY DEF Same, Ages, Unborn, Pending, PersistedMember, DeletionIsPersisted

(* What is known of the call of another thread stays so. *)
LEMMA OthersAreRight ==
  ASSUME IInv, NEW u \in Threads, CallIsRight(u),
         pc'[u] = pc[u], call'[u] = call[u], curr'[u] = curr[u],
         newNode'[u] = newNode[u], result'[u] = result[u],
         \A n \in Nodes : pc[u] # "idle" /\ MayHold(u, n) => Ages(n)
  PROVE  CallIsRight(u)'
<1>1. CASE pc[u] = "idle"
  BY <1>1 DEF CallIsRight
<1>2. CASE pc[u] # "idle"
  <2>1. Inserted(u) => newNode[u] \in Nodes /\ Ages(newNode[u])
    <3> SUFFICES ASSUME Inserted(u) PROVE newNode[u] \in Nodes /\ Ages(newNode[u])
      OBVIOUS
    <3>1. pc[u] \in Publishing /\ newNode[u] # Nil
      BY <1>2 DEF CallIsRight, Inserted
    <3>2. newNode[u] \in Nodes /\ MayHold(u, newNode[u])
      BY <1>2, <3>1 DEF IInv, TypeOK, ThreadInv, HoldsWhatItMay
    <3> QED
      BY <1>2, <3>2
  <2>2. pc[u] \in {"flushDelete", "setDelete"} => curr[u] \in Nodes /\ Ages(curr[u])
    BY <1>2, CurrIsHeld
  <2>3. pc[u] = "setInsert" => Target(u) \in Nodes /\ Ages(Target(u))
    BY <1>2, TargetIsHeld DEF Publishing
  <2>4. Target(u)' = Target(u) /\ (Inserted(u)' <=> Inserted(u)) /\ (Removed(u)' <=> Removed(u))
    BY DEF Target, Inserted, Removed
  <2>5. /\ Inserted(u) => key'[newNode[u]] = call[u].arg
        /\ Removed(u) /\ pc[u] = "flushDelete" => key'[curr[u]] = call[u].arg
        /\ call[u].op = "contains" /\ pc[u] \in {"flushDelete", "setDelete"} =>
             key'[curr[u]] = call[u].arg
    BY <1>2, <2>1, <2>2 DEF CallIsRight, Ages
  <2>6. Removed(u) /\ pc[u] = "flushDelete" /\ heap'[curr[u]] # "linked" => DeletionIsPersisted(curr[u])'
    <3>1. pc[u] = "flushDelete" => marked[curr[u]]
      BY <1>2 DEF IInv, ThreadInv, TrimsMarkedNodes
    <3> QED
      BY <1>2, <2>2, <3>1 DEF CallIsRight, Ages
  <2>7. pc[u] = "setInsert" => ~Unborn(Target(u))'
    BY <1>2, <2>3, <2>4 DEF CallIsRight, Ages
  <2>8. /\ pc[u] \in LabelsOf(call[u].op)
        /\ call[u].op = "contains" => (result[u] <=> pc[u] \in Publishing)
        /\ call[u].op = "insert" =>
             (result[u] <=> pc[u] \in Publishing /\ newNode[u] # Nil)
        /\ call[u].op = "remove" =>
             /\ result[u] => pc[u] \in {"flushDelete", "setDelete", "trim", "free", "done"}
             /\ pc[u] = "done" => result[u]
    BY <1>2 DEF CallIsRight
  <2> HIDE DEF LabelsOf, Publishing
  <2> QED
    BY <1>2, <2>4, <2>5, <2>6, <2>7, <2>8 DEF CallIsRight
<1> QED
  BY <1>1, <1>2

(* Nobody else answers for a node that is answered for. *)
LEMMA ActorsStayAlone ==
  ASSUME DInv, NEW t, OthersStay(t),
         Inserted(t)' => Inserted(t) /\ newNode'[t] = newNode[t],
         Removed(t)' /\ pc'[t] = "flushDelete" =>
           Removed(t) /\ pc[t] = "flushDelete" /\ curr'[t] = curr[t]
  PROVE  ActorsAreAlone'
<1>1. \A u \in Threads : /\ Inserted(u)' => Inserted(u) /\ newNode'[u] = newNode[u]
                         /\ Removed(u)' /\ pc'[u] = "flushDelete" =>
                              Removed(u) /\ pc[u] = "flushDelete" /\ curr'[u] = curr[u]
  BY DEF OthersStay, Inserted, Removed
<1>2. \A u, v \in Threads :
        /\ Inserted(u)' /\ Inserted(v)' /\ newNode'[u] = newNode'[v] => u = v
        /\ Removed(u)' /\ Removed(v)' /\ pc'[u] = "flushDelete" /\ pc'[v] = "flushDelete"
             /\ curr'[u] = curr'[v] => u = v
  BY <1>1 DEF DInv, ActorsAreAlone
<1> QED
  BY <1>2 DEF ActorsAreAlone, Inserted, Removed

(* A step of t. *)
LEMMA StepIsRight ==
  ASSUME IInv, DInv, NEW t, OthersStay(t), RecoveryIsRight',
         outcomes' \subseteq DS!Configurations, t \in Threads => CallIsRight(t)',
         ActorsAreAlone',
         \A n \in Nodes :
           \/ Same(n) /\ StandsFor(t, n)
           \/ /\ NodeIsRight(n)'
              /\ \A u \in Threads \ {t} : pc[u] # "idle" /\ MayHold(u, n) => Ages(n)
  PROVE  DInv'
<1>1. ASSUME NEW u \in Threads
      PROVE  CallIsRight(u)'
  <2>1. CASE u # t
    <3>1. CallIsRight(u)
      BY DEF DInv
    <3>2. \A n \in Nodes : pc[u] # "idle" /\ MayHold(u, n) => Ages(n)
      BY <2>1, SameAges
    <3> QED
      BY <2>1, <3>1, <3>2, OthersAreRight DEF OthersStay
  <2> QED
    BY <2>1
<1>3. ASSUME NEW n \in Nodes, Same(n), StandsFor(t, n)
      PROVE  NodeIsRight(n)'
  <2>1. NodeIsRight(n)
    BY DEF DInv
  <2>2. /\ Unborn(n)' <=> Unborn(n)
        /\ Pending(n)' <=> Pending(n)
        /\ PersistedMember(n)' <=> PersistedMember(n)
        /\ DeletionIsPersisted(n)' <=> DeletionIsPersisted(n)
    BY <1>3, SameAges
  <2>3. \A u \in Threads \ {t} : (Inserted(u)' <=> Inserted(u)) /\ (Removed(u)' <=> Removed(u))
    BY DEF OthersStay, Inserted, Removed
  <2>4. Unborn(n) => \E u \in Threads : Inserted(u)' /\ newNode'[u] = n /\ pc'[u] \in {"makeValid", "flushInsert"}
    <3> SUFFICES ASSUME Unborn(n)
                 PROVE  \E u \in Threads : Inserted(u)' /\ newNode'[u] = n /\ pc'[u] \in {"makeValid", "flushInsert"}
      OBVIOUS
    <3>1. PICK u \in Threads : Inserted(u) /\ newNode[u] = n /\ pc[u] \in {"makeValid", "flushInsert"}
      BY <2>1 DEF NodeIsRight
    <3>2. Inserted(u)' /\ newNode'[u] = n /\ pc'[u] \in {"makeValid", "flushInsert"}
      <4>1. CASE u = t
        BY <1>3, <3>1, <4>1 DEF StandsFor
      <4>2. CASE u # t
        BY <2>3, <3>1, <4>2 DEF OthersStay
      <4> QED
        BY <4>1, <4>2
    <3> QED
      BY <3>2
  <2>5. Pending(n) => \E v \in Threads : Removed(v)' /\ pc'[v] = "flushDelete" /\ curr'[v] = n
    <3> SUFFICES ASSUME Pending(n)
                 PROVE  \E v \in Threads : Removed(v)' /\ pc'[v] = "flushDelete" /\ curr'[v] = n
      OBVIOUS
    <3>1. PICK v \in Threads : Removed(v) /\ pc[v] = "flushDelete" /\ curr[v] = n
      BY <2>1 DEF NodeIsRight
    <3>2. Removed(v)' /\ pc'[v] = "flushDelete" /\ curr'[v] = n
      <4>1. CASE v = t
        BY <1>3, <3>1, <4>1 DEF StandsFor
      <4>2. CASE v # t
        BY <2>3, <3>1, <4>2 DEF OthersStay
      <4> QED
        BY <4>1, <4>2
    <3> QED
      BY <3>2
  <2>6. /\ heap'[n] = "linked" /\ insertFlag'[n] => ~Unborn(n)
        /\ heap'[n] = "linked" /\ PersistedMember(n) => valid'[n]
        /\ heap'[n] = "linked" => key'[n] \in Keys
        /\ PersistedMember(n) => nvm'[n].key \in Keys
        /\ waits'[n] # {} => DeletionIsPersisted(n)
    BY <1>3, <2>1 DEF NodeIsRight, Same
  <2> QED
    BY <2>2, <2>4, <2>5, <2>6 DEF NodeIsRight, Inserted, Removed
<1>4. \A n \in Nodes : NodeIsRight(n)'
  BY <1>3
<1> QED
  BY <1>1, <1>4 DEF DInv

-----------------------------------------------------------------------------
(* Steps that write no node. *)

(* A step that writes none, by a thread that stands for none, or goes on to. *)
LEMMA MoveIsRight ==
  ASSUME IInv, DInv, NEW t \in Threads, OthersStay(t), phase = "running", phase' = phase,
         UNCHANGED <<fields, nvm, heap>>,
         \A n \in Nodes : waits'[n] \subseteq waits[n],
         outcomes' \subseteq DS!Configurations, CallIsRight(t)',
         Inserted(t)' => Inserted(t) /\ newNode'[t] = newNode[t],
         Removed(t)' => Removed(t), pc'[t] # "flushDelete" \/ ~Removed(t)',
         \A n \in Nodes : StandsFor(t, n)
  PROVE  DInv'
<1>1. (\A n \in Nodes : Same(n)) /\ RecoveryIsRight'
  BY DEF Same, fields, RecoveryIsRight
<1>2. ActorsAreAlone'
  BY ActorsStayAlone
<1> QED
  BY <1>1, <1>2, StepIsRight

(* The call of a running operation. *)
LEMMA CallIsKnown ==
  ASSUME IInv, DInv, NEW t \in Threads, pc[t] # "idle"
  PROVE  /\ CallIsRight(t) /\ call[t] \in DS!Calls /\ call[t] # DS!None
         /\ call[t].op \in {"insert", "remove", "contains"} /\ call[t].arg \in Keys
         /\ pc[t] \in LabelsOf(call[t].op)
         /\ phase = "running" /\ outcomes \subseteq DS!Configurations
<1>1. call[t] \in DS!Calls
  BY DEF IInv, TypeOK
<1>2. call[t].op \in {"insert", "remove", "contains"}
  BY <1>1 DEF DS!Calls, DS!Operations
<1>3. call[t] # DS!None
  BY <1>1, <1>2 DEF DS!None
<1> QED
  BY <1>1, <1>2, <1>3, Running DEF DInv, CallIsRight, DS!Calls

(* The answer t gives leaves configurations. *)
LEMMA AnswerType ==
  ASSUME IInv, DInv, NEW t \in Threads, NEW r
  PROVE  DS!AfterAnswer(t, r) \subseteq DS!Configurations
<1>1. CallsOf(call) /\ outcomes \in SUBSET DS!Configurations
  BY DEF IInv, TypeOK, CallsOf, DInv
<1>2. DS!Reach \subseteq DS!Configurations
  BY <1>1, ReachCloses DEF DS!Reach
<1> SUFFICES ASSUME NEW g \in DS!Reach
             PROVE  [set |-> g.set, res |-> DS!Restrict(g.res, DOMAIN g.res \ {t})]
                      \in DS!Configurations
  BY DEF DS!AfterAnswer
<1>3. PICK D \in SUBSET Threads : g.res \in [D -> BOOLEAN] /\ g.set \in SUBSET Keys
  BY <1>2 DEF DS!Configurations
<1>4. DS!Restrict(g.res, DOMAIN g.res \ {t}) \in [D \ {t} -> BOOLEAN]
  BY <1>3 DEF DS!Restrict
<1>5. D \ {t} \in SUBSET Threads
  OBVIOUS
<1>6. DS!Restrict(g.res, DOMAIN g.res \ {t}) \in UNION {[T -> BOOLEAN] : T \in SUBSET Threads}
  BY <1>4, <1>5
<1> HIDE DEF DS!Restrict
<1> QED
  BY <1>3, <1>6 DEF DS!Configurations

(* An answer. *)
LEMMA ReturnIsRight ==
  ASSUME IInv, DInv, ~QuiesceOnFree, NEW t \in Threads, pc[t] # "idle", NEW r, Return(t, r),
         UNCHANGED <<valid, key, marked, nvm, heap, phase>>,
         \A n \in Nodes :
           (insertFlag'[n] => insertFlag[n] \/ (pc[t] = "setInsert" /\ n = Target(t))),
         \A n \in Nodes : StandsFor(t, n)
  PROVE  DInv'
<1>1. /\ pc'[t] = "idle" /\ call'[t] = DS!None /\ ~result'[t] /\ OthersStay(t)
      /\ \A n \in Nodes : waits'[n] \subseteq waits[n]
      /\ phase = "running"
  BY CallIsKnown DEF Return, OthersStay, IInv, TypeOK
<1>2. outcomes' \subseteq DS!Configurations
  BY AnswerType DEF Return
<1>3. CallIsRight(t)' /\ ~Inserted(t)' /\ ~Removed(t)'
  BY <1>1 DEF CallIsRight, Inserted, Removed
<1>4. ASSUME NEW n \in Nodes, ~Same(n)
      PROVE  NodeIsRight(n)' /\ Ages(n)
  <2>1. n = Target(t) /\ pc[t] = "setInsert"
    BY <1>1, <1>4 DEF Same
  <2>2. ~Unborn(n)
    BY <2>1, CallIsKnown DEF CallIsRight
  <2>3. /\ Unborn(n)' <=> Unborn(n)
        /\ Pending(n)' <=> Pending(n)
        /\ PersistedMember(n)' <=> PersistedMember(n)
        /\ DeletionIsPersisted(n)' <=> DeletionIsPersisted(n)
    BY DEF Unborn, Pending, PersistedMember, DeletionIsPersisted
  <2>4. NodeIsRight(n)
    BY DEF DInv
  <2>5. Pending(n) => \E v \in Threads : Removed(v)' /\ pc'[v] = "flushDelete" /\ curr'[v] = n
    <3> SUFFICES ASSUME Pending(n)
                 PROVE  \E v \in Threads : Removed(v)' /\ pc'[v] = "flushDelete" /\ curr'[v] = n
      OBVIOUS
    <3>1. PICK v \in Threads : Removed(v) /\ pc[v] = "flushDelete" /\ curr[v] = n
      BY <2>4 DEF NodeIsRight
    <3>2. v # t
      BY <2>1, <3>1
    <3> QED
      BY <1>1, <3>1, <3>2 DEF OthersStay, Removed
  <2>6. /\ heap'[n] = "linked" /\ PersistedMember(n) => valid'[n]
        /\ heap'[n] = "linked" => key'[n] \in Keys
        /\ PersistedMember(n) => nvm'[n].key \in Keys
        /\ waits'[n] # {} => DeletionIsPersisted(n)
    BY <1>1, <2>4 DEF NodeIsRight
  <2>7. NodeIsRight(n)'
    BY <2>2, <2>3, <2>5, <2>6 DEF NodeIsRight, Removed
  <2>8. Ages(n)
    BY <2>3 DEF Ages
  <2> QED
    BY <2>7, <2>8
<1>5. RecoveryIsRight'
  BY <1>1 DEF RecoveryIsRight
<1>6. ActorsAreAlone'
  BY <1>1, <1>3, ActorsStayAlone
<1> QED
  BY <1>1, <1>2, <1>3, <1>4, <1>5, <1>6, StepIsRight

(* An operation that is not at one of these places answers for no node. *)
LEMMA StandsForNone ==
  ASSUME NEW t \in Threads, pc[t] \notin {"makeValid", "flushInsert", "flushDelete"}, NEW n \in Nodes
  PROVE  StandsFor(t, n)
BY DEF StandsFor

(* A move of a search. *)
LEMMA SearchMove ==
  ASSUME IInv, DInv, NEW t \in Threads, pc[t] \notin {"idle", "makeValid", "flushInsert", "flushDelete"},
         NEW label, Goto(t, label), curr'[t] \in AllNodes \union {Nil},
         \A u \in Threads \ {t} : curr'[u] = curr[u] /\ result'[u] = result[u],
         UNCHANGED <<fields, nvm, heap, waits, call, newNode, outcomes, phase>>,
         Inserted(t)' => Inserted(t), Removed(t)' => Removed(t),
         CallIsRight(t)', label # "flushDelete" \/ ~Removed(t)'
  PROVE  DInv'
<1>1. pc'[t] = label /\ OthersStay(t) /\ phase = "running" /\ outcomes \subseteq DS!Configurations
  BY CallIsKnown DEF Goto, OthersStay, IInv, TypeOK
<1>2. \A n \in Nodes : StandsFor(t, n)
  BY StandsForNone
<1> QED
  BY <1>1, <1>2, MoveIsRight

(* The search of find. *)
LEMMA FindIsRight ==
  ASSUME IInv, DInv, ~QuiesceOnFree, NEW t \in Threads
  PROVE  /\ FindPass(t) \/ FindMarked(t) \/ FindAdvance(t) => DInv'
         /\ FindHit(t) \/ FindMissInsert(t) \/ Restart(t) \/ ReadSucc(t) => DInv'
<1>1. CASE pc[t] # "idle"
  <2>1. /\ CallIsRight(t) /\ call[t].op \in {"insert", "remove", "contains"}
        /\ pc[t] \in LabelsOf(call[t].op) /\ phase = "running" /\ outcomes \subseteq DS!Configurations
    BY <1>1, CallIsKnown
  <2>2. pc[t] \notin Private \union Publishing => newNode[t] = Nil
    BY <1>1 DEF IInv, ThreadInv, NewNodeIsPrivate
  <2> DEFINE Moves(label) == /\ pc[t] \in {"find", "advance", "restart", "readSucc"}
                             /\ Goto(t, label)
                             /\ UNCHANGED <<fields, nvm, heap, waits, call, newNode, result, outcomes, phase>>
                             /\ \A u \in Threads \ {t} : curr'[u] = curr[u]
                             /\ curr'[t] \in AllNodes \union {Nil}
                             /\ label = "flushDelete" => pc[t] = "find"
                             /\ label \in LabelsOf(call[t].op)
                             /\ label \in {"advance", "flushDelete", "find", "alloc", "readSucc"} \/
                                  (label = "makeValid" /\ call[t].op # "contains")
  <2>3. ASSUME NEW label, Moves(label)
        PROVE  DInv'
    <3>1. pc'[t] = label /\ call'[t] = call[t] /\ newNode'[t] = Nil /\ result'[t] = result[t]
      BY <2>2, <2>3 DEF Goto, IInv, TypeOK, Private, Publishing
    <3>2. call[t].op # "contains" /\ ~result[t]
      BY <1>1, <2>1, <2>3 DEF CallIsRight, LabelsOf, Publishing
    <3>3. CallIsRight(t)'
      BY <2>1, <2>3, <3>1, <3>2 DEF CallIsRight, Inserted, Removed, Publishing
    <3>4. ~Inserted(t)' /\ ~Removed(t)'
      BY <3>1, <3>2 DEF Inserted, Removed
    <3> QED
      BY <1>1, <2>3, <3>3, <3>4, SearchMove
  <2> HIDE DEF Moves
  <2>4. FindPass(t) => Moves("advance")
    BY <2>1 DEF Moves, FindPass, LabelsOf, recovery, IInv, TypeOK
  <2>5. FindMarked(t) => Moves("flushDelete")
    BY <2>1 DEF Moves, FindMarked, LabelsOf, recovery, IInv, TypeOK
  <2>6. FindAdvance(t) => Moves("find")
    <3> SUFFICES ASSUME FindAdvance(t) PROVE Moves("find")
      OBVIOUS
    <3>1. curr[t] \in AllNodes
      BY <1>1, Holding
    <3> QED
      BY <2>1, <3>1 DEF Moves, FindAdvance, LabelsOf, recovery, IInv, TypeOK
  <2>7. FindHit(t) => Moves(IF call[t].op = "insert" THEN "makeValid" ELSE "readSucc")
    BY <2>1 DEF Moves, FindHit, FindStops, LabelsOf, recovery, IInv, TypeOK
  <2>8. FindMissInsert(t) => Moves("alloc")
    BY <2>1 DEF Moves, FindMissInsert, FindStops, LabelsOf, recovery, IInv, TypeOK
  <2>9. Restart(t) => Moves("find")
    BY <2>1 DEF Moves, Restart, StartSearch, LabelsOf, recovery, IInv, TypeOK, AllNodes
  <2>10. ReadSucc(t) => Moves("makeValid")
    BY <2>1 DEF Moves, ReadSucc, LabelsOf, recovery, IInv, TypeOK
  <2> QED
    BY <2>3, <2>4, <2>5, <2>6, <2>7, <2>8, <2>9, <2>10
<1>2. CASE pc[t] = "idle"
  BY <1>2 DEF FindPass, FindMarked, FindAdvance, FindHit, FindMissInsert, FindStops, Restart, ReadSucc
<1> QED
  BY <1>1, <1>2

(* The walk of contains. *)
LEMMA ContainsIsRight ==
  ASSUME IInv, DInv, ~QuiesceOnFree, NEW t \in Threads
  PROVE  ContainsStep(t) \/ ContainsHit(t) => DInv'
<1> SUFFICES ASSUME ContainsStep(t) \/ ContainsHit(t) PROVE DInv'
  OBVIOUS
<1>1. pc[t] = "walk"
  BY DEF ContainsStep, ContainsHit
<1>2. /\ CallIsRight(t) /\ call[t].op \in {"insert", "remove", "contains"}
      /\ pc[t] \in LabelsOf(call[t].op) /\ phase = "running" /\ outcomes \subseteq DS!Configurations
  BY <1>1, CallIsKnown
<1>3. call[t].op = "contains" /\ newNode[t] = Nil
  BY <1>1, <1>2 DEF LabelsOf, IInv, ThreadInv, NewNodeIsPrivate, Private, Publishing
<1>4. ASSUME ContainsStep(t)
      PROVE  DInv'
  <2>1. /\ Goto(t, "walk") /\ OthersStay(t)
        /\ UNCHANGED <<fields, nvm, heap, waits, call, pc, newNode, result, outcomes, phase>>
        /\ curr'[t] \in AllNodes \union {Nil}
    <3>1. curr[t] \in AllNodes
      BY <1>1, Holding
    <3> QED
      BY <1>1, <1>4, <3>1 DEF ContainsStep, Goto, OthersStay, recovery, IInv, TypeOK
  <2>2. CallIsRight(t)'
    BY <1>1, <1>2, <1>3, <2>1 DEF CallIsRight, Inserted, Removed, Publishing
  <2> QED
    BY <1>1, <1>3, <2>1, <2>2, SearchMove DEF Inserted, Removed, OthersStay
<1>5. ASSUME ContainsHit(t)
      PROVE  DInv'
  <2> DEFINE label == IF marked[curr[t]] THEN "flushDelete" ELSE "makeValid"
  <2>1. /\ Goto(t, label) /\ OthersStay(t) /\ pc'[t] = label
        /\ UNCHANGED <<fields, nvm, heap, waits, call, curr, newNode, outcomes, phase>>
        /\ curr'[t] \in AllNodes \union {Nil} /\ key[curr[t]] = call[t].arg
        /\ (result'[t] <=> ~marked[curr[t]])
    BY <1>1, <1>5 DEF ContainsHit, Goto, OthersStay, recovery, IInv, TypeOK
  <2>2. marked[curr[t]] \in BOOLEAN
    <3>1. curr[t] \in AllNodes
      BY <1>1, Holding
    <3> QED
      BY <3>1 DEF IInv, TypeOK
  <2>3. key'[curr'[t]] = call'[t].arg /\ call'[t].op = "contains" /\ newNode'[t] = Nil
    BY <1>3, <2>1 DEF fields
  <2>4. label \in LabelsOf("contains")
    BY DEF LabelsOf
  <2>5. ~Inserted(t)' /\ ~Removed(t)'
    BY <2>3 DEF Inserted, Removed
  <2>6. (result'[t] <=> pc'[t] \in Publishing) /\ pc'[t] \notin {"idle", "setInsert"}
    BY <2>1, <2>2 DEF Publishing
  <2> HIDE DEF label
  <2>7. CallIsRight(t)'
    BY <2>1, <2>3, <2>4, <2>5, <2>6 DEF CallIsRight
  <2> QED
    BY <1>1, <1>3, <2>1, <2>5, <2>7, SearchMove DEF OthersStay
<1> QED
  BY <1>4, <1>5

(* The answers that come without a store to a node. *)
LEMMA AnswerIsRight ==
  ASSUME IInv, DInv, ~QuiesceOnFree, NEW t \in Threads
  PROVE  FindMissRemove(t) \/ ContainsMiss(t) \/ Done(t) => DInv'
<1> SUFFICES ASSUME FindMissRemove(t) \/ ContainsMiss(t) \/ Done(t) PROVE DInv'
  OBVIOUS
<1>1. /\ pc[t] \in {"find", "walk", "done"}
      /\ Return(t, TRUE) \/ Return(t, FALSE)
      /\ UNCHANGED <<fields, nvm, heap, phase>>
  BY DEF FindMissRemove, FindStops, ContainsMiss, Done, recovery
<1> QED
  BY <1>1, StandsForNone, ReturnIsRight DEF fields

(* Invoke. *)
LEMMA InvokeIsRight ==
  ASSUME IInv, DInv, ~QuiesceOnFree, NEW t \in Threads, NEW c \in DS!Calls, Invoke(t, c)
  PROVE  DInv'
<1>1. /\ pc[t] = "idle" /\ phase = "running" /\ OthersStay(t) /\ call'[t] = c
      /\ UNCHANGED <<fields, nvm, heap, waits, newNode, result, outcomes, phase>>
      /\ pc'[t] = IF c.op = "contains" THEN "walk" ELSE "find"
  BY DEF Invoke, StartSearch, Goto, OthersStay, recovery, IInv, TypeOK
<1>2. call[t] = DS!None /\ ~result[t] /\ outcomes \subseteq DS!Configurations
  BY <1>1 DEF DInv, CallIsRight
<1>3. c.op \in {"insert", "remove", "contains"}
  BY DEF DS!Calls, DS!Operations
<1>4. CallIsRight(t)' /\ ~Inserted(t)' /\ ~Removed(t)'
  BY <1>1, <1>2, <1>3 DEF CallIsRight, Inserted, Removed, Publishing, LabelsOf
<1>5. \A n \in Nodes : StandsFor(t, n)
  BY <1>1, StandsForNone
<1> QED
  BY <1>1, <1>2, <1>4, <1>5, MoveIsRight

-----------------------------------------------------------------------------
(* Steps that write NVM. *)

(* What NVM says of n after a flush of n. *)
LEMMA Flushed ==
  ASSUME IInv, PInv, DInv, NEW n \in Nodes, FLUSH(n), UNCHANGED <<fields, heap, phase>>
  PROVE  /\ \A m \in Nodes \ {n} : nvm'[m] = nvm[m]
         /\ nvm'[n].valid = valid[n] /\ nvm'[n].link = Link(n) /\ nvm'[n].key = key[n]
         /\ heap[n] = "linked" /\ marked[n] => DeletionIsPersisted(n)'
         /\ heap[n] = "linked" /\ ~marked[n] => (PersistedMember(n)' <=> valid[n])
         /\ heap[n] # "linked" => (PersistedMember(n)' <=> PersistedMember(n))
         /\ PersistedMember(n)' => nvm'[n].key \in Keys
         /\ PersistedMember(n) => nvm[n].key = key[n]
         /\ phase = "recovering" => (PersistedMember(n)' <=> PersistedMember(n))
         /\ heap[n] = "linked" \/ waits[n] # {} =>
              (DeletionIsPersisted(n) /\ marked[n] => DeletionIsPersisted(n)')
<1>1. \A m \in Nodes : nvm'[m] = IF m = n THEN Line(n) ELSE nvm[m]
  BY DEF FLUSH, IInv, TypeOK
<1>2. nvm'[n].valid = valid[n] /\ nvm'[n].link = Link(n) /\ nvm'[n].key = key[n]
  BY <1>1 DEF Line
<1>3. NodePersists(n) /\ NodeIsRight(n)
  BY DEF PInv, DInv
<1>4. (heap[n] = "linked" \/ waits[n] # {}) /\ marked[n] => valid[n]
  BY <1>3 DEF NodePersists, VolatileIsRight, IInv, RetiredIsClosed, RecoveryIsAlone, TypeOK
<1>5. (heap[n] = "linked" \/ waits[n] # {}) /\ marked[n] => DeletionIsPersisted(n)'
  BY <1>2, <1>4 DEF DeletionIsPersisted, Link
<1>6. heap[n] = "linked" /\ ~marked[n] => (PersistedMember(n)' <=> valid[n])
  <2> SUFFICES ASSUME heap[n] = "linked", ~marked[n] PROVE Link(n) = "ref"
    BY <1>2 DEF PersistedMember
  <2>1. n \in Linked
    BY DEF Linked
  <2>2. next[n] # Nil
    BY <2>1, LinkedIsNode, NodesAssumption DEF IInv
  <2> QED
    BY <2>2 DEF Link
<1>7. PersistedMember(n)' => nvm'[n] = nvm[n] \/ heap[n] = "linked"
  BY <1>1, <1>2, MemberToBe DEF PersistedMember, IInv, TypeOK
<1>8. PersistedMember(n)' => nvm'[n].key \in Keys
  BY <1>2, <1>3, <1>7 DEF NodeIsRight, PersistedMember
<1>9. heap[n] # "linked" => (PersistedMember(n)' <=> PersistedMember(n))
  <2> SUFFICES ASSUME heap[n] # "linked" PROVE PersistedMember(n) => PersistedMember(n)'
    BY <1>7 DEF PersistedMember
  <2> SUFFICES ASSUME PersistedMember(n) PROVE nvm'[n] = nvm[n]
    BY DEF PersistedMember
  <2>1. n \in todo /\ n # burying
    BY <1>3 DEF NodePersists, MemberIsOnList, RecoveredFromNVM
  <2> QED
    BY <1>1, <1>3, <2>1 DEF NodePersists, RecoveredFromNVM
<1>10. phase = "recovering" => (PersistedMember(n)' <=> PersistedMember(n))
  <2>1. phase = "recovering" /\ heap[n] = "linked" => Line(n) = nvm[n]
    BY <1>3 DEF NodePersists, RecoveredFromNVM
  <2> QED
    BY <1>1, <1>9, <2>1 DEF PersistedMember
<1>11. PersistedMember(n) => nvm[n].key = key[n]
  BY <1>3 DEF NodePersists, MemberIsOnList
<1> QED
  BY <1>1, <1>2, <1>5, <1>6, <1>8, <1>9, <1>10, <1>11

(* A flush keeps what others know of a node they hold. *)
LEMMA FlushAges ==
  ASSUME IInv, PInv, DInv, NEW n \in Nodes, FLUSH(n), UNCHANGED <<fields, heap, phase>>,
         NEW m \in Nodes, heap[m] = "linked" \/ waits[m] # {}
  PROVE  Ages(m)
<1>1. CASE m # n
  <2>1. nvm'[m] = nvm[m]
    BY <1>1, Flushed
  <2> QED
    BY <2>1 DEF Ages, Unborn, PersistedMember, DeletionIsPersisted, fields
<1>2. CASE m = n
  <2>1. /\ heap[n] = "linked" /\ marked[n] => DeletionIsPersisted(n)'
        /\ heap[n] = "linked" /\ ~marked[n] => (PersistedMember(n)' <=> valid[n])
        /\ heap[n] = "linked" \/ waits[n] # {} =>
             (DeletionIsPersisted(n) /\ marked[n] => DeletionIsPersisted(n)')
    BY Flushed
  <2>2. NodeIsRight(n)
    BY DEF DInv
  <2>3. Unborn(n)' => Unborn(n)
    BY <2>1, <2>2 DEF Unborn, NodeIsRight, fields
  <2> QED
    BY <1>2, <2>1, <2>3 DEF Ages, fields
<1> QED
  BY <1>1, <1>2

(* A flush or an eviction of n. *)
LEMMA FlushIsRight ==
  ASSUME IInv, PInv, DInv, NEW n \in Nodes, FLUSH(n),
         UNCHANGED <<fields, heap, waits, call, curr, newNode, outcomes, phase>>,
         NEW t, OthersStay(t), t \in Threads => CallIsRight(t)',
         Inserted(t)' <=> Inserted(t), Removed(t)' <=> Removed(t),
         pc'[t] # pc[t] => /\ pc[t] = "flushInsert" => valid[n] /\ n = Target(t)
                           /\ pc[t] \in {"flushInsert", "flushDelete"}
                           /\ pc[t] = "flushDelete" => n = curr[t]
                           /\ pc'[t] \in {"setInsert", "setDelete"}
  PROVE  DInv'
<1>1. /\ \A m \in Nodes \ {n} : nvm'[m] = nvm[m]
      /\ nvm'[n].valid = valid[n] /\ nvm'[n].link = Link(n) /\ nvm'[n].key = key[n]
      /\ heap[n] = "linked" /\ marked[n] => DeletionIsPersisted(n)'
      /\ heap[n] = "linked" /\ ~marked[n] => (PersistedMember(n)' <=> valid[n])
      /\ heap[n] # "linked" => (PersistedMember(n)' <=> PersistedMember(n))
      /\ PersistedMember(n)' => nvm'[n].key \in Keys
      /\ heap[n] = "linked" \/ waits[n] # {} =>
           (DeletionIsPersisted(n) /\ marked[n] => DeletionIsPersisted(n)')
  BY Flushed
<1>2. NodeIsRight(n) /\ NodePersists(n)
  BY DEF DInv, PInv
<1>3. ASSUME NEW m \in Nodes, m # n
      PROVE  Same(m) /\ StandsFor(t, m)
  <2>1. Same(m)
    BY <1>1, <1>3 DEF Same, fields
  <2>2. CASE pc'[t] = pc[t]
    BY <2>1, <2>2 DEF StandsFor
  <2>3. CASE pc'[t] # pc[t]
    <3>1. Inserted(t) /\ pc[t] = "flushInsert" => newNode[t] = n \/ newNode[t] = Nil
      BY <2>3 DEF Target
    <3>2. m # Nil
      BY NodesAssumption DEF AllNodes
    <3> QED
      BY <1>3, <2>1, <2>3, <3>1, <3>2 DEF StandsFor
  <2> QED
    BY <2>1, <2>2, <2>3
<1>4. /\ Unborn(n)' => Unborn(n) /\ ~valid[n]
      /\ ~Pending(n)'
  BY <1>1, <1>2 DEF Unborn, Pending, NodeIsRight, fields
<1>5. heap[n] = "linked" \/ waits[n] # {} => Ages(n)
  BY <1>1, <1>4 DEF Ages, fields
<1>6. NodeIsRight(n)'
  <2>1. Unborn(n)' => \E u \in Threads : Inserted(u)' /\ newNode'[u] = n /\ pc'[u] \in {"makeValid", "flushInsert"}
    <3> SUFFICES ASSUME Unborn(n)'
                 PROVE  \E u \in Threads : Inserted(u)' /\ newNode'[u] = n /\ pc'[u] \in {"makeValid", "flushInsert"}
      OBVIOUS
    <3>1. PICK u \in Threads : Inserted(u) /\ newNode[u] = n /\ pc[u] \in {"makeValid", "flushInsert"}
      BY <1>2, <1>4 DEF NodeIsRight
    <3>2. u = t => pc'[u] = pc[u]
      BY <1>4, <3>1
    <3> QED
      BY <3>1, <3>2 DEF OthersStay, Inserted
  <2>2. /\ heap'[n] = "linked" /\ insertFlag'[n] => ~Unborn(n)'
        /\ heap'[n] = "linked" /\ PersistedMember(n)' => valid'[n]
        /\ heap'[n] = "linked" => key'[n] \in Keys
        /\ waits'[n] # {} => DeletionIsPersisted(n)'
    BY <1>1, <1>2, <1>4 DEF NodeIsRight, fields, PersistedMember, Link, IInv, RetiredIsClosed, TypeOK
  <2> QED
    BY <1>1, <1>4, <2>1, <2>2 DEF NodeIsRight
<1>7. \A u \in Threads \ {t} : pc[u] # "idle" /\ MayHold(u, n) => Ages(n)
  BY <1>5, NodesAssumption DEF MayHold, Linked, AllNodes
<1>8. ActorsAreAlone'
  <2>1. Removed(t)' /\ pc'[t] = "flushDelete" => Removed(t) /\ pc[t] = "flushDelete" /\ curr'[t] = curr[t]
    OBVIOUS
  <2> QED
    BY <2>1, ActorsStayAlone
<1>9. RecoveryIsRight'
  <2>1. phase = "recovering" => Persisted' = Persisted
    <3> SUFFICES ASSUME phase = "recovering" PROVE Persisted' = Persisted
      OBVIOUS
    <3>1. \A m \in Nodes : PersistedMember(m)' <=> PersistedMember(m)
      BY <1>1, Flushed DEF PersistedMember
    <3>2. \A m \in Nodes : PersistedMember(m) => nvm'[m].key = nvm[m].key
      BY <1>1, Flushed
    <3> QED
      BY <3>1, <3>2 DEF Persisted
  <2> QED
    BY <2>1 DEF RecoveryIsRight, DInv, fields
<1> QED
  BY <1>3, <1>6, <1>7, <1>8, <1>9, StepIsRight DEF DInv

(* An eviction. *)
LEMMA EvictIsRight ==
  ASSUME IInv, PInv, DInv, NEW n \in Nodes, Evict(n)
  PROVE  DInv'
<1>1. FLUSH(n) /\ UNCHANGED <<fields, heap, waits, locals, outcomes, phase>>
  BY DEF Evict, recovery
<1>2. UNCHANGED <<call, curr, newNode, result, pc>>
  BY <1>1 DEF locals
<1>3. OthersStay(n) /\ (Inserted(n)' <=> Inserted(n)) /\ (Removed(n)' <=> Removed(n)) /\ pc'[n] = pc[n]
  BY <1>2 DEF OthersStay, Inserted, Removed
<1>4. n \in Threads => CallIsRight(n)'
  <2> SUFFICES ASSUME NEW u \in Threads PROVE CallIsRight(u)'
    OBVIOUS
  <2>1. \A m \in Nodes : pc[u] # "idle" /\ MayHold(u, m) => Ages(m)
    <3> SUFFICES ASSUME NEW m \in Nodes, pc[u] # "idle", MayHold(u, m) PROVE Ages(m)
      OBVIOUS
    <3>1. heap[m] = "linked" \/ waits[m] # {}
      BY NodesAssumption DEF MayHold, Linked, AllNodes
    <3> QED
      BY <1>1, <3>1, FlushAges
  <2> QED
    BY <1>2, <2>1, OthersAreRight DEF DInv
<1> QED
  BY <1>1, <1>2, <1>3, <1>4, FlushIsRight

(* FLUSH_DELETE. *)
LEMMA FlushDeleteIsRight ==
  ASSUME IInv, PInv, DInv, ~QuiesceOnFree, NEW t \in Threads, FlushDelete(t)
  PROVE  DInv'
<1> DEFINE n == curr[t]
<1>1. /\ pc[t] = "flushDelete" /\ UNCHANGED <<fields, heap, phase>>
      /\ n \in Nodes /\ MayHold(t, n) /\ marked[n] /\ valid[n]
      /\ heap[n] = "linked" \/ waits[n] # {}
  <2>1. pc[t] = "flushDelete" /\ UNCHANGED <<fields, heap, recovery>>
    BY DEF FlushDelete
  <2>2. n \in Nodes /\ MayHold(t, n) /\ marked[n] /\ valid[n]
    BY <2>1, CurrIsHeld, HeldIsSound DEF IInv, ThreadInv, TrimsMarkedNodes
  <2> QED
    BY <2>1, <2>2, NodesAssumption DEF MayHold, Linked, AllNodes, recovery
<1>2. /\ CallIsRight(t) /\ call[t].op \in {"insert", "remove", "contains"}
      /\ pc[t] \in LabelsOf(call[t].op) /\ phase = "running" /\ outcomes \subseteq DS!Configurations
  BY <1>1, CallIsKnown
<1>3. NodeIsRight(n) /\ NodePersists(n)
  BY <1>1 DEF DInv, PInv
<1> HIDE DEF n
<1>4. CASE deleteFlag[n]
  <2>1. DeletionIsPersisted(n) /\ AfterFlushDelete(t) /\ UNCHANGED nvm
    BY <1>1, <1>3, <1>4 DEF FlushDelete, NodePersists, FlagsAreTrue, n
  <2>2. \A m \in Nodes : StandsFor(t, m)
    BY <1>1, <2>1 DEF StandsFor, Pending, n
  <2>3. CASE call[t].op = "contains"
    <3>1. Return(t, FALSE)
      BY <2>1, <2>3 DEF AfterFlushDelete
    <3> QED
      BY <1>1, <2>1, <2>2, <3>1, ReturnIsRight DEF fields
  <2>4. CASE call[t].op # "contains"
    <3>1. /\ Goto(t, "trim") /\ UNCHANGED <<waits, call, pred, curr, succ, newNode, result, outcomes>>
          /\ pc'[t] = "trim" /\ OthersStay(t)
      BY <2>1, <2>4 DEF AfterFlushDelete, Goto, OthersStay, IInv, TypeOK
    <3>2. call[t].op = "insert" => ~result[t]
      BY <1>1, <1>2 DEF CallIsRight, Publishing
    <3>3. CallIsRight(t)' /\ (Inserted(t)' <=> Inserted(t)) /\ (Removed(t)' <=> Removed(t))
      BY <1>1, <1>2, <2>4, <3>1, <3>2 DEF CallIsRight, Inserted, Removed, Publishing, LabelsOf
    <3> QED
      BY <1>1, <1>2, <2>1, <2>2, <3>1, <3>3, MoveIsRight
  <2> QED
    BY <2>3, <2>4
<1>5. CASE ~deleteFlag[n]
  <2>1. /\ FLUSH(n) /\ pc' = [pc EXCEPT ![t] = "setDelete"]
        /\ UNCHANGED <<waits, call, pred, curr, succ, newNode, result, outcomes>>
        /\ pc'[t] = "setDelete" /\ OthersStay(t)
    BY <1>1, <1>5 DEF FlushDelete, Goto, n, OthersStay, IInv, TypeOK
  <2>2. CallIsRight(t)' /\ (Inserted(t)' <=> Inserted(t)) /\ (Removed(t)' <=> Removed(t))
    BY <1>1, <1>2, <2>1 DEF CallIsRight, Inserted, Removed, Publishing, LabelsOf, fields
  <2> QED
    BY <1>1, <2>1, <2>2, FlushIsRight DEF n
<1> QED
  BY <1>4, <1>5

(* FLUSH_INSERT. *)
LEMMA FlushInsertIsRight ==
  ASSUME IInv, PInv, DInv, ~QuiesceOnFree, NEW t \in Threads, FlushInsert(t)
  PROVE  DInv'
<1> DEFINE n == Target(t)
<1>1. /\ pc[t] = "flushInsert" /\ UNCHANGED <<fields, heap, phase>>
      /\ n \in Nodes /\ MayHold(t, n) /\ valid[n]
      /\ heap[n] = "linked" \/ waits[n] # {}
  <2>1. pc[t] = "flushInsert" /\ UNCHANGED <<fields, heap, recovery>>
    BY DEF FlushInsert
  <2>2. n \in Nodes /\ MayHold(t, n) /\ valid[n]
    BY <2>1, TargetIsHeld DEF PInv, ThreadPersists, Publishing
  <2> QED
    BY <2>1, <2>2, NodesAssumption DEF MayHold, Linked, AllNodes, recovery
<1>2. /\ CallIsRight(t) /\ call[t].op \in {"insert", "remove", "contains"}
      /\ pc[t] \in LabelsOf(call[t].op) /\ phase = "running" /\ outcomes \subseteq DS!Configurations
  BY <1>1, CallIsKnown
<1>3. NodeIsRight(n)
  BY <1>1 DEF DInv
<1> HIDE DEF n
<1>4. CASE insertFlag[n]
  <2>1. Return(t, result[t]) /\ UNCHANGED nvm
    BY <1>1, <1>4 DEF FlushInsert, n
  <2>2. \A m \in Nodes : StandsFor(t, m)
    <3>1. Inserted(t) /\ newNode[t] # Nil => newNode[t] = n
      BY DEF n, Target
    <3>2. ~Unborn(n)
      BY <1>3, <1>4 DEF NodeIsRight, Unborn
    <3> QED
      BY <1>1, <3>1, <3>2, NodesAssumption DEF StandsFor, AllNodes
  <2> QED
    BY <1>1, <2>1, <2>2, ReturnIsRight DEF fields
<1>5. CASE ~insertFlag[n]
  <2>1. /\ FLUSH(n) /\ pc' = [pc EXCEPT ![t] = "setInsert"]
        /\ UNCHANGED <<waits, call, pred, curr, succ, newNode, result, outcomes>>
        /\ pc'[t] = "setInsert" /\ OthersStay(t)
    BY <1>1, <1>5 DEF FlushInsert, Goto, n, OthersStay, IInv, TypeOK
  <2>2. ~Unborn(n)' /\ Target(t)' = n
    BY <1>1, <2>1, Flushed DEF Unborn, n, Target, fields
  <2>3. call[t].op # "remove"
    BY <1>1, <1>2 DEF LabelsOf
  <2>4. (Inserted(t)' <=> Inserted(t)) /\ (Removed(t)' <=> Removed(t)) /\ ~Removed(t)
    BY <2>1, <2>3 DEF Inserted, Removed
  <2>5. pc'[t] \in LabelsOf(call[t].op)
    BY <1>2, <2>1, <2>3 DEF LabelsOf
  <2>6. /\ call[t].op = "contains" => (result[t] <=> pc[t] \in Publishing)
        /\ call[t].op = "insert" => (result[t] <=> pc[t] \in Publishing /\ newNode[t] # Nil)
        /\ Inserted(t) => key[newNode[t]] = call[t].arg
    BY <1>1, <1>2 DEF CallIsRight
  <2>7. pc[t] \in Publishing /\ pc'[t] \in Publishing
    BY <1>1, <2>1 DEF Publishing
  <2> HIDE DEF LabelsOf, Publishing
  <2>8. CallIsRight(t)'
    BY <1>1, <2>1, <2>2, <2>3, <2>4, <2>5, <2>6, <2>7 DEF CallIsRight, fields, n
  <2> QED
    BY <1>1, <2>1, <2>4, <2>8, FlushIsRight DEF n
<1> QED
  BY <1>4, <1>5

-----------------------------------------------------------------------------
(* Steps that write a node. *)

(* The flags. *)
LEMMA SetDeleteFlagIsRight ==
  ASSUME IInv, PInv, DInv, ~QuiesceOnFree, NEW t \in Threads, SetDeleteFlag(t)
  PROVE  DInv'
<1>1. pc[t] = "setDelete" /\ AfterFlushDelete(t)
      /\ UNCHANGED <<valid, insertFlag, key, next, marked, nvm, heap, phase>>
  BY DEF SetDeleteFlag, recovery
<1>2. /\ CallIsRight(t) /\ call[t].op \in {"insert", "remove", "contains"}
      /\ pc[t] \in LabelsOf(call[t].op) /\ phase = "running" /\ outcomes \subseteq DS!Configurations
  BY <1>1, CallIsKnown
<1>3. \A n \in Nodes : StandsFor(t, n)
  BY <1>1, StandsForNone
<1>4. CASE call[t].op = "contains"
  <2>1. Return(t, FALSE)
    BY <1>1, <1>4 DEF AfterFlushDelete
  <2> QED
    BY <1>1, <1>3, <2>1, ReturnIsRight
<1>5. CASE call[t].op # "contains"
  <2>1. /\ UNCHANGED <<waits, call, curr, newNode, result, outcomes>>
        /\ pc'[t] = "trim" /\ OthersStay(t)
    BY <1>1, <1>5 DEF AfterFlushDelete, Goto, OthersStay, IInv, TypeOK
  <2>2. call[t].op = "insert" => ~result[t]
    BY <1>1, <1>2 DEF CallIsRight, Publishing
  <2>3. CallIsRight(t)' /\ (Inserted(t)' <=> Inserted(t)) /\ (Removed(t)' <=> Removed(t))
    BY <1>1, <1>2, <1>5, <2>1, <2>2 DEF CallIsRight, Inserted, Removed, Publishing, LabelsOf
  <2>4. (\A n \in Nodes : Same(n)) /\ RecoveryIsRight'
    BY <1>1, <1>2, <2>1 DEF Same, RecoveryIsRight
  <2>5. ActorsAreAlone'
    BY <2>1, <2>3, ActorsStayAlone
  <2> QED
    BY <1>2, <1>3, <2>1, <2>3, <2>4, <2>5, StepIsRight
<1> QED
  BY <1>4, <1>5

(* insert and contains raise the flag and answer. *)
LEMMA SetInsertFlagIsRight ==
  ASSUME IInv, PInv, DInv, ~QuiesceOnFree, NEW t \in Threads, SetInsertFlag(t)
  PROVE  DInv'
<1>1. pc[t] = "setInsert" /\ Return(t, result[t])
      /\ insertFlag' = [insertFlag EXCEPT ![Target(t)] = TRUE]
      /\ UNCHANGED <<valid, deleteFlag, key, next, marked, nvm, heap, phase>>
  BY DEF SetInsertFlag, recovery
<1>2. \A n \in Nodes : StandsFor(t, n)
  BY <1>1, StandsForNone
<1>3. \A n \in Nodes : insertFlag'[n] => insertFlag[n] \/ n = Target(t)
  BY <1>1 DEF IInv, TypeOK
<1> QED
  BY <1>1, <1>2, <1>3, ReturnIsRight

(* makeValid, on the node of an insert, or on a node found. *)
LEMMA MakeValidIsRight ==
  ASSUME IInv, PInv, DInv, ~QuiesceOnFree, NEW t \in Threads, MakeValid(t)
  PROVE  DInv'
<1> DEFINE label == IF call[t].op = "remove" THEN "mark" ELSE "flushInsert"
<1>1. /\ pc[t] = "makeValid" /\ valid' = [valid EXCEPT ![Target(t)] = TRUE]
      /\ pc'[t] = label /\ OthersStay(t)
      /\ UNCHANGED <<insertFlag, key, marked, nvm, heap, waits, call, curr, newNode, result, outcomes, phase>>
  BY DEF MakeValid, Goto, OthersStay, recovery, IInv, TypeOK
<1>2. /\ CallIsRight(t) /\ call[t].op \in {"insert", "remove", "contains"}
      /\ pc[t] \in LabelsOf(call[t].op) /\ phase = "running" /\ outcomes \subseteq DS!Configurations
  BY <1>1, CallIsKnown
<1>3. (Inserted(t)' <=> Inserted(t)) /\ (Removed(t)' <=> Removed(t)) /\ ~Removed(t)
  BY <1>1, <1>2 DEF Inserted, Removed, CallIsRight
<1>4. label \in LabelsOf(call[t].op)
  BY <1>2 DEF LabelsOf
<1>5. /\ call[t].op = "contains" => (result[t] <=> pc[t] \in Publishing)
      /\ call[t].op = "insert" => (result[t] <=> pc[t] \in Publishing /\ newNode[t] # Nil)
      /\ call[t].op = "remove" => ~result[t]
      /\ Inserted(t) => key[newNode[t]] = call[t].arg
  BY <1>1, <1>2 DEF CallIsRight
<1>6. pc[t] \in Publishing /\ (call[t].op # "remove" => label \in Publishing) /\ label \in {"mark", "flushInsert"}
      /\ (call[t].op = "remove" => label = "mark")
  BY <1>1 DEF Publishing
<1> HIDE DEF label
<1>7. CallIsRight(t)'
  BY <1>1, <1>2, <1>3, <1>4, <1>5, <1>6 DEF CallIsRight
<1>8. (\A n \in Nodes : Same(n)) /\ RecoveryIsRight'
  <2>1. \A n \in Nodes : valid[n] => valid'[n]
    BY <1>1 DEF IInv, TypeOK
  <2> QED
    BY <1>1, <1>2, <2>1 DEF Same, RecoveryIsRight
<1>9. \A n \in Nodes : StandsFor(t, n)
  BY <1>1, <1>3, <1>6 DEF StandsFor, Inserted, label
<1>10. ActorsAreAlone'
  BY <1>1, <1>3, ActorsStayAlone
<1> QED
  BY <1>1, <1>2, <1>7, <1>8, <1>9, <1>10, StepIsRight

(* A node that is not on the list, and that nobody else holds. *)
LEMMA OffListIsRight ==
  ASSUME IInv, DInv, NEW n \in Nodes, heap'[n] # "linked", UNCHANGED nvm,
         waits'[n] \subseteq waits[n]
  PROVE  NodeIsRight(n)'
<1>1. NodeIsRight(n)
  BY DEF DInv
<1>2. (PersistedMember(n)' <=> PersistedMember(n)) /\ (DeletionIsPersisted(n)' <=> DeletionIsPersisted(n))
  BY DEF PersistedMember, DeletionIsPersisted
<1>3. ~Unborn(n)' /\ ~Pending(n)'
  BY DEF Unborn, Pending
<1> QED
  BY <1>1, <1>2, <1>3 DEF NodeIsRight

(* A step of an insert on a node that is not on the list. *)
LEMMA OwnStepIsRight ==
  ASSUME IInv, DInv, NEW t \in Threads, NEW n \in Nodes, pc[t] # "idle", OthersStay(t),
         pc[t] \notin {"makeValid", "flushInsert", "flushDelete"}, call[t].op = "insert", ~result[t],
         UNCHANGED <<nvm, call, curr, result, outcomes, phase>>,
         pc'[t] \in {"init", "link", "undo", "restart", "markUnlinked"},
         \A m \in Nodes : waits'[m] = waits[m],
         heap[n] = "owned" \/ Allocatable(n), heap'[n] # "linked",
         \A m \in Nodes \ {n} : heap'[m] = heap[m] /\ marked'[m] = marked[m] /\ key'[m] = key[m]
                               /\ valid'[m] = valid[m] /\ insertFlag'[m] = insertFlag[m]
  PROVE  DInv'
<1>1. /\ CallIsRight(t) /\ call[t].op \in {"insert", "remove", "contains"}
      /\ pc[t] \in LabelsOf(call[t].op) /\ phase = "running" /\ outcomes \subseteq DS!Configurations
  BY CallIsKnown
<1>2. ~Inserted(t)' /\ ~Removed(t)'
  BY DEF Inserted, Removed
<1>3. CallIsRight(t)'
  BY <1>1, <1>2 DEF CallIsRight, Publishing, LabelsOf
<1>4. \A u \in Threads : ~MayHold(u, n)
  BY OwnedIsNotHeld, NodesAssumption DEF MayHold, Linked, Allocatable, AllNodes
<1>5. \A m \in Nodes \ {n} : Same(m) /\ StandsFor(t, m)
  BY StandsForNone DEF Same
<1>6. NodeIsRight(n)'
  BY OffListIsRight
<1>7. ActorsAreAlone' /\ RecoveryIsRight'
  BY <1>1, <1>2, ActorsStayAlone DEF RecoveryIsRight
<1> QED
  BY <1>1, <1>3, <1>4, <1>5, <1>6, <1>7, StepIsRight

(* allocNode, the stores to the new node, and its end if it was not linked. *)
LEMMA InsertIsRight ==
  ASSUME IInv, PInv, DInv, ~QuiesceOnFree, NEW t \in Threads
  PROVE  AllocNode(t) \/ InitNode(t) \/ MarkUnlinked(t) \/ UndoInsert(t) => DInv'
<1> SUFFICES ASSUME AllocNode(t) \/ InitNode(t) \/ MarkUnlinked(t) \/ UndoInsert(t) PROVE DInv'
  OBVIOUS
<1>1. pc[t] \in {"alloc", "init", "markUnlinked", "undo"}
  BY DEF AllocNode, InitNode, MarkUnlinked, UndoInsert
<1>2. /\ CallIsRight(t) /\ call[t].op \in {"insert", "remove", "contains"}
      /\ pc[t] \in LabelsOf(call[t].op)
  BY <1>1, CallIsKnown
<1>3. call[t].op = "insert" /\ ~result[t]
  BY <1>1, <1>2 DEF LabelsOf, CallIsRight, Publishing
<1>4. pc[t] # "alloc" => newNode[t] \in Nodes /\ heap[newNode[t]] = "owned"
  BY <1>1 DEF IInv, ThreadInv, NewNodeIsPrivate, Private
<1>5. CASE AllocNode(t)
  <2>1. PICK n \in Nodes : /\ Allocatable(n)
                           /\ heap' = [heap EXCEPT ![n] = "owned"]
                           /\ valid' = [valid EXCEPT ![n] = ~valid[n]]
                           /\ newNode' = [newNode EXCEPT ![t] = n]
    BY <1>5 DEF AllocNode
  <2>2. /\ pc'[t] = "init" /\ OthersStay(t)
        /\ UNCHANGED <<insertFlag, key, marked, nvm, waits, call, curr, result, outcomes, phase>>
    BY <1>5, <2>1 DEF AllocNode, Goto, OthersStay, recovery, IInv, TypeOK
  <2>3. /\ heap'[n] # "linked"
        /\ \A m \in Nodes \ {n} : heap'[m] = heap[m] /\ valid'[m] = valid[m]
    BY <2>1 DEF IInv, TypeOK
  <2> QED
    BY <1>1, <1>3, <2>1, <2>2, <2>3, OwnStepIsRight
<1>6. CASE InitNode(t)
  <2> DEFINE n == newNode[t]
  <2>1. n \in Nodes /\ heap[n] = "owned"
    BY <1>4, <1>6 DEF InitNode
  <2>2. /\ pc'[t] = "link" /\ OthersStay(t)
        /\ UNCHANGED <<valid, nvm, heap, waits, call, curr, result, outcomes, phase>>
    BY <1>6 DEF InitNode, Goto, OthersStay, recovery, IInv, TypeOK
  <2>3. /\ insertFlag' = [insertFlag EXCEPT ![n] = FALSE]
        /\ key' = [key EXCEPT ![n] = call[t].arg]
        /\ marked' = [marked EXCEPT ![n] = FALSE]
    BY <1>6 DEF InitNode
  <2> HIDE DEF n
  <2>4. \A m \in Nodes \ {n} : marked'[m] = marked[m] /\ key'[m] = key[m] /\ insertFlag'[m] = insertFlag[m]
    BY <2>3 DEF IInv, TypeOK, AllNodes
  <2> QED
    BY <1>1, <1>3, <2>1, <2>2, <2>4, OwnStepIsRight
<1>7. CASE MarkUnlinked(t)
  <2> DEFINE n == newNode[t]
  <2>1. n \in Nodes /\ heap[n] = "owned"
    BY <1>4, <1>7 DEF MarkUnlinked
  <2>2. /\ pc'[t] = "undo" /\ OthersStay(t) /\ marked' = [marked EXCEPT ![n] = TRUE]
        /\ UNCHANGED <<valid, insertFlag, key, nvm, heap, waits, call, curr, result, outcomes, phase>>
    BY <1>7 DEF MarkUnlinked, Goto, OthersStay, recovery, IInv, TypeOK
  <2> HIDE DEF n
  <2>3. \A m \in Nodes \ {n} : marked'[m] = marked[m]
    BY <2>2 DEF IInv, TypeOK, AllNodes
  <2> QED
    BY <1>1, <1>3, <2>1, <2>2, <2>3, OwnStepIsRight
<1>8. CASE UndoInsert(t)
  <2> DEFINE n == newNode[t]
  <2>1. n \in Nodes /\ heap[n] = "owned"
    BY <1>4, <1>8 DEF UndoInsert
  <2>2. /\ pc'[t] = "restart" /\ OthersStay(t) /\ valid' = [valid EXCEPT ![n] = TRUE]
        /\ heap' = [heap EXCEPT ![n] = "free"]
        /\ UNCHANGED <<insertFlag, key, marked, nvm, waits, call, curr, result, outcomes, phase>>
    BY <1>8 DEF UndoInsert, Free, Goto, OthersStay, recovery, IInv, TypeOK
  <2> HIDE DEF n
  <2>3. heap'[n] # "linked" /\ \A m \in Nodes \ {n} : heap'[m] = heap[m] /\ valid'[m] = valid[m]
    BY <2>1, <2>2 DEF IInv, TypeOK
  <2> QED
    BY <1>1, <1>3, <2>1, <2>2, <2>3, OwnStepIsRight
<1> QED
  BY <1>5, <1>6, <1>7, <1>8

(* trim and ssmem_free. *)
LEMMA TrimIsRight ==
  ASSUME IInv, PInv, DInv, ~QuiesceOnFree, NEW t \in Threads, Trim(t)
  PROVE  DInv'
<1>1. /\ pc[t] = "trim" /\ OthersStay(t)
      /\ UNCHANGED <<valid, insertFlag, key, marked, nvm, call, curr, newNode, result, outcomes, phase>>
      /\ pc'[t] \in {"free", "advance", "done"} /\ (pc'[t] = "done" => result[t])
      /\ pc'[t] = "advance" => ~result[t]
  BY DEF Trim, Goto, OthersStay, recovery, IInv, TypeOK
<1>2. /\ CallIsRight(t) /\ call[t].op \in {"insert", "remove", "contains"}
      /\ pc[t] \in LabelsOf(call[t].op) /\ phase = "running" /\ outcomes \subseteq DS!Configurations
  BY <1>1, CallIsKnown
<1>3. call[t].op # "contains" /\ (call[t].op = "insert" => ~result[t])
  BY <1>1, <1>2 DEF LabelsOf, CallIsRight, Publishing
<1>4. (Inserted(t)' <=> Inserted(t)) /\ (Removed(t)' <=> Removed(t))
  BY <1>1 DEF Inserted, Removed
<1>5. CallIsRight(t)'
  BY <1>1, <1>2, <1>3, <1>4 DEF CallIsRight, Publishing, LabelsOf, Inserted
<1>6. ActorsAreAlone' /\ RecoveryIsRight'
  BY <1>1, <1>2, <1>4, ActorsStayAlone DEF RecoveryIsRight
<1>7. \A m \in Nodes : StandsFor(t, m)
  BY <1>1, StandsForNone
<1>8. CASE UNCHANGED <<heap, waits>>
  <2>1. \A m \in Nodes : Same(m)
    BY <1>1, <1>8 DEF Same
  <2> QED
    BY <1>1, <1>2, <1>5, <1>6, <1>7, <2>1, StepIsRight
<1>9. CASE Unlink(curr[t])
  <2>1. PICK n \in Nodes : n = curr[t] /\ DeletionIsPersisted(n)
    BY <1>1, CurrIsHeld DEF PInv, ThreadPersists
  <2>2. heap'[n] = "unlinked" /\ \A m \in Nodes \ {n} : heap'[m] = heap[m] /\ waits'[m] = waits[m]
    BY <1>9, <2>1 DEF Unlink, IInv, TypeOK
  <2>3. \A m \in Nodes \ {n} : Same(m)
    BY <1>1, <2>2 DEF Same
  <2>4. /\ PersistedMember(n)' <=> PersistedMember(n)
        /\ DeletionIsPersisted(n)' /\ ~Unborn(n)' /\ ~Pending(n)'
    BY <1>1, <2>1, <2>2 DEF PersistedMember, DeletionIsPersisted, Unborn, Pending
  <2>5. NodeIsRight(n)' /\ Ages(n)
    BY <1>1, <2>1, <2>2, <2>4 DEF NodeIsRight, Ages, DInv
  <2> QED
    BY <1>1, <1>2, <1>5, <1>6, <1>7, <2>3, <2>5, StepIsRight
<1> QED
  BY <1>8, <1>9 DEF Trim

(* ssmem_free by the thread that took the node out. *)
LEMMA FreeTrimmedIsRight ==
  ASSUME IInv, PInv, DInv, ~QuiesceOnFree, NEW t \in Threads, FreeTrimmed(t)
  PROVE  DInv'
<1>1. /\ pc[t] = "free" /\ OthersStay(t)
      /\ heap' = [heap EXCEPT ![curr[t]] = "free"]
      /\ UNCHANGED <<valid, insertFlag, key, marked, nvm, waits, call, curr, newNode, result, outcomes, phase>>
      /\ pc'[t] \in {"advance", "done"} /\ (pc'[t] = "done" => result[t])
      /\ pc'[t] = "advance" => ~result[t]
  BY DEF FreeTrimmed, Free, Goto, OthersStay, recovery, IInv, TypeOK, fields
<1>2. /\ CallIsRight(t) /\ call[t].op \in {"insert", "remove", "contains"}
      /\ pc[t] \in LabelsOf(call[t].op) /\ phase = "running" /\ outcomes \subseteq DS!Configurations
  BY <1>1, CallIsKnown
<1>3. call[t].op # "contains" /\ (call[t].op = "insert" => ~result[t])
  BY <1>1, <1>2 DEF LabelsOf, CallIsRight, Publishing
<1>4. (Inserted(t)' <=> Inserted(t)) /\ (Removed(t)' <=> Removed(t))
  BY <1>1 DEF Inserted, Removed
<1>5. CallIsRight(t)'
  BY <1>1, <1>2, <1>3, <1>4 DEF CallIsRight, Publishing, LabelsOf, Inserted
<1>6. ActorsAreAlone' /\ RecoveryIsRight'
  BY <1>1, <1>2, <1>4, ActorsStayAlone DEF RecoveryIsRight
<1>7. \A m \in Nodes : StandsFor(t, m)
  BY <1>1, StandsForNone
<1>8. PICK n \in Nodes : n = curr[t] /\ heap[n] = "unlinked"
  BY <1>1, CurrIsHeld DEF IInv, ThreadInv, TrimsMarkedNodes
<1>9. heap'[n] = "free" /\ \A m \in Nodes \ {n} : heap'[m] = heap[m]
  BY <1>1, <1>8 DEF IInv, TypeOK
<1>10. \A m \in Nodes \ {n} : Same(m)
  BY <1>1, <1>9 DEF Same
<1>11. NodeIsRight(n)' /\ Ages(n)
  BY <1>1, <1>8, <1>9, OffListIsRight DEF Ages, Unborn, DeletionIsPersisted
<1> QED
  BY <1>1, <1>2, <1>5, <1>6, <1>7, <1>10, <1>11, StepIsRight

(* The CAS of insert. *)
LEMMA LinkNodeIsRight ==
  ASSUME IInv, PInv, DInv, ~QuiesceOnFree, NEW t \in Threads, LinkNode(t)
  PROVE  DInv'
<1>1. /\ pc[t] = "link" /\ OthersStay(t)
      /\ UNCHANGED <<valid, insertFlag, key, marked, nvm, waits, call, curr, newNode, outcomes, phase>>
  BY DEF LinkNode, Goto, OthersStay, recovery, IInv, TypeOK
<1>2. /\ CallIsRight(t) /\ call[t].op \in {"insert", "remove", "contains"} /\ call[t].arg \in Keys
      /\ pc[t] \in LabelsOf(call[t].op) /\ phase = "running" /\ outcomes \subseteq DS!Configurations
  BY <1>1, CallIsKnown
<1>3. call[t].op = "insert" /\ ~result[t] /\ RecoveryIsRight'
  BY <1>1, <1>2 DEF LabelsOf, CallIsRight, Publishing, RecoveryIsRight
<1>4. \A m \in Nodes : StandsFor(t, m)
  BY <1>1, StandsForNone
<1>5. PICK n \in Nodes : n = newNode[t] /\ heap[n] = "owned"
  BY <1>1 DEF IInv, ThreadInv, NewNodeIsPrivate, Private
<1>6. n # Nil /\ key[n] = call[t].arg /\ ~marked[n] /\ ~insertFlag[n] /\ ~PersistedMember(n) /\ waits[n] = {}
  <2>1. key[n] = call[t].arg /\ ~marked[n]
    BY <1>1, <1>5 DEF IInv, ThreadInv, LinkIsReady
  <2>2. ~insertFlag[n] /\ ~PersistedMember(n)
    BY <1>1, <1>5, Running DEF PInv, ThreadPersists, NodePersists, MemberIsOnList
  <2> QED
    BY <1>5, <2>1, <2>2, OwnedIsNotHeld, NodesAssumption DEF AllNodes
<1>7. CASE ~Expects(pred[t], curr[t])
  <2>1. pc'[t] = "markUnlinked" /\ UNCHANGED <<heap, result>>
    BY <1>7 DEF LinkNode, Goto, IInv, TypeOK
  <2>2. ~Inserted(t)' /\ ~Removed(t)'
    BY <1>1, <1>3, <2>1 DEF Inserted, Removed
  <2>3. CallIsRight(t)'
    BY <1>1, <1>2, <1>3, <2>1, <2>2 DEF CallIsRight, Publishing, LabelsOf
  <2>4. (\A m \in Nodes : Same(m)) /\ ActorsAreAlone'
    BY <1>1, <2>1, <2>2, ActorsStayAlone DEF Same
  <2> QED
    BY <1>1, <1>2, <1>3, <1>4, <2>3, <2>4, StepIsRight
<1>8. CASE Expects(pred[t], curr[t])
  <2>1. /\ pc'[t] = "makeValid" /\ result'[t] = TRUE
        /\ heap'[n] = "linked" /\ \A m \in Nodes \ {n} : heap'[m] = heap[m]
    BY <1>5, <1>8 DEF LinkNode, Goto, IInv, TypeOK
  <2>2. Inserted(t)' /\ ~Removed(t)'
    BY <1>1, <1>3, <2>1 DEF Inserted, Removed
  <2>3. CallIsRight(t)'
    BY <1>1, <1>2, <1>3, <1>5, <1>6, <2>1, <2>2 DEF CallIsRight, Publishing, LabelsOf
  <2>4. \A u \in Threads : ~MayHold(u, n)
    BY <1>5, OwnedIsNotHeld
  <2>5. ActorsAreAlone'
    <3>1. \A u \in Threads \ {t} : Inserted(u) => newNode[u] # n
      <4> SUFFICES ASSUME NEW u \in Threads, Inserted(u), newNode[u] = n PROVE FALSE
        OBVIOUS
      <4>1. pc[u] \in Publishing /\ pc[u] # "idle"
        BY DEF DInv, CallIsRight, Inserted
      <4> QED
        BY <1>6, <2>4, <4>1 DEF IInv, ThreadInv, HoldsWhatItMay
    <3>2. \A u \in Threads \ {t} : (Inserted(u)' <=> Inserted(u)) /\ (Removed(u)' <=> Removed(u))
      BY <1>1 DEF OthersStay, Inserted, Removed
    <3>3. \A u, v \in Threads :
            /\ Inserted(u)' /\ Inserted(v)' /\ newNode'[u] = newNode'[v] => u = v
            /\ Removed(u)' /\ Removed(v)' /\ pc'[u] = "flushDelete" /\ pc'[v] = "flushDelete"
                 /\ curr'[u] = curr'[v] => u = v
      BY <1>1, <1>5, <2>2, <3>1, <3>2 DEF DInv, ActorsAreAlone, OthersStay
    <3> QED
      BY <3>3 DEF ActorsAreAlone, Inserted, Removed
  <2>6. \A m \in Nodes \ {n} : Same(m)
    BY <1>1, <2>1 DEF Same
  <2>7. NodeIsRight(n)'
    <3>1. PersistedMember(n)' <=> PersistedMember(n)
      BY <1>1 DEF PersistedMember
    <3>2. ~Pending(n)'
      BY <1>1, <1>6 DEF Pending
    <3>3. Inserted(t)' /\ newNode'[t] = n /\ pc'[t] \in {"makeValid", "flushInsert"}
      BY <1>1, <1>5, <2>1, <2>2
    <3> QED
      BY <1>1, <1>2, <1>6, <3>1, <3>2, <3>3 DEF NodeIsRight
  <2> QED
    BY <1>1, <1>2, <1>3, <1>4, <2>3, <2>4, <2>5, <2>6, <2>7, StepIsRight
<1> QED
  BY <1>7, <1>8

(* The CAS of remove: the mark. *)
LEMMA MarkIsRight ==
  ASSUME IInv, PInv, DInv, ~QuiesceOnFree, NEW t \in Threads, Mark(t)
  PROVE  DInv'
<1>1. /\ pc[t] = "mark" /\ OthersStay(t)
      /\ UNCHANGED <<valid, insertFlag, key, nvm, heap, waits, call, curr, newNode, outcomes, phase>>
  BY DEF Mark, Goto, OthersStay, recovery, IInv, TypeOK
<1>2. /\ CallIsRight(t) /\ call[t].op \in {"insert", "remove", "contains"} /\ call[t].arg \in Keys
      /\ pc[t] \in LabelsOf(call[t].op) /\ phase = "running" /\ outcomes \subseteq DS!Configurations
  BY <1>1, CallIsKnown
<1>3. call[t].op = "remove" /\ ~result[t] /\ RecoveryIsRight'
  BY <1>1, <1>2 DEF LabelsOf, CallIsRight, Publishing, RecoveryIsRight
<1>4. \A m \in Nodes : StandsFor(t, m)
  BY <1>1, StandsForNone
<1>5. PICK n \in Nodes : n = curr[t] /\ key[n] = call[t].arg /\ MayHold(t, n)
  BY <1>1, CurrIsHeld DEF IInv, ThreadInv, SearchIsRight
<1>6. CASE ~Expects(curr[t], succ[t])
  <2>1. pc'[t] = "restart" /\ UNCHANGED <<marked, result>>
    BY <1>6 DEF Mark, Goto, IInv, TypeOK
  <2>2. ~Inserted(t)' /\ ~Removed(t)'
    BY <1>1, <1>3, <2>1 DEF Inserted, Removed
  <2>3. CallIsRight(t)'
    BY <1>1, <1>2, <1>3, <2>1, <2>2 DEF CallIsRight, Publishing, LabelsOf
  <2>4. (\A m \in Nodes : Same(m)) /\ ActorsAreAlone'
    BY <1>1, <2>1, <2>2, ActorsStayAlone DEF Same
  <2> QED
    BY <1>1, <1>2, <1>3, <1>4, <2>3, <2>4, StepIsRight
<1>7. CASE Expects(curr[t], succ[t])
  <2>1. /\ pc'[t] = "flushDelete" /\ result'[t] = TRUE /\ ~marked[n]
        /\ marked'[n] = TRUE /\ \A m \in Nodes \ {n} : marked'[m] = marked[m]
    BY <1>5, <1>7 DEF Mark, Expects, Goto, IInv, TypeOK, AllNodes
  <2>2. ~Inserted(t)' /\ Removed(t)'
    BY <1>1, <1>3, <2>1 DEF Inserted, Removed
  <2>3. heap[n] = "linked"
    BY <1>5, <2>1, UnmarkedIsLinked, NodesAssumption DEF Linked, AllNodes, IInv
  <2>4. CallIsRight(t)'
    BY <1>1, <1>2, <1>3, <1>5, <2>1, <2>2, <2>3 DEF CallIsRight, Publishing, LabelsOf
  <2>5. ActorsAreAlone'
    <3>1. \A u \in Threads \ {t} : Removed(u) /\ pc[u] = "flushDelete" => curr[u] # n
      BY <2>1 DEF IInv, ThreadInv, TrimsMarkedNodes
    <3>2. \A u \in Threads \ {t} : (Inserted(u)' <=> Inserted(u)) /\ (Removed(u)' <=> Removed(u))
      BY <1>1 DEF OthersStay, Inserted, Removed
    <3>3. \A u, v \in Threads :
            /\ Inserted(u)' /\ Inserted(v)' /\ newNode'[u] = newNode'[v] => u = v
            /\ Removed(u)' /\ Removed(v)' /\ pc'[u] = "flushDelete" /\ pc'[v] = "flushDelete"
                 /\ curr'[u] = curr'[v] => u = v
      BY <1>1, <1>5, <2>2, <3>1, <3>2 DEF DInv, ActorsAreAlone, OthersStay
    <3> QED
      BY <3>3 DEF ActorsAreAlone, Inserted, Removed
  <2>6. \A m \in Nodes \ {n} : Same(m)
    BY <1>1, <2>1 DEF Same
  <2>7. NodeIsRight(n)' /\ Ages(n)
    <3>1. /\ PersistedMember(n)' <=> PersistedMember(n)
          /\ DeletionIsPersisted(n)' <=> DeletionIsPersisted(n)
          /\ Unborn(n)' => Unborn(n)
      BY <1>1, <2>1 DEF PersistedMember, DeletionIsPersisted, Unborn
    <3>2. NodeIsRight(n)
      BY DEF DInv
    <3>3. Unborn(n)' => \E u \in Threads : Inserted(u)' /\ newNode'[u] = n /\ pc'[u] \in {"makeValid", "flushInsert"}
      <4> SUFFICES ASSUME Unborn(n)'
                   PROVE  \E u \in Threads : Inserted(u)' /\ newNode'[u] = n /\ pc'[u] \in {"makeValid", "flushInsert"}
        OBVIOUS
      <4>1. PICK u \in Threads : Inserted(u) /\ newNode[u] = n /\ pc[u] \in {"makeValid", "flushInsert"}
        BY <3>1, <3>2 DEF NodeIsRight
      <4>2. u # t
        BY <1>1, <4>1
      <4> QED
        BY <1>1, <4>1, <4>2 DEF OthersStay, Inserted
    <3>4. Removed(t)' /\ pc'[t] = "flushDelete" /\ curr'[t] = n
      BY <1>1, <1>5, <2>1, <2>2
    <3>5. NodeIsRight(n)'
      BY <1>1, <3>1, <3>2, <3>3, <3>4 DEF NodeIsRight
    <3> QED
      BY <1>1, <2>1, <3>1, <3>5 DEF Ages
  <2> QED
    BY <1>1, <1>2, <1>3, <1>4, <2>4, <2>5, <2>6, <2>7, StepIsRight
<1> QED
  BY <1>6, <1>7

-----------------------------------------------------------------------------
(* Recovery. *)

(* Nothing runs. *)
LEMMA NobodyIsRight ==
  ASSUME \A t \in Threads : pc'[t] = "idle" /\ call'[t] = DS!None /\ ~result'[t],
         \A n \in Nodes : /\ heap'[n] = "linked" =>
                               PersistedMember(n)' /\ valid'[n] /\ ~marked'[n] /\ key'[n] \in Keys
                          /\ PersistedMember(n)' => nvm'[n].key \in Keys
                          /\ waits'[n] = {},
         RecoveryIsRight', outcomes' \subseteq DS!Configurations
  PROVE  DInv'
<1>1. \A t \in Threads : CallIsRight(t)' /\ ~Inserted(t)' /\ ~Removed(t)'
  BY DEF CallIsRight, Inserted, Removed
<1>2. ActorsAreAlone'
  BY <1>1 DEF ActorsAreAlone
<1>3. \A n \in Nodes : NodeIsRight(n)'
  BY DEF NodeIsRight, Unborn, Pending
<1> QED
  BY <1>1, <1>2, <1>3 DEF DInv

(* Recovery puts members on the list, and leaves the others off it. *)
LEMMA QuietRecovery ==
  ASSUME IInv, PInv, DInv, phase = "recovering", UNCHANGED <<nvm, waits, locals>>,
         \A n \in Nodes : heap'[n] = "linked" =>
            \/ heap[n] = "linked" /\ valid'[n] = valid[n] /\ marked'[n] = marked[n] /\ key'[n] = key[n]
            \/ PersistedMember(n)' /\ valid'[n] /\ ~marked'[n] /\ key'[n] \in Keys,
         RecoveryIsRight', outcomes' \subseteq DS!Configurations
  PROVE  DInv'
<1>1. \A t \in Threads : pc'[t] = "idle" /\ call'[t] = DS!None /\ ~result'[t]
  BY DEF IInv, RecoveryIsAlone, DInv, CallIsRight, locals
<1>2. ASSUME NEW n \in Nodes
      PROVE  /\ heap'[n] = "linked" =>
                  PersistedMember(n)' /\ valid'[n] /\ ~marked'[n] /\ key'[n] \in Keys
             /\ PersistedMember(n)' => nvm'[n].key \in Keys
             /\ waits'[n] = {}
  <2>1. NodeIsRight(n) /\ NodePersists(n)
    BY DEF DInv, PInv
  <2>2. heap[n] = "linked" => PersistedMember(n) /\ valid[n] /\ ~marked[n] /\ key[n] \in Keys
    <3> SUFFICES ASSUME heap[n] = "linked" PROVE PersistedMember(n) /\ valid[n] /\ ~marked[n] /\ key[n] \in Keys
      OBVIOUS
    <3>1. Line(n) = nvm[n] /\ PersistedMember(n)
      BY <2>1 DEF NodePersists, RecoveredFromNVM
    <3>2. Link(n) = "ref"
      BY <3>1 DEF PersistedMember, Line
    <3> QED
      BY <2>1, <3>1, <3>2 DEF NodeIsRight, Link
  <2>3. waits[n] = {}
    BY DEF IInv, RetiredIsClosed, RecoveryIsAlone, TypeOK
  <2>4. PersistedMember(n)' <=> PersistedMember(n)
    BY DEF PersistedMember
  <2> QED
    BY <2>1, <2>2, <2>3, <2>4 DEF NodeIsRight
<1> QED
  BY <1>1, <1>2, NobodyIsRight

(* One node of the chunks is visited. *)
LEMMA RecoveringIsRight ==
  ASSUME IInv, PInv, DInv, NEW n \in Nodes
  PROVE  RecoverNeverUsed(n) \/ RecoverMarkDead(n) \/ RecoverFreeDead(n) \/ QuickInsert(n) => DInv'
<1> SUFFICES ASSUME RecoverNeverUsed(n) \/ RecoverMarkDead(n) \/ RecoverFreeDead(n) \/ QuickInsert(n)
             PROVE  DInv'
  OBVIOUS
<1>1. /\ phase = "recovering" /\ n \in todo
      /\ UNCHANGED <<nvm, waits, locals, phase, outcomes>>
      /\ outcomes \subseteq DS!Configurations
  BY DEF RecoverNeverUsed, RecoverMarkDead, RecoverFreeDead, QuickInsert, DInv
<1>2. n # Tail /\ n # Nil /\ n # Head
  BY NodesAssumption DEF AllNodes
<1>3. next'[Tail] = next[Tail]
  <2>1. CASE RecoverNeverUsed(n) \/ RecoverFreeDead(n)
    BY <2>1 DEF RecoverNeverUsed, RecoverFreeDead, fields
  <2>2. CASE RecoverMarkDead(n)
    BY <1>2, <2>2 DEF RecoverMarkDead, IInv, TypeOK, AllNodes
  <2>3. CASE QuickInsert(n)
    <3>1. PICK p \in Linked : next' = [next EXCEPT ![n] = next[p], ![p] = n]
      BY <2>3 DEF QuickInsert
    <3>2. p # Tail
      BY LinkedIsNode
    <3> QED
      BY <1>2, <3>1, <3>2 DEF IInv, TypeOK, AllNodes
  <2> QED
    BY <2>1, <2>2, <2>3
<1>4. RecoveryIsRight'
  <2>1. Persisted' = Persisted
    BY <1>1 DEF Persisted, PersistedMember
  <2> QED
    BY <1>1, <1>3, <2>1 DEF DInv, RecoveryIsRight
<1>5. heap[n] = "free"
  BY <1>1 DEF IInv, RecoveryIsAlone
<1>6. CASE RecoverNeverUsed(n)
  BY <1>1, <1>4, <1>6, QuietRecovery DEF RecoverNeverUsed, fields
<1>7. CASE RecoverMarkDead(n)
  <2>1. \A m \in Nodes : m # n => marked'[m] = marked[m]
    BY <1>7 DEF RecoverMarkDead, IInv, TypeOK, AllNodes
  <2> QED
    BY <1>1, <1>4, <1>5, <1>7, <2>1, QuietRecovery DEF RecoverMarkDead
<1>8. CASE RecoverFreeDead(n)
  <2>1. \A m \in Nodes : m # n => valid'[m] = valid[m]
    BY <1>8 DEF RecoverFreeDead, IInv, TypeOK
  <2> QED
    BY <1>1, <1>4, <1>5, <1>8, <2>1, QuietRecovery DEF RecoverFreeDead
<1>9. CASE QuickInsert(n)
  <2>1. /\ UNCHANGED <<valid, key, marked>> /\ Alive(n) /\ burying = Nil
        /\ \A m \in Nodes : m # n => heap'[m] = heap[m]
    BY <1>9 DEF QuickInsert, IInv, TypeOK
  <2>2. NodePersists(n) /\ NodeIsRight(n)
    BY DEF PInv, DInv
  <2>3. Line(n) = nvm[n] /\ valid[n] /\ ~marked[n] /\ next[n] # Nil
    BY <1>1, <1>2, <2>1, <2>2 DEF NodePersists, RecoveredFromNVM, Alive, NeverUsed, Dead
  <2>4. PersistedMember(n) /\ key[n] = nvm[n].key
    BY <2>3 DEF PersistedMember, Line, Link
  <2>5. PersistedMember(n)' /\ key[n] \in Keys
    BY <1>1, <2>2, <2>4 DEF NodeIsRight, PersistedMember
  <2> QED
    BY <1>1, <1>4, <2>1, <2>3, <2>5, QuietRecovery
<1> QED
  BY <1>6, <1>7, <1>8, <1>9

(* recover() returns. *)
LEMMA RecoverDoneIsRight ==
  ASSUME IInv, PInv, DInv, RecoverDone
  PROVE  DInv'
<1>1. /\ phase = "recovering" /\ phase' = "running" /\ outcomes' = DS!AfterRecovery(Contents)
      /\ UNCHANGED <<fields, nvm, heap, waits, locals>>
  BY DEF RecoverDone
<1>2. outcomes' \subseteq DS!Configurations
  BY <1>1 DEF DS!AfterRecovery, DInv
<1>3. RecoveryIsRight'
  BY <1>1 DEF RecoveryIsRight
<1> QED
  BY <1>1, <1>2, <1>3, QuietRecovery DEF fields

(* The crash, when the histories allow what it leaves. *)
LEMMA CrashIsRight ==
  ASSUME IInv, DInv, Crash, NEW R, [set |-> Persisted, res |-> R] \in DS!Reach
  PROVE  DInv'
<1>1. /\ phase' = "recovering" /\ outcomes' = DS!AfterCrash /\ nvm' = nvm
      /\ \A n \in Nodes : heap'[n] = "free" /\ waits'[n] = {}
      /\ \A t \in Threads : pc'[t] = "idle" /\ call'[t] = DS!None /\ ~result'[t]
      /\ next'[Tail] = Nil
  BY NodesAssumption DEF Crash, AllNodes
<1>2. \A n \in Nodes : PersistedMember(n)' => nvm'[n].key \in Keys
  BY <1>1 DEF DInv, NodeIsRight, PersistedMember
<1>3. DS!Reach \subseteq DS!Configurations
  <2>1. CallsOf(call) /\ outcomes \in SUBSET DS!Configurations
    BY DEF IInv, TypeOK, CallsOf, DInv
  <2> QED
    BY <2>1, ReachCloses DEF DS!Reach
<1>4. outcomes' \subseteq DS!Configurations
  <2> SUFFICES ASSUME NEW g \in DS!Reach PROVE [set |-> g.set, res |-> DS!NoAnswer] \in DS!Configurations
    BY <1>1 DEF DS!AfterCrash
  <2>1. g.set \in SUBSET Keys
    BY <1>3 DEF DS!Configurations
  <2>2. DS!NoAnswer \in [{} -> BOOLEAN] /\ {} \in SUBSET Threads
    BY DEF DS!NoAnswer
  <2>3. DS!NoAnswer \in UNION {[T -> BOOLEAN] : T \in SUBSET Threads}
    BY <2>2
  <2> QED
    BY <2>1, <2>3 DEF DS!Configurations
<1>5. [set |-> Persisted, res |-> DS!NoAnswer] \in outcomes'
  <2> DEFINE g == [set |-> Persisted, res |-> R]
  <2>1. g \in DS!Reach /\ g.set = Persisted
    OBVIOUS
  <2> HIDE DEF g
  <2> QED
    BY <1>1, <2>1 DEF DS!AfterCrash
<1>6. RecoveryIsRight'
  <2>1. Persisted' = Persisted
    BY <1>1 DEF Persisted, PersistedMember
  <2> QED
    BY <1>1, <1>5, <2>1 DEF RecoveryIsRight
<1> QED
  BY <1>1, <1>2, <1>4, <1>6, NobodyIsRight

(* Before the first call. *)
LEMMA InitIsRight == Init => DInv
<1> SUFFICES ASSUME Init PROVE DInv
  OBVIOUS
<1>1. \A t \in Threads : CallIsRight(t) /\ ~Inserted(t) /\ ~Removed(t)
  BY DEF Init, CallIsRight, Inserted, Removed
<1>2. ActorsAreAlone
  BY <1>1 DEF ActorsAreAlone
<1>3. \A n \in Nodes : NodeIsRight(n)
  BY NodesAssumption DEF Init, NodeIsRight, Unborn, Pending, PersistedMember, Line, Link, AllNodes
<1>4. RecoveryIsRight
  BY DEF Init, RecoveryIsRight
<1>5. outcomes \subseteq DS!Configurations
  <2>1. DS!NoAnswer \in [{} -> BOOLEAN] /\ {} \in SUBSET Threads
    BY DEF DS!NoAnswer
  <2>2. DS!NoAnswer \in UNION {[T -> BOOLEAN] : T \in SUBSET Threads}
    BY <2>1
  <2>3. {} \in SUBSET Keys
    OBVIOUS
  <2>4. [set |-> {}, res |-> DS!NoAnswer] \in DS!Configurations
    BY <2>2, <2>3 DEF DS!Configurations
  <2> QED
    BY <2>4 DEF Init
<1> QED
  BY <1>1, <1>2, <1>3, <1>4, <1>5 DEF DInv

-----------------------------------------------------------------------------
(* What a running operation may conclude of the persisted keys. *)

(* A key between two neighbours is none of them. *)
LEMMA NotBetween ==
  ASSUME IInv, PInv, todo = {}, NEW n \in Linked, NEW k, key[n] < k, k < key[next[n]]
  PROVE  k \notin Persisted
<1> SUFFICES ASSUME NEW m \in Nodes, PersistedMember(m), k = nvm[m].key PROVE FALSE
  BY DEF Persisted
<1>1. heap[m] = "linked" /\ k = key[m]
  BY DEF PInv, NodePersists, MemberIsOnList
<1>2. m \in Linked
  BY <1>1 DEF Linked
<1> QED
  BY <1>1, <1>2 DEF IInv, ListIsSorted

(* Nor is the key of a node on the list that is no member. *)
LEMMA DeadIsMissing ==
  ASSUME IInv, PInv, todo = {}, NEW n \in Nodes, heap[n] = "linked", ~PersistedMember(n)
  PROVE  key[n] \notin Persisted
<1> SUFFICES ASSUME NEW m \in Nodes, PersistedMember(m), key[n] = nvm[m].key PROVE FALSE
  BY DEF Persisted
<1>1. heap[m] = "linked" /\ key[n] = key[m]
  BY DEF PInv, NodePersists, MemberIsOnList
<1>2. m \in Linked /\ n \in Linked
  BY <1>1 DEF Linked
<1> QED
  BY <1>1, <1>2 DEF IInv, ListIsSorted

(* An operation other than insert may answer FALSE when its key is missing. *)
LEMMA MissAnswers ==
  ASSUME NEW c \in DS!Calls, c.op # "insert", NEW S, c.arg \notin S
  PROVE  FALSE \in FreeAnswers(c, S)
<1>1. c.op \in {"remove", "contains"}
  BY DEF DS!Calls, DS!Operations
<1>2. DS!AnswerOf(c, S) = (c.arg \in S) /\ DS!SetAfter(c, S) = S
  <2>1. CASE c.op = "remove"
    BY <2>1 DEF DS!AnswerOf, DS!SetAfter
  <2>2. CASE c.op = "contains"
    BY <2>2 DEF DS!AnswerOf, DS!SetAfter
  <2> QED
    BY <1>1, <2>1, <2>2
<1>3. (c.arg \in S) = FALSE
  OBVIOUS
<1> QED
  BY <1>2, <1>3 DEF FreeAnswers

(* One other than remove may answer that the key is there. *)
LEMMA HitAnswers ==
  ASSUME NEW c \in DS!Calls, c.op # "remove", NEW S, c.arg \in S
  PROVE  (c.op = "contains") \in FreeAnswers(c, S)
<1>1. c.op \in {"insert", "contains"}
  BY DEF DS!Calls, DS!Operations
<1>2. CASE c.op = "insert"
  BY <1>2 DEF FreeAnswers, DS!AnswerOf, DS!SetAfter
<1>3. CASE c.op = "contains"
  BY <1>3 DEF FreeAnswers, DS!AnswerOf, DS!SetAfter
<1> QED
  BY <1>1, <1>2, <1>3

(* From a node with a smaller key to one with a greater. *)
LEMMA PassedBy ==
  ASSUME IInv, PInv, DInv, NEW t \in Threads, pc[t] # "idle", call[t].op # "insert", NEW q,
         FreeAnswers(call[t], Persisted) \subseteq q, MissIsKnown(t, q),
         NEW n, MayHold(t, n), key[n] < call[t].arg, key[next[n]] > call[t].arg
  PROVE  FALSE \in q
<1>1. /\ call[t] \in DS!Calls /\ todo = {} /\ n \in AllNodes /\ n # Tail
      /\ call[t].arg \in Int
  BY CallIsKnown, CallHasKey, Running, HeldIsNode, KeysAssumption DEF IInv, SentinelsAreFixed
<1>2. CASE n \in Linked
  <2>1. key[next[n]] \in Int
    BY <1>2, LinkedIsNode
  <2>2. call[t].arg \notin Persisted
    BY <1>1, <1>2, <2>1, NotBetween
  <2> QED
    BY <1>1, <2>2, MissAnswers
<1>3. CASE n \notin Linked
  <2>1. n \in Nodes /\ t \in waits[n] /\ MayHold(t, next[n])
    BY <1>1, <1>3 DEF MayHold, IInv, RetiredIsClosed
  <2>2. key[next[n]] \in Int
    BY <2>1, HeldIsNode DEF IInv, TypeOK
  <2>3. ~(key[next[n]] <= call[t].arg)
    BY <1>1, <2>2
  <2> QED
    BY <2>1, <2>3 DEF MissIsKnown
<1> QED
  BY <1>2, <1>3

(* A node with the key, whose deletion would survive a crash. *)
LEMMA FoundDead ==
  ASSUME IInv, PInv, DInv, NEW t \in Threads, pc[t] # "idle", call[t].op # "insert", NEW q,
         FreeAnswers(call[t], Persisted) \subseteq q, MissIsKnown(t, q),
         NEW n \in Nodes, MayHold(t, n), key[n] = call[t].arg, DeletionIsPersisted(n)
  PROVE  FALSE \in q
<1>1. call[t] \in DS!Calls /\ todo = {} /\ n # Tail
  BY CallIsKnown, Running, NodesAssumption DEF AllNodes
<1>2. CASE n \in Linked
  <2>1. ~PersistedMember(n) /\ heap[n] = "linked"
    BY <1>2, NodesAssumption DEF PersistedMember, DeletionIsPersisted, Linked, AllNodes
  <2>2. call[t].arg \notin Persisted
    BY <1>1, <2>1, DeadIsMissing
  <2> QED
    BY <1>1, <2>2, MissAnswers
<1>3. CASE n \notin Linked
  BY <1>1, <1>3 DEF MayHold, MissIsKnown
<1> QED
  BY <1>2, <1>3

(* A node with the key and without a mark. *)
LEMMA FoundAlive ==
  ASSUME IInv, PInv, DInv, NEW t \in Threads, pc[t] # "idle", call[t].op # "remove", NEW q,
         FreeAnswers(call[t], Persisted) \subseteq q,
         NEW n \in Nodes, MayHold(t, n), key[n] = call[t].arg, ~marked[n]
  PROVE  Unborn(n) \/ (call[t].op = "contains") \in q
<1>1. call[t] \in DS!Calls /\ todo = {} /\ n # Tail
  BY CallIsKnown, Running, NodesAssumption DEF AllNodes
<1>2. heap[n] = "linked"
  BY <1>1, UnmarkedIsLinked, NodesAssumption DEF Linked, AllNodes, IInv
<1>3. CASE PersistedMember(n)
  <2>1. call[t].arg \in Persisted
    BY <1>3 DEF Persisted, PInv, NodePersists, MemberIsOnList
  <2> QED
    BY <1>1, <2>1, HitAnswers
<1>4. CASE ~PersistedMember(n)
  BY <1>2, <1>4 DEF Unborn
<1> QED
  BY <1>3, <1>4

-----------------------------------------------------------------------------
(* What an operation knows outlives the steps of the others. *)

(* u goes nowhere, or on from one of these labels to the next. *)
StaysPut(u) ==
  \/ pc'[u] = pc[u]
  \/ pc[u] = "flushInsert" /\ pc'[u] = "setInsert"
  \/ pc[u] = "flushDelete" /\ pc'[u] = "setDelete"
  \/ pc[u] = "mark" /\ pc'[u] = "flushDelete" /\ call[u].op = "remove"

(* What u knows, with p in place of q, after a step that leaves the nodes it  *)
(* holds.                                                                     *)
LEMMA OthersKnow ==
  ASSUME IInv, PInv, DInv, NEW u \in Threads, NEW q, NEW p, q \subseteq p, pc[u] # "idle",
         FoundIsKnown(u, q), MissIsKnown(u, q),
         StaysPut(u), call'[u] = call[u], curr'[u] = curr[u], newNode'[u] = newNode[u],
         \A n \in AllNodes : MayHold(u, n) => key'[n] = key[n],
         \A n \in Nodes : u \in waits[n] => next'[n] = next[n],
         \A n \in Nodes : call[u].op # "insert" /\ u \in waits'[n] /\ u \notin waits[n] =>
           /\ key'[n] = call[u].arg => FALSE \in p
           /\ key'[n] < call[u].arg => FALSE \in p \/ key'[next'[n]] <= call[u].arg,
         \A n \in Nodes : MayHold(u, n) /\ key[n] = call[u].arg =>
           /\ call[u].op # "remove" /\ Unborn(n) => Unborn(n)' \/ (call[u].op = "contains") \in p
           /\ call[u].op = "contains" /\ heap[n] = "linked" /\ marked[n] /\ ~DeletionIsPersisted(n) =>
                FALSE \in p \/ (heap'[n] = "linked" /\ ~DeletionIsPersisted(n)')
  PROVE  FoundIsKnown(u, p)' /\ MissIsKnown(u, p)'
<1>1. MayHold(u, curr[u]) /\ curr[u] \in AllNodes
  BY Holding
<1>2. FoundIsKnown(u, p)'
  <2>1. pc[u] \in Publishing /\ newNode[u] = Nil => curr[u] \in Nodes /\ key[curr[u]] = call[u].arg
    BY TargetIsHeld DEF Target, IInv, ThreadInv, SearchIsRight
  <2>2. pc'[u] \in Publishing /\ call[u].op # "remove" => pc[u] \in Publishing
    BY DEF StaysPut, Publishing
  <2> QED
    BY <1>1, <2>1, <2>2 DEF FoundIsKnown
<1>3. ASSUME call[u].op # "insert"
      PROVE  MissIsKnown(u, p)'
  <2>1. ASSUME NEW n \in Nodes, u \in waits'[n]
        PROVE  /\ key'[n] = call[u].arg => FALSE \in p
               /\ key'[n] < call[u].arg => FALSE \in p \/ key'[next'[n]] <= call[u].arg
    <3>1. CASE u \in waits[n]
      <4>1. MayHold(u, n) /\ n \in AllNodes /\ MayHold(u, next[n]) /\ next[n] \in AllNodes
        BY <3>1, HeldIsNode DEF MayHold, AllNodes, IInv, RetiredIsClosed
      <4>2. key'[n] = key[n] /\ key'[next'[n]] = key[next[n]]
        BY <3>1, <4>1
      <4> QED
        BY <1>3, <3>1, <4>2 DEF MissIsKnown
    <3>2. CASE u \notin waits[n]
      BY <1>3, <2>1, <3>2
    <3> QED
      BY <3>1, <3>2
  <2>2. key'[curr[u]] = key[curr[u]]
    BY <1>1
  <2>3. call[u].op = "contains" /\ pc'[u] \in {"flushDelete", "setDelete"} =>
          FALSE \in p \/ (heap'[curr[u]] = "linked" /\ ~DeletionIsPersisted(curr[u])')
    <3> SUFFICES ASSUME call[u].op = "contains", pc[u] \in {"flushDelete", "setDelete"}, FALSE \notin p
                 PROVE  heap'[curr[u]] = "linked" /\ ~DeletionIsPersisted(curr[u])'
      BY DEF StaysPut
    <3>1. PICK n \in Nodes : n = curr[u] /\ marked[n] /\ MayHold(u, n)
      BY CurrIsHeld DEF IInv, ThreadInv, TrimsMarkedNodes
    <3>2. key[n] = call[u].arg
      BY <3>1 DEF DInv, CallIsRight
    <3>3. heap[n] = "linked" /\ ~DeletionIsPersisted(n)
      BY <1>3, <3>1 DEF MissIsKnown
    <3>4. heap'[n] = "linked" /\ ~DeletionIsPersisted(n)'
      BY <3>1, <3>2, <3>3
    <3> QED
      BY <3>1, <3>4 DEF DeletionIsPersisted
  <2>4. /\ pc'[u] \in {"walk", "find", "flushDelete", "setDelete", "trim", "free", "advance"}
              /\ key[curr[u]] > call[u].arg => FALSE \in p
        /\ pc'[u] \in {"free", "advance"} /\ key[curr[u]] = call[u].arg => FALSE \in p
    <3>1. CASE pc[u] = "mark" /\ pc'[u] = "flushDelete"
      <4>1. key[curr[u]] = call[u].arg /\ call[u].arg \in Int
        BY <3>1, CallHasKey DEF IInv, ThreadInv, SearchIsRight
      <4>2. ~(key[curr[u]] > call[u].arg)
        BY <4>1
      <4> QED
        BY <3>1, <4>2
    <3>2. CASE ~(pc[u] = "mark" /\ pc'[u] = "flushDelete")
      <4>1. /\ pc'[u] \in {"walk", "find", "flushDelete", "setDelete", "trim", "free", "advance"} =>
                 pc[u] \in {"walk", "find", "flushDelete", "setDelete", "trim", "free", "advance"}
            /\ pc'[u] \in {"free", "advance"} => pc[u] \in {"free", "advance"}
        BY <3>2 DEF StaysPut
      <4> QED
        BY <1>3, <4>1 DEF MissIsKnown
    <3> QED
      BY <3>1, <3>2
  <2> QED
    BY <2>1, <2>2, <2>3, <2>4 DEF MissIsKnown, DeletionIsPersisted
<1>4. call[u].op = "insert" => MissIsKnown(u, p)'
  BY DEF MissIsKnown
<1> QED
  BY <1>2, <1>3, <1>4

-----------------------------------------------------------------------------
(* Steps that commit nothing. *)

(* What others know and have done of n does not change. *)
KeepsNode(n) ==
  /\ key'[n] = key[n]
  /\ Unborn(n)' <=> Unborn(n)
  /\ marked[n] => (DeletionIsPersisted(n)' <=> DeletionIsPersisted(n))
  /\ heap[n] = "linked" /\ ~DeletionIsPersisted(n) => heap'[n] = "linked"

(* So for every node that a thread other than t may hold. *)
KeepsHeld(t) ==
  \A u \in Threads \ {t} : \A n \in Nodes : pc[u] # "idle" /\ MayHold(u, n) => KeepsNode(n)

(* A node that sees nothing of a step keeps what others know of it. *)
LEMMA SameKeeps ==
  ASSUME NEW n \in Nodes, Same(n)
  PROVE  KeepsNode(n)
BY SameAges DEF KeepsNode, Same

(* Who is committed stays so, and nobody else becomes it. *)
LEMMA CommittedStay ==
  ASSUME IInv, DInv, NEW t, OthersStay(t), KeepsHeld(t),
         t \in Threads => (Committed(t)' <=> Committed(t))
  PROVE  AllCommitted' = AllCommitted
<1>1. ASSUME NEW u \in Threads \ {t}
      PROVE  Committed(u)' <=> Committed(u)
  <2>1. CallIsRight(u)
    BY DEF DInv
  <2>2. (Inserted(u)' <=> Inserted(u)) /\ (Removed(u)' <=> Removed(u))
    BY DEF OthersStay, Inserted, Removed
  <2>3. Inserted(u) => (Unborn(newNode[u])' <=> Unborn(newNode[u]))
    <3> SUFFICES ASSUME Inserted(u) PROVE Unborn(newNode[u])' <=> Unborn(newNode[u])
      OBVIOUS
    <3>1. pc[u] # "idle" /\ pc[u] \in Publishing /\ newNode[u] # Nil
      BY <2>1 DEF CallIsRight, Inserted
    <3>2. PICK n \in Nodes : n = newNode[u] /\ MayHold(u, n)
      BY <3>1 DEF IInv, TypeOK, ThreadInv, HoldsWhatItMay
    <3>3. newNode'[u] = n /\ (Unborn(n)' <=> Unborn(n))
      BY <3>1, <3>2 DEF KeepsHeld, KeepsNode, OthersStay
    <3> QED
      BY <3>2, <3>3 DEF Unborn, PersistedMember, DeletionIsPersisted
  <2>4. Removed(u) /\ pc[u] = "flushDelete" => (DeletionIsPersisted(curr[u])' <=> DeletionIsPersisted(curr[u]))
    <3> SUFFICES ASSUME pc[u] = "flushDelete" PROVE DeletionIsPersisted(curr[u])' <=> DeletionIsPersisted(curr[u])
      OBVIOUS
    <3>1. PICK n \in Nodes : n = curr[u] /\ MayHold(u, n) /\ marked[n]
      BY CurrIsHeld DEF IInv, ThreadInv, TrimsMarkedNodes
    <3>2. curr'[u] = n /\ (DeletionIsPersisted(n)' <=> DeletionIsPersisted(n))
      BY <3>1 DEF KeepsHeld, KeepsNode, OthersStay
    <3> QED
      BY <3>1, <3>2 DEF DeletionIsPersisted
  <2> QED
    BY <2>2, <2>3, <2>4 DEF Committed, OthersStay
<1>2. \A u \in Threads : Committed(u)' <=> Committed(u)
  BY <1>1
<1> QED
  BY <1>2 DEF AllCommitted

(* t knows what it should. *)
KnowsOwn(t, q) ==
  /\ pc[t] # "idle" => FreeAnswers(call[t], Persisted) \subseteq q
  /\ FoundIsKnown(t, q) /\ MissIsKnown(t, q)

(* After such a step of t everybody knows what they knew, if t does. *)
LEMMA StepKnows ==
  ASSUME IInv, PInv, DInv, NEW t, OthersStay(t), KeepsHeld(t), NEW Q, Knows(Q), Persisted' = Persisted,
         key'[Head] = key[Head] /\ key'[Tail] = key[Tail],
         \A u \in Threads \ {t} : \A n \in Nodes : pc[u] # "idle" =>
           /\ u \in waits[n] => next'[n] = next[n]
           /\ call[u].op # "insert" /\ u \in waits'[n] /\ u \notin waits[n] =>
                /\ key'[n] = call[u].arg => call[u].arg \notin Persisted
                /\ key'[n] < call[u].arg => call[u].arg \notin Persisted \/ key'[next'[n]] <= call[u].arg,
         t \in Threads => KnowsOwn(t, Q[t])'
  PROVE  Knows(Q)'
<1>1. ASSUME NEW u \in Threads \ {t}, pc[u] # "idle"
      PROVE  KnowsOwn(u, Q[u])'
  <2>1. PICK q : q = Q[u]
    OBVIOUS
  <2>2. FreeAnswers(call[u], Persisted) \subseteq q /\ FoundIsKnown(u, q) /\ MissIsKnown(u, q)
    BY <1>1, <2>1 DEF Knows
  <2>3. call[u] \in DS!Calls
    BY <1>1, CallIsKnown
  <2>4. call[u].op # "insert" /\ call[u].arg \notin Persisted => FALSE \in q
    BY <2>2, <2>3, MissAnswers
  <2>5. \A n \in AllNodes : MayHold(u, n) => key'[n] = key[n]
    BY <1>1 DEF KeepsHeld, KeepsNode, AllNodes
  <2>6. \A n \in Nodes : call[u].op # "insert" /\ u \in waits'[n] /\ u \notin waits[n] =>
           /\ key'[n] = call[u].arg => FALSE \in q
           /\ key'[n] < call[u].arg => FALSE \in q \/ key'[next'[n]] <= call[u].arg
    BY <1>1, <2>4
  <2>7. ASSUME NEW n \in Nodes, MayHold(u, n), key[n] = call[u].arg
        PROVE  /\ call[u].op # "remove" /\ Unborn(n) => Unborn(n)' \/ (call[u].op = "contains") \in q
               /\ call[u].op = "contains" /\ heap[n] = "linked" /\ marked[n] /\ ~DeletionIsPersisted(n) =>
                    FALSE \in q \/ (heap'[n] = "linked" /\ ~DeletionIsPersisted(n)')
    BY <1>1, <2>7 DEF KeepsHeld, KeepsNode
  <2>8. FoundIsKnown(u, q)' /\ MissIsKnown(u, q)'
    BY ZenonT(60), <1>1, <2>2, <2>5, <2>6, <2>7, OthersKnow DEF OthersStay, StaysPut
  <2>9. FreeAnswers(call[u], Persisted)' = FreeAnswers(call[u], Persisted)
    <3>1. call'[u] = call[u]
      BY DEF OthersStay
    <3> QED
      BY <3>1 DEF FreeAnswers
  <2> QED
    BY <2>1, <2>2, <2>8, <2>9 DEF KnowsOwn
<1>2. ASSUME NEW u \in Threads \ {t}, pc[u] = "idle"
      PROVE  KnowsOwn(u, Q[u])'
  BY <1>2 DEF KnowsOwn, OthersStay, FoundIsKnown, MissIsKnown, Publishing
<1>3. \A u \in Threads : KnowsOwn(u, Q[u])'
  BY <1>1, <1>2
<1> QED
  BY <1>3 DEF Knows, KnowsOwn

(* A step that commits nothing and answers nothing. *)
LEMMA QuietLInv ==
  ASSUME LInv, phase = "running", DInv', UNCHANGED <<call, outcomes>>,
         Persisted' = Persisted, AllCommitted' = AllCommitted,
         \A Q : Knows(Q) => Knows(Q)'
  PROVE  LInv'
<1>1. PICK Q \in [Threads -> SUBSET BOOLEAN] :
        Knows(Q) /\ Promised(call, outcomes, Persisted, AllCommitted, Q)
  BY DEF LInv
<1>2. Promised(call, outcomes, Persisted, AllCommitted, Q)'
  BY <1>1 DEF Promised
<1> QED
  BY <1>1, <1>2 DEF LInv

(* The two together, for a step of a running thread. *)
LEMMA StepLInv ==
  ASSUME IInv, PInv, LInv, NEW t, t \in Threads => pc[t] # "idle", OthersStay(t), KeepsHeld(t), phase = "running",
         DInv', UNCHANGED <<call, outcomes>>, Persisted' = Persisted,
         key'[Head] = key[Head] /\ key'[Tail] = key[Tail],
         \A u \in Threads \ {t} : \A n \in Nodes : pc[u] # "idle" =>
           /\ u \in waits[n] => next'[n] = next[n]
           /\ call[u].op # "insert" /\ u \in waits'[n] /\ u \notin waits[n] =>
                /\ key'[n] = call[u].arg => call[u].arg \notin Persisted
                /\ key'[n] < call[u].arg => call[u].arg \notin Persisted \/ key'[next'[n]] <= call[u].arg,
         t \in Threads => (Committed(t)' <=> Committed(t)),
         \A q : t \in Threads /\ KnowsOwn(t, q) => FoundIsKnown(t, q)' /\ MissIsKnown(t, q)'
  PROVE  LInv'
<1>1. DInv /\ AllCommitted' = AllCommitted
  BY CommittedStay DEF LInv
<1>2. ASSUME NEW Q, Knows(Q)
      PROVE  Knows(Q)'
  <2>1. ASSUME t \in Threads
        PROVE  KnowsOwn(t, Q[t])'
    <3>1. PICK q : q = Q[t]
      OBVIOUS
    <3>2. KnowsOwn(t, q)
      BY <1>2, <2>1, <3>1 DEF Knows, KnowsOwn
    <3>3. FoundIsKnown(t, q)' /\ MissIsKnown(t, q)'
      BY <2>1, <3>2
    <3>4. FreeAnswers(call[t], Persisted)' = FreeAnswers(call[t], Persisted)
      BY DEF FreeAnswers
    <3> QED
      BY <2>1, <3>1, <3>2, <3>3, <3>4 DEF KnowsOwn
  <2> QED
    BY <1>1, <1>2, <2>1, StepKnows
<1> QED
  BY <1>1, <1>2, QuietLInv

(* A move that writes no node. *)
LEMMA MoveLInv ==
  ASSUME IInv, PInv, LInv, NEW t \in Threads, pc[t] # "idle", OthersStay(t), DInv',
         UNCHANGED <<fields, nvm, heap, waits, call, outcomes, phase>>,
         Committed(t)' <=> Committed(t),
         \A q : KnowsOwn(t, q) => FoundIsKnown(t, q)' /\ MissIsKnown(t, q)'
  PROVE  LInv'
<1>1. phase = "running"
  BY Running
<1>2. \A n \in Nodes : KeepsNode(n)
  BY SameKeeps DEF Same, fields
<1>3. Persisted' = Persisted
  BY DEF Persisted, PersistedMember
<1>4. KeepsHeld(t) /\ key'[Head] = key[Head] /\ key'[Tail] = key[Tail]
  BY <1>2 DEF KeepsHeld, fields
<1> QED
  BY <1>1, <1>3, <1>4, StepLInv DEF fields

(* What t knows after a move. *)
LEMMA MoveKnown ==
  ASSUME NEW t \in Threads, NEW q, KnowsOwn(t, q), pc[t] # "idle",
         UNCHANGED <<key, next, waits, call, newNode>>,
         pc'[t] \in Publishing /\ call[t].op # "remove" /\ newNode[t] = Nil =>
           Unborn(curr[t])' \/ (call[t].op = "contains") \in q,
         pc'[t] \in Publishing /\ call[t].op # "remove" /\ newNode[t] = Nil => curr'[t] = curr[t],
         call[t].op # "insert" =>
           /\ pc'[t] \in {"walk", "find", "flushDelete", "setDelete", "trim", "free", "advance"} /\ key[curr'[t]] > call[t].arg => FALSE \in q
           /\ pc'[t] \in {"free", "advance"} /\ key[curr'[t]] = call[t].arg => FALSE \in q
           /\ call[t].op = "contains" /\ pc'[t] \in {"flushDelete", "setDelete"} =>
                /\ curr'[t] = curr[t]
                /\ FALSE \in q \/ (heap'[curr[t]] = "linked" /\ ~DeletionIsPersisted(curr[t])')
  PROVE  FoundIsKnown(t, q)' /\ MissIsKnown(t, q)'
<1>1. FoundIsKnown(t, q)'
  BY DEF FoundIsKnown, Unborn, PersistedMember, DeletionIsPersisted
<1>2. \A n \in Nodes : call[t].op # "insert" /\ t \in waits[n] =>
         /\ key[n] = call[t].arg => FALSE \in q
         /\ key[n] < call[t].arg => FALSE \in q \/ key[next[n]] <= call[t].arg
  BY DEF KnowsOwn, MissIsKnown
<1>3. MissIsKnown(t, q)'
  BY <1>2 DEF MissIsKnown, DeletionIsPersisted
<1> QED
  BY <1>1, <1>3

(* The search of find. *)
LEMMA FindLInv ==
  ASSUME IInv, PInv, LInv, ~QuiesceOnFree, NEW t \in Threads
  PROVE  /\ FindPass(t) \/ FindMarked(t) \/ FindAdvance(t) => LInv'
         /\ FindHit(t) \/ FindMissInsert(t) \/ Restart(t) \/ ReadSucc(t) => LInv'
<1> SUFFICES ASSUME \/ FindPass(t) \/ FindMarked(t) \/ FindAdvance(t)
                    \/ FindHit(t) \/ FindMissInsert(t) \/ Restart(t) \/ ReadSucc(t)
             PROVE  LInv'
  OBVIOUS
<1>1. DInv /\ DInv'
  BY FindIsRight DEF LInv
<1>2. /\ pc[t] \in {"find", "advance", "restart", "readSucc"} /\ OthersStay(t)
      /\ UNCHANGED <<fields, nvm, heap, waits, call, newNode, result, outcomes, phase>>
  BY DEF FindPass, FindMarked, FindAdvance, FindHit, FindMissInsert, FindStops, Restart, StartSearch,
         ReadSucc, Goto, OthersStay, recovery, IInv, TypeOK
<1>3. /\ CallIsRight(t) /\ call[t] \in DS!Calls /\ call[t].op \in {"insert", "remove", "contains"}
      /\ pc[t] \in LabelsOf(call[t].op)
  BY <1>1, <1>2, CallIsKnown
<1>4. call[t].op # "contains" /\ ~result[t] /\ newNode[t] = Nil
  BY <1>2, <1>3 DEF CallIsRight, LabelsOf, Publishing, Private, IInv, ThreadInv, NewNodeIsPrivate
<1>5. Committed(t)' <=> Committed(t)
  BY <1>2, <1>4 DEF Committed, Inserted, Removed
<1>6. /\ MayHold(t, curr[t]) /\ curr[t] \in AllNodes /\ key[curr[t]] \in Int
      /\ call[t].arg \in Int /\ MinKey < call[t].arg /\ call[t].arg < MaxKey
  BY <1>2, Holding, CallHasKey DEF IInv
<1>7. ASSUME NEW q, KnowsOwn(t, q)
      PROVE  FoundIsKnown(t, q)' /\ MissIsKnown(t, q)'
  <2>1. FreeAnswers(call[t], Persisted) \subseteq q /\ MissIsKnown(t, q) /\ FoundIsKnown(t, q)
    BY <1>2, <1>7 DEF KnowsOwn
  <2>2. CASE FindPass(t)
    <3>1. pc[t] = "find" /\ key[curr[t]] < call[t].arg /\ pc'[t] = "advance" /\ curr'[t] = curr[t]
      BY <2>2 DEF FindPass, Goto, IInv, TypeOK
    <3>2. ~(key[curr'[t]] > call[t].arg) /\ key[curr'[t]] # call[t].arg
      BY <1>6, <3>1
    <3> QED
      BY <1>2, <1>4, <1>7, <3>1, <3>2, MoveKnown DEF fields, Publishing
  <2>3. CASE FindMarked(t)
    <3>1. pc[t] = "find" /\ pc'[t] = "flushDelete" /\ curr'[t] = curr[t]
      BY <2>3 DEF FindMarked, Goto, IInv, TypeOK
    <3>2. call[t].op # "insert" /\ key[curr[t]] > call[t].arg => FALSE \in q
      BY <2>1, <3>1 DEF MissIsKnown
    <3> QED
      BY <1>2, <1>4, <1>7, <3>1, <3>2, MoveKnown DEF fields, Publishing
  <2>4. CASE FindAdvance(t)
    <3>1. pc[t] = "advance" /\ pc'[t] = "find" /\ curr'[t] = next[curr[t]]
      BY <2>4 DEF FindAdvance, Goto, IInv, TypeOK
    <3>2. curr[t] # Tail /\ MayHold(t, next[curr[t]])
      BY <1>2, <3>1, Holding DEF IInv, ThreadInv, HoldsWhatItMay
    <3>3. key[next[curr[t]]] \in Int
      BY <3>2, HeldIsNode DEF IInv, TypeOK
    <3>4. call[t].op # "insert" /\ key[next[curr[t]]] > call[t].arg => FALSE \in q
      <4> SUFFICES ASSUME call[t].op # "insert", key[next[curr[t]]] > call[t].arg PROVE FALSE \in q
        OBVIOUS
      <4>1. CASE key[curr[t]] < call[t].arg
        <5> USE <4>1
        <5> QED
          BY <1>1, <1>2, <1>6, <2>1, <3>1, PassedBy
      <4>2. CASE key[curr[t]] = call[t].arg
        BY <2>1, <3>1, <4>2 DEF MissIsKnown
      <4>3. CASE key[curr[t]] > call[t].arg
        BY <2>1, <3>1, <4>3 DEF MissIsKnown
      <4>4. \/ key[curr[t]] < call[t].arg \/ key[curr[t]] = call[t].arg
            \/ key[curr[t]] > call[t].arg
        BY <1>6
      <4> QED
        BY <4>1, <4>2, <4>3, <4>4
    <3> QED
      BY <1>2, <1>4, <1>7, <3>1, <3>4, MoveKnown DEF fields, Publishing
  <2>5. CASE FindHit(t)
    <3>1. /\ pc[t] = "find" /\ curr'[t] = curr[t] /\ key[curr[t]] = call[t].arg /\ ~marked[curr[t]]
          /\ pc'[t] \in {"makeValid", "readSucc"} /\ (pc'[t] = "makeValid" => call[t].op = "insert")
      BY <2>5 DEF FindHit, FindStops, Goto, IInv, TypeOK
    <3>2. PICK n \in Nodes : n = curr[t]
      BY <1>6, <3>1 DEF IInv, SentinelsAreFixed, AllNodes
    <3>3. call[t].op # "remove" => Unborn(n) \/ (call[t].op = "contains") \in q
      BY <1>1, <1>2, <1>6, <2>1, <3>1, <3>2, FoundAlive
    <3>4. Unborn(n)' <=> Unborn(n)
      BY <1>2 DEF Unborn, PersistedMember, DeletionIsPersisted, fields
    <3>5. call[t].op # "remove" => Unborn(curr[t])' \/ (call[t].op = "contains") \in q
      BY <3>1, <3>2, <3>3, <3>4 DEF Unborn, PersistedMember, DeletionIsPersisted
    <3> QED
      BY <1>2, <1>4, <1>7, <3>1, <3>5, MoveKnown DEF fields, Publishing
  <2>6. CASE FindMissInsert(t)
    <3>1. pc'[t] = "alloc" /\ call[t].op = "insert"
      BY <2>6 DEF FindMissInsert, Goto, IInv, TypeOK
    <3> QED
      BY <1>2, <1>4, <1>7, <3>1, MoveKnown DEF fields, Publishing
  <2>7. CASE Restart(t)
    <3>1. pc'[t] = "find" /\ curr'[t] = next[Head]
      BY <2>7 DEF Restart, StartSearch, Goto, IInv, TypeOK
    <3>2. MayHold(t, Head) /\ key[Head] < call[t].arg /\ key[next[Head]] \in Int
      BY <1>6, LinkedIsNode DEF MayHold, Linked, IInv, SentinelsAreFixed
    <3>3. call[t].op # "insert" /\ key[next[Head]] > call[t].arg => FALSE \in q
      BY <1>1, <1>2, <1>6, <2>1, <3>2, PassedBy
    <3> QED
      BY <1>2, <1>4, <1>7, <3>1, <3>3, MoveKnown DEF fields, Publishing
  <2>8. CASE ReadSucc(t)
    <3>1. pc[t] = "readSucc" /\ pc'[t] = "makeValid"
      BY <2>8 DEF ReadSucc, Goto, IInv, TypeOK
    <3>2. call[t].op = "remove"
      BY <1>3, <3>1 DEF LabelsOf
    <3> QED
      BY <1>2, <1>4, <1>7, <3>1, <3>2, MoveKnown DEF fields, Publishing
  <2> QED
    BY <2>2, <2>3, <2>4, <2>5, <2>6, <2>7, <2>8
<1> QED
  BY <1>1, <1>2, <1>5, <1>7, MoveLInv

(* The walk of contains: a greater key, or a dead node with the key, tells    *)
(* that the key is missing.                                                   *)
LEMMA ContainsLInv ==
  ASSUME IInv, PInv, LInv, ~QuiesceOnFree, NEW t \in Threads
  PROVE  ContainsStep(t) \/ ContainsHit(t) => LInv'
<1> SUFFICES ASSUME ContainsStep(t) \/ ContainsHit(t) PROVE LInv'
  OBVIOUS
<1>1. DInv /\ DInv'
  BY ContainsIsRight DEF LInv
<1>2. /\ pc[t] = "walk" /\ OthersStay(t)
      /\ UNCHANGED <<fields, nvm, heap, waits, call, newNode, outcomes, phase>>
  BY DEF ContainsStep, ContainsHit, Goto, OthersStay, recovery, IInv, TypeOK
<1>3. /\ CallIsRight(t) /\ call[t] \in DS!Calls /\ call[t].op \in {"insert", "remove", "contains"}
      /\ pc[t] \in LabelsOf(call[t].op)
  BY <1>1, <1>2, CallIsKnown
<1>4. call[t].op = "contains" /\ newNode[t] = Nil
  BY <1>2, <1>3 DEF LabelsOf, Publishing, Private, IInv, ThreadInv, NewNodeIsPrivate
<1>5. Committed(t)' <=> Committed(t)
  BY <1>2, <1>4 DEF Committed, Inserted, Removed
<1>6. /\ MayHold(t, curr[t]) /\ curr[t] \in AllNodes /\ key[curr[t]] \in Int
      /\ call[t].arg \in Int /\ MinKey < call[t].arg /\ call[t].arg < MaxKey
  BY <1>2, Holding, CallHasKey DEF IInv
<1>7. ASSUME NEW q, KnowsOwn(t, q)
      PROVE  FoundIsKnown(t, q)' /\ MissIsKnown(t, q)'
  <2>1. FreeAnswers(call[t], Persisted) \subseteq q /\ MissIsKnown(t, q) /\ FoundIsKnown(t, q)
    BY <1>2, <1>7 DEF KnowsOwn
  <2>2. CASE ContainsStep(t)
    <3>1. pc'[t] = "walk" /\ curr'[t] = next[curr[t]] /\ key[curr[t]] < call[t].arg
      BY <1>2, <2>2 DEF ContainsStep, IInv, TypeOK
    <3>2. curr[t] # Tail /\ MayHold(t, next[curr[t]])
      BY <1>2, <1>6, <3>1, Holding DEF IInv, SentinelsAreFixed
    <3>3. key[next[curr[t]]] \in Int
      BY <3>2, HeldIsNode DEF IInv, TypeOK
    <3>4. key[next[curr[t]]] > call[t].arg => FALSE \in q
      BY <1>1, <1>2, <1>4, <1>6, <2>1, <3>1, <3>3, PassedBy
    <3> QED
      BY <1>2, <1>4, <1>7, <3>1, <3>4, MoveKnown DEF fields, Publishing
  <2>3. CASE ContainsHit(t)
    <3>1. /\ curr'[t] = curr[t] /\ key[curr[t]] = call[t].arg
          /\ pc'[t] = IF marked[curr[t]] THEN "flushDelete" ELSE "makeValid"
      BY <2>3 DEF ContainsHit, Goto, IInv, TypeOK
    <3>2. PICK n \in Nodes : n = curr[t]
      BY <1>6, <3>1 DEF IInv, SentinelsAreFixed, AllNodes
    <3>3. ~marked[n] => Unborn(n) \/ (call[t].op = "contains") \in q
      BY <1>1, <1>2, <1>4, <1>6, <2>1, <3>1, <3>2, FoundAlive
    <3>4. FALSE \in q \/ (heap[n] = "linked" /\ ~DeletionIsPersisted(n))
      <4> SUFFICES ASSUME ~(heap[n] = "linked" /\ ~DeletionIsPersisted(n)) PROVE FALSE \in q
        OBVIOUS
      <4>1. DeletionIsPersisted(n)
        <5>1. heap[n] # "linked" => waits[n] # {}
          BY <1>6, <3>2, NodesAssumption DEF MayHold, Linked, AllNodes
        <5> QED
          BY <1>1, <5>1 DEF DInv, NodeIsRight
      <4> QED
        BY <1>1, <1>2, <1>4, <1>6, <2>1, <3>1, <3>2, <4>1, FoundDead
    <3>5. (Unborn(n)' <=> Unborn(n)) /\ (DeletionIsPersisted(n)' <=> DeletionIsPersisted(n))
      BY <1>2 DEF Unborn, PersistedMember, DeletionIsPersisted, fields
    <3>6. /\ ~marked[curr[t]] => Unborn(curr[t])' \/ (call[t].op = "contains") \in q
          /\ FALSE \in q \/ (heap'[curr[t]] = "linked" /\ ~DeletionIsPersisted(curr[t])')
      BY <1>2, <3>1, <3>2, <3>3, <3>4, <3>5 DEF Unborn, PersistedMember, DeletionIsPersisted
    <3>7. \/ pc'[t] = "makeValid" /\ ~marked[curr[t]]
          \/ pc'[t] = "flushDelete"
      BY <3>1
    <3>8. ~(key[curr'[t]] > call[t].arg)
      BY <1>6, <3>1
    <3> QED
      BY <1>2, <1>4, <1>7, <3>1, <3>6, <3>7, <3>8, MoveKnown DEF fields, Publishing
  <2> QED
    BY <2>2, <2>3
<1> QED
  BY <1>1, <1>2, <1>5, <1>7, MoveLInv

-----------------------------------------------------------------------------
(* Steps of an operation that commit nothing. *)

(* makeValid commits nothing: the line must reach NVM first. *)
LEMMA MakeValidLInv ==
  ASSUME IInv, PInv, LInv, ~QuiesceOnFree, NEW t \in Threads, MakeValid(t)
  PROVE  LInv'
<1>1. DInv /\ DInv'
  BY MakeValidIsRight DEF LInv
<1>2. /\ pc[t] = "makeValid" /\ OthersStay(t) /\ phase = "running"
      /\ pc'[t] = IF call[t].op = "remove" THEN "mark" ELSE "flushInsert"
      /\ UNCHANGED <<insertFlag, key, next, marked, nvm, heap, waits, call, curr, newNode, result, outcomes, phase>>
  BY Running DEF MakeValid, Goto, OthersStay, recovery, IInv, TypeOK
<1>3. Target(t) \in Nodes /\ valid' = [valid EXCEPT ![Target(t)] = TRUE]
  BY <1>2, TargetIsHeld DEF MakeValid, Publishing
<1>4. \A n \in Nodes : KeepsNode(n)
  <2>1. \A n \in Nodes : valid[n] => valid'[n]
    BY <1>3 DEF IInv, TypeOK
  <2> QED
    BY <1>2, <2>1, SameKeeps DEF Same
<1>5. Persisted' = Persisted /\ KeepsHeld(t) /\ key'[Head] = key[Head] /\ key'[Tail] = key[Tail]
  BY <1>2, <1>4 DEF Persisted, PersistedMember, KeepsHeld
<1>6. Committed(t)' <=> Committed(t)
  BY <1>2 DEF Committed, Inserted, Removed, Unborn, PersistedMember, DeletionIsPersisted
<1>7. ASSUME NEW q, KnowsOwn(t, q)
      PROVE  FoundIsKnown(t, q)' /\ MissIsKnown(t, q)'
  <2>1. call[t].op # "remove" /\ newNode[t] = Nil => Unborn(curr[t]) \/ (call[t].op = "contains") \in q
    BY <1>2, <1>7 DEF KnowsOwn, FoundIsKnown, Publishing
  <2>2. Unborn(curr[t])' <=> Unborn(curr[t])
    BY <1>2 DEF Unborn, PersistedMember, DeletionIsPersisted
  <2>3. call[t].op # "remove" /\ newNode[t] = Nil => Unborn(curr[t])' \/ (call[t].op = "contains") \in q
    BY <2>1, <2>2
  <2> QED
    BY <1>2, <1>7, <2>3, MoveKnown
<1> QED
  BY <1>1, <1>2, <1>5, <1>6, <1>7, StepLInv

(* A step that writes a node nobody else may hold. *)
LEMMA OwnLInv ==
  ASSUME IInv, PInv, LInv, NEW t \in Threads, NEW n \in Nodes, pc[t] # "idle", OthersStay(t), DInv',
         call[t].op = "insert", ~result[t], ~result'[t],
         UNCHANGED <<nvm, waits, call, outcomes, phase>>,
         pc'[t] \in {"init", "link", "undo", "restart", "markUnlinked"},
         heap[n] = "owned" \/ Allocatable(n),
         key'[Head] = key[Head] /\ key'[Tail] = key[Tail],
         \A m \in Nodes \ {n} : Same(m) /\ next'[m] = next[m]
  PROVE  LInv'
<1>1. phase = "running"
  BY Running
<1>2. waits[n] = {} /\ \A u \in Threads : ~MayHold(u, n)
  BY OwnedIsNotHeld, NodesAssumption DEF Allocatable, MayHold, Linked, AllNodes
<1>3. KeepsHeld(t)
  <2> SUFFICES ASSUME NEW u \in Threads \ {t}, NEW m \in Nodes, pc[u] # "idle", MayHold(u, m) PROVE KeepsNode(m)
    BY DEF KeepsHeld
  <2>1. m \in Nodes \ {n}
    BY <1>2
  <2> QED
    BY <2>1, SameKeeps
<1>4. Persisted' = Persisted
  BY DEF Persisted, PersistedMember
<1>5. Committed(t)' <=> Committed(t)
  BY DEF Committed, Inserted, Removed
<1>6. \A q : FoundIsKnown(t, q)' /\ MissIsKnown(t, q)'
  BY DEF FoundIsKnown, MissIsKnown, Publishing
<1> QED
  BY <1>1, <1>2, <1>3, <1>4, <1>5, <1>6, StepLInv

(* What insert does to its node before and after a failed link. *)
LEMMA InsertLInv ==
  ASSUME IInv, PInv, LInv, ~QuiesceOnFree, NEW t \in Threads
  PROVE  AllocNode(t) \/ InitNode(t) \/ MarkUnlinked(t) \/ UndoInsert(t) => LInv'
<1> SUFFICES ASSUME AllocNode(t) \/ InitNode(t) \/ MarkUnlinked(t) \/ UndoInsert(t) PROVE LInv'
  OBVIOUS
<1>1. DInv /\ DInv' /\ pc[t] \in {"alloc", "init", "markUnlinked", "undo"}
  BY InsertIsRight DEF LInv, AllocNode, InitNode, MarkUnlinked, UndoInsert
<1>2. /\ CallIsRight(t) /\ call[t].op \in {"insert", "remove", "contains"}
      /\ pc[t] \in LabelsOf(call[t].op)
  BY <1>1, CallIsKnown
<1>3. call[t].op = "insert" /\ ~result[t]
  BY <1>1, <1>2 DEF LabelsOf, CallIsRight, Publishing
<1>4. pc[t] # "alloc" => newNode[t] \in Nodes /\ heap[newNode[t]] = "owned"
  BY <1>1 DEF IInv, ThreadInv, NewNodeIsPrivate, Private
<1>5. CASE AllocNode(t)
  <2>1. PICK n \in Nodes : /\ Allocatable(n)
                           /\ heap' = [heap EXCEPT ![n] = "owned"]
                           /\ valid' = [valid EXCEPT ![n] = ~valid[n]]
                           /\ newNode' = [newNode EXCEPT ![t] = n]
    BY <1>5 DEF AllocNode
  <2>2. /\ pc'[t] = "init" /\ OthersStay(t)
        /\ UNCHANGED <<insertFlag, key, next, marked, nvm, waits, call, result, outcomes, phase>>
    BY <1>5, <2>1 DEF AllocNode, Goto, OthersStay, recovery, IInv, TypeOK
  <2>3. \A m \in Nodes \ {n} : Same(m) /\ next'[m] = next[m]
    BY <2>1, <2>2 DEF Same, IInv, TypeOK
  <2> QED
    BY <1>1, <1>3, <2>1, <2>2, <2>3, OwnLInv
<1>6. CASE InitNode(t)
  <2>1. PICK n \in Nodes : n = newNode[t] /\ heap[n] = "owned"
    BY <1>4, <1>6 DEF InitNode
  <2>2. /\ pc'[t] = "link" /\ OthersStay(t)
        /\ UNCHANGED <<valid, nvm, heap, waits, call, result, outcomes, phase>>
    BY <1>6 DEF InitNode, Goto, OthersStay, recovery, IInv, TypeOK
  <2>3. /\ insertFlag' = [insertFlag EXCEPT ![n] = FALSE]
        /\ key' = [key EXCEPT ![n] = call[t].arg]
        /\ next' = [next EXCEPT ![n] = curr[t]]
        /\ marked' = [marked EXCEPT ![n] = FALSE]
    BY <1>6, <2>1 DEF InitNode
  <2>4. \A m \in Nodes \ {n} : Same(m) /\ next'[m] = next[m]
    BY <2>2, <2>3 DEF Same, IInv, TypeOK, AllNodes
  <2>5. key'[Head] = key[Head] /\ key'[Tail] = key[Tail]
    BY <2>1, <2>3, NodesAssumption DEF IInv, TypeOK, AllNodes
  <2> QED
    BY <1>1, <1>3, <2>1, <2>2, <2>4, <2>5, OwnLInv
<1>7. CASE MarkUnlinked(t)
  <2>1. PICK n \in Nodes : n = newNode[t] /\ heap[n] = "owned"
    BY <1>4, <1>7 DEF MarkUnlinked
  <2>2. /\ pc'[t] = "undo" /\ OthersStay(t) /\ marked' = [marked EXCEPT ![n] = TRUE]
        /\ next' = [next EXCEPT ![n] = Nil]
        /\ UNCHANGED <<valid, insertFlag, key, nvm, heap, waits, call, result, outcomes, phase>>
    BY <1>7, <2>1 DEF MarkUnlinked, Goto, OthersStay, recovery, IInv, TypeOK
  <2>3. \A m \in Nodes \ {n} : Same(m) /\ next'[m] = next[m]
    BY <2>2 DEF Same, IInv, TypeOK, AllNodes
  <2> QED
    BY <1>1, <1>3, <2>1, <2>2, <2>3, OwnLInv
<1>8. CASE UndoInsert(t)
  <2>1. PICK n \in Nodes : n = newNode[t] /\ heap[n] = "owned"
    BY <1>4, <1>8 DEF UndoInsert
  <2>2. /\ pc'[t] = "restart" /\ OthersStay(t) /\ valid' = [valid EXCEPT ![n] = TRUE]
        /\ heap' = [heap EXCEPT ![n] = "free"]
        /\ UNCHANGED <<insertFlag, key, next, marked, nvm, waits, call, result, outcomes, phase>>
    BY <1>8, <2>1 DEF UndoInsert, Free, Goto, OthersStay, recovery, IInv, TypeOK
  <2>3. \A m \in Nodes \ {n} : Same(m) /\ next'[m] = next[m]
    BY <2>2 DEF Same, IInv, TypeOK
  <2> QED
    BY <1>1, <1>3, <2>1, <2>2, <2>3, OwnLInv
<1> QED
  BY <1>5, <1>6, <1>7, <1>8

(* The CAS of insert: the node is on the list, and a crash would still undo   *)
(* it.                                                                        *)
LEMMA LinkNodeLInv ==
  ASSUME IInv, PInv, LInv, ~QuiesceOnFree, NEW t \in Threads, LinkNode(t)
  PROVE  LInv'
<1>1. DInv /\ DInv'
  BY LinkNodeIsRight DEF LInv
<1>2. /\ pc[t] = "link" /\ OthersStay(t) /\ phase = "running" /\ todo = {}
      /\ UNCHANGED <<valid, insertFlag, deleteFlag, key, marked, nvm, waits, call, curr, newNode, outcomes, phase>>
  BY Running DEF LinkNode, Goto, OthersStay, recovery, IInv, TypeOK
<1>3. CallIsRight(t) /\ call[t].op = "insert" /\ ~result[t]
  BY <1>1, <1>2, OwnNode, CallIsKnown DEF Private, CallIsRight, Publishing
<1>4. PICK n \in Nodes : /\ n = newNode[t] /\ heap[n] = "owned" /\ waits[n] = {} /\ n \notin Linked
                         /\ ~marked[n]
  BY <1>2, OwnNode DEF Private, IInv, ThreadInv, LinkIsReady
<1>5. newNode[t] # Nil
  BY <1>4, NodesAssumption DEF AllNodes
<1>6. ASSUME NEW q
      PROVE  FoundIsKnown(t, q)' /\ MissIsKnown(t, q)'
  BY <1>2, <1>3, <1>5 DEF FoundIsKnown, MissIsKnown
<1>7. CASE ~Expects(pred[t], curr[t])
  <2>1. pc'[t] = "markUnlinked" /\ UNCHANGED <<next, heap, result>>
    BY <1>7, <1>2 DEF LinkNode, Goto, IInv, TypeOK
  <2>2. Committed(t)' <=> Committed(t)
    BY <1>2, <1>3, <2>1 DEF Committed, Inserted, Removed
  <2> QED
    BY <1>1, <1>2, <1>6, <2>1, <2>2, MoveLInv DEF fields
<1>8. CASE Expects(pred[t], curr[t])
  <2>1. PICK p \in Linked : p = pred[t]
    BY <1>2, <1>8, PredIsLinked
  <2>2. /\ pc'[t] = "makeValid" /\ result'[t] = TRUE
        /\ next' = [next EXCEPT ![p] = n] /\ heap' = [heap EXCEPT ![n] = "linked"]
    BY <1>8, <1>2, <1>4, <2>1 DEF LinkNode, Goto, IInv, TypeOK
  <2>3. heap'[n] = "linked" /\ \A m \in Nodes \ {n} : Same(m)
    BY <1>2, <2>2 DEF Same, IInv, TypeOK
  <2>4. KeepsHeld(t)
    <3> SUFFICES ASSUME NEW u \in Threads \ {t}, NEW m \in Nodes, MayHold(u, m) PROVE KeepsNode(m)
      BY DEF KeepsHeld
    <3>1. m # n
      BY <1>4, OwnedIsNotHeld
    <3> QED
      BY <2>3, <3>1, SameKeeps
  <2>5. Persisted' = Persisted
    BY <1>2 DEF Persisted, PersistedMember
  <2>6. \A u \in Threads, m \in Nodes : u \in waits[m] => next'[m] = next[m]
    <3> SUFFICES ASSUME NEW u \in Threads, NEW m \in Nodes, u \in waits[m] PROVE m # p
      BY <2>2 DEF IInv, TypeOK, AllNodes
    <3>1. heap[m] # "linked"
      BY DEF IInv, RetiredIsClosed
    <3> QED
      BY <2>1, <3>1, NodesAssumption DEF Linked, AllNodes
  <2>7. Unborn(n)'
    <3>1. ~PersistedMember(n)
      BY <1>2, <1>4 DEF PInv, NodePersists, MemberIsOnList
    <3> QED
      BY <1>2, <1>4, <2>3, <3>1 DEF Unborn, PersistedMember
  <2>8. Unborn(newNode[t])'
    BY <1>2, <1>4, <2>7 DEF Unborn, PersistedMember, DeletionIsPersisted
  <2>9. Committed(t)' <=> Committed(t)
    BY <1>2, <1>3, <2>8 DEF Committed, Inserted, Removed
  <2> QED
    BY <1>1, <1>2, <1>6, <2>4, <2>5, <2>6, <2>9, StepLInv
<1> QED
  BY <1>7, <1>8

(* trim takes out a node whose deletion is in NVM; who walks over it learns   *)
(* no less than before.                                                       *)
LEMMA TrimLInv ==
  ASSUME IInv, PInv, LInv, ~QuiesceOnFree, NEW t \in Threads, Trim(t)
  PROVE  LInv'
<1>1. DInv /\ DInv'
  BY TrimIsRight DEF LInv
<1>2. /\ pc[t] = "trim" /\ OthersStay(t) /\ phase = "running" /\ todo = {}
      /\ UNCHANGED <<valid, insertFlag, deleteFlag, key, marked, nvm, call, curr, newNode, result, outcomes, phase>>
  BY Running DEF Trim, Goto, OthersStay, recovery, IInv, TypeOK
<1>3. PICK n \in Nodes : n = curr[t] /\ MayHold(t, n) /\ marked[n] /\ DeletionIsPersisted(n)
  BY <1>2, CurrIsHeld DEF IInv, ThreadInv, TrimsMarkedNodes, PInv, ThreadPersists
<1>4. /\ CallIsRight(t) /\ call[t] \in DS!Calls /\ call[t].arg \in Int /\ key[n] \in Int
      /\ pc[t] \in LabelsOf(call[t].op) /\ call[t].op \in {"insert", "remove", "contains"}
  BY <1>1, <1>2, <1>3, CallIsKnown, CallHasKey DEF IInv, TypeOK, AllNodes
<1>5. call[t].op \in {"insert", "remove"} /\ (call[t].op = "insert" => ~result[t])
  BY <1>2, <1>4 DEF LabelsOf, CallIsRight, Publishing
<1>6. pc'[t] \in {"free", "advance", "done"} => (Committed(t)' <=> Committed(t))
  BY <1>2, <1>5 DEF Committed, Inserted, Removed
<1>7. ASSUME NEW q, KnowsOwn(t, q), call[t].op # "insert"
      PROVE  (key[n] > call[t].arg => FALSE \in q) /\ (key[n] = call[t].arg => FALSE \in q)
  <2>1. FreeAnswers(call[t], Persisted) \subseteq q /\ MissIsKnown(t, q)
    BY <1>2, <1>7 DEF KnowsOwn
  <2>2. key[n] > call[t].arg => FALSE \in q
    BY <1>2, <1>3, <1>7, <2>1 DEF MissIsKnown
  <2>3. key[n] = call[t].arg => FALSE \in q
    BY <1>1, <1>2, <1>3, <1>7, <2>1, FoundDead
  <2> QED
    BY <2>2, <2>3
<1>8. CASE ~Expects(pred[t], curr[t])
  <2>1. pc'[t] \in {"done", "advance"} /\ UNCHANGED <<next, heap, waits>>
    BY <1>8, <1>2 DEF Trim, Goto, IInv, TypeOK
  <2>2. ASSUME NEW q, KnowsOwn(t, q)
        PROVE  FoundIsKnown(t, q)' /\ MissIsKnown(t, q)'
    <3>1. call[t].op # "insert" => (key[n] > call[t].arg => FALSE \in q) /\ (key[n] = call[t].arg => FALSE \in q)
      BY <1>7, <2>2
    <3>2. curr'[t] = n /\ call[t].op # "contains" /\ pc'[t] \notin Publishing
      BY <1>2, <1>3, <1>5, <2>1 DEF Publishing
    <3> QED
      BY <1>2, <2>1, <2>2, <3>1, <3>2, MoveKnown
  <2> QED
    BY <1>1, <1>2, <1>6, <2>1, <2>2, MoveLInv DEF fields
<1>9. CASE Expects(pred[t], curr[t])
  <2>1. PICK p \in Linked : p = pred[t] /\ next[p] = n /\ n \in Linked \union {Tail} /\ key[p] < call[t].arg
    BY <1>2, <1>3, <1>9, PredIsLinked
  <2>2. n \in Linked /\ heap[n] = "linked" /\ n # Tail
    BY <1>3, <2>1, NodesAssumption DEF Linked, AllNodes
  <2>3. p # n
    <3>1. key[p] < key[next[p]] /\ key[p] \in Int
      BY <2>1, LinkedIsNode DEF IInv, ListIsSorted
    <3> QED
      BY <2>1, <3>1
  <2>4. /\ pc'[t] = "free" /\ next' = [next EXCEPT ![p] = next[n]]
        /\ heap' = [heap EXCEPT ![n] = "unlinked"] /\ waits' = [waits EXCEPT ![n] = Busy]
    BY <1>2, <1>3, <1>9, <2>1 DEF Trim, Unlink, Goto, IInv, TypeOK
  <2>5. /\ heap'[n] = "unlinked" /\ waits'[n] = Busy /\ next'[n] = next[n]
        /\ \A m \in Nodes \ {n} : Same(m) /\ waits'[m] = waits[m]
        /\ \A m \in Nodes : m # p => next'[m] = next[m]
    BY <1>2, <2>2, <2>3, <2>4 DEF Same, IInv, TypeOK, AllNodes
  <2>6. KeepsNode(n)
    BY <1>2, <1>3, <2>5 DEF KeepsNode, Unborn, DeletionIsPersisted
  <2>7. KeepsHeld(t)
    BY <2>5, <2>6, SameKeeps DEF KeepsHeld
  <2>8. Persisted' = Persisted
    BY <1>2 DEF Persisted, PersistedMember
  <2>9. \A u \in Threads, m \in Nodes : u \in waits[m] => next'[m] = next[m]
    <3> SUFFICES ASSUME NEW u \in Threads, NEW m \in Nodes, u \in waits[m] PROVE m # p
      BY <2>5
    <3>1. heap[m] # "linked"
      BY DEF IInv, RetiredIsClosed
    <3> QED
      BY <2>1, <3>1, NodesAssumption DEF Linked, AllNodes
  <2>10. ASSUME NEW u \in Threads, NEW m \in Nodes, pc[u] # "idle", u \in waits'[m], u \notin waits[m]
         PROVE  /\ m = n
                /\ key'[m] = call[u].arg => call[u].arg \notin Persisted
                /\ key'[m] < call[u].arg => call[u].arg \notin Persisted \/ key'[next'[m]] <= call[u].arg
    <3>1. m = n /\ key'[m] = key[n] /\ key'[next'[m]] = key[next[n]]
      BY <1>2, <2>5, <2>10
    <3>2. key[n] \notin Persisted
      BY <1>2, <1>3, <2>2, DeadIsMissing DEF PersistedMember, DeletionIsPersisted
    <3>3. call[u].arg \in Int /\ key[next[n]] \in Int
      BY <2>2, <2>10, CallHasKey, LinkedIsNode DEF IInv
    <3>4. key[n] < call[u].arg /\ call[u].arg < key[next[n]] => call[u].arg \notin Persisted
      BY <1>2, <2>2, NotBetween
    <3>5. key[n] < call[u].arg => call[u].arg \notin Persisted \/ key[next[n]] <= call[u].arg
      BY <3>3, <3>4
    <3> QED
      BY <3>1, <3>2, <3>5
  <2>11. ASSUME NEW q, KnowsOwn(t, q)
         PROVE  FoundIsKnown(t, q)' /\ MissIsKnown(t, q)'
    <3>1. FoundIsKnown(t, q)'
      BY <2>4 DEF FoundIsKnown, Publishing
    <3>2. ASSUME call[t].op # "insert"
          PROVE  MissIsKnown(t, q)'
      <4>1. (key[n] > call[t].arg => FALSE \in q) /\ (key[n] = call[t].arg => FALSE \in q)
        BY <1>7, <2>11, <3>2
      <4>2. FreeAnswers(call[t], Persisted) \subseteq q /\ MissIsKnown(t, q)
        BY <1>2, <2>11 DEF KnowsOwn
      <4>3. call[t].arg \notin Persisted => FALSE \in q
        BY <1>4, <3>2, <4>2, MissAnswers
      <4>4. ASSUME NEW m \in Nodes, t \in waits'[m]
            PROVE  /\ key'[m] = call[t].arg => FALSE \in q
                   /\ key'[m] < call[t].arg => FALSE \in q \/ key'[next'[m]] <= call[t].arg
        <5>1. CASE t \in waits[m]
          <6>1. next'[m] = next[m]
            BY <2>9, <5>1
          <6> QED
            BY <1>2, <3>2, <4>2, <5>1, <6>1 DEF MissIsKnown
        <5>2. CASE t \notin waits[m]
          BY <1>2, <2>10, <4>3, <4>4, <5>2
        <5> QED
          BY <5>1, <5>2
      <4>5. curr'[t] = n /\ call'[t] = call[t] /\ call[t].op # "contains" /\ key'[n] = key[n]
        BY <1>2, <1>3, <1>5
      <4> QED
        BY <4>1, <4>4, <4>5 DEF MissIsKnown
    <3>3. call[t].op = "insert" => MissIsKnown(t, q)'
      BY <1>2 DEF MissIsKnown
    <3> QED
      BY <3>1, <3>2, <3>3
  <2>12. Committed(t)' <=> Committed(t)
    BY <1>6, <2>4
  <2>13. \A u \in Threads \ {t} : \A m \in Nodes : pc[u] # "idle" =>
           /\ u \in waits[m] => next'[m] = next[m]
           /\ call[u].op # "insert" /\ u \in waits'[m] /\ u \notin waits[m] =>
                /\ key'[m] = call[u].arg => call[u].arg \notin Persisted
                /\ key'[m] < call[u].arg => call[u].arg \notin Persisted \/ key'[next'[m]] <= call[u].arg
    BY <2>9, <2>10
  <2> QED
    BY <1>1, <1>2, <2>7, <2>8, <2>11, <2>12, <2>13, StepLInv
<1> QED
  BY <1>8, <1>9

(* ssmem_free. *)
LEMMA FreeTrimmedLInv ==
  ASSUME IInv, PInv, LInv, ~QuiesceOnFree, NEW t \in Threads, FreeTrimmed(t)
  PROVE  LInv'
<1>1. DInv /\ DInv'
  BY FreeTrimmedIsRight DEF LInv
<1>2. /\ pc[t] = "free" /\ OthersStay(t) /\ phase = "running"
      /\ pc'[t] \in {"done", "advance"}
      /\ UNCHANGED <<valid, insertFlag, deleteFlag, key, next, marked, nvm, waits, call, curr, newNode, result, outcomes, phase>>
  BY Running DEF FreeTrimmed, Free, Goto, OthersStay, recovery, fields, IInv, TypeOK
<1>3. PICK n \in Nodes : n = curr[t] /\ heap[n] = "unlinked"
  BY <1>2, CurrIsHeld DEF IInv, ThreadInv, TrimsMarkedNodes
<1>4. /\ CallIsRight(t) /\ call[t].op \in {"insert", "remove", "contains"}
      /\ pc[t] \in LabelsOf(call[t].op)
  BY <1>1, <1>2, CallIsKnown
<1>5. call[t].op \in {"insert", "remove"} /\ (call[t].op = "insert" => ~result[t])
  BY <1>2, <1>4 DEF LabelsOf, CallIsRight, Publishing
<1>6. Committed(t)' <=> Committed(t)
  BY <1>2, <1>5 DEF Committed, Inserted, Removed
<1>7. heap' = [heap EXCEPT ![n] = "free"]
  BY <1>3 DEF FreeTrimmed, Free
<1>8. heap'[n] = "free" /\ \A m \in Nodes \ {n} : Same(m)
  BY <1>2, <1>7 DEF Same, IInv, TypeOK
<1>9. KeepsNode(n)
  BY <1>2, <1>3, <1>8 DEF KeepsNode, Unborn, DeletionIsPersisted
<1>10. KeepsHeld(t) /\ Persisted' = Persisted
  BY <1>2, <1>8, <1>9, SameKeeps DEF KeepsHeld, Persisted, PersistedMember
<1>11. ASSUME NEW q, KnowsOwn(t, q)
       PROVE  FoundIsKnown(t, q)' /\ MissIsKnown(t, q)'
  <2>1. call[t].op # "insert" =>
          (key[curr[t]] > call[t].arg => FALSE \in q) /\ (key[curr[t]] = call[t].arg => FALSE \in q)
    BY <1>2, <1>11 DEF KnowsOwn, MissIsKnown
  <2>2. curr'[t] = curr[t] /\ call[t].op # "contains" /\ pc'[t] \notin Publishing
    BY <1>2, <1>5 DEF Publishing
  <2> QED
    BY <1>2, <1>11, <2>1, <2>2, MoveKnown
<1> QED
  BY <1>1, <1>2, <1>6, <1>10, <1>11, StepLInv
(* A mark that the persistent copy does not hold yet, or one that fails. *)
LEMMA MarkLInv ==
  ASSUME IInv, PInv, LInv, ~QuiesceOnFree, NEW t \in Threads, Mark(t),
         Expects(curr[t], succ[t]) => ~DeletionIsPersisted(curr[t])
  PROVE  LInv'
<1>1. DInv /\ DInv'
  BY MarkIsRight DEF LInv
<1>2. /\ pc[t] = "mark" /\ OthersStay(t) /\ phase = "running"
      /\ UNCHANGED <<valid, insertFlag, deleteFlag, key, next, nvm, heap, waits, call, curr, newNode, outcomes, phase>>
  BY Running DEF Mark, Goto, OthersStay, recovery, IInv, TypeOK
<1>3. /\ CallIsRight(t) /\ call[t].op \in {"insert", "remove", "contains"}
      /\ pc[t] \in LabelsOf(call[t].op)
  BY <1>1, <1>2, CallIsKnown
<1>4. call[t].op = "remove" /\ ~result[t]
  BY <1>2, <1>3 DEF LabelsOf, CallIsRight
<1>5. PICK n \in Nodes : n = curr[t] /\ MayHold(t, n) /\ key[n] = call[t].arg
  BY <1>2, CurrIsHeld DEF IInv, ThreadInv, SearchIsRight
<1>6. key[n] \in Int /\ call[t].arg \in Int
  BY <1>2, CallHasKey DEF IInv, TypeOK, AllNodes
<1>7. CASE ~Expects(curr[t], succ[t])
  <2>1. pc'[t] = "restart" /\ UNCHANGED <<marked, result>>
    BY <1>2, <1>7 DEF Mark, Goto, IInv, TypeOK
  <2>2. Committed(t)' <=> Committed(t)
    BY <1>2, <1>4, <2>1 DEF Committed, Inserted, Removed
  <2>3. ASSUME NEW q, KnowsOwn(t, q)
        PROVE  FoundIsKnown(t, q)' /\ MissIsKnown(t, q)'
    BY <1>2, <1>4, <2>1, <2>3, MoveKnown DEF Publishing
  <2> QED
    BY <1>1, <1>2, <2>1, <2>2, <2>3, MoveLInv DEF fields
<1>8. CASE Expects(curr[t], succ[t])
  <2>1. /\ pc'[t] = "flushDelete" /\ marked' = [marked EXCEPT ![n] = TRUE]
        /\ ~marked[n] /\ ~DeletionIsPersisted(n)
    BY <1>2, <1>5, <1>8 DEF Mark, Goto, Expects, DeletionIsPersisted, IInv, TypeOK
  <2>2. \A m \in Nodes \ {n} : Same(m)
    BY <1>2, <2>1 DEF Same, IInv, TypeOK
  <2>3. KeepsNode(n)
    BY <1>2, <2>1 DEF KeepsNode, Unborn, PersistedMember, DeletionIsPersisted
  <2>4. KeepsHeld(t) /\ Persisted' = Persisted
    BY <1>2, <2>2, <2>3, SameKeeps DEF KeepsHeld, Persisted, PersistedMember
  <2>5. ~DeletionIsPersisted(curr[t])'
    BY <1>2, <1>5, <2>1 DEF DeletionIsPersisted
  <2>6. Committed(t)' <=> Committed(t)
    BY <1>2, <1>4, <2>1, <2>5 DEF Committed, Inserted, Removed
  <2>7. ASSUME NEW q, KnowsOwn(t, q)
        PROVE  FoundIsKnown(t, q)' /\ MissIsKnown(t, q)'
    <3>1. ~(key[curr'[t]] > call[t].arg) /\ pc'[t] = "flushDelete"
      BY <1>2, <1>5, <1>6, <2>1
    <3> QED
      BY <1>2, <1>4, <2>7, <3>1, MoveKnown DEF Publishing
  <2> QED
    BY <1>1, <1>2, <2>4, <2>6, <2>7, StepLInv
<1> QED
  BY <1>7, <1>8

(* A deletion that has been flushed: find and remove go on to trim. *)
LEMMA ToTrimLInv ==
  ASSUME IInv, PInv, LInv, NEW t \in Threads, pc[t] \in {"flushDelete", "setDelete"}, pc'[t] = "trim",
         OthersStay(t), DInv', DeletionIsPersisted(curr[t]), call[t].op # "contains",
         UNCHANGED <<valid, insertFlag, key, next, marked, nvm, heap, waits, call, curr, newNode, result, outcomes, phase>>
  PROVE  LInv'
<1>1. phase = "running" /\ DInv
  BY Running DEF LInv
<1>2. \A n \in Nodes : KeepsNode(n)
  BY SameKeeps DEF Same
<1>3. KeepsHeld(t) /\ Persisted' = Persisted
  BY <1>2 DEF KeepsHeld, Persisted, PersistedMember
<1>4. Committed(t)' <=> Committed(t)
  BY DEF Committed, Inserted, Removed, Unborn, PersistedMember, DeletionIsPersisted
<1>5. ASSUME NEW q, KnowsOwn(t, q)
      PROVE  FoundIsKnown(t, q)' /\ MissIsKnown(t, q)'
  <2>1. call[t].op # "insert" => (key[curr[t]] > call[t].arg => FALSE \in q)
    BY <1>5 DEF KnowsOwn, MissIsKnown
  <2>2. curr'[t] = curr[t] /\ pc'[t] \notin Publishing
    BY DEF Publishing
  <2> QED
    BY <1>5, <2>1, <2>2, MoveKnown
<1> QED
  BY <1>1, <1>3, <1>4, <1>5, StepLInv

-----------------------------------------------------------------------------
(* Answers. *)

(* Types: the committed operations run, the persisted keys are keys. *)
LEMMA CommittedHaveCalls ==
  ASSUME IInv, DInv
  PROVE  /\ AllCommitted \subseteq {t \in Threads : call[t] # DS!None}
         /\ CallsOf(call) /\ outcomes \in SUBSET DS!Configurations
         /\ phase = "running" => Persisted \in SUBSET Keys
<1>1. ASSUME NEW t \in Threads, Committed(t)
      PROVE  call[t] # DS!None
  <2>1. CallIsRight(t) /\ result[t]
    BY <1>1 DEF DInv, Committed, Inserted, Removed
  <2>2. pc[t] # "idle"
    BY <2>1 DEF CallIsRight
  <2> QED
    BY <2>2, CallIsKnown
<1>2. Persisted \in SUBSET Keys
  BY DEF Persisted, DInv, NodeIsRight
<1> QED
  BY <1>1, <1>2 DEF AllCommitted, CallsOf, DInv, IInv, TypeOK

(* An answer that is committed, or that the operation knows, is allowed. *)
AnswerIsKnown(t, r) ==
  \A q : KnowsOwn(t, q) => IF Committed(t) THEN r = TRUE ELSE r \in q

(* An operation returns: the histories in which it answered so go on, and     *)
(* there is one.                                                              *)
LEMMA ReturnLInv ==
  ASSUME IInv, PInv, LInv, ~QuiesceOnFree, NEW t \in Threads, pc[t] # "idle", NEW r \in BOOLEAN, Return(t, r),
         UNCHANGED <<key, next, marked, nvm, heap, phase>>, DInv',
         AnswerIsKnown(t, r)
  PROVE  LInv' /\ outcomes' # {}
<1>1. DInv /\ phase = "running" /\ call[t] # DS!None
  BY Running, CallIsKnown DEF LInv
<1>2. PICK Q : /\ Q \in [Threads -> SUBSET BOOLEAN] /\ Knows(Q)
               /\ Promised(call, outcomes, Persisted, AllCommitted, Q)
  BY <1>1 DEF LInv
<1>3. /\ OthersStay(t) /\ call'[t] = DS!None /\ pc'[t] = "idle" /\ result'[t] = FALSE
      /\ call' = [call EXCEPT ![t] = DS!None]
      /\ \A n \in Nodes : waits'[n] = waits[n] \ {t}
  BY DEF Return, OthersStay, IInv, TypeOK
<1>4. \A n \in Nodes : KeepsNode(n)
  BY DEF KeepsNode, Unborn, PersistedMember, DeletionIsPersisted
<1>5. KeepsHeld(t) /\ Persisted' = Persisted
  BY <1>4 DEF KeepsHeld, Persisted, PersistedMember
<1>6. AllCommitted' = AllCommitted \ {t}
  <2>1. ~Committed(t)'
    BY <1>3 DEF Committed, Inserted, Removed
  <2>2. ASSUME NEW u \in Threads \ {t}
        PROVE  Committed(u)' <=> Committed(u)
    BY <1>3, <2>2 DEF OthersStay, Committed, Inserted, Removed, Unborn, PersistedMember, DeletionIsPersisted
  <2> QED
    BY <2>1, <2>2 DEF AllCommitted
<1>7. Knows(Q)'
  <2>1. KnowsOwn(t, Q[t])'
    BY <1>3 DEF KnowsOwn, FoundIsKnown, MissIsKnown, Publishing
  <2> QED
    BY <1>1, <1>2, <1>3, <1>5, <2>1, StepKnows
<1>8. IF t \in AllCommitted THEN r = TRUE ELSE r \in Q[t]
  <2>1. KnowsOwn(t, Q[t])
    BY <1>2 DEF Knows, KnowsOwn
  <2> QED
    BY <2>1 DEF AllCommitted, AnswerIsKnown
<1>9. /\ Promised(call', outcomes', Persisted, AllCommitted \ {t}, Q)
      /\ outcomes' # {}
  <2>1. outcomes' = Answering(call, outcomes, t, r)
    BY DEF Return, DS!AfterAnswer, DS!Reach, Answering
  <2>2. CallsOf(call') /\ \A u \in Threads : u # t => call'[u] = call[u]
    BY <1>1, <1>3, CommittedHaveCalls DEF CallsOf
  <2>3. /\ CallsOf(call) /\ outcomes \in SUBSET DS!Configurations /\ Persisted \in SUBSET Keys
        /\ AllCommitted \subseteq {u \in Threads : call[u] # DS!None}
    BY <1>1, CommittedHaveCalls
  <2>4. Promised(call, outcomes, Persisted, AllCommitted, Q)
    BY <1>2
  <2>5. OneAnswers(call, outcomes, Persisted, AllCommitted, Q, t, r, call', outcomes')
    BY <1>1, <1>3, <1>8, <2>1, <2>2, <2>3, <2>4 DEF OneAnswers
  <2> QED
    BY <2>5, OneAnswerIsKept
<1>10. Promised(call, outcomes, Persisted, AllCommitted, Q)'
  BY <1>5, <1>6, <1>9 DEF Promised
<1> QED
  BY <1>2, <1>7, <1>9, <1>10 DEF LInv

(* find missed the key, the walk of contains passed it, and remove is done. *)
LEMMA AnswerLInv ==
  ASSUME IInv, PInv, LInv, ~QuiesceOnFree, NEW t \in Threads
  PROVE  /\ FindMissRemove(t) \/ ContainsMiss(t) => LInv' /\ outcomes' # {}
         /\ Done(t) => LInv' /\ outcomes' # {}
<1> SUFFICES ASSUME FindMissRemove(t) \/ ContainsMiss(t) \/ Done(t) PROVE LInv' /\ outcomes' # {}
  OBVIOUS
<1>1. /\ DInv /\ DInv' /\ pc[t] \in {"find", "walk", "done"}
      /\ UNCHANGED <<key, next, marked, nvm, heap, phase>>
  BY AnswerIsRight DEF LInv, FindMissRemove, FindStops, ContainsMiss, Done, recovery, fields
<1>2. /\ CallIsRight(t) /\ call[t].op \in {"insert", "remove", "contains"}
      /\ pc[t] \in LabelsOf(call[t].op) /\ call[t].arg \in Int /\ key[curr[t]] \in Int
  BY <1>1, CallIsKnown, CallHasKey, Holding DEF IInv
<1>3. CASE FindMissRemove(t) \/ ContainsMiss(t)
  <2>1. pc[t] \in {"find", "walk"} /\ key[curr[t]] > call[t].arg /\ call[t].op # "insert" /\ Return(t, FALSE)
    <3>1. CASE FindMissRemove(t)
      <4>1. key[curr[t]] >= call[t].arg /\ key[curr[t]] # call[t].arg
        BY <3>1 DEF FindMissRemove, FindStops
      <4>2. key[curr[t]] > call[t].arg
        BY <1>2, <4>1
      <4> QED
        BY <3>1, <4>2 DEF FindMissRemove, FindStops
    <3>2. CASE ContainsMiss(t)
      <4>1. pc[t] = "walk" /\ key[curr[t]] > call[t].arg /\ Return(t, FALSE)
        BY <3>2 DEF ContainsMiss
      <4>2. call[t].op # "insert"
        BY <1>2, <4>1 DEF LabelsOf
      <4> QED
        BY <4>1, <4>2
    <3> QED
      BY <1>3, <3>1, <3>2
  <2>2. ~Committed(t)
    BY <1>2, <2>1 DEF CallIsRight, LabelsOf, Committed, Inserted, Removed
  <2>3. AnswerIsKnown(t, FALSE)
    <3> SUFFICES ASSUME NEW q, KnowsOwn(t, q) PROVE FALSE \in q
      BY <2>2 DEF AnswerIsKnown
    <3> QED
      BY <2>1 DEF KnowsOwn, MissIsKnown
  <2> QED
    BY <1>1, <2>1, <2>3, ReturnLInv
<1>4. CASE Done(t)
  <2>1. pc[t] = "done" /\ Return(t, TRUE)
    BY <1>4 DEF Done
  <2>2. call[t].op = "remove"
    BY <1>2, <2>1 DEF LabelsOf
  <2>3. Committed(t)
    BY <1>2, <2>1, <2>2 DEF CallIsRight, Committed, Removed
  <2>4. AnswerIsKnown(t, TRUE)
    BY <2>3 DEF AnswerIsKnown
  <2> QED
    BY <1>1, <2>1, <2>4, ReturnLInv
<1> QED
  BY <1>3, <1>4

(* A contains that found its node deleted, when the deletion is in NVM. *)
LEMMA DeletedAnswer ==
  ASSUME IInv, DInv, NEW t \in Threads, pc[t] \in {"flushDelete", "setDelete"},
         call[t].op = "contains", DeletionIsPersisted(curr[t])
  PROVE  AnswerIsKnown(t, FALSE)
<1>1. ~Committed(t)
  BY DEF Committed, Inserted, Removed
<1>2. ASSUME NEW q, KnowsOwn(t, q)
      PROVE  FALSE \in q
  BY <1>2 DEF KnowsOwn, MissIsKnown
<1> QED
  BY <1>1, <1>2 DEF AnswerIsKnown

(* An insert, or a contains that found its node, when the insertion is. *)
LEMMA InsertedAnswer ==
  ASSUME IInv, DInv, NEW t \in Threads, pc[t] \in {"flushInsert", "setInsert"}, ~Unborn(Target(t))
  PROVE  AnswerIsKnown(t, result[t]) /\ result[t] \in BOOLEAN
<1>1. /\ CallIsRight(t) /\ call[t].op \in {"insert", "remove", "contains"}
      /\ pc[t] \in LabelsOf(call[t].op) /\ pc[t] \in Publishing
  BY CallIsKnown DEF Publishing
<1>2. call[t].op \in {"insert", "contains"} /\ ~Removed(t)
  BY <1>1 DEF LabelsOf, Removed
<1>3. result[t] \in BOOLEAN
  BY DEF IInv, TypeOK
<1>4. CASE newNode[t] # Nil
  <2>1. call[t].op = "insert"
    BY <1>4 DEF IInv, ThreadInv, NewNodeIsPrivate
  <2>2. result[t] /\ Target(t) = newNode[t]
    BY <1>1, <1>4, <2>1 DEF CallIsRight, Target
  <2>3. Committed(t) /\ result[t] = TRUE
    BY <1>3, <2>1, <2>2 DEF Committed, Inserted, Unborn, PersistedMember, DeletionIsPersisted
  <2> QED
    BY <1>3, <2>3 DEF AnswerIsKnown
<1>5. CASE newNode[t] = Nil
  <2>1. result[t] = (call[t].op = "contains") /\ Target(t) = curr[t]
    BY <1>1, <1>2, <1>3, <1>5 DEF CallIsRight, Target
  <2>2. ~Committed(t)
    BY <1>2, <2>1 DEF Committed, Inserted
  <2>3. ASSUME NEW q, KnowsOwn(t, q)
        PROVE  (call[t].op = "contains") \in q
    <3>1. Unborn(curr[t]) \/ (call[t].op = "contains") \in q
      BY <1>1, <1>2, <1>5, <2>3 DEF KnowsOwn, FoundIsKnown
    <3>2. ~Unborn(curr[t])
      BY <2>1 DEF Unborn, PersistedMember, DeletionIsPersisted
    <3> QED
      BY <3>1, <3>2
  <2> QED
    BY <1>3, <2>1, <2>2, <2>3 DEF AnswerIsKnown
<1> QED
  BY <1>4, <1>5

(* insert and contains return after their flush. *)
LEMMA SetInsertFlagLInv ==
  ASSUME IInv, PInv, LInv, ~QuiesceOnFree, NEW t \in Threads, SetInsertFlag(t)
  PROVE  LInv' /\ outcomes' # {}
<1>1. /\ DInv /\ DInv' /\ pc[t] = "setInsert" /\ Return(t, result[t])
      /\ UNCHANGED <<key, next, marked, nvm, heap, phase>>
  BY SetInsertFlagIsRight DEF LInv, SetInsertFlag, recovery
<1>2. ~Unborn(Target(t))
  BY <1>1 DEF DInv, CallIsRight
<1> QED
  BY <1>1, <1>2, InsertedAnswer, ReturnLInv

(* The flag of a deletion; contains returns with it. *)
LEMMA SetDeleteFlagLInv ==
  ASSUME IInv, PInv, LInv, ~QuiesceOnFree, NEW t \in Threads, SetDeleteFlag(t)
  PROVE  LInv' /\ (call' # call => call[t].op = "contains" /\ outcomes' # {})
<1>1. /\ DInv /\ DInv' /\ pc[t] = "setDelete" /\ AfterFlushDelete(t)
      /\ UNCHANGED <<valid, insertFlag, key, next, marked, nvm, heap, phase>>
  BY SetDeleteFlagIsRight DEF LInv, SetDeleteFlag, recovery
<1>2. DeletionIsPersisted(curr[t])
  BY <1>1 DEF PInv, ThreadPersists
<1>3. CASE call[t].op = "contains"
  <2>1. Return(t, FALSE)
    BY <1>1, <1>3 DEF AfterFlushDelete
  <2> QED
    BY <1>1, <1>2, <1>3, <2>1, DeletedAnswer, ReturnLInv
<1>4. CASE call[t].op # "contains"
  <2>1. /\ pc'[t] = "trim" /\ OthersStay(t)
        /\ UNCHANGED <<waits, call, curr, newNode, result, outcomes>>
    BY <1>1, <1>4 DEF AfterFlushDelete, Goto, OthersStay, IInv, TypeOK
  <2> QED
    BY <1>1, <1>2, <1>4, <2>1, ToTrimLInv
<1> QED
  BY <1>3, <1>4

(* An operation is invoked. It may answer whatever changes nothing. *)
LEMMA InvokeLInv ==
  ASSUME IInv, PInv, LInv, ~QuiesceOnFree, NEW t \in Threads, NEW c \in DS!Calls, Invoke(t, c)
  PROVE  LInv'
<1>1. /\ DInv /\ DInv' /\ pc[t] = "idle" /\ phase = "running" /\ OthersStay(t)
      /\ call'[t] = c /\ call' = [call EXCEPT ![t] = c]
      /\ pc'[t] \in {"walk", "find"} /\ curr'[t] = next[Head]
      /\ UNCHANGED <<fields, nvm, heap, waits, newNode, result, outcomes, phase>>
  BY InvokeIsRight DEF LInv, Invoke, StartSearch, Goto, OthersStay, recovery, IInv, TypeOK
<1>2. call[t] = DS!None /\ ~result[t] /\ todo = {}
  BY <1>1 DEF DInv, CallIsRight, IInv, RecoveryIsAlone
<1>3. PICK Q : /\ Q \in [Threads -> SUBSET BOOLEAN] /\ Knows(Q)
               /\ Promised(call, outcomes, Persisted, AllCommitted, Q)
  BY <1>1 DEF LInv
<1>4. PICK P : P = [u \in Threads |-> IF u = t THEN FreeAnswers(c, Persisted) ELSE Q[u]]
  OBVIOUS
<1>5. P \in [Threads -> SUBSET BOOLEAN]
  BY <1>3, <1>4 DEF FreeAnswers
<1>6. \A n \in Nodes : KeepsNode(n)
  BY <1>1, SameKeeps DEF Same, fields
<1>7. KeepsHeld(t) /\ Persisted' = Persisted
  BY <1>1, <1>6 DEF KeepsHeld, Persisted, PersistedMember
<1>8. AllCommitted' = AllCommitted /\ t \notin AllCommitted
  <2>1. ~Committed(t) /\ ~Committed(t)'
    BY <1>1, <1>2 DEF Committed, Inserted, Removed
  <2> QED
    BY <1>1, <1>7, <2>1, CommittedStay DEF AllCommitted
<1>9. MissIsKnown(t, P[t])'
  <2> SUFFICES ASSUME c.op # "insert" PROVE MissIsKnown(t, P[t])'
    BY <1>1 DEF MissIsKnown
  <2>1. \A n \in Nodes : t \notin waits'[n]
    BY <1>1 DEF IInv, RetiredIsClosed
  <2>2. Head \in Linked /\ c.arg \in Keys /\ c.arg \in Int /\ key[Head] < c.arg
    BY KeysAssumption DEF Linked, DS!Calls, IInv, SentinelsAreFixed
  <2>3. key[next[Head]] > c.arg => FALSE \in P[t]
    <3>1. key[next[Head]] > c.arg => c.arg \notin Persisted
      BY <1>2, <2>2, NotBetween, LinkedIsNode
    <3> QED
      BY <1>4, <3>1, MissAnswers
  <2> QED
    BY <1>1, <2>1, <2>3 DEF MissIsKnown, fields
<1>10. Knows(P)'
  <2>1. Knows(P)
    <3>1. ASSUME NEW u \in Threads \ {t}
          PROVE  KnowsOwn(u, P[u])
      BY <1>3, <1>4 DEF Knows, KnowsOwn
    <3>2. KnowsOwn(t, P[t])
      BY <1>1 DEF KnowsOwn, FoundIsKnown, MissIsKnown, Publishing
    <3> QED
      BY <3>1, <3>2 DEF Knows, KnowsOwn
  <2>2. KnowsOwn(t, P[t])'
    <3>1. FreeAnswers(call[t], Persisted)' = P[t]
      BY <1>1, <1>4, <1>7 DEF FreeAnswers
    <3> QED
      BY <1>1, <1>9, <3>1 DEF KnowsOwn, FoundIsKnown, Publishing
  <2>3. \A u \in Threads \ {t} : \A n \in Nodes : pc[u] # "idle" =>
           /\ u \in waits[n] => next'[n] = next[n]
           /\ ~(call[u].op # "insert" /\ u \in waits'[n] /\ u \notin waits[n])
    BY <1>1 DEF fields
  <2> QED
    BY <1>1, <1>7, <2>1, <2>2, <2>3, StepKnows DEF fields
<1>11. Promised(call', outcomes, Persisted, AllCommitted, P)
  <2>1. /\ CallsOf(call) /\ outcomes \in SUBSET DS!Configurations /\ Persisted \in SUBSET Keys
    BY <1>1, CommittedHaveCalls
  <2>2. CallsOf(call') /\ call'[t] # DS!None
    BY <1>1, <2>1 DEF CallsOf, DS!Calls, DS!None
  <2>3. \A u \in Threads : u # t => call'[u] = call[u] /\ P[u] \subseteq Q[u]
    BY <1>1, <1>4 DEF OthersStay
  <2>4. P[t] \subseteq FreeAnswers(call'[t], Persisted)
    BY <1>1, <1>4
  <2> QED
    BY <1>2, <1>3, <1>8, <2>1, <2>2, <2>3, <2>4, PromiseToNew
<1>12. Promised(call, outcomes, Persisted, AllCommitted, P)'
  BY <1>1, <1>7, <1>8, <1>11 DEF Promised
<1> QED
  BY <1>1, <1>5, <1>10, <1>12 DEF LInv

-----------------------------------------------------------------------------
(* Steps that commit an insertion, a deletion or both. *)

(* Every operation may now answer for S, too. *)
More(Q, c, S) == [t \in Threads |-> Q[t] \union FreeAnswers(c[t], S)]

(* The insertion of k takes effect, and who runs may answer for it. *)
LEMMA Born ==
  ASSUME NEW c, CallsOf(c), NEW o \in SUBSET DS!Configurations, NEW S \in SUBSET Keys,
         NEW M, NEW Q, Promised(c, o, S, M, Q),
         NEW t \in Threads, t \notin M, NEW k \in Keys, c[t] = [op |-> "insert", arg |-> k], k \notin S
  PROVE  Promised(c, o, S \union {k}, M \union {t}, More(Q, c, S \union {k}))
<1>1. c[t] # DS!None /\ DS!SetAfter(c[t], S) = S \union {k} /\ DS!AnswerOf(c[t], S)
  BY DEF DS!None, DS!SetAfter, DS!AnswerOf
<1>2. Promised(c, o, S \union {k}, M \union {t}, Q)
  BY <1>1, Commit
<1>3. S \union {k} \in SUBSET Keys
  OBVIOUS
<1> QED
  BY <1>2, <1>3, Settle DEF More

(* The same for the removal of k. *)
LEMMA Died ==
  ASSUME NEW c, CallsOf(c), NEW o \in SUBSET DS!Configurations, NEW S \in SUBSET Keys,
         NEW M, NEW Q, Promised(c, o, S, M, Q),
         NEW t \in Threads, t \notin M, NEW k \in Keys, c[t] = [op |-> "remove", arg |-> k], k \in S
  PROVE  Promised(c, o, S \ {k}, M \union {t}, More(Q, c, S \ {k}))
<1>1. c[t] # DS!None /\ DS!SetAfter(c[t], S) = S \ {k} /\ DS!AnswerOf(c[t], S)
  BY DEF DS!None, DS!SetAfter, DS!AnswerOf
<1>2. Promised(c, o, S \ {k}, M \union {t}, Q)
  BY <1>1, Commit
<1>3. S \ {k} \in SUBSET Keys
  OBVIOUS
<1> QED
  BY <1>2, <1>3, Settle DEF More

(* The step that changes what NVM makes of n, and nothing else. *)
Commits(n) ==
  /\ \A u \in Threads : StaysPut(u) /\ curr'[u] = curr[u]
  /\ UNCHANGED <<key, next, heap, waits, call, newNode, outcomes, phase>>
  /\ \A m \in Nodes \ {n} : KeepsNode(m)

(* All that the operations on n's key need to know. *)
LearnsOf(n, u, p) ==
  MayHold(u, n) /\ key[n] = call[u].arg =>
    /\ call[u].op # "remove" /\ Unborn(n) => Unborn(n)' \/ (call[u].op = "contains") \in p
    /\ call[u].op = "contains" /\ heap[n] = "linked" /\ marked[n] /\ ~DeletionIsPersisted(n) =>
         FALSE \in p \/ ~DeletionIsPersisted(n)'

(* After such a step everybody knows P, if P has what it teaches. *)
LEMMA CommitKnows ==
  ASSUME IInv, PInv, DInv, NEW n \in Nodes, Commits(n), NEW Q, Knows(Q), NEW P,
         \A u \in Threads : pc[u] # "idle" =>
            Q[u] \subseteq P[u] /\ FreeAnswers(call[u], Persisted') \subseteq P[u] /\ LearnsOf(n, u, P[u])
  PROVE  Knows(P)'
<1>1. ASSUME NEW u \in Threads, pc[u] # "idle"
      PROVE  KnowsOwn(u, P[u])'
  <2>1. PICK q, p : q = Q[u] /\ p = P[u] /\ q \subseteq p
    BY <1>1
  <2>2. /\ StaysPut(u) /\ call'[u] = call[u] /\ curr'[u] = curr[u] /\ newNode'[u] = newNode[u]
        /\ UNCHANGED <<key, next, heap, waits>>
    BY DEF Commits
  <2>3. FoundIsKnown(u, q) /\ MissIsKnown(u, q) /\ LearnsOf(n, u, p)
    BY <1>1, <2>1 DEF Knows
  <2>4. ASSUME NEW m \in Nodes, MayHold(u, m), key[m] = call[u].arg
        PROVE  /\ call[u].op # "remove" /\ Unborn(m) => Unborn(m)' \/ (call[u].op = "contains") \in p
               /\ call[u].op = "contains" /\ heap[m] = "linked" /\ marked[m] /\ ~DeletionIsPersisted(m) =>
                    FALSE \in p \/ (heap'[m] = "linked" /\ ~DeletionIsPersisted(m)')
    <3>1. CASE m = n
      BY <2>2, <2>3, <2>4, <3>1 DEF LearnsOf
    <3>2. CASE m # n
      BY <2>2, <3>2 DEF Commits, KeepsNode
    <3> QED
      BY <3>1, <3>2
  <2>5. FoundIsKnown(u, p)' /\ MissIsKnown(u, p)'
    BY <1>1, <2>1, <2>2, <2>3, <2>4, OthersKnow
  <2>6. FreeAnswers(call[u], Persisted)' \subseteq p
    <3>1. FreeAnswers(call[u], Persisted') \subseteq p
      BY <1>1, <2>1
    <3> QED
      BY <2>2, <3>1 DEF FreeAnswers
  <2> QED
    BY <2>1, <2>5, <2>6 DEF KnowsOwn
<1>2. ASSUME NEW u \in Threads, pc[u] = "idle"
      PROVE  KnowsOwn(u, P[u])'
  <2>1. pc'[u] = "idle"
    BY <1>2 DEF Commits, StaysPut
  <2> QED
    BY <2>1 DEF KnowsOwn, FoundIsKnown, MissIsKnown, Publishing
<1>3. \A u \in Threads : KnowsOwn(u, P[u])'
  BY <1>1, <1>2
<1> QED
  BY <1>3 DEF Knows, KnowsOwn

(* The last operation on a key whose effect a crash keeps answers TRUE. *)
LEMMA CommitLInv ==
  ASSUME LInv, phase = "running", DInv', UNCHANGED <<call, outcomes>>, NEW P \in [Threads -> SUBSET BOOLEAN],
         Knows(P)', Promised(call, outcomes, Persisted', AllCommitted', P)
  PROVE  LInv'
<1>1. Promised(call, outcomes, Persisted, AllCommitted, P)'
  BY DEF Promised
<1> QED
  BY <1>1 DEF LInv

(* The answers grow, by all that change nothing in S. *)
LEMMA MoreAnswers ==
  ASSUME NEW Q \in [Threads -> SUBSET BOOLEAN], NEW c, NEW S
  PROVE  /\ More(Q, c, S) \in [Threads -> SUBSET BOOLEAN]
         /\ \A t \in Threads : /\ Q[t] \subseteq More(Q, c, S)[t]
                               /\ FreeAnswers(c[t], S) \subseteq More(Q, c, S)[t]
BY DEF More, FreeAnswers

(* An insertion reaches NVM. *)
LEMMA BirthLInv ==
  ASSUME IInv, PInv, LInv, phase = "running", DInv', NEW n \in Nodes, Commits(n),
         NEW u \in Threads, call[u] = [op |-> "insert", arg |-> key[n]], u \notin AllCommitted,
         key[n] \in Keys, key[n] \notin Persisted, Persisted' = Persisted \union {key[n]},
         AllCommitted' = AllCommitted \union {u},
         heap[n] = "linked" /\ marked[n] /\ ~DeletionIsPersisted(n) => ~DeletionIsPersisted(n)'
  PROVE  LInv'
<1>1. PICK Q : /\ Q \in [Threads -> SUBSET BOOLEAN] /\ Knows(Q)
               /\ Promised(call, outcomes, Persisted, AllCommitted, Q)
  BY DEF LInv
<1>2. PICK P : P = More(Q, call, Persisted')
  OBVIOUS
<1>3. /\ P \in [Threads -> SUBSET BOOLEAN]
      /\ \A w \in Threads : Q[w] \subseteq P[w] /\ FreeAnswers(call[w], Persisted') \subseteq P[w]
  BY <1>1, <1>2, MoreAnswers
<1>4. /\ CallsOf(call) /\ outcomes \in SUBSET DS!Configurations /\ Persisted \in SUBSET Keys
  BY CommittedHaveCalls DEF LInv
<1>5. Promised(call, outcomes, Persisted', AllCommitted', P)
  BY <1>1, <1>2, <1>4, Born
<1>6. ASSUME NEW w \in Threads, pc[w] # "idle"
      PROVE  LearnsOf(n, w, P[w])
  <2>1. call[w] \in DS!Calls
    BY <1>6, CallIsKnown DEF LInv
  <2>2. key[n] = call[w].arg /\ call[w].op # "remove" => (call[w].op = "contains") \in P[w]
    BY <1>3, <2>1, HitAnswers
  <2> QED
    BY <2>2 DEF LearnsOf
<1>7. Knows(P)'
  BY <1>1, <1>3, <1>6, CommitKnows DEF LInv
<1> QED
  BY <1>3, <1>5, <1>7, CommitLInv DEF Commits

(* A deletion reaches NVM. *)
LEMMA DeathLInv ==
  ASSUME IInv, PInv, LInv, phase = "running", DInv', NEW n \in Nodes, Commits(n),
         NEW u \in Threads, call[u] = [op |-> "remove", arg |-> key[n]], u \notin AllCommitted,
         key[n] \in Keys, key[n] \in Persisted, Persisted' = Persisted \ {key[n]},
         AllCommitted' = AllCommitted \union {u}, ~Unborn(n)
  PROVE  LInv'
<1>1. PICK Q : /\ Q \in [Threads -> SUBSET BOOLEAN] /\ Knows(Q)
               /\ Promised(call, outcomes, Persisted, AllCommitted, Q)
  BY DEF LInv
<1>2. PICK P : P = More(Q, call, Persisted')
  OBVIOUS
<1>3. /\ P \in [Threads -> SUBSET BOOLEAN]
      /\ \A w \in Threads : Q[w] \subseteq P[w] /\ FreeAnswers(call[w], Persisted') \subseteq P[w]
  BY <1>1, <1>2, MoreAnswers
<1>4. /\ CallsOf(call) /\ outcomes \in SUBSET DS!Configurations /\ Persisted \in SUBSET Keys
  BY CommittedHaveCalls DEF LInv
<1>5. Promised(call, outcomes, Persisted', AllCommitted', P)
  BY <1>1, <1>2, <1>4, Died
<1>6. ASSUME NEW w \in Threads, pc[w] # "idle"
      PROVE  LearnsOf(n, w, P[w])
  <2>1. call[w] \in DS!Calls
    BY <1>6, CallIsKnown DEF LInv
  <2>2. key[n] = call[w].arg /\ call[w].op = "contains" => FALSE \in P[w]
    BY <1>3, <2>1, MissAnswers
  <2> QED
    BY <2>2 DEF LearnsOf
<1>7. Knows(P)'
  BY <1>1, <1>3, <1>6, CommitKnows DEF LInv
<1> QED
  BY <1>3, <1>5, <1>7, CommitLInv DEF Commits

(* An insertion that only its deletion commits. *)
LEMMA BirthAndDeathLInv ==
  ASSUME IInv, PInv, LInv, phase = "running", DInv', NEW n \in Nodes, Commits(n),
         NEW u \in Threads, call[u] = [op |-> "insert", arg |-> key[n]], u \notin AllCommitted,
         NEW v \in Threads, call[v] = [op |-> "remove", arg |-> key[n]], v \notin AllCommitted,
         key[n] \in Keys, key[n] \notin Persisted, Persisted' = Persisted,
         AllCommitted' = (AllCommitted \union {u}) \union {v}
  PROVE  LInv'
<1>1. PICK Q : /\ Q \in [Threads -> SUBSET BOOLEAN] /\ Knows(Q)
               /\ Promised(call, outcomes, Persisted, AllCommitted, Q)
  BY DEF LInv
<1>2. PICK S : S = Persisted \union {key[n]}
  OBVIOUS
<1>3. PICK R : R = More(Q, call, S)
  OBVIOUS
<1>4. PICK P : P = More(R, call, Persisted')
  OBVIOUS
<1>5. /\ R \in [Threads -> SUBSET BOOLEAN]
      /\ \A w \in Threads : Q[w] \subseteq R[w] /\ FreeAnswers(call[w], S) \subseteq R[w]
  BY <1>1, <1>3, MoreAnswers
<1>6. /\ P \in [Threads -> SUBSET BOOLEAN]
      /\ \A w \in Threads : R[w] \subseteq P[w] /\ FreeAnswers(call[w], Persisted') \subseteq P[w]
  BY <1>4, <1>5, MoreAnswers
<1>7. /\ CallsOf(call) /\ outcomes \in SUBSET DS!Configurations /\ Persisted \in SUBSET Keys
  BY CommittedHaveCalls DEF LInv
<1>8. Promised(call, outcomes, S, AllCommitted \union {u}, R)
  BY <1>1, <1>2, <1>3, <1>7, Born
<1>9. Promised(call, outcomes, Persisted', AllCommitted', P)
  <2>1. S \in SUBSET Keys /\ key[n] \in S /\ S \ {key[n]} = Persisted' /\ v \notin AllCommitted \union {u}
    BY <1>2, <1>7
  <2>2. Promised(call, outcomes, S \ {key[n]}, (AllCommitted \union {u}) \union {v}, More(R, call, S \ {key[n]}))
    BY <1>7, <1>8, <2>1, Died
  <2> QED
    BY <1>4, <2>1, <2>2
<1>10. ASSUME NEW w \in Threads, pc[w] # "idle"
       PROVE  LearnsOf(n, w, P[w])
  <2>1. call[w] \in DS!Calls
    BY <1>10, CallIsKnown DEF LInv
  <2>2. key[n] = call[w].arg /\ call[w].op = "contains" => FALSE \in P[w]
    BY <1>6, <2>1, MissAnswers
  <2>3. key[n] = call[w].arg /\ call[w].op # "remove" => (call[w].op = "contains") \in P[w]
    BY <1>2, <1>5, <1>6, <2>1, HitAnswers
  <2> QED
    BY <2>2, <2>3 DEF LearnsOf
<1>11. \A w \in Threads : Q[w] \subseteq P[w]
  BY <1>5, <1>6
<1>12. Knows(P)'
  BY <1>1, <1>6, <1>10, <1>11, CommitKnows DEF LInv
<1> QED
  BY <1>6, <1>9, <1>12, CommitLInv DEF Commits
-----------------------------------------------------------------------------
(* Whose operation a step at n commits. *)

(* A node on the list that a crash would lose is that of one insert, which    *)
(* still runs and is not committed.                                           *)
LEMMA Inserter ==
  ASSUME IInv, DInv, NEW n \in Nodes, Unborn(n)
  PROVE  \E u \in Threads :
           /\ Inserted(u) /\ newNode[u] = n /\ call[u] = [op |-> "insert", arg |-> key[n]]
           /\ u \notin AllCommitted
           /\ \A w \in Threads : Inserted(w) /\ newNode[w] = n => w = u
<1>1. PICK u \in Threads : Inserted(u) /\ newNode[u] = n /\ pc[u] \in {"makeValid", "flushInsert"}
  BY DEF DInv, NodeIsRight
<1>2. /\ call[u] \in DS!Calls /\ call[u].op = "insert" /\ call[u].arg = key[n]
  BY <1>1, CallIsKnown DEF CallIsRight, Inserted
<1>3. call[u] = [op |-> "insert", arg |-> key[n]]
  BY <1>2 DEF DS!Calls
<1>4. ~Committed(u)
  BY <1>1, <1>2 DEF Committed, Removed, Inserted, Unborn, PersistedMember, DeletionIsPersisted
<1>5. \A w \in Threads : Inserted(w) /\ newNode[w] = n => w = u
  BY <1>1 DEF DInv, ActorsAreAlone
<1> QED
  BY <1>1, <1>3, <1>4, <1>5 DEF AllCommitted

(* A mark that a crash would lose is that of one remove, likewise. *)
LEMMA Remover ==
  ASSUME IInv, DInv, NEW n \in Nodes, Pending(n)
  PROVE  \E v \in Threads :
           /\ Removed(v) /\ pc[v] = "flushDelete" /\ curr[v] = n
           /\ call[v] = [op |-> "remove", arg |-> key[n]] /\ v \notin AllCommitted
           /\ \A w \in Threads : Removed(w) /\ pc[w] = "flushDelete" /\ curr[w] = n => w = v
<1>1. PICK v \in Threads : Removed(v) /\ pc[v] = "flushDelete" /\ curr[v] = n
  BY DEF DInv, NodeIsRight
<1>2. /\ call[v] \in DS!Calls /\ call[v].op = "remove" /\ call[v].arg = key[n]
  BY <1>1, CallIsKnown DEF CallIsRight, Removed
<1>3. call[v] = [op |-> "remove", arg |-> key[n]]
  BY <1>2 DEF DS!Calls
<1>4. ~Committed(v)
  BY <1>1, <1>2 DEF Committed, Inserted, Pending, DeletionIsPersisted
<1>5. \A w \in Threads : Removed(w) /\ pc[w] = "flushDelete" /\ curr[w] = n => w = v
  BY <1>1 DEF DInv, ActorsAreAlone
<1> QED
  BY <1>1, <1>3, <1>4, <1>5 DEF AllCommitted

(* A flush of n, perhaps with the step of a thread that called for it. *)
Flushing(n) ==
  /\ FLUSH(n)
  /\ UNCHANGED <<fields, heap, waits, call, curr, newNode, result, outcomes, phase>>
  /\ \A w \in Threads :
       \/ pc'[w] = pc[w]
       \/ pc[w] = "flushInsert" /\ pc'[w] = "setInsert"
       \/ pc[w] = "flushDelete" /\ pc'[w] = "setDelete" /\ curr[w] = n

(* A flush is a step of that kind. *)
LEMMA FlushCommits ==
  ASSUME IInv, PInv, DInv, phase = "running", NEW n \in Nodes, Flushing(n)
  PROVE  Commits(n)
<1>1. /\ FLUSH(n) /\ UNCHANGED <<fields, heap, phase>>
  BY DEF Flushing
<1>2. \A m \in Nodes \ {n} : Same(m)
  BY <1>1, Flushed DEF Same, Flushing, fields
<1>3. \A m \in Nodes \ {n} : KeepsNode(m)
  BY <1>2, SameKeeps
<1> QED
  BY <1>3 DEF Commits, Flushing, StaysPut, fields

(* Whom a flush of n commits: the one whose insertion or whose deletion it    *)
(* writes back.                                                               *)
LEMMA FlushCommitted ==
  ASSUME IInv, PInv, DInv, phase = "running", NEW n \in Nodes, Flushing(n), NEW w \in Threads
  PROVE  Committed(w)' <=>
           \/ Committed(w)
           \/ Inserted(w) /\ newNode[w] = n /\ ~Unborn(n)'
           \/ Removed(w) /\ pc[w] = "flushDelete" /\ curr[w] = n /\ DeletionIsPersisted(n)'
<1>1. /\ FLUSH(n) /\ UNCHANGED <<fields, heap, waits, phase>>
      /\ call'[w] = call[w] /\ curr'[w] = curr[w] /\ newNode'[w] = newNode[w] /\ result'[w] = result[w]
  BY DEF Flushing
<1>2. \A m \in Nodes \ {n} : nvm'[m] = nvm[m]
  BY <1>1, Flushed
<1>3. (Inserted(w)' <=> Inserted(w)) /\ (Removed(w)' <=> Removed(w))
  BY <1>1 DEF Inserted, Removed
<1>4. ASSUME Inserted(w)
      PROVE  Committed(w)' <=> Committed(w) \/ (newNode[w] = n /\ ~Unborn(n)')
  <2>1. ~Removed(w)
    BY <1>4 DEF Inserted, Removed
  <2>2. PICK m \in Nodes : m = newNode[w]
    <3>1. CallIsRight(w)
      BY DEF DInv
    <3>2. newNode[w] # Nil
      BY <1>4, <3>1 DEF CallIsRight, Inserted
    <3> QED
      BY <3>2 DEF IInv, TypeOK
  <2>3. (Committed(w) <=> ~Unborn(m)) /\ (Committed(w)' <=> ~Unborn(m)')
    BY <1>1, <1>3, <1>4, <2>1, <2>2 DEF Committed, Unborn, PersistedMember, DeletionIsPersisted
  <2>4. CASE m = n
    <3>1. Unborn(n)' => Unborn(n)
      <4>1. heap'[n] = heap[n]
        BY <1>1
      <4>2. heap[n] = "linked" => (Unborn(n)' => Unborn(n))
        BY <1>1, FlushAges DEF Ages
      <4> QED
        BY <4>1, <4>2 DEF Unborn
    <3> QED
      BY <2>2, <2>3, <2>4, <3>1
  <2>5. CASE m # n
    <3>1. Unborn(m)' <=> Unborn(m)
      BY <1>1, <1>2, <2>5 DEF Unborn, PersistedMember, DeletionIsPersisted, fields
    <3> QED
      BY <2>2, <2>3, <2>5, <3>1
  <2> QED
    BY <2>4, <2>5
<1>5. ASSUME Removed(w)
      PROVE  Committed(w)' <=> Committed(w) \/ (pc[w] = "flushDelete" /\ curr[w] = n /\ DeletionIsPersisted(n)')
  <2>1. ~Inserted(w)
    BY <1>5 DEF Inserted, Removed
  <2>2. CASE pc[w] # "flushDelete"
    <3>1. pc'[w] # "flushDelete"
      BY <2>2 DEF Flushing
    <3> QED
      BY <1>3, <1>5, <2>1, <2>2, <3>1 DEF Committed
  <2>3. CASE pc[w] = "flushDelete"
    <3>1. PICK m \in Nodes : m = curr[w] /\ MayHold(w, m) /\ marked[m]
      BY <2>3, CurrIsHeld DEF IInv, ThreadInv, TrimsMarkedNodes
    <3>2. Committed(w) <=> DeletionIsPersisted(m)
      BY <1>5, <2>1, <2>3, <3>1 DEF Committed
    <3>3. Committed(w)' <=> (pc'[w] = "flushDelete" => DeletionIsPersisted(m)')
      BY <1>1, <1>3, <1>5, <2>1, <3>1 DEF Committed, DeletionIsPersisted
    <3>4. CASE m = n
      <4>1. DeletionIsPersisted(n)'
        <5>1. CASE heap[n] = "linked"
          BY <1>1, <3>1, <3>4, <5>1, Flushed
        <5>2. CASE heap[n] # "linked"
          <6>1. waits[n] # {}
            BY <3>1, <3>4, <5>2, NodesAssumption DEF MayHold, Linked, AllNodes
          <6>2. DeletionIsPersisted(n)
            BY <6>1 DEF DInv, NodeIsRight
          <6> QED
            BY <1>1, <3>1, <3>4, <6>1, <6>2, Flushed
        <5> QED
          BY <5>1, <5>2
      <4> QED
        BY <2>3, <3>1, <3>2, <3>3, <3>4, <4>1
    <3>5. CASE m # n
      <4>1. pc'[w] = pc[w]
        BY <2>3, <3>1, <3>5 DEF Flushing
      <4>2. DeletionIsPersisted(m)' <=> DeletionIsPersisted(m)
        BY <1>2, <3>5 DEF DeletionIsPersisted
      <4> QED
        BY <2>3, <3>1, <3>2, <3>3, <3>5, <4>1, <4>2
    <3> QED
      BY <3>4, <3>5
  <2> QED
    BY <2>2, <2>3
<1>6. ~Inserted(w) /\ ~Removed(w) => ~Committed(w) /\ ~Committed(w)'
  BY <1>3 DEF Committed
<1>7. ~(Inserted(w) /\ Removed(w))
  BY DEF Inserted, Removed
<1> QED
  BY <1>4, <1>5, <1>6, <1>7
(* What a flush of n does to the keys of NVM. *)
LEMMA FlushedKeys ==
  ASSUME IInv, PInv, DInv, phase = "running", NEW n \in Nodes, Flushing(n)
  PROVE  /\ (PersistedMember(n)' <=> PersistedMember(n)) => Persisted' = Persisted
         /\ PersistedMember(n)' /\ ~PersistedMember(n) => Persisted' = Persisted \union {key[n]}
         /\ ~PersistedMember(n)' /\ PersistedMember(n) =>
              Persisted' = Persisted \ {key[n]} /\ key[n] \in Persisted
<1>1. /\ \A m \in Nodes \ {n} : nvm'[m] = nvm[m]
      /\ nvm'[n].key = key[n] /\ (PersistedMember(n) => nvm[n].key = key[n])
  BY Flushed DEF Flushing
<1>2. \A m \in Nodes \ {n} : (PersistedMember(m)' <=> PersistedMember(m)) /\ nvm'[m].key = nvm[m].key
  BY <1>1 DEF PersistedMember
<1>3. ASSUME NEW k
      PROVE  /\ k \in Persisted <=> \E m \in Nodes : PersistedMember(m) /\ nvm[m].key = k
             /\ k \in Persisted' <=> \E m \in Nodes : PersistedMember(m)' /\ nvm'[m].key = k
  BY DEF Persisted
<1>4. (PersistedMember(n)' <=> PersistedMember(n)) => \A k : k \in Persisted' <=> k \in Persisted
  BY <1>1, <1>2, <1>3
<1>5. PersistedMember(n)' /\ ~PersistedMember(n) => \A k : k \in Persisted' <=> k \in Persisted \/ k = key[n]
  BY <1>1, <1>2, <1>3
<1>6. ~PersistedMember(n)' /\ PersistedMember(n) =>
        /\ \A k : k \in Persisted' <=> k \in Persisted /\ k # key[n]
        /\ key[n] \in Persisted
  <2>1. PersistedMember(n) =>
          \A m \in Nodes \ {n} : PersistedMember(m) => nvm[m].key # key[n]
    BY <1>1 DEF PInv, PersistedKeysAreUnique
  <2> QED
    BY <1>1, <1>2, <1>3, <2>1
<1> QED
  BY <1>4, <1>5, <1>6

(* A flush that brings NVM nothing new. *)
LEMMA QuietFlush ==
  ASSUME IInv, PInv, LInv, phase = "running", NEW n \in Nodes, Flushing(n), DInv',
         PersistedMember(n)' <=> PersistedMember(n),
         Unborn(n)' <=> Unborn(n),
         heap[n] = "linked" /\ marked[n] => DeletionIsPersisted(n)
  PROVE  LInv'
<1>1. DInv /\ Commits(n) /\ Persisted' = Persisted
  BY FlushCommits, FlushedKeys DEF LInv
<1>2. AllCommitted' = AllCommitted
  <2>1. ASSUME NEW w \in Threads
        PROVE  Committed(w)' <=> Committed(w)
    <3>1. Committed(w)' <=>
           \/ Committed(w)
           \/ Inserted(w) /\ newNode[w] = n /\ ~Unborn(n)'
           \/ Removed(w) /\ pc[w] = "flushDelete" /\ curr[w] = n /\ DeletionIsPersisted(n)'
      BY <1>1, FlushCommitted
    <3>2. Inserted(w) /\ newNode[w] = n /\ ~Unborn(n)' => Committed(w)
      BY DEF Committed, Unborn, PersistedMember, DeletionIsPersisted
    <3>3. ASSUME Removed(w), pc[w] = "flushDelete", curr[w] = n
          PROVE  Committed(w)
      <4>1. marked[n] /\ MayHold(w, n)
        BY <3>3, CurrIsHeld DEF IInv, ThreadInv, TrimsMarkedNodes
      <4>2. heap[n] # "linked" => waits[n] # {}
        BY <4>1, NodesAssumption DEF MayHold, Linked, AllNodes
      <4>3. DeletionIsPersisted(n)
        BY <1>1, <4>1, <4>2 DEF DInv, NodeIsRight
      <4> QED
        BY <3>3, <4>3 DEF Committed, DeletionIsPersisted
    <3> QED
      BY <3>1, <3>2, <3>3
  <2> QED
    BY <2>1 DEF AllCommitted
<1>3. ASSUME NEW Q, Knows(Q)
      PROVE  Knows(Q)'
  <2>1. ASSUME NEW u \in Threads, pc[u] # "idle"
        PROVE  FreeAnswers(call[u], Persisted') \subseteq Q[u] /\ LearnsOf(n, u, Q[u])
    <3>1. FreeAnswers(call[u], Persisted') \subseteq Q[u]
      BY <1>1, <1>3, <2>1 DEF Knows
    <3>2. LearnsOf(n, u, Q[u])
      BY DEF LearnsOf
    <3> QED
      BY <3>1, <3>2
  <2> QED
    BY <1>1, <1>3, <2>1, CommitKnows
<1> QED
  BY <1>1, <1>2, <1>3, QuietLInv DEF Commits

(* A flush of n: it persists an insertion, a deletion, both or neither. *)
LEMMA FlushLInv ==
  ASSUME IInv, PInv, LInv, phase = "running", NEW n \in Nodes, Flushing(n), DInv'
  PROVE  LInv'
<1>1. /\ DInv /\ Commits(n) /\ FLUSH(n) /\ UNCHANGED <<fields, heap, waits, phase>> /\ todo = {}
  BY FlushCommits DEF LInv, Flushing, IInv, RecoveryIsAlone
<1>2. /\ heap[n] = "linked" /\ marked[n] => DeletionIsPersisted(n)'
      /\ heap[n] = "linked" /\ ~marked[n] => (PersistedMember(n)' <=> valid[n])
      /\ heap[n] # "linked" => (PersistedMember(n)' <=> PersistedMember(n))
  BY <1>1, Flushed
<1>3. /\ heap'[n] = heap[n] /\ marked'[n] = marked[n]
      /\ heap[n] = "linked" => key[n] \in Keys
      /\ heap[n] = "linked" /\ PersistedMember(n) => valid[n]
  BY <1>1 DEF fields, DInv, NodeIsRight
<1>4. ASSUME NEW w \in Threads
      PROVE  Committed(w)' <=>
           \/ Committed(w)
           \/ Inserted(w) /\ newNode[w] = n /\ ~Unborn(n)'
           \/ Removed(w) /\ pc[w] = "flushDelete" /\ curr[w] = n /\ DeletionIsPersisted(n)'
  BY <1>1, FlushCommitted
<1>5. ~(PersistedMember(n) /\ DeletionIsPersisted(n)) /\ ~(PersistedMember(n) /\ DeletionIsPersisted(n))'
  BY DEF PersistedMember, DeletionIsPersisted
<1>6. CASE heap[n] # "linked"
  BY <1>1, <1>2, <1>3, <1>6, QuietFlush DEF Unborn
<1>7. CASE heap[n] = "linked" /\ ~marked[n] /\ (PersistedMember(n) \/ ~valid[n])
  BY <1>1, <1>2, <1>3, <1>7, QuietFlush DEF Unborn
<1>8. CASE heap[n] = "linked" /\ marked[n] /\ DeletionIsPersisted(n)
  BY <1>1, <1>2, <1>3, <1>5, <1>8, QuietFlush DEF Unborn
<1>9. CASE heap[n] = "linked" /\ ~marked[n] /\ ~PersistedMember(n) /\ valid[n]
  <2>1. Unborn(n) /\ ~Unborn(n)' /\ PersistedMember(n)'
    BY <1>2, <1>3, <1>9 DEF Unborn
  <2>2. PICK u \in Threads :
           /\ Inserted(u) /\ newNode[u] = n /\ call[u] = [op |-> "insert", arg |-> key[n]]
           /\ u \notin AllCommitted
           /\ \A w \in Threads : Inserted(w) /\ newNode[w] = n => w = u
    BY <1>1, <2>1, Inserter
  <2>3. key[n] \notin Persisted
    BY <1>1, <1>9, DeadIsMissing
  <2>4. Persisted' = Persisted \union {key[n]}
    BY <1>1, <1>9, <2>1, FlushedKeys
  <2>5. \A w \in Threads : Committed(w)' <=> Committed(w) \/ w = u
    BY <1>4, <1>5, <2>1, <2>2
  <2>6. AllCommitted' = AllCommitted \union {u}
    BY <2>5 DEF AllCommitted
  <2> QED
    BY <1>1, <1>3, <1>9, <2>2, <2>3, <2>4, <2>6, BirthLInv
<1>10. CASE heap[n] = "linked" /\ marked[n] /\ ~DeletionIsPersisted(n) /\ PersistedMember(n)
  <2>1. Pending(n) /\ ~Unborn(n) /\ ~Unborn(n)' /\ ~PersistedMember(n)' /\ DeletionIsPersisted(n)'
    BY <1>2, <1>3, <1>5, <1>10 DEF Pending, Unborn
  <2>2. PICK v \in Threads :
           /\ Removed(v) /\ pc[v] = "flushDelete" /\ curr[v] = n
           /\ call[v] = [op |-> "remove", arg |-> key[n]] /\ v \notin AllCommitted
           /\ \A w \in Threads : Removed(w) /\ pc[w] = "flushDelete" /\ curr[w] = n => w = v
    BY <1>1, <2>1, Remover
  <2>3. Persisted' = Persisted \ {key[n]} /\ key[n] \in Persisted
    BY <1>1, <1>10, <2>1, FlushedKeys
  <2>4. ASSUME NEW w \in Threads
        PROVE  Committed(w)' <=> Committed(w) \/ w = v
    <3>1. Inserted(w) /\ newNode[w] = n => Committed(w)
      BY <2>1 DEF Committed, Unborn, PersistedMember, DeletionIsPersisted
    <3> QED
      BY <1>4, <2>1, <2>2, <3>1
  <2>5. AllCommitted' = AllCommitted \union {v}
    BY <2>4 DEF AllCommitted
  <2> QED
    BY <1>1, <1>3, <1>10, <2>1, <2>2, <2>3, <2>5, DeathLInv
<1>11. CASE heap[n] = "linked" /\ marked[n] /\ ~DeletionIsPersisted(n) /\ ~PersistedMember(n)
  <2>1. Pending(n) /\ Unborn(n) /\ ~Unborn(n)' /\ ~PersistedMember(n)' /\ DeletionIsPersisted(n)'
    BY <1>2, <1>3, <1>5, <1>11 DEF Pending, Unborn
  <2>2. PICK u \in Threads :
           /\ Inserted(u) /\ newNode[u] = n /\ call[u] = [op |-> "insert", arg |-> key[n]]
           /\ u \notin AllCommitted
           /\ \A w \in Threads : Inserted(w) /\ newNode[w] = n => w = u
    BY <1>1, <2>1, Inserter
  <2>3. PICK v \in Threads :
           /\ Removed(v) /\ pc[v] = "flushDelete" /\ curr[v] = n
           /\ call[v] = [op |-> "remove", arg |-> key[n]] /\ v \notin AllCommitted
           /\ \A w \in Threads : Removed(w) /\ pc[w] = "flushDelete" /\ curr[w] = n => w = v
    BY <1>1, <2>1, Remover
  <2>4. key[n] \notin Persisted
    BY <1>1, <1>11, DeadIsMissing
  <2>5. Persisted' = Persisted
    BY <1>1, <1>11, <2>1, FlushedKeys
  <2>6. \A w \in Threads : Committed(w)' <=> Committed(w) \/ w = u \/ w = v
    BY <1>4, <2>1, <2>2, <2>3
  <2>7. AllCommitted' = (AllCommitted \union {u}) \union {v}
    BY <2>6 DEF AllCommitted
  <2> QED
    BY <1>1, <1>3, <1>11, <2>2, <2>3, <2>4, <2>5, <2>7, BirthAndDeathLInv
<1> QED
  BY <1>6, <1>7, <1>8, <1>9, <1>10, <1>11

(* So does an eviction. *)
LEMMA EvictLInv ==
  ASSUME IInv, PInv, LInv, NEW n \in Nodes, Evict(n)
  PROVE  LInv'
<1>1. DInv' /\ Flushing(n)
  BY EvictIsRight DEF LInv, Evict, Flushing, locals, recovery
<1>2. CASE phase = "running"
  BY <1>1, <1>2, FlushLInv
<1>3. CASE phase # "running"
  BY <1>1, <1>3 DEF LInv, Flushing
<1> QED
  BY <1>2, <1>3

(* FLUSH_DELETE, after which contains may return. *)
LEMMA FlushDeleteLInv ==
  ASSUME IInv, PInv, LInv, ~QuiesceOnFree, NEW t \in Threads, FlushDelete(t)
  PROVE  LInv' /\ (call' # call => call[t].op = "contains" /\ outcomes' # {})
<1>1. /\ DInv /\ DInv' /\ pc[t] = "flushDelete" /\ phase = "running"
      /\ UNCHANGED <<fields, heap, phase>>
  BY FlushDeleteIsRight, Running DEF LInv, FlushDelete, recovery
<1>2. PICK n \in Nodes : n = curr[t] /\ MayHold(t, n)
  BY <1>1, CurrIsHeld
<1>3. CASE ~deleteFlag[n]
  <2>1. /\ FLUSH(n) /\ Goto(t, "setDelete")
        /\ UNCHANGED <<waits, call, pred, curr, succ, newNode, result, outcomes>>
    BY <1>2, <1>3 DEF FlushDelete
  <2>2. Flushing(n)
    BY <1>1, <1>2, <2>1 DEF Flushing, Goto, IInv, TypeOK
  <2> QED
    BY <1>1, <2>1, <2>2, FlushLInv
<1>4. CASE deleteFlag[n]
  <2>1. AfterFlushDelete(t) /\ nvm' = nvm
    BY <1>2, <1>4 DEF FlushDelete
  <2>2. DeletionIsPersisted(curr[t])
    BY <1>1, <1>2, <1>4, HeldIsSound
  <2>3. CASE call[t].op = "contains"
    <3>1. Return(t, FALSE)
      BY <2>1, <2>3 DEF AfterFlushDelete
    <3> QED
      BY <1>1, <2>1, <2>2, <2>3, <3>1, DeletedAnswer, ReturnLInv DEF fields
  <2>4. CASE call[t].op # "contains"
    <3>1. /\ pc'[t] = "trim" /\ OthersStay(t)
          /\ UNCHANGED <<waits, call, curr, newNode, result, outcomes>>
      BY <2>1, <2>4 DEF AfterFlushDelete, Goto, OthersStay, IInv, TypeOK
    <3> QED
      BY <1>1, <2>1, <2>2, <2>4, <3>1, ToTrimLInv DEF fields
  <2> QED
    BY <2>3, <2>4
<1> QED
  BY <1>3, <1>4

(* FLUSH_INSERT, after which insert and contains may return. *)
LEMMA FlushInsertLInv ==
  ASSUME IInv, PInv, LInv, ~QuiesceOnFree, NEW t \in Threads, FlushInsert(t)
  PROVE  LInv' /\ (call' # call => outcomes' # {})
<1>1. /\ DInv /\ DInv' /\ pc[t] = "flushInsert" /\ phase = "running"
      /\ UNCHANGED <<fields, heap, phase>>
  BY FlushInsertIsRight, Running DEF LInv, FlushInsert, recovery
<1>2. PICK n \in Nodes : n = Target(t) /\ MayHold(t, n)
  BY <1>1, TargetIsHeld DEF Publishing
<1>3. CASE ~insertFlag[n]
  <2>1. /\ FLUSH(n) /\ Goto(t, "setInsert")
        /\ UNCHANGED <<waits, call, pred, curr, succ, newNode, result, outcomes>>
    BY <1>2, <1>3 DEF FlushInsert
  <2>2. Flushing(n)
    BY <1>1, <1>2, <2>1 DEF Flushing, Goto, IInv, TypeOK
  <2> QED
    BY <1>1, <2>1, <2>2, FlushLInv
<1>4. CASE insertFlag[n]
  <2>1. Return(t, result[t]) /\ nvm' = nvm
    BY <1>2, <1>4 DEF FlushInsert
  <2>2. ~Unborn(Target(t))
    <3>1. ~Unborn(n)
      BY <1>1, <1>4 DEF DInv, NodeIsRight, Unborn
    <3> QED
      BY <1>2, <3>1
  <2> QED
    BY <1>1, <2>1, <2>2, InsertedAnswer, ReturnLInv DEF fields
<1> QED
  BY <1>3, <1>4

(* A mark whose line NVM holds already, from an earlier use of the node. *)
LEMMA MarkCommitsLInv ==
  ASSUME IInv, PInv, LInv, ~QuiesceOnFree, NEW t \in Threads, Mark(t),
         Expects(curr[t], succ[t]), DeletionIsPersisted(curr[t])
  PROVE  LInv'
<1>1. DInv /\ DInv'
  BY MarkIsRight DEF LInv
<1>2. /\ pc[t] = "mark" /\ OthersStay(t) /\ phase = "running" /\ todo = {}
      /\ pc'[t] = "flushDelete" /\ result'[t] = TRUE
      /\ UNCHANGED <<valid, insertFlag, deleteFlag, key, next, nvm, heap, waits, call, curr, newNode, outcomes, phase>>
  BY Running DEF Mark, Goto, OthersStay, recovery, IInv, TypeOK
<1>3. /\ CallIsRight(t) /\ call[t] \in DS!Calls /\ call[t].op \in {"insert", "remove", "contains"}
      /\ pc[t] \in LabelsOf(call[t].op)
  BY <1>1, <1>2, CallIsKnown
<1>4. call[t].op = "remove" /\ ~result[t]
  BY <1>2, <1>3 DEF LabelsOf, CallIsRight
<1>5. PICK n \in Nodes : n = curr[t] /\ MayHold(t, n) /\ key[n] = call[t].arg
  BY <1>2, CurrIsHeld DEF IInv, ThreadInv, SearchIsRight
<1>6. /\ ~marked[n] /\ DeletionIsPersisted(n) /\ ~PersistedMember(n)
      /\ marked' = [marked EXCEPT ![n] = TRUE]
  BY <1>5 DEF Mark, Expects, DeletionIsPersisted, PersistedMember
<1>7. heap[n] = "linked"
  BY <1>5, <1>6, UnmarkedIsLinked, NodesAssumption DEF Linked, AllNodes, IInv
<1>8. Unborn(n) /\ ~Unborn(n)' /\ key[n] \in Keys
  BY <1>1, <1>2, <1>6, <1>7 DEF Unborn, DeletionIsPersisted, DInv, NodeIsRight, IInv, TypeOK, AllNodes
<1>9. Commits(n)
  <2>1. \A m \in Nodes \ {n} : Same(m)
    BY <1>2, <1>6 DEF Same, IInv, TypeOK
  <2>2. \A m \in Nodes \ {n} : KeepsNode(m)
    BY <2>1, SameKeeps
  <2>3. \A w \in Threads : StaysPut(w) /\ curr'[w] = curr[w]
    BY <1>2, <1>4 DEF StaysPut, OthersStay
  <2> QED
    BY <1>2, <2>2, <2>3 DEF Commits
<1>10. PICK u \in Threads :
         /\ Inserted(u) /\ newNode[u] = n /\ call[u] = [op |-> "insert", arg |-> key[n]]
         /\ u \notin AllCommitted
         /\ \A w \in Threads : Inserted(w) /\ newNode[w] = n => w = u
  BY <1>1, <1>8, Inserter
<1>11. call[t] = [op |-> "remove", arg |-> key[n]] /\ t \notin AllCommitted
  BY <1>3, <1>4, <1>5 DEF DS!Calls, AllCommitted, Committed, Inserted, Removed
<1>12. key[n] \notin Persisted
  BY <1>1, <1>2, <1>6, <1>7, DeadIsMissing
<1>13. Persisted' = Persisted
  BY <1>2 DEF Persisted, PersistedMember
<1>14. ASSUME NEW w \in Threads
       PROVE  Committed(w)' <=> Committed(w) \/ w = u \/ w = t
  <2>1. CASE w = t
    <3>1. Removed(t)' /\ DeletionIsPersisted(curr[t])'
      BY <1>2, <1>4, <1>5, <1>6 DEF Removed, DeletionIsPersisted
    <3> QED
      BY <2>1, <3>1 DEF Committed
  <2>2. CASE w # t
    <3>1. /\ pc'[w] = pc[w] /\ call'[w] = call[w] /\ curr'[w] = curr[w]
          /\ newNode'[w] = newNode[w] /\ result'[w] = result[w]
      BY <2>2, <1>2 DEF OthersStay
    <3>2. (Inserted(w)' <=> Inserted(w)) /\ (Removed(w)' <=> Removed(w))
      BY <3>1 DEF Inserted, Removed
    <3>3. DeletionIsPersisted(curr[w])' <=> DeletionIsPersisted(curr[w])
      BY <1>2, <3>1 DEF DeletionIsPersisted
    <3>4. CASE w = u
      <4>1. ~Unborn(newNode[w])' /\ Inserted(w)'
        BY <1>2, <1>8, <1>10, <3>1, <3>2, <3>4 DEF Unborn, PersistedMember, DeletionIsPersisted
      <4> QED
        BY <3>4, <4>1 DEF Committed
    <3>5. CASE w # u
      <4>1. Inserted(w) => (Unborn(newNode[w])' <=> Unborn(newNode[w]))
        <5> SUFFICES ASSUME Inserted(w) PROVE Unborn(newNode[w])' <=> Unborn(newNode[w])
          OBVIOUS
        <5>1. newNode[w] # n
          BY <1>10, <3>5
        <5>2. newNode[w] \in Nodes
          <6>1. CallIsRight(w)
            BY <1>1 DEF DInv
          <6>2. newNode[w] # Nil
            BY <6>1 DEF CallIsRight, Inserted
          <6> QED
            BY <6>2 DEF IInv, TypeOK
        <5>3. marked'[newNode[w]] = marked[newNode[w]]
          BY <1>6, <5>1, <5>2 DEF IInv, TypeOK, AllNodes
        <5> QED
          BY <1>2, <3>1, <5>3 DEF Unborn, PersistedMember, DeletionIsPersisted
      <4> QED
        BY <2>2, <3>1, <3>2, <3>3, <3>5, <4>1 DEF Committed
    <3> QED
      BY <3>4, <3>5
  <2> QED
    BY <2>1, <2>2
<1>15. AllCommitted' = (AllCommitted \union {u}) \union {t}
  BY <1>14 DEF AllCommitted
<1> QED
  BY <1>1, <1>2, <1>8, <1>9, <1>10, <1>11, <1>12, <1>13, <1>15, BirthAndDeathLInv

-----------------------------------------------------------------------------
(* Crash and recovery. *)

(* A crash: the histories allow the keys in NVM, with the committed           *)
(* operations done and the others not.                                        *)
LEMMA CrashLInv ==
  ASSUME IInv, PInv, LInv, Crash
  PROVE  LInv'
<1>1. DInv /\ /\ CallsOf(call) /\ outcomes \in SUBSET DS!Configurations
              /\ AllCommitted \subseteq {t \in Threads : call[t] # DS!None}
  BY CommittedHaveCalls DEF LInv
<1>2. \E R : [set |-> Persisted, res |-> R] \in DS!Reach
  <2>1. CASE phase = "running"
    <3>1. PICK Q : Promised(call, outcomes, Persisted, AllCommitted, Q)
      BY <2>1 DEF LInv
    <3>2. PICK R : R = [t \in AllCommitted |-> TRUE]
      OBVIOUS
    <3>3. R \in [AllCommitted -> BOOLEAN] /\ AllCommitted \in SUBSET Threads
      BY <3>2 DEF AllCommitted
    <3>4. R \in Answers
      BY <3>3 DEF Answers
    <3>5. Answered(call, AllCommitted, Q, R)
      BY <1>1, <3>2 DEF Answered
    <3> QED
      BY <3>1, <3>4, <3>5 DEF Promised, DS!Reach
  <2>2. CASE phase # "running"
    <3>1. [set |-> Persisted, res |-> DS!NoAnswer] \in outcomes
      BY <1>1, <2>2 DEF DInv, RecoveryIsRight, IInv, TypeOK
    <3> QED
      BY <1>1, <3>1, ReachCloses DEF DS!Reach
  <2> QED
    BY <2>1, <2>2
<1>3. DInv'
  BY <1>1, <1>2, CrashIsRight
<1> QED
  BY <1>3 DEF LInv, Crash

(* While recovery visits the nodes, NVM keeps the keys that the crash left. *)
LEMMA RecoveringLInv ==
  ASSUME IInv, PInv, LInv, NEW n \in Nodes,
         RecoverNeverUsed(n) \/ RecoverMarkDead(n) \/ RecoverFreeDead(n) \/ QuickInsert(n)
  PROVE  LInv'
<1>1. DInv'
  BY RecoveringIsRight DEF LInv
<1>2. phase' # "running"
  BY DEF RecoverNeverUsed, RecoverMarkDead, RecoverFreeDead, QuickInsert
<1> QED
  BY <1>1, <1>2 DEF LInv

(* The links of the list, the last one to the tail included. *)
Listed == Linked \union {Tail}
Links == {gh \in Listed \X Listed : gh[2] = next[gh[1]]}

(* Reachable follows the links as often as there are nodes, and once more. *)
LEMMA WalkRounds ==
  ASSUME IInv, next[Tail] = Nil
  PROVE  \E f : /\ Rounds(f, Cardinality(Nodes) + 1, Listed, Links, {Head})
                /\ Reachable = f[Cardinality(Nodes) + 1]
<1> DEFINE N == Cardinality(Nodes) + 1
           o == {Head}
           G(x) == x \union ({next[n] : n \in x} \ {Nil})
           Rec(f) == f = [k \in 0..N |-> IF k = 0 THEN o ELSE G(f[k-1])]
<1>1. N \in Nat
  BY NodesAssumption, FS_CardinalityType
<1>2. ASSUME NEW x \in SUBSET Listed
      PROVE  G(x) = OneRound(x, Listed, Links)
  <2>1. \A g \in Linked : next[g] \in Listed
    BY DEF IInv, ListIsSorted, Listed
  <2>2. Nil \notin Listed
    BY NodesAssumption DEF Listed, Linked, AllNodes
  <2>3. \A g \in Listed : next[g] # Nil => next[g] \in Listed
    BY <2>1 DEF Listed
  <2>4. \A h \in G(x) : h \in OneRound(x, Listed, Links)
    BY <2>3 DEF OneRound, Links
  <2>5. \A h \in OneRound(x, Listed, Links) : h \in G(x)
    BY <2>2 DEF OneRound, Links
  <2> QED
    BY <2>4, <2>5
<1>3. o \in SUBSET Listed
  BY DEF Listed, Linked
<1>4. PICK g : Rounds(g, N, Listed, Links, o)
  <2> HIDE DEF N, o
  <2> QED
    BY <1>1, <1>3, RoundsExist
<1>5. Rec(g)
  <2>1. g \in [0..N -> SUBSET Listed] /\ \A k \in 1..N : g[k] = OneRound(g[k-1], Listed, Links)
    BY <1>4 DEF Rounds
  <2>2. \A k \in 1..N : g[k-1] \in SUBSET Listed
    BY <1>1, <2>1
  <2> HIDE DEF G, N
  <2>3. \A k \in 1..N : g[k] = G(g[k-1])
    BY <1>2, <2>1, <2>2
  <2>4. \A k \in 0..N : g[k] = IF k = 0 THEN o ELSE G(g[k-1])
    BY <1>1, <1>4, <2>3 DEF Rounds
  <2> QED
    BY <2>1, <2>4
<1>6. PICK f : Rec(f) /\ Reachable = f[N]
  <2>1. Rec(CHOOSE f : Rec(f))
    BY <1>5
  <2>2. Reachable = (CHOOSE f : Rec(f))[N]
    BY DEF Reachable
  <2> QED
    BY <2>1, <2>2
<1>7. f = [k \in 0..N |-> f[k]] /\ f[0] = o /\ \A k \in 1..N : f[k] = G(f[k-1])
  <2> HIDE DEF G, N, o
  <2> QED
    BY SMTT(30), <1>1, <1>6
<1>8. \A k \in 1..N : f[k-1] \in SUBSET Listed => f[k] = OneRound(f[k-1], Listed, Links)
  <2> HIDE DEF G
  <2> QED
    BY <1>2, <1>7
<1> HIDE DEF N, o, G
<1>9. Rounds(f, N, Listed, Links, o)
  BY <1>1, <1>3, <1>7, <1>8, RoundsOfRecursion
<1> QED
  BY <1>6, <1>9 DEF N, o

(* Keys grow along the links: a node has as many nodes before it as there are *)
(* smaller keys.                                                             *)
LEMMA LinksAscend ==
  ASSUME IInv, next[Tail] = Nil
  PROVE  LET r == [n \in Listed |-> Cardinality({m \in Linked : key[m] < key[n]})] IN
         /\ r \in [Listed -> 0..(Cardinality(Nodes) + 1)]
         /\ \A g, h \in Listed : <<g, h>> \in Links => r[g] < r[h]
<1> DEFINE N == Cardinality(Nodes) + 1
           B(n) == {m \in Linked : key[m] < key[n]}
           C(n) == Cardinality(B(n))
<1>1. Listed \subseteq AllNodes /\ \A n \in Listed : key[n] \in Int
  BY DEF Listed, Linked, AllNodes, IInv, TypeOK
<1>2. IsFiniteSet(Linked) /\ Cardinality(Linked) \in 0..N
  <2>1. IsFiniteSet(Nodes \union {Head}) /\ Cardinality(Nodes \union {Head}) = N /\ N \in Nat
    BY NodesAssumption, FS_AddElement, FS_CardinalityType
  <2>2. Linked \subseteq Nodes \union {Head}
    BY DEF Linked
  <2> HIDE DEF N
  <2> QED
    BY <2>1, <2>2, FS_Subset, FS_CardinalityType
<1>3. ASSUME NEW n \in Listed
      PROVE  IsFiniteSet(B(n)) /\ C(n) \in 0..N
  <2>1. B(n) \in SUBSET Linked
    OBVIOUS
  <2>2. N \in Nat
    BY NodesAssumption, FS_CardinalityType
  <2> HIDE DEF B, N
  <2>3. IsFiniteSet(B(n)) /\ C(n) <= Cardinality(Linked) /\ C(n) \in Nat
    BY <1>2, <2>1, FS_Subset, FS_CardinalityType
  <2> QED
    BY <1>2, <2>2, <2>3
<1>4. ASSUME NEW g \in Listed, NEW h \in Listed, <<g, h>> \in Links
      PROVE  C(g) < C(h)
  <2>1. h = next[g]
    BY <1>4 DEF Links
  <2>2. g \in Linked
    BY <2>1, NodesAssumption DEF Listed, Linked, AllNodes
  <2>3. key[g] < key[h]
    BY <2>1, <2>2 DEF IInv, ListIsSorted
  <2>4. B(g) \union {g} \subseteq B(h) /\ g \notin B(g)
    <3>1. key[g] \in Int /\ key[h] \in Int /\ \A m \in Linked : key[m] \in Int
      BY <1>1 DEF Listed
    <3>2. g \notin B(g)
      BY <3>1
    <3>3. \A m \in B(g) : m \in B(h)
      BY <2>3, <3>1
    <3>4. g \in B(h)
      BY <2>2, <2>3
    <3> QED
      BY <3>2, <3>3, <3>4
  <2> HIDE DEF B
  <2>5. Cardinality(B(g) \union {g}) = C(g) + 1
    BY <1>3, <2>4, FS_AddElement
  <2>6. Cardinality(B(g) \union {g}) <= C(h)
    BY <1>3, <2>4, FS_Subset
  <2>7. C(g) \in Nat /\ C(h) \in Nat
    BY <1>3
  <2> QED
    BY <2>5, <2>6, <2>7
<1>5. [n \in Listed |-> C(n)] \in [Listed -> 0..N]
  BY <1>3
<1> QED
  BY <1>4, <1>5

(* The walk meets every node of the list. *)
LEMMA WalkMeetsAll ==
  ASSUME IInv, next[Tail] = Nil,
         \A n \in Linked : key[n] < MaxKey /\ (n # Head => MinKey < key[n])
  PROVE  Linked \subseteq Reachable /\ Reachable \subseteq Listed
<1> DEFINE N == Cardinality(Nodes) + 1
           r == [n \in Listed |-> Cardinality({m \in Linked : key[m] < key[n]})]
<1>1. N \in Nat
  BY NodesAssumption, FS_CardinalityType
<1>2. PICK f : Rounds(f, N, Listed, Links, {Head}) /\ Reachable = f[N]
  BY WalkRounds
<1>3. r \in [Listed -> 0..N] /\ \A g, h \in Listed : <<g, h>> \in Links => r[g] < r[h]
  BY LinksAscend
<1> HIDE DEF N, r
<1>4. {Head} \subseteq Reachable /\ Reachable \subseteq Listed
  BY <1>1, <1>2, RoundsGrow
<1>5. \A g \in Reachable : \A h \in Listed : <<g, h>> \in Links => h \in Reachable
  BY <1>1, <1>2, <1>3, RoundsClose
<1>6. \A n \in Listed : key[n] \in Int
  BY DEF Listed, Linked, AllNodes, IInv, TypeOK
<1>7. ASSUME NEW m \in Linked, m \notin Reachable
      PROVE  FALSE
  <2> DEFINE E == {n \in Reachable : n \in Linked /\ key[n] < key[m]}
             T == {key[m] - key[n] : n \in E}
  <2>1. Head \in E
    <3>1. m # Head
      BY <1>4, <1>7
    <3>2. key[Head] < key[m]
      BY <3>1 DEF IInv, SentinelsAreFixed
    <3> QED
      BY <1>4, <3>2 DEF Linked
  <2>2. T \in SUBSET Nat
    BY <1>6 DEF Listed
  <2>3. PICK d \in T : \A k \in T : d <= k
    <3>1. T # {}
      BY <2>1
    <3> HIDE DEF T
    <3> QED
      BY <2>2, <3>1, LeastNumber
  <2>4. PICK n \in E : d = key[m] - key[n]
    BY <2>3
  <2>5. next[n] \in Listed /\ n \in Listed /\ key[n] < key[next[n]]
    BY DEF Listed, IInv, ListIsSorted
  <2>6. next[n] \in Reachable
    BY <1>5, <2>5 DEF Links
  <2>7. key[next[n]] <= key[m]
    <3>1. ~(key[m] < key[next[n]])
      BY DEF IInv, ListIsSorted
    <3>2. key[m] \in Int /\ key[next[n]] \in Int
      BY <1>6, <2>5 DEF Listed
    <3> QED
      BY <3>1, <3>2
  <2>8. next[n] # Tail
    <3>1. key[Tail] = MaxKey /\ key[m] < MaxKey /\ key[m] \in Int
      BY <1>6 DEF IInv, SentinelsAreFixed, Listed
    <3> QED
      BY <2>7, <3>1, KeysAssumption
  <2>9. next[n] \in Linked
    BY <2>5, <2>8 DEF Listed
  <2>10. key[next[n]] # key[m]
    BY <1>7, <2>6, <2>9 DEF IInv, ListIsSorted
  <2>11. key[next[n]] < key[m] /\ key[next[n]] \in Int /\ key[m] \in Int /\ key[n] \in Int
    BY <1>6, <2>5, <2>7, <2>10 DEF Listed
  <2>12. key[m] - key[next[n]] \in T
    BY <2>6, <2>9, <2>11
  <2>13. d <= key[m] - key[next[n]]
    BY <2>3, <2>12
  <2> QED
    BY <2>4, <2>5, <2>11, <2>13
<1> QED
  BY <1>4, <1>7

(* What recovery leaves on the list is what NVM holds. *)
LEMMA RecoveredContents ==
  ASSUME IInv, PInv, DInv, phase = "recovering", todo = {}
  PROVE  Contents = Persisted
<1>1. next[Tail] = Nil
  BY DEF DInv, RecoveryIsRight
<1>2. ASSUME NEW n \in Nodes
      PROVE  heap[n] = "linked" <=> PersistedMember(n)
  <2>1. NodePersists(n)
    BY DEF PInv
  <2> QED
    BY <2>1 DEF NodePersists, RecoveredFromNVM, MemberIsOnList
<1>3. ASSUME NEW n \in Nodes, PersistedMember(n)
      PROVE  ~marked[n] /\ key[n] = nvm[n].key /\ key[n] \in Keys
  <2>1. NodePersists(n) /\ NodeIsRight(n) /\ heap[n] = "linked"
    BY <1>2, <1>3 DEF PInv, DInv
  <2>2. Line(n) = nvm[n] /\ key[n] \in Keys
    BY <2>1 DEF NodePersists, RecoveredFromNVM, NodeIsRight
  <2>3. Link(n) # "marked" /\ key[n] = nvm[n].key
    BY <1>3, <2>2 DEF Line, PersistedMember
  <2> QED
    BY <2>2, <2>3 DEF Link
<1>4. \A n \in Linked : key[n] < MaxKey /\ (n # Head => MinKey < key[n])
  BY <1>2, <1>3, KeysAssumption DEF Linked, IInv, SentinelsAreFixed
<1>5. Linked \subseteq Reachable /\ Reachable \subseteq Listed
  BY <1>1, <1>4, WalkMeetsAll
<1>6. Reachable \ {Head, Tail} = {n \in Nodes : PersistedMember(n)}
  BY <1>2, <1>5, NodesAssumption DEF Linked, Listed
<1> QED
  BY <1>3, <1>6 DEF Contents, Persisted

(* Before the first call the histories allow the empty set, which NVM holds. *)
LEMMA InitLInv == Init => LInv
<1> SUFFICES ASSUME Init PROVE LInv
  OBVIOUS
<1> DEFINE Q == [t \in Threads |-> {}]
<1>1. IInv /\ DInv
  BY InitIInv, InitIsRight
<1>2. Q \in [Threads -> SUBSET BOOLEAN] /\ Knows(Q)
  BY DEF Init, Knows, FoundIsKnown, MissIsKnown, Publishing
<1>3. Persisted = {}
  BY NodesAssumption DEF Init, Persisted, PersistedMember, Line, Link, AllNodes
<1>4. AllCommitted = {}
  BY DEF Init, AllCommitted, Committed, Inserted, Removed
<1>5. CallsOf(call) /\ outcomes \in SUBSET DS!Configurations
  BY <1>1 DEF DInv, IInv, TypeOK, CallsOf
<1>6. (\A t \in Threads : call[t] = DS!None) /\ [set |-> Persisted, res |-> DS!NoAnswer] \in outcomes
  BY <1>3 DEF Init
<1> HIDE DEF Q
<1>7. Promised(call, outcomes, Persisted, AllCommitted, Q)
  BY <1>4, <1>5, <1>6, PromiseToNobody
<1> QED
  BY <1>1, <1>2, <1>7 DEF LInv

(* Recovery ends with a set that the histories allow. *)
LEMMA RecoverDoneLInv ==
  ASSUME IInv, PInv, LInv, RecoverDone
  PROVE  LInv' /\ DS!Recovered(Contents) /\ Contents \in SUBSET Keys
<1> DEFINE Q == [t \in Threads |-> {}]
<1>1. DInv /\ DInv'
  BY RecoverDoneIsRight DEF LInv
<1>2. /\ phase = "recovering" /\ todo = {} /\ phase' = "running"
      /\ outcomes' = DS!AfterRecovery(Contents)
      /\ UNCHANGED <<nvm, pc, call, result>>
  BY DEF RecoverDone, locals
<1>3. Contents = Persisted /\ Persisted' = Persisted
  BY <1>1, <1>2, RecoveredContents DEF Persisted, PersistedMember
<1>4. [set |-> Persisted, res |-> DS!NoAnswer] \in outcomes'
  <2>1. [set |-> Persisted, res |-> DS!NoAnswer] \in outcomes
    BY <1>1, <1>2 DEF DInv, RecoveryIsRight
  <2> QED
    BY <1>2, <1>3, <2>1 DEF DS!AfterRecovery
<1>5. \A t \in Threads : pc[t] = "idle" /\ call[t] = DS!None /\ ~result[t]
  BY <1>1, <1>2 DEF IInv, RecoveryIsAlone, DInv, CallIsRight
<1>6. call \in [Threads -> DS!Calls \union {DS!None}]
  BY DEF IInv, TypeOK
<1>7. LInv'
  <2>1. Q \in [Threads -> SUBSET BOOLEAN] /\ Knows(Q)'
    BY <1>2, <1>5 DEF Knows, FoundIsKnown, MissIsKnown, Publishing
  <2>2. AllCommitted' = {}
    BY <1>2, <1>5 DEF AllCommitted, Committed, Inserted, Removed
  <2>3. CallsOf(call') /\ outcomes' \in SUBSET DS!Configurations
    BY <1>1, <1>2, <1>6 DEF DInv, CallsOf
  <2> HIDE DEF Q
  <2>4. Promised(call', outcomes', Persisted, {}, Q)
    BY <1>2, <1>4, <1>5, <2>3, PromiseToNobody
  <2>5. Promised(call, outcomes, Persisted, AllCommitted, Q)'
    BY <1>3, <2>2, <2>4 DEF Promised
  <2> QED
    BY <1>1, <2>1, <2>5 DEF LInv
<1>8. DS!Recovered(Contents)
  <2>1. call = [t \in Threads |-> DS!None]
    BY <1>5, <1>6
  <2> QED
    BY <1>2, <1>4, <2>1 DEF DS!Recovered
<1>9. Contents \in SUBSET Keys
  BY <1>1, <1>3 DEF DInv, NodeIsRight, Persisted
<1> QED
  BY <1>7, <1>8, <1>9

-----------------------------------------------------------------------------
(* The steps of the list are steps of the durable set. *)

(* An answer. *)
LEMMA Responds ==
  ASSUME IInv, DInv, NEW t \in Threads, pc[t] # "idle", NEW r \in BOOLEAN, Return(t, r)
  PROVE  call' # call /\ (outcomes' # {} => DS!Next)
<1>1. call[t] # DS!None
  BY CallIsKnown
<1>2. call' = [call EXCEPT ![t] = DS!None] /\ outcomes' = DS!AfterAnswer(t, r)
  BY DEF Return
<1>3. call' # call
  BY <1>1, <1>2 DEF IInv, TypeOK
<1>4. outcomes' # {} => DS!Respond(t, r)
  BY <1>1, <1>2 DEF DS!Respond
<1> QED
  BY <1>3, <1>4 DEF DS!Next

(* A step that the durable set does not see. *)
NoEvent == UNCHANGED <<call, outcomes>>

(* What a thread does inside an operation. *)
LEMMA StepIsLinearizable ==
  ASSUME IInv, PInv, LInv, ~QuiesceOnFree, NEW t \in Threads, Step(t)
  PROVE  LInv' /\ (DS!Next \/ NoEvent)
<1>1. DInv
  BY DEF LInv
<1>2. CASE \/ FindPass(t) \/ FindMarked(t) \/ FindAdvance(t) \/ FindHit(t)
           \/ FindMissInsert(t) \/ Restart(t) \/ ReadSucc(t)
           \/ ContainsStep(t) \/ ContainsHit(t)
  <2>1. LInv'
    BY <1>2, FindLInv, ContainsLInv
  <2>2. NoEvent
    BY <1>2 DEF FindPass, FindMarked, FindAdvance, FindHit, FindMissInsert, Restart, ReadSucc,
                ContainsStep, ContainsHit, NoEvent
  <2> QED
    BY <2>1, <2>2
<1>3. CASE Trim(t) \/ FreeTrimmed(t) \/ MakeValid(t) \/ LinkNode(t)
  <2>1. LInv'
    BY <1>3, TrimLInv, FreeTrimmedLInv, MakeValidLInv, LinkNodeLInv
  <2>2. NoEvent
    BY <1>3 DEF Trim, FreeTrimmed, MakeValid, LinkNode, NoEvent
  <2> QED
    BY <2>1, <2>2
<1>4. CASE AllocNode(t) \/ InitNode(t) \/ MarkUnlinked(t) \/ UndoInsert(t)
  <2>1. LInv'
    BY <1>4, InsertLInv
  <2>2. NoEvent
    BY <1>4 DEF AllocNode, InitNode, MarkUnlinked, UndoInsert, NoEvent
  <2> QED
    BY <2>1, <2>2
<1>5. CASE Mark(t)
  <2>1. LInv'
    BY <1>5, MarkLInv, MarkCommitsLInv
  <2>2. NoEvent
    BY <1>5 DEF Mark, NoEvent
  <2> QED
    BY <2>1, <2>2
<1>6. CASE FindMissRemove(t) \/ ContainsMiss(t) \/ Done(t)
  <2>1. LInv' /\ outcomes' # {}
    BY <1>6, AnswerLInv
  <2>2. \E r \in BOOLEAN : pc[t] # "idle" /\ Return(t, r)
    BY <1>6 DEF FindMissRemove, FindStops, ContainsMiss, Done
  <2> QED
    BY <1>1, <2>1, <2>2, Responds
<1>7. CASE SetInsertFlag(t)
  <2>1. LInv' /\ outcomes' # {}
    BY <1>7, SetInsertFlagLInv
  <2>2. pc[t] # "idle" /\ Return(t, result[t]) /\ result[t] \in BOOLEAN
    BY <1>7 DEF SetInsertFlag, IInv, TypeOK
  <2> QED
    BY <1>1, <2>1, <2>2, Responds
<1>8. CASE FlushInsert(t)
  <2>1. LInv' /\ (call' # call => outcomes' # {})
    BY <1>8, FlushInsertLInv
  <2>2. pc[t] # "idle" /\ result[t] \in BOOLEAN /\ (Return(t, result[t]) \/ NoEvent)
    BY <1>8 DEF FlushInsert, IInv, TypeOK, NoEvent
  <2> QED
    BY <1>1, <2>1, <2>2, Responds
<1>9. CASE FlushDelete(t) \/ SetDeleteFlag(t)
  <2>1. LInv' /\ (call' # call => outcomes' # {})
    BY <1>9, FlushDeleteLInv, SetDeleteFlagLInv
  <2>2. pc[t] # "idle" /\ (Return(t, FALSE) \/ NoEvent)
    BY <1>9 DEF FlushDelete, SetDeleteFlag, AfterFlushDelete, NoEvent
  <2> QED
    BY <1>1, <2>1, <2>2, Responds
<1> QED
  BY <1>2, <1>3, <1>4, <1>5, <1>6, <1>7, <1>8, <1>9 DEF Step

(* A step that changes nothing. *)
LEMMA StutterLInv ==
  ASSUME LInv, UNCHANGED vars
  PROVE  LInv'
<1>1. DInv /\ UNCHANGED <<fields, nvm, heap, waits, locals, recovery, outcomes>>
  BY DEF LInv, vars
<1>2. Persisted' = Persisted
  BY <1>1 DEF Persisted, PersistedMember
<1>3. ASSUME NEW n \in Nodes
      PROVE  /\ Unborn(n)' <=> Unborn(n)
             /\ Pending(n)' <=> Pending(n)
             /\ PersistedMember(n)' <=> PersistedMember(n)
             /\ DeletionIsPersisted(n)' <=> DeletionIsPersisted(n)
  BY <1>1 DEF fields, Unborn, Pending, PersistedMember, DeletionIsPersisted
<1>4. ASSUME NEW t \in Threads
      PROVE  /\ Inserted(t)' <=> Inserted(t)
             /\ Removed(t)' <=> Removed(t)
             /\ Unborn(newNode[t])' <=> Unborn(newNode[t])
             /\ Unborn(curr[t])' <=> Unborn(curr[t])
             /\ Unborn(Target(t))' <=> Unborn(Target(t))
             /\ DeletionIsPersisted(curr[t])' <=> DeletionIsPersisted(curr[t])
  BY <1>1 DEF fields, locals, Inserted, Removed, Unborn, PersistedMember, DeletionIsPersisted, Target
<1>5. ASSUME NEW t \in Threads
      PROVE  CallIsRight(t)'
  <2>1. CallIsRight(t)
    BY <1>1 DEF DInv
  <2> QED
    BY <1>1, <1>4, <2>1 DEF fields, locals, CallIsRight
<1>6. ActorsAreAlone'
  BY <1>1, <1>4 DEF DInv, ActorsAreAlone, locals
<1>7. ASSUME NEW n \in Nodes
      PROVE  NodeIsRight(n)'
  <2>1. NodeIsRight(n)
    BY <1>1 DEF DInv
  <2> QED
    BY <1>1, <1>3, <1>4, <2>1 DEF fields, locals, NodeIsRight
<1>8. DInv'
  BY <1>1, <1>2, <1>5, <1>6, <1>7 DEF DInv, RecoveryIsRight, fields, recovery
<1>9. AllCommitted' = AllCommitted
  BY <1>1, <1>4 DEF AllCommitted, Committed, locals
<1>10. ASSUME NEW Q, Knows(Q)
       PROVE  Knows(Q)'
  <2>1. ASSUME NEW t \in Threads
        PROVE  FoundIsKnown(t, Q[t])' /\ MissIsKnown(t, Q[t])'
    <3>1. FoundIsKnown(t, Q[t]) /\ MissIsKnown(t, Q[t])
      BY <1>10 DEF Knows
    <3> QED
      BY <1>1, <1>4, <3>1 DEF fields, locals, FoundIsKnown, MissIsKnown
  <2> QED
    BY <1>1, <1>2, <1>10, <2>1 DEF Knows, FreeAnswers, locals
<1>11. CASE phase = "running"
  BY <1>1, <1>2, <1>8, <1>9, <1>10, <1>11, QuietLInv DEF locals
<1>12. CASE phase # "running"
  BY <1>1, <1>8, <1>12 DEF LInv, recovery
<1> QED
  BY <1>11, <1>12

(* Every step. *)
LEMMA NextIsLinearizable ==
  ASSUME ~QuiesceOnFree, IInv, PInv, LInv, [Next]_vars
  PROVE  LInv' /\ [DS!Next]_<<call, outcomes>>
<1>1. ASSUME NEW t \in Threads, Step(t)
      PROVE  LInv' /\ (DS!Next \/ NoEvent)
  BY <1>1, StepIsLinearizable
<1>2. ASSUME NEW t \in Threads, NEW c \in DS!Calls, Invoke(t, c)
      PROVE  LInv' /\ DS!Next
  <2>1. LInv'
    BY <1>2, InvokeLInv
  <2>2. CallIsRight(t) /\ pc[t] = "idle"
    BY <1>2 DEF Invoke, LInv, DInv
  <2>3. DS!Invoke(t, c)
    BY <1>2, <2>2 DEF Invoke, CallIsRight, DS!Invoke
  <2> QED
    BY <2>1, <2>3 DEF DS!Next
<1>3. ASSUME NEW n \in Nodes, Evict(n)
      PROVE  LInv' /\ NoEvent
  BY <1>3, EvictLInv DEF Evict, locals, NoEvent
<1>4. CASE Crash
  BY <1>4, CrashLInv DEF Crash, DS!Next, DS!Crash
<1>5. CASE Recover
  <2>1. ASSUME NEW n \in Nodes,
               RecoverNeverUsed(n) \/ RecoverMarkDead(n) \/ RecoverFreeDead(n) \/ QuickInsert(n)
        PROVE  LInv' /\ NoEvent
    BY <2>1, RecoveringLInv
    DEF RecoverNeverUsed, RecoverMarkDead, RecoverFreeDead, QuickInsert, locals, NoEvent
  <2>2. CASE RecoverDone
    BY <2>2, RecoverDoneLInv DEF DS!Next
  <2> QED
    BY <1>5, <2>1, <2>2 DEF Recover, NoEvent
<1>6. CASE UNCHANGED vars
  BY <1>6, StutterLInv DEF vars, locals, NoEvent
<1> QED
  BY <1>1, <1>2, <1>3, <1>4, <1>5, <1>6 DEF Next, NoEvent

(* LInv holds in every state of every behaviour. *)
LEMMA LinearizationInvariance ==
  ASSUME ~QuiesceOnFree
  PROVE  Spec => [](IInv /\ PInv /\ LInv)
<1>1. IInv /\ PInv /\ LInv /\ [Next]_vars => LInv'
  BY NextIsLinearizable
<1> QED
  BY <1>1, InitLInv, PersistenceInvariance, PTL DEF Spec

(* insert, remove and contains of the link-free list, with crashes at any     *)
(* moment, evictions, helping, node reuse and recover(), implement the        *)
(* durable set: each answer, and what recovery finds, is that of a sequential *)
(* set whose operations took effect between call and answer, the completed    *)
(* ones before the crash.                                                     *)
THEOREM ListIsDurablyLinearizable ==
  ASSUME ~QuiesceOnFree
  PROVE  Spec => DurablyLinearizable
<1>1. Init => DS!Init
  BY DEF Init, DS!Init
<1>2. IInv /\ PInv /\ LInv /\ [Next]_vars => [DS!Next]_<<call, outcomes>>
  BY NextIsLinearizable
<1> QED
  BY <1>1, <1>2, LinearizationInvariance, PTL DEF Spec, DurablyLinearizable, DS!Spec

-----------------------------------------------------------------------------
(* The validity byte. The steps above take makeValid for one step that sets  *)
(* a Boolean; threads inside it race, and this is why they may.              *)

VARIABLES metaData, oldMetaData

Byte == INSTANCE MetaData

(* flipV1 turns a valid byte invalid and an invalid one valid, and keeps v2. *)
LEMMA FlipTogglesValidity ==
  ASSUME NEW m \in Byte!Bytes
  PROVE  /\ Byte!flipped(m) \in Byte!Bytes
         /\ Byte!isValid(Byte!flipped(m)) <=> ~Byte!isValid(m)
         /\ Byte!V2(Byte!flipped(m)) = Byte!V2(m)
         /\ Byte!V1(Byte!flipped(m)) = 1 - Byte!V1(m)
<1>1. Byte!flipped(m) \in Byte!Bytes
  BY SMTT(30) DEF Byte!flipped, Byte!V1, Byte!HIGH_CHAR_MASK, Byte!Bytes
<1>2. Byte!V2(Byte!flipped(m)) = Byte!V2(m)
  BY SMTT(30) DEF Byte!flipped, Byte!V1, Byte!V2, Byte!HIGH_CHAR_MASK, Byte!Bytes
<1>3. Byte!V1(Byte!flipped(m)) = 1 - Byte!V1(m)
  BY SMTT(30) DEF Byte!flipped, Byte!V1, Byte!HIGH_CHAR_MASK, Byte!Bytes
<1>4. Byte!V1(m) \in {0, 1} /\ Byte!V2(m) \in {0, 1}
  BY SMTT(30) DEF Byte!V1, Byte!V2, Byte!HIGH_CHAR_MASK, Byte!Bytes
<1> QED
  BY <1>1, <1>2, <1>3, <1>4 DEF Byte!isValid

(* makeValid's store makes the byte valid and keeps v1: the life the node is  *)
(* in does not change.                                                       *)
LEMMA MakeValidKeepsV1 ==
  ASSUME NEW m \in Byte!Bytes
  PROVE  /\ Byte!withV2(m) \in Byte!Bytes
         /\ Byte!isValid(Byte!withV2(m))
         /\ Byte!V1(Byte!withV2(m)) = Byte!V1(m)
<1>1. Byte!withV2(m) \in Byte!Bytes
  BY SMTT(30) DEF Byte!withV2, Byte!V1, Byte!V2, Byte!HIGH_CHAR_MASK, Byte!Bytes
<1>2. Byte!V1(Byte!withV2(m)) = Byte!V1(m)
  BY SMTT(30) DEF Byte!withV2, Byte!V1, Byte!V2, Byte!HIGH_CHAR_MASK, Byte!Bytes
<1>3. Byte!V2(Byte!withV2(m)) = Byte!V1(m)
  BY SMTT(30) DEF Byte!withV2, Byte!V1, Byte!V2, Byte!HIGH_CHAR_MASK, Byte!Bytes
<1> QED
  BY <1>1, <1>2, <1>3 DEF Byte!isValid

ByteInv == Byte!TypeOK /\ Byte!LoadsAreCurrent

(* The mark of a thread outside makeValid is not a byte it may have loaded. *)
LEMMA OutsideIsNoByte == Byte!Outside \notin Byte!Bytes
BY DEF Byte!Outside, Byte!Bytes

(* The inductive step, one case per action. *)
LEMMA ByteInvInductive == ByteInv /\ [Byte!Next]_(Byte!vars) => ByteInv'
<1> SUFFICES ASSUME ByteInv, [Byte!Next]_(Byte!vars)
             PROVE  ByteInv'
  OBVIOUS
<1> USE OutsideIsNoByte DEF ByteInv, Byte!TypeOK
<1>1. ASSUME NEW t \in Threads, Byte!MakeValidLoad(t)
      PROVE  ByteInv'
  BY <1>1 DEF Byte!MakeValidLoad, Byte!LoadsAreCurrent
<1>2. ASSUME NEW t \in Threads, Byte!MakeValidStore(t)
      PROVE  ByteInv'
  <2>1. oldMetaData[t] \in Byte!Bytes
    BY <1>2 DEF Byte!MakeValidStore
  <2>2. CASE Byte!isValid(oldMetaData[t])
    BY <1>2, <2>2 DEF Byte!MakeValidStore, Byte!LoadsAreCurrent
  <2>3. CASE ~Byte!isValid(oldMetaData[t])
    <3>1. metaData' = Byte!withV2(oldMetaData[t])
      BY <1>2, <2>3 DEF Byte!MakeValidStore
    <3>2. metaData' \in Byte!Bytes /\ Byte!isValid(metaData') /\ Byte!V1(metaData') = Byte!V1(metaData)
      BY <2>1, <3>1, <1>2, MakeValidKeepsV1 DEF Byte!MakeValidStore, Byte!LoadsAreCurrent
    <3> QED
      BY <1>2, <3>2 DEF Byte!MakeValidStore, Byte!LoadsAreCurrent
  <2> QED
    BY <2>2, <2>3
<1>3. CASE Byte!FlipV1
  BY <1>3, FlipTogglesValidity DEF Byte!FlipV1, Byte!LoadsAreCurrent
<1>4. CASE UNCHANGED Byte!vars
  BY <1>4 DEF Byte!vars, Byte!LoadsAreCurrent
<1> QED
  BY <1>1, <1>2, <1>3, <1>4 DEF Byte!Next

(* A thread inside makeValid works on the byte of the node's present life.   *)
THEOREM LoadsStayCurrent == Byte!Spec => []Byte!LoadsAreCurrent
<1>1. Byte!Init => ByteInv
  BY DEF Byte!Init, ByteInv, Byte!TypeOK, Byte!LoadsAreCurrent, Byte!Bytes, Byte!Outside
<1> QED
  BY <1>1, ByteInvInductive, PTL DEF Byte!Spec, ByteInv

(* However many threads race in it, a makeValid that returns leaves the node *)
(* valid: the step that MakeValid takes it for.                 *)
THEOREM MakeValidIsOneStep == Byte!Spec => Byte!MakeValidMakesValid
<1>1. Byte!Init => ByteInv
  BY DEF Byte!Init, ByteInv, Byte!TypeOK, Byte!LoadsAreCurrent, Byte!Bytes, Byte!Outside
<1>2. ByteInv /\ [Byte!Next]_(Byte!vars) =>
        [\A t \in Threads : oldMetaData[t] # Byte!Outside /\ oldMetaData'[t] = Byte!Outside =>
           Byte!isValid(metaData')]_(Byte!vars)
  <2> SUFFICES ASSUME ByteInv, Byte!Next,
                      NEW t \in Threads, oldMetaData[t] # Byte!Outside, oldMetaData'[t] = Byte!Outside
               PROVE  Byte!isValid(metaData')
    BY DEF Byte!vars
  <2> USE OutsideIsNoByte DEF ByteInv, Byte!TypeOK
  <2>1. oldMetaData[t] \in Byte!Bytes
    OBVIOUS
  <2>2. Byte!MakeValidStore(t)
    BY DEF Byte!Next, Byte!MakeValidLoad, Byte!MakeValidStore, Byte!FlipV1
  <2> QED
    BY <2>1, <2>2, MakeValidKeepsV1 DEF Byte!MakeValidStore, Byte!LoadsAreCurrent
<1> QED
  BY <1>1, <1>2, ByteInvInductive, PTL DEF Byte!Spec, Byte!MakeValidMakesValid
=============================================================================
