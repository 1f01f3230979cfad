--------------------------- MODULE SOFTListProofs ---------------------------
(***************************************************************************)
(* The proof that IInv (SOFTListInv) is an invariant of SOFTList, and what *)
(* follows for the list of volatile nodes, for any numbers of threads,     *)
(* keys, nodes and crashes, and under both rules of reuse. Then the proofs *)
(* for AInv and PInv, and what follows for the PNodes: whose they are, and *)
(* what a crash would find of them at any moment. Last, LInv and durable   *)
(* linearizability.                                                        *)
(***************************************************************************)
EXTENDS SOFTListInv, Recursion, TLAPS

-----------------------------------------------------------------------------
(* What a thread may conclude about a node it holds. *)

(* A held node is a node, and no insert's private one. *)
LEMMA HeldIsNode ==
  ASSUME TypeOK, RetiredIsClosed, NEW u \in Threads, NEW n, MayHold(u, n)
  PROVE  /\ n \in AllNodes
         /\ n \in Nodes => heap[n] \in {"linked", "unlinked"}
BY NodesAssumption DEF MayHold, Linked, AllNodes, RetiredIsClosed

(* Following a link from a held node leads to one that may be held. *)
LEMMA FollowLink ==
  ASSUME TypeOK, ListIsSorted, RetiredIsClosed,
         NEW u \in Threads, NEW n, MayHold(u, n), n # Tail
  PROVE  MayHold(u, next[n])
BY NodesAssumption DEF MayHold, Linked, AllNodes, RetiredIsClosed, ListIsSorted

(* A held node that is not deleted is on the list. *)
LEMMA NotDeletedIsLinked ==
  ASSUME TypeOK, RetiredIsClosed, NEW u \in Threads, NEW n, MayHold(u, n),
         n # Tail, state[n] # DELETED
  PROVE  n \in Linked
BY NodesAssumption DEF MayHold, Linked, AllNodes, RetiredIsClosed

(* The call of a running operation has a key of its own. *)
LEMMA CallHasKey ==
  ASSUME TypeOK, NEW t \in Threads, pc[t] # "idle"
  PROVE  /\ call[t].arg \in Keys
         /\ call[t].op \in {"insert", "remove", "contains"}
         /\ call[t].arg \in Int /\ MinKey < call[t].arg /\ call[t].arg < MaxKey
BY KeysAssumption DEF TypeOK, DS!Calls, DS!Operations

(* What a running thread holds, and what it will hold if it goes on. *)
LEMMA Holding ==
  ASSUME IInv, NEW t \in Threads, pc[t] # "idle"
  PROVE  /\ MayHold(t, pred[t]) /\ MayHold(t, curr[t])
         /\ pred[t] \in AllNodes /\ curr[t] \in AllNodes
         /\ curr[t] # Tail => MayHold(t, next[curr[t]]) /\ next[curr[t]] \in AllNodes
         /\ key[curr[t]] \in Int /\ key[pred[t]] \in Int
         /\ phase = "running"
<1>1. MayHold(t, pred[t]) /\ MayHold(t, curr[t])
  BY DEF IInv, ThreadInv, HoldsWhatItMay
<1>2. pred[t] \in AllNodes /\ curr[t] \in AllNodes
  BY <1>1, HeldIsNode DEF IInv
<1>3. curr[t] # Tail => MayHold(t, next[curr[t]])
  BY <1>1, FollowLink DEF IInv
<1>4. curr[t] # Tail => next[curr[t]] \in AllNodes
  BY <1>3, HeldIsNode DEF IInv
<1>5. phase = "running"
  BY DEF IInv, RecoveryIsAlone, TypeOK
<1> QED
  BY <1>1, <1>2, <1>3, <1>4, <1>5 DEF IInv, TypeOK

(* A node whose key is that of a call is no sentinel. *)
LEMMA KeyedIsNode ==
  ASSUME IInv, NEW t \in Threads, pc[t] # "idle", NEW n \in AllNodes, key[n] = call[t].arg
  PROVE  n \in Nodes
BY CallHasKey, KeysAssumption DEF IInv, SentinelsAreFixed, AllNodes

(* The node that create, destroy and stateCAS work on. *)
LEMMA TargetIsHeld ==
  ASSUME IInv, NEW t \in Threads, pc[t] \in Publishing \union Removing
  PROVE  /\ Target(t) \in Nodes /\ MayHold(t, Target(t))
         /\ pc[t] \in Removing => Target(t) = curr[t] /\ newNode[t] = Nil
         /\ newNode[t] = Nil => Target(t) = curr[t]
<1>0. pc[t] # "idle"
  BY DEF Publishing, Removing
<1>1. CASE newNode[t] # Nil
  <2>1. pc[t] \in Publishing /\ newNode[t] \in Nodes /\ MayHold(t, newNode[t])
    BY <1>0, <1>1 DEF IInv, ThreadInv, NewNodeIsPrivate, HoldsWhatItMay, TypeOK, Publishing, Removing,
                      Private
  <2> QED
    BY <1>1, <2>1 DEF Target, Publishing, Removing
<1>2. CASE newNode[t] = Nil
  <2>1. key[curr[t]] = call[t].arg
    BY <1>0, <1>2 DEF IInv, ThreadInv, SearchIsRight
  <2>2. curr[t] \in Nodes
    BY <1>0, <2>1, Holding, KeyedIsNode
  <2> QED
    BY <1>0, <1>2, <2>2, Holding DEF Target
<1> QED
  BY <1>1, <1>2

(* Tail is on the far side of every linked node. *)
LEMMA LinkedIsNode ==
  ASSUME IInv, NEW n \in Linked
  PROVE  /\ n \in AllNodes /\ n # Tail /\ key[n] \in Int
         /\ next[n] \in AllNodes /\ key[next[n]] \in Int
         /\ n # Head => n \in Nodes /\ heap[n] = "linked"
<1>1. n \in AllNodes /\ n # Tail /\ (n # Head => n \in Nodes /\ heap[n] = "linked")
  BY NodesAssumption DEF Linked, AllNodes
<1>2. next[n] \in AllNodes
  BY <1>1, NodesAssumption DEF IInv, ListIsSorted, Linked, AllNodes
<1> QED
  BY <1>1, <1>2 DEF IInv, TypeOK

(* The predecessor that a compare-and-swap finds as it was is on the list.   *)
LEMMA PredIsLinked ==
  ASSUME IInv, NEW t \in Threads, pc[t] # "idle", Expects(pred[t], curr[t], predState[t])
  PROVE  /\ pred[t] \in Linked /\ pred[t] # Tail
         /\ key[pred[t]] < call[t].arg
         /\ next[pred[t]] = curr[t] /\ state[pred[t]] = predState[t]
         /\ curr[t] \in Linked \union {Tail}
<1>1. MayHold(t, pred[t]) /\ key[pred[t]] < call[t].arg /\ predState[t] # DELETED
  BY DEF IInv, ThreadInv, HoldsWhatItMay, SearchIsRight
<1>2. pred[t] # Tail
  BY <1>1, Holding, CallHasKey, KeysAssumption DEF IInv, SentinelsAreFixed
<1>3. pred[t] \in Linked
  BY <1>1, <1>2, NotDeletedIsLinked DEF IInv, Expects
<1> QED
  BY <1>1, <1>2, <1>3 DEF Expects, IInv, ListIsSorted

(* A node that nobody waits for is held by nobody unless it is on the list.  *)
LEMMA OwnedIsNotHeld ==
  ASSUME IInv, NEW n \in Nodes, heap[n] \in {"owned", "free"}
  PROVE  /\ n \notin Linked
         /\ \A u \in Threads : ~MayHold(u, n)
         /\ waits[n] = {}
BY NodesAssumption DEF IInv, TypeOK, MayHold, Linked, RetiredIsClosed

(* What an insert may assume of the node it owns. *)
LEMMA OwnNode ==
  ASSUME IInv, NEW t \in Threads, pc[t] \in Private
  PROVE  /\ newNode[t] \in Nodes /\ heap[newNode[t]] = "owned" /\ waits[newNode[t]] = {}
         /\ newNode[t] \notin Linked /\ newNode[t] # curr[t] /\ newNode[t] # pred[t]
         /\ next[newNode[t]] = curr[t] /\ state[newNode[t]] = INTEND_TO_INSERT
         /\ key[newNode[t]] = call[t].arg
         /\ \A u \in Threads \ {t} :
              /\ pc[u] \in Private => newNode[u] # newNode[t]
              /\ pc[u] = "free" => curr[u] # newNode[t]
<1>1. /\ pc[t] # "idle" /\ newNode[t] \in Nodes /\ heap[newNode[t]] = "owned"
      /\ next[newNode[t]] = curr[t] /\ state[newNode[t]] = INTEND_TO_INSERT
      /\ key[newNode[t]] = call[t].arg
  BY NodesAssumption DEF IInv, ThreadInv, NewNodeIsPrivate, Private, AllNodes
<1>2. newNode[t] # curr[t] /\ newNode[t] # pred[t]
  BY <1>1, Holding, OwnedIsNotHeld
<1>3. \A u \in Threads \ {t} :
        /\ pc[u] \in Private => newNode[u] # newNode[t]
        /\ pc[u] = "free" => curr[u] # newNode[t]
  BY <1>1 DEF IInv, ThreadsAreApart, ThreadInv, StateIsKnown
<1> QED
  BY <1>1, <1>2, <1>3, OwnedIsNotHeld

-----------------------------------------------------------------------------
(* What another thread knows survives a step that takes nothing from it.     *)

Advances(s, r) ==
  \/ r = s
  \/ s = INTEND_TO_INSERT /\ r = INSERTED
  \/ s = INSERTED /\ r = INTEND_TO_DELETE
  \/ s = INTEND_TO_DELETE /\ r = DELETED

SameLocals(u) ==
  /\ pc'[u] = pc[u] /\ call'[u] = call[u] /\ pred'[u] = pred[u] /\ predState'[u] = predState[u]
  /\ curr'[u] = curr[u] /\ newNode'[u] = newNode[u]

NodeKept(n) == heap'[n] = heap[n] /\ key'[n] = key[n] /\ next'[n] = next[n] /\ state'[n] = state[n]

(* A thread that a step does not move keeps what it knows, if its nodes stay. *)
LEMMA OthersKeep ==
  ASSUME NEW u \in Threads, ThreadInv(u), SameLocals(u),
         pc[u] # "idle" => \A n : MayHold(u, n) =>
           MayHold(u, n)' /\ key'[n] = key[n] /\ Advances(state[n], state'[n]),
         pc[u] \in Private => NodeKept(newNode[u]),
         pc[u] = "free" => heap'[curr[u]] = heap[curr[u]]
  PROVE  ThreadInv(u)'
<1> USE DEF SameLocals
<1>1. CASE pc[u] = "idle"
  BY <1>1 DEF ThreadInv
<1>2. CASE pc[u] # "idle"
  <2> USE <1>2 DEF ThreadInv
  <2>1. HoldsWhatItMay(u)'
    BY DEF HoldsWhatItMay
  <2>2. NewNodeIsPrivate(u)'
    BY DEF NewNodeIsPrivate, NodeKept
  <2>3. SearchIsRight(u)'
    BY DEF SearchIsRight, HoldsWhatItMay
  <2>4. StateIsKnown(u)'
    BY DEF StateIsKnown, HoldsWhatItMay, Advances, INSERTED, INTEND_TO_DELETE, INTEND_TO_INSERT, DELETED
  <2> QED
    BY <2>1, <2>2, <2>3, <2>4
<1> QED
  BY <1>1, <1>2

-----------------------------------------------------------------------------
(* Steps that move one thread, and at most one node to its next state.       *)

Moves(t) ==
  /\ UNCHANGED <<key, next, heap, phase, todo>>
  /\ phase = "running"
  /\ \A n \in Nodes : waits'[n] = waits[n]
  /\ \A n \in AllNodes : Advances(state[n], state'[n])
  /\ \A n \in AllNodes : state'[n] # state[n] => n \in Nodes /\ heap[n] = "linked"
  /\ pc'[t] # "idle" /\ pc'[t] # "free"
  /\ pc'[t] \in Private => pc[t] \in Private /\ newNode'[t] = newNode[t]
  /\ \A u \in Threads \ {t} : SameLocals(u)

(* A step that moves one thread only is settled by what that thread knows. *)
LEMMA MovesKeep ==
  ASSUME IInv, NEW t \in Threads, Moves(t), TypeOK', ThreadInv(t)'
  PROVE  IInv'
<1> USE DEF IInv, Moves
<1>1. Linked' = Linked
  BY DEF Linked
<1>2. ListIsSorted'
  BY <1>1 DEF ListIsSorted
<1>3. SentinelsAreFixed'
  BY NodesAssumption DEF SentinelsAreFixed, AllNodes
<1>4. \A u : \A n : MayHold(u, n)' <=> MayHold(u, n)
  BY <1>1 DEF MayHold
<1>5. RetiredIsClosed'
  <2> SUFFICES ASSUME NEW n \in Nodes, NEW u \in waits[n]
               PROVE  /\ heap[n] = "unlinked" /\ state'[n] = DELETED
                      /\ pc'[u] # "idle" /\ MayHold(u, next[n])'
    BY DEF RetiredIsClosed
  <2>1. u \in Threads /\ heap[n] = "unlinked" /\ state[n] = DELETED /\ pc[u] # "idle" /\ MayHold(u, next[n])
    BY DEF RetiredIsClosed, TypeOK
  <2>2. state'[n] = state[n]
    BY <2>1 DEF AllNodes
  <2> QED
    BY <1>4, <2>1, <2>2 DEF SameLocals
<1>6. ASSUME NEW u \in Threads
      PROVE  ThreadInv(u)'
  <2>1. CASE u = t
    BY <2>1
  <2>2. CASE u # t
    <3>1. pc[u] # "idle" => \A n : MayHold(u, n) =>
            MayHold(u, n)' /\ key'[n] = key[n] /\ Advances(state[n], state'[n])
      BY <1>4, HeldIsNode
    <3>2. pc[u] \in Private => NodeKept(newNode[u])
      BY OwnNode DEF NodeKept, AllNodes
    <3> QED
      BY <2>2, <3>1, <3>2, OthersKeep
  <2> QED
    BY <2>1, <2>2
<1>7. ThreadsAreApart'
  BY DEF ThreadsAreApart, SameLocals
<1>8. RecoveryIsAlone'
  BY DEF RecoveryIsAlone
<1> QED
  BY <1>2, <1>3, <1>5, <1>6, <1>7, <1>8

-----------------------------------------------------------------------------
(* Steps that move one thread only. *)

Lines == [validStart : BOOLEAN, validEnd : BOOLEAN, deleted : BOOLEAN, key : Int]

(* A PNode in memory is a line that NVM may hold. *)
LEMMA LineType ==
  ASSUME TypeOK, NEW p \in PNodes
  PROVE  Line(p) \in Lines
BY DEF TypeOK, Line, Lines

(* find goes past a node with a smaller key: the node becomes the predecessor. *)
LEMMA FindPassInv ==
  ASSUME IInv, NEW t \in Threads, FindPass(t)
  PROVE  IInv'
<1> USE DEF IInv
<1>1. pc[t] # "idle" /\ phase = "running"
  BY Holding DEF FindPass
<1>2. /\ MayHold(t, pred[t]) /\ MayHold(t, curr[t]) /\ curr[t] \in AllNodes
      /\ curr[t] # Tail /\ MayHold(t, next[curr[t]]) /\ next[curr[t]] \in AllNodes
      /\ key[curr[t]] \in Int /\ call[t].arg \in Int
  <2>1. curr[t] # Tail
    BY <1>1, Holding, CallHasKey DEF FindPass, SentinelsAreFixed
  <2> QED
    BY <1>1, <2>1, Holding, CallHasKey
<1>3. Moves(t)
  BY <1>1 DEF FindPass, Moves, Advances, SameLocals, Goto, Private, TypeOK, volatile, memory, search, recovering
<1>4. TypeOK'
  BY <1>1, <1>2 DEF FindPass, TypeOK, Labels, Goto, volatile, persistent, memory, search, recovering
<1>5. ThreadInv(t)'
  BY <1>1, <1>2
  DEF FindPass, Goto, TypeOK, ThreadInv, HoldsWhatItMay, NewNodeIsPrivate, SearchIsRight, StateIsKnown,
      MayHold, Linked, Private, Publishing, Removing, volatile, memory, search, recovering
<1> QED
  BY <1>3, <1>4, <1>5, MovesKeep

(* find meets a deleted node, to be trimmed. *)
LEMMA FindDeletedInv ==
  ASSUME IInv, NEW t \in Threads, FindDeleted(t)
  PROVE  IInv'
<1> USE DEF IInv
<1>1. pc[t] # "idle" /\ phase = "running"
  BY Holding DEF FindDeleted
<1>2. /\ MayHold(t, pred[t]) /\ MayHold(t, curr[t]) /\ curr[t] \in AllNodes
      /\ curr[t] # Tail => MayHold(t, next[curr[t]]) /\ next[curr[t]] \in AllNodes
      /\ curr[t] \in Nodes /\ call[t].arg \in Int
  <2>1. curr[t] \in Nodes
    BY <1>1, Holding DEF FindDeleted, SentinelsAreFixed, AllNodes, INSERTED, DELETED
  <2> QED
    BY <1>1, <2>1, Holding, CallHasKey
<1>3. Moves(t)
  BY <1>1 DEF FindDeleted, Moves, Advances, SameLocals, Goto, Private, TypeOK, volatile, memory, search, recovering
<1>4. TypeOK'
  BY <1>1, <1>2 DEF FindDeleted, TypeOK, Labels, Goto, volatile, persistent, memory, search, recovering
<1>5. ThreadInv(t)'
  BY <1>1, <1>2
  DEF FindDeleted, Goto, TypeOK, ThreadInv, HoldsWhatItMay, NewNodeIsPrivate, SearchIsRight, StateIsKnown,
      MayHold, Linked, Private, Publishing, Removing, volatile, memory, search, recovering
<1> QED
  BY <1>3, <1>4, <1>5, MovesKeep

(* insert finds an insertion of its key under way, and helps it. *)
LEMMA InsertHelpsInv ==
  ASSUME IInv, NEW t \in Threads, InsertHelps(t)
  PROVE  IInv'
<1> USE DEF IInv
<1>1. pc[t] # "idle" /\ phase = "running"
  BY Holding DEF InsertHelps, FindStops, Found
<1>2. /\ MayHold(t, pred[t]) /\ MayHold(t, curr[t]) /\ curr[t] \in AllNodes
      /\ curr[t] # Tail => MayHold(t, next[curr[t]]) /\ next[curr[t]] \in AllNodes
      /\ key[curr[t]] \in Int /\ call[t].arg \in Int
  BY <1>1, Holding, CallHasKey
<1>3. Moves(t)
  BY <1>1 DEF InsertHelps, FindStops, Found, Moves, Advances, SameLocals, Goto, Private, TypeOK, volatile, memory, search, recovering
<1>4. TypeOK'
  BY <1>1, <1>2 DEF InsertHelps, FindStops, Found, TypeOK, Labels, Goto, volatile, persistent, memory, search, recovering
<1>5. ThreadInv(t)'
  BY <1>1, <1>2
  DEF InsertHelps, FindStops, Found, Goto, TypeOK, ThreadInv, HoldsWhatItMay, NewNodeIsPrivate, SearchIsRight, StateIsKnown,
      MayHold, Linked, Private, Publishing, Removing, volatile, memory, search, recovering
<1> QED
  BY <1>3, <1>4, <1>5, MovesKeep

(* find stops after the place of a key to insert. *)
LEMMA InsertMissInv ==
  ASSUME IInv, NEW t \in Threads, InsertMiss(t)
  PROVE  IInv'
<1> USE DEF IInv
<1>1. pc[t] # "idle" /\ phase = "running"
  BY Holding DEF InsertMiss, FindStops, Found
<1>2. /\ MayHold(t, pred[t]) /\ MayHold(t, curr[t]) /\ curr[t] \in AllNodes
      /\ curr[t] # Tail => MayHold(t, next[curr[t]]) /\ next[curr[t]] \in AllNodes
      /\ key[curr[t]] \in Int /\ call[t].arg \in Int
  BY <1>1, Holding, CallHasKey
<1>6. call[t].arg < key[curr[t]]
  <2>1. key[curr[t]] >= call[t].arg /\ key[curr[t]] # call[t].arg
    BY DEF InsertMiss, FindStops, Found
  <2> QED
    BY <1>2, <2>1
<1>3. Moves(t)
  BY <1>1 DEF InsertMiss, FindStops, Found, Moves, Advances, SameLocals, Goto, Private, TypeOK, volatile, memory, search, recovering
<1>4. TypeOK'
  BY <1>1, <1>2, <1>6 DEF InsertMiss, FindStops, Found, TypeOK, Labels, Goto, volatile, persistent, memory, search, recovering
<1>5. ThreadInv(t)'
  BY <1>1, <1>2, <1>6
  DEF InsertMiss, FindStops, Found, Goto, TypeOK, ThreadInv, HoldsWhatItMay, NewNodeIsPrivate, SearchIsRight, StateIsKnown,
      MayHold, Linked, Private, Publishing, Removing, volatile, memory, search, recovering
<1> QED
  BY <1>3, <1>4, <1>5, MovesKeep

(* remove finds its key. *)
LEMMA RemoveFoundInv ==
  ASSUME IInv, NEW t \in Threads, RemoveFound(t)
  PROVE  IInv'
<1> USE DEF IInv
<1>1. pc[t] # "idle" /\ phase = "running"
  BY Holding DEF RemoveFound, FindStops, Found
<1>2. /\ MayHold(t, pred[t]) /\ MayHold(t, curr[t]) /\ curr[t] \in AllNodes
      /\ curr[t] # Tail => MayHold(t, next[curr[t]]) /\ next[curr[t]] \in AllNodes
      /\ key[curr[t]] \in Int /\ call[t].arg \in Int
  BY <1>1, Holding, CallHasKey
<1>3. Moves(t)
  BY <1>1 DEF RemoveFound, FindStops, Found, Moves, Advances, SameLocals, Goto, Private, TypeOK, volatile, memory, search, recovering
<1>4. TypeOK'
  BY <1>1, <1>2 DEF RemoveFound, FindStops, Found, TypeOK, Labels, Goto, volatile, persistent, memory, search, recovering
<1>5. ThreadInv(t)'
  BY <1>1, <1>2
  DEF RemoveFound, FindStops, Found, Goto, TypeOK, ThreadInv, HoldsWhatItMay, NewNodeIsPrivate, SearchIsRight, StateIsKnown,
      MayHold, Linked, Private, Publishing, Removing, volatile, memory, search, recovering
<1> QED
  BY <1>3, <1>4, <1>5, MovesKeep

(* contains goes on to the next node. *)
LEMMA ContainsStepInv ==
  ASSUME IInv, NEW t \in Threads, ContainsStep(t)
  PROVE  IInv'
<1> USE DEF IInv
<1>1. pc[t] # "idle" /\ phase = "running"
  BY Holding DEF ContainsStep
<1>2. /\ MayHold(t, pred[t]) /\ MayHold(t, curr[t]) /\ curr[t] \in AllNodes
      /\ curr[t] # Tail /\ MayHold(t, next[curr[t]]) /\ next[curr[t]] \in AllNodes
      /\ key[curr[t]] \in Int /\ call[t].arg \in Int
  <2>1. curr[t] # Tail
    BY <1>1, Holding, CallHasKey DEF ContainsStep, SentinelsAreFixed
  <2> QED
    BY <1>1, <2>1, Holding, CallHasKey
<1>3. Moves(t)
  BY <1>1 DEF ContainsStep, Moves, Advances, SameLocals, Goto, Private, TypeOK, volatile, memory, search, recovering
<1>4. TypeOK'
  BY <1>1, <1>2 DEF ContainsStep, TypeOK, Labels, Goto, volatile, persistent, memory, search, recovering
<1>5. ThreadInv(t)'
  BY <1>1, <1>2
  DEF ContainsStep, Goto, TypeOK, ThreadInv, HoldsWhatItMay, NewNodeIsPrivate, SearchIsRight, StateIsKnown,
      MayHold, Linked, Private, Publishing, Removing, volatile, memory, search, recovering
<1> QED
  BY <1>3, <1>4, <1>5, MovesKeep

(* create stores validStart. *)
LEMMA CreateStartInv ==
  ASSUME IInv, NEW t \in Threads, CreateStart(t)
  PROVE  IInv'
<1> USE DEF IInv
<1>1. pc[t] # "idle" /\ phase = "running"
  BY Holding DEF CreateStart
<1>2. /\ Target(t) \in Nodes /\ MayHold(t, Target(t))
      /\ MayHold(t, pred[t]) /\ MayHold(t, curr[t])
      /\ pc[t] \in Removing => Target(t) = curr[t] /\ newNode[t] = Nil
  BY <1>1, TargetIsHeld, Holding DEF CreateStart, Publishing, Removing
<1>3. Moves(t)
  BY <1>1 DEF CreateStart, Moves, Advances, SameLocals, Goto, Private, TypeOK, volatile, memory, search, recovering
<1>4. TypeOK'
  BY <1>1, <1>2 DEF CreateStart, TypeOK, Labels, Goto, volatile, persistent, memory, search, recovering
<1>5. ThreadInv(t)'
  BY <1>1, <1>2
  DEF CreateStart, Goto, TypeOK, ThreadInv, HoldsWhatItMay, NewNodeIsPrivate, SearchIsRight, StateIsKnown,
      MayHold, Linked, Private, Publishing, Removing, volatile, memory, search, recovering
<1> QED
  BY <1>3, <1>4, <1>5, MovesKeep

(* create stores key, value and validEnd. *)
LEMMA CreateEndInv ==
  ASSUME IInv, NEW t \in Threads, CreateEnd(t)
  PROVE  IInv'
<1> USE DEF IInv
<1>1. pc[t] # "idle" /\ phase = "running"
  BY Holding DEF CreateEnd
<1>2. /\ Target(t) \in Nodes /\ MayHold(t, Target(t))
      /\ MayHold(t, pred[t]) /\ MayHold(t, curr[t])
      /\ pc[t] \in Removing => Target(t) = curr[t] /\ newNode[t] = Nil
  BY <1>1, TargetIsHeld, Holding DEF CreateEnd, Publishing, Removing
<1>3. Moves(t)
  BY <1>1 DEF CreateEnd, Moves, Advances, SameLocals, Goto, Private, TypeOK, volatile, memory, search, recovering
<1>4. TypeOK'
  BY <1>1, <1>2 DEF CreateEnd, TypeOK, Labels, Goto, volatile, persistent, memory, search, recovering, AllNodes
<1>5. ThreadInv(t)'
  BY <1>1, <1>2
  DEF CreateEnd, Goto, TypeOK, ThreadInv, HoldsWhatItMay, NewNodeIsPrivate, SearchIsRight, StateIsKnown,
      MayHold, Linked, Private, Publishing, Removing, volatile, memory, search, recovering
<1> QED
  BY <1>3, <1>4, <1>5, MovesKeep

(* create flushes the PNode. *)
LEMMA FlushCreateInv ==
  ASSUME IInv, NEW t \in Threads, FlushCreate(t)
  PROVE  IInv'
<1> USE DEF IInv
<1>1. pc[t] # "idle" /\ phase = "running"
  BY Holding DEF FlushCreate, BARRIER
<1>2. /\ Target(t) \in Nodes /\ MayHold(t, Target(t))
      /\ MayHold(t, pred[t]) /\ MayHold(t, curr[t])
      /\ pc[t] \in Removing => Target(t) = curr[t] /\ newNode[t] = Nil
  BY <1>1, TargetIsHeld, Holding DEF FlushCreate, BARRIER, Publishing, Removing
<1>6. nvm' \in [PNodes -> Lines]
  <2>1. \A p \in PNodes : Line(p) \in Lines
    BY LineType
  <2>2. nvm \in [PNodes -> Lines]
    BY DEF TypeOK, Lines
  <2> QED
    BY <2>1, <2>2 DEF FlushCreate, BARRIER
<1>3. Moves(t)
  BY <1>1 DEF FlushCreate, BARRIER, Moves, Advances, SameLocals, Goto, Private, TypeOK, volatile, memory, search, recovering
<1>4. TypeOK'
  BY <1>1, <1>2, <1>6 DEF FlushCreate, TypeOK, Labels, Goto, volatile, persistent, memory, search, recovering, Lines
<1>5. ThreadInv(t)'
  BY <1>1, <1>2, <1>6
  DEF FlushCreate, BARRIER, Goto, TypeOK, ThreadInv, HoldsWhatItMay, NewNodeIsPrivate, SearchIsRight, StateIsKnown,
      MayHold, Linked, Private, Publishing, Removing, volatile, memory, search, recovering
<1> QED
  BY <1>3, <1>4, <1>5, MovesKeep

(* The loop that makes a node INSERTED reads its state and link. *)
LEMMA PublishInv ==
  ASSUME IInv, NEW t \in Threads, Publish(t)
  PROVE  IInv'
<1> USE DEF IInv
<1>1. pc[t] # "idle" /\ phase = "running"
  BY Holding DEF Publish, LoadForCAS
<1>2. /\ Target(t) \in Nodes /\ MayHold(t, Target(t))
      /\ MayHold(t, pred[t]) /\ MayHold(t, curr[t])
      /\ pc[t] \in Removing => Target(t) = curr[t] /\ newNode[t] = Nil
  BY <1>1, TargetIsHeld, Holding DEF Publish, LoadForCAS, Publishing, Removing
<1>3. Moves(t)
  BY <1>1 DEF Publish, LoadForCAS, Moves, Advances, SameLocals, Goto, Private, TypeOK, volatile, memory, search, recovering
<1>4. TypeOK'
  BY <1>1, <1>2 DEF Publish, LoadForCAS, TypeOK, Labels, Goto, volatile, persistent, memory, search, recovering, AllNodes
<1>5. ThreadInv(t)'
  BY <1>1, <1>2
  DEF Publish, LoadForCAS, Goto, TypeOK, ThreadInv, HoldsWhatItMay, NewNodeIsPrivate, SearchIsRight, StateIsKnown,
      MayHold, Linked, Private, Publishing, Removing, volatile, memory, search, recovering
<1> QED
  BY <1>3, <1>4, <1>5, MovesKeep

(* The loop that claims a node reads its state and link. *)
LEMMA ClaimInv ==
  ASSUME IInv, NEW t \in Threads, Claim(t)
  PROVE  IInv'
<1> USE DEF IInv
<1>1. pc[t] # "idle" /\ phase = "running"
  BY Holding DEF Claim, LoadForCAS
<1>2. /\ Target(t) \in Nodes /\ MayHold(t, Target(t))
      /\ MayHold(t, pred[t]) /\ MayHold(t, curr[t])
      /\ pc[t] \in Removing => Target(t) = curr[t] /\ newNode[t] = Nil
  BY <1>1, TargetIsHeld, Holding DEF Claim, LoadForCAS, Publishing, Removing
<1>3. Moves(t)
  BY <1>1 DEF Claim, LoadForCAS, Moves, Advances, SameLocals, Goto, Private, TypeOK, volatile, memory, search, recovering
<1>4. TypeOK'
  BY <1>1, <1>2 DEF Claim, LoadForCAS, TypeOK, Labels, Goto, volatile, persistent, memory, search, recovering, AllNodes
<1>5. ThreadInv(t)'
  BY <1>1, <1>2
  DEF Claim, LoadForCAS, Goto, TypeOK, ThreadInv, HoldsWhatItMay, NewNodeIsPrivate, SearchIsRight, StateIsKnown,
      MayHold, Linked, Private, Publishing, Removing, volatile, memory, search, recovering
<1> QED
  BY <1>3, <1>4, <1>5, MovesKeep

(* The node has been claimed, by this thread or another. *)
LEMMA ClaimedInv ==
  ASSUME IInv, NEW t \in Threads, Claimed(t)
  PROVE  IInv'
<1> USE DEF IInv
<1>1. pc[t] # "idle" /\ phase = "running"
  BY Holding DEF Claimed
<1>2. /\ Target(t) \in Nodes /\ MayHold(t, Target(t))
      /\ MayHold(t, pred[t]) /\ MayHold(t, curr[t])
      /\ pc[t] \in Removing => Target(t) = curr[t] /\ newNode[t] = Nil
  BY <1>1, TargetIsHeld, Holding DEF Claimed, Publishing, Removing
<1>3. Moves(t)
  BY <1>1 DEF Claimed, Moves, Advances, SameLocals, Goto, Private, TypeOK, volatile, memory, search, recovering
<1>4. TypeOK'
  BY <1>1, <1>2 DEF Claimed, TypeOK, Labels, Goto, volatile, persistent, memory, search, recovering
<1>5. ThreadInv(t)'
  BY <1>1, <1>2
  DEF Claimed, Goto, TypeOK, ThreadInv, HoldsWhatItMay, NewNodeIsPrivate, SearchIsRight, StateIsKnown,
      MayHold, Linked, Private, Publishing, Removing, volatile, memory, search, recovering
<1> QED
  BY <1>3, <1>4, <1>5, MovesKeep

(* destroy stores deleted. *)
LEMMA DestroyInv ==
  ASSUME IInv, NEW t \in Threads, Destroy(t)
  PROVE  IInv'
<1> USE DEF IInv
<1>1. pc[t] # "idle" /\ phase = "running"
  BY Holding DEF Destroy
<1>2. /\ Target(t) \in Nodes /\ MayHold(t, Target(t))
      /\ MayHold(t, pred[t]) /\ MayHold(t, curr[t])
      /\ pc[t] \in Removing => Target(t) = curr[t] /\ newNode[t] = Nil
  BY <1>1, TargetIsHeld, Holding DEF Destroy, Publishing, Removing
<1>3. Moves(t)
  BY <1>1 DEF Destroy, Moves, Advances, SameLocals, Goto, Private, TypeOK, volatile, memory, search, recovering
<1>4. TypeOK'
  BY <1>1, <1>2 DEF Destroy, TypeOK, Labels, Goto, volatile, persistent, memory, search, recovering, Removing
<1>5. ThreadInv(t)'
  BY <1>1, <1>2
  DEF Destroy, Goto, TypeOK, ThreadInv, HoldsWhatItMay, NewNodeIsPrivate, SearchIsRight, StateIsKnown,
      MayHold, Linked, Private, Publishing, Removing, volatile, memory, search, recovering
<1> QED
  BY <1>3, <1>4, <1>5, MovesKeep

(* destroy flushes the PNode. *)
LEMMA FlushDestroyInv ==
  ASSUME IInv, NEW t \in Threads, FlushDestroy(t)
  PROVE  IInv'
<1> USE DEF IInv
<1>1. pc[t] # "idle" /\ phase = "running"
  BY Holding DEF FlushDestroy, BARRIER
<1>2. /\ Target(t) \in Nodes /\ MayHold(t, Target(t))
      /\ MayHold(t, pred[t]) /\ MayHold(t, curr[t])
      /\ pc[t] \in Removing => Target(t) = curr[t] /\ newNode[t] = Nil
  BY <1>1, TargetIsHeld, Holding DEF FlushDestroy, BARRIER, Publishing, Removing
<1>6. nvm' \in [PNodes -> Lines]
  <2>1. \A p \in PNodes : Line(p) \in Lines
    BY LineType
  <2>2. nvm \in [PNodes -> Lines]
    BY DEF TypeOK, Lines
  <2> QED
    BY <2>1, <2>2 DEF FlushDestroy, BARRIER
<1>3. Moves(t)
  BY <1>1 DEF FlushDestroy, BARRIER, Moves, Advances, SameLocals, Goto, Private, TypeOK, volatile, memory, search, recovering
<1>4. TypeOK'
  BY <1>1, <1>2, <1>6 DEF FlushDestroy, TypeOK, Labels, Goto, volatile, persistent, memory, search, recovering, Lines
<1>5. ThreadInv(t)'
  BY <1>1, <1>2, <1>6
  DEF FlushDestroy, BARRIER, Goto, TypeOK, ThreadInv, HoldsWhatItMay, NewNodeIsPrivate, SearchIsRight, StateIsKnown,
      MayHold, Linked, Private, Publishing, Removing, volatile, memory, search, recovering
<1> QED
  BY <1>3, <1>4, <1>5, MovesKeep

(* The loop that makes a node DELETED reads its state and link. *)
LEMMA BuryInv ==
  ASSUME IInv, NEW t \in Threads, Bury(t)
  PROVE  IInv'
<1> USE DEF IInv
<1>1. pc[t] # "idle" /\ phase = "running"
  BY Holding DEF Bury, LoadForCAS
<1>2. /\ Target(t) \in Nodes /\ MayHold(t, Target(t))
      /\ MayHold(t, pred[t]) /\ MayHold(t, curr[t])
      /\ pc[t] \in Removing => Target(t) = curr[t] /\ newNode[t] = Nil
  BY <1>1, TargetIsHeld, Holding DEF Bury, LoadForCAS, Publishing, Removing
<1>3. Moves(t)
  BY <1>1 DEF Bury, LoadForCAS, Moves, Advances, SameLocals, Goto, Private, TypeOK, volatile, memory, search, recovering
<1>4. TypeOK'
  BY <1>1, <1>2 DEF Bury, LoadForCAS, TypeOK, Labels, Goto, volatile, persistent, memory, search, recovering, AllNodes
<1>5. ThreadInv(t)'
  BY <1>1, <1>2
  DEF Bury, LoadForCAS, Goto, TypeOK, ThreadInv, HoldsWhatItMay, NewNodeIsPrivate, SearchIsRight, StateIsKnown,
      MayHold, Linked, Private, Publishing, Removing, volatile, memory, search, recovering
<1> QED
  BY <1>3, <1>4, <1>5, MovesKeep

(* The thread that claimed the node trims it. *)
LEMMA BuriedByThisInv ==
  ASSUME IInv, NEW t \in Threads, BuriedByThis(t)
  PROVE  IInv'
<1> USE DEF IInv
<1>1. pc[t] # "idle" /\ phase = "running"
  BY Holding DEF BuriedByThis
<1>2. /\ Target(t) \in Nodes /\ MayHold(t, Target(t))
      /\ MayHold(t, pred[t]) /\ MayHold(t, curr[t])
      /\ pc[t] \in Removing => Target(t) = curr[t] /\ newNode[t] = Nil
  BY <1>1, TargetIsHeld, Holding DEF BuriedByThis, Publishing, Removing
<1>6. state[curr[t]] = DELETED
  <2>1. curr[t] \in AllNodes /\ pc[t] \in Removing /\ pc[t] \notin {"claim", "claimCAS"}
    BY <1>1, Holding DEF BuriedByThis, Removing
  <2>2. state[curr[t]] \in States
    BY <2>1 DEF TypeOK
  <2>3. ThreadInv(t) /\ state[curr[t]] # INTEND_TO_DELETE
    BY DEF BuriedByThis
  <2>4. state[curr[t]] # INTEND_TO_INSERT /\ state[curr[t]] # INSERTED
    BY <1>1, <2>1, <2>3 DEF ThreadInv, StateIsKnown
  <2> QED
    BY <2>2, <2>3, <2>4 DEF States
<1>3. Moves(t)
  BY <1>1 DEF BuriedByThis, Moves, Advances, SameLocals, Goto, Private, TypeOK, volatile, memory, search, recovering
<1>4. TypeOK'
  BY <1>1, <1>2, <1>6 DEF BuriedByThis, TypeOK, Labels, Goto, volatile, persistent, memory, search, recovering
<1>5. ThreadInv(t)'
  BY SMTT(30), <1>1, <1>2, <1>6
  DEF BuriedByThis, Goto, TypeOK, ThreadInv, HoldsWhatItMay, NewNodeIsPrivate, SearchIsRight, StateIsKnown,
      MayHold, Linked, Private, Publishing, Removing, volatile, memory, search, recovering
<1> QED
  BY <1>3, <1>4, <1>5, MovesKeep

(* ssmem_free of a PNode touches no volatile node. *)
LEMMA FreeSparesNodes ==
  ASSUME TypeOK, NEW t \in Threads, NEW n \in Nodes, Free(t, pptr[n])
  PROVE  /\ \A m \in Nodes : waits'[m] = waits[m]
         /\ waits' \in [Nodes \union PNodes -> SUBSET Threads]
         /\ pheap' \in [PNodes -> {"free", "used"}]
<1>1. \A m \in Nodes : m # pptr[n] /\ m \notin PNodes
  BY NodesAssumption DEF TypeOK, AllNodes
<1>2. pheap' \in [PNodes -> {"free", "used"}]
  BY DEF Free, TypeOK
<1>3. CASE QuiesceOnFree
  <2>1. waits' = [m \in Nodes \union PNodes |->
                    IF m = pptr[n] THEN Threads
                    ELSE IF m \in PNodes THEN waits[m] \ {t} ELSE waits[m]]
    BY <1>3 DEF Free
  <2> QED
    BY <1>1, <1>2, <2>1 DEF TypeOK
<1>4. CASE ~QuiesceOnFree
  BY <1>2, <1>4 DEF Free, TypeOK
<1> QED
  BY <1>3, <1>4

(* A trim has ended, or failed: remove answers, find goes on. *)
LEMMA TrimEnds ==
  ASSUME IInv, NEW t \in Threads, pc[t] \in {"trim", "free"},
         IF result[t]
         THEN Goto(t, "done") /\ UNCHANGED curr
         ELSE Goto(t, "find") /\ curr' = [curr EXCEPT ![t] = next[curr[t]]],
         UNCHANGED <<volatile, persistent, nvm, heap, call, pred, predState, succ, newNode,
                     result, recovering>>,
         pheap' \in [PNodes -> {"free", "used"}],
         waits' \in [Nodes \union PNodes -> SUBSET Threads],
         \A n \in Nodes : waits'[n] = waits[n]
  PROVE  IInv'
<1> USE DEF IInv, volatile, recovering
<1>1. pc[t] # "idle" /\ phase = "running" /\ newNode[t] = Nil
  BY Holding DEF ThreadInv, NewNodeIsPrivate, Private, Publishing
<1>2. /\ MayHold(t, pred[t]) /\ MayHold(t, curr[t]) /\ curr[t] \in Nodes /\ curr[t] # Tail
      /\ MayHold(t, next[curr[t]]) /\ next[curr[t]] \in AllNodes
  <2>1. curr[t] \in Nodes
    BY <1>1 DEF ThreadInv, StateIsKnown
  <2> QED
    BY <1>1, <2>1, Holding, NodesAssumption
<1>3. Moves(t)
  BY <1>1 DEF Moves, Advances, SameLocals, Goto, Private, TypeOK
<1>4. TypeOK'
  BY ZenonT(40), <1>1, <1>2 DEF TypeOK, Labels, Goto, persistent
<1>5. ThreadInv(t)'
  BY <1>1, <1>2
  DEF Goto, TypeOK, ThreadInv, HoldsWhatItMay, NewNodeIsPrivate, SearchIsRight, StateIsKnown,
      MayHold, Linked, Private, Publishing, Removing
<1> QED
  BY <1>3, <1>4, <1>5, MovesKeep

(* The thread that unlinked a node frees its PNode. *)
LEMMA FreeTrimmedInv ==
  ASSUME IInv, NEW t \in Threads, FreeTrimmed(t)
  PROVE  IInv'
<1>1. pc[t] = "free" /\ curr[t] \in Nodes
  BY DEF FreeTrimmed, IInv, ThreadInv, StateIsKnown
<1>2. /\ \A m \in Nodes : waits'[m] = waits[m]
      /\ waits' \in [Nodes \union PNodes -> SUBSET Threads]
      /\ pheap' \in [PNodes -> {"free", "used"}]
  <2>1. Free(t, pptr[curr[t]])
    BY DEF FreeTrimmed
  <2> QED
    BY <1>1, <2>1, FreeSparesNodes DEF IInv
<1>3. /\ IF result[t]
         THEN Goto(t, "done") /\ UNCHANGED curr
         ELSE Goto(t, "find") /\ curr' = [curr EXCEPT ![t] = next[curr[t]]]
      /\ UNCHANGED <<volatile, persistent, nvm, heap, call, pred, predState, succ, newNode,
                     result, recovering>>
  BY DEF FreeTrimmed
<1> QED
  BY <1>1, <1>2, <1>3, TrimEnds

-----------------------------------------------------------------------------
(* Steps that move one node to its next state. *)

(* A compare-and-swap that succeeds meets a node on the list. *)
LEMMA CASAdvances ==
  ASSUME IInv, NEW t \in Threads, pc[t] \in Publishing \union Removing,
         NEW from \in States, NEW to \in States, from # DELETED, Advances(from, to),
         stateCAS(t, from, to)
  PROVE  /\ state' \in [AllNodes -> States]
         /\ \A n \in AllNodes : Advances(state[n], state'[n])
         /\ \A n \in AllNodes : state'[n] # state[n] => n = Target(t) /\ heap[n] = "linked"
         /\ Expects(Target(t), succ[t], from) => state'[Target(t)] = to
         /\ ~Expects(Target(t), succ[t], from) => state' = state
<1>1. Target(t) \in Nodes /\ MayHold(t, Target(t)) /\ Target(t) \in AllNodes /\ Target(t) # Tail
      /\ Target(t) # Head
  BY TargetIsHeld, NodesAssumption DEF AllNodes
<1>2. Expects(Target(t), succ[t], from) => state[Target(t)] = from /\ heap[Target(t)] = "linked"
  BY <1>1, NotDeletedIsLinked DEF Expects, IInv, Linked
<1> QED
  BY <1>1, <1>2 DEF stateCAS, Advances, IInv, TypeOK

(* create has persisted the node: it becomes INSERTED. *)
LEMMA PublishCASInv ==
  ASSUME IInv, NEW t \in Threads, PublishCAS(t)
  PROVE  IInv'
<1> USE DEF IInv
<1>1. pc[t] = "publishCAS" /\ phase = "running" /\ MayHold(t, pred[t]) /\ MayHold(t, curr[t])
  BY Holding DEF PublishCAS
<1>2. /\ state' \in [AllNodes -> States]
      /\ \A n \in AllNodes : Advances(state[n], state'[n])
      /\ \A n \in AllNodes : state'[n] # state[n] => n \in Nodes /\ heap[n] = "linked"
  BY <1>1, CASAdvances, TargetIsHeld
  DEF PublishCAS, States, Advances, Publishing, INTEND_TO_INSERT, INSERTED, DELETED
<1>3. UNCHANGED <<key, next, heap, waits, phase, todo, crashes, call, pred, predState, curr, succ, newNode,
                  result, persistent, nvm, pheap, pptr, pValidity>> /\ pc' = [pc EXCEPT ![t] = "publish"]
  BY DEF PublishCAS, Goto, memory, search, recovering
<1>4. Moves(t)
  BY <1>1, <1>2, <1>3 DEF Moves, SameLocals, Private, TypeOK
<1>5. TypeOK'
  BY <1>1, <1>2, <1>3 DEF TypeOK, Labels, persistent
<1>6. ThreadInv(t)'
  BY <1>1, <1>3
  DEF TypeOK, ThreadInv, HoldsWhatItMay, NewNodeIsPrivate, SearchIsRight, StateIsKnown,
      MayHold, Linked, Private, Publishing, Removing
<1> QED
  BY <1>4, <1>5, <1>6, MovesKeep

(* One thread claims the node. *)
LEMMA ClaimCASInv ==
  ASSUME IInv, NEW t \in Threads, ClaimCAS(t)
  PROVE  IInv'
<1> USE DEF IInv
<1>1. /\ pc[t] = "claimCAS" /\ phase = "running" /\ MayHold(t, pred[t]) /\ MayHold(t, curr[t])
      /\ Target(t) = curr[t] /\ newNode[t] = Nil /\ curr[t] \in AllNodes
  BY Holding, TargetIsHeld DEF ClaimCAS, Removing
<1>2. /\ state' \in [AllNodes -> States]
      /\ \A n \in AllNodes : Advances(state[n], state'[n])
      /\ \A n \in AllNodes : state'[n] # state[n] => n \in Nodes /\ heap[n] = "linked"
      /\ Expects(curr[t], succ[t], INSERTED) => state'[curr[t]] = INTEND_TO_DELETE
  BY <1>1, CASAdvances, TargetIsHeld
  DEF ClaimCAS, States, Advances, Removing, INTEND_TO_DELETE, INSERTED, DELETED
<1>3. /\ UNCHANGED <<key, next, heap, waits, phase, todo, crashes, call, pred, predState, curr, succ, newNode,
                     persistent, nvm, pheap, pptr, pValidity>>
      /\ result' = [result EXCEPT ![t] = Expects(curr[t], succ[t], INSERTED)]
      /\ pc' = [pc EXCEPT ![t] = IF Expects(curr[t], succ[t], INSERTED) THEN "destroy" ELSE "claim"]
  BY DEF ClaimCAS, Goto, memory, search, recovering, TypeOK
<1>4. Moves(t)
  BY <1>1, <1>2, <1>3 DEF Moves, SameLocals, Private, TypeOK
<1>5. TypeOK'
  <2>1. Expects(curr[t], succ[t], INSERTED) \in BOOLEAN
    BY DEF Expects
  <2>2. result' \in [Threads -> BOOLEAN] /\ pc' \in [Threads -> Labels]
    BY <1>3, <2>1 DEF TypeOK, Labels
  <2> QED
    BY <1>1, <1>2, <1>3, <2>2 DEF TypeOK, persistent
<1>6. ThreadInv(t)'
  <2>1. state[curr[t]] # INTEND_TO_INSERT
    BY <1>1 DEF ThreadInv, StateIsKnown, Removing
  <2>2. state'[curr[t]] # INTEND_TO_INSERT
    BY <1>1, <1>2, <2>1 DEF Advances, INTEND_TO_INSERT, INTEND_TO_DELETE, INSERTED, DELETED
  <2>3. pc'[t] = "destroy" => state'[curr[t]] # INSERTED
    BY <1>2, <1>3 DEF TypeOK, INTEND_TO_DELETE, INSERTED
  <2> QED
    BY <1>1, <1>3, <2>2, <2>3
    DEF TypeOK, ThreadInv, HoldsWhatItMay, NewNodeIsPrivate, SearchIsRight, StateIsKnown,
        MayHold, Linked, Private, Publishing, Removing
<1> QED
  BY <1>4, <1>5, <1>6, MovesKeep

(* destroy has persisted the removal: the node becomes DELETED. *)
LEMMA BuryCASInv ==
  ASSUME IInv, NEW t \in Threads, BuryCAS(t)
  PROVE  IInv'
<1> USE DEF IInv
<1>1. /\ pc[t] = "buryCAS" /\ phase = "running" /\ MayHold(t, pred[t]) /\ MayHold(t, curr[t])
      /\ Target(t) = curr[t] /\ newNode[t] = Nil /\ curr[t] \in AllNodes
  BY Holding, TargetIsHeld DEF BuryCAS, Removing
<1>2. /\ state' \in [AllNodes -> States]
      /\ \A n \in AllNodes : Advances(state[n], state'[n])
      /\ \A n \in AllNodes : state'[n] # state[n] => n \in Nodes /\ heap[n] = "linked"
  BY <1>1, CASAdvances, TargetIsHeld
  DEF BuryCAS, States, Advances, Removing, INTEND_TO_DELETE, INSERTED, DELETED
<1>3. UNCHANGED <<key, next, heap, waits, phase, todo, crashes, call, pred, predState, curr, succ, newNode,
                  result, persistent, nvm, pheap, pptr, pValidity>> /\ pc' = [pc EXCEPT ![t] = "bury"]
  BY DEF BuryCAS, Goto, memory, search, recovering
<1>4. Moves(t)
  BY <1>1, <1>2, <1>3 DEF Moves, SameLocals, Private, TypeOK
<1>5. TypeOK'
  BY <1>1, <1>2, <1>3 DEF TypeOK, Labels, persistent
<1>6. ThreadInv(t)'
  <2>1. state[curr[t]] # INTEND_TO_INSERT /\ state[curr[t]] # INSERTED
    BY <1>1 DEF ThreadInv, StateIsKnown, Removing
  <2>2. state'[curr[t]] # INTEND_TO_INSERT /\ state'[curr[t]] # INSERTED
    BY <1>1, <1>2, <2>1 DEF Advances, INTEND_TO_INSERT, INTEND_TO_DELETE, INSERTED, DELETED
  <2> QED
    BY <1>1, <1>3, <2>2
    DEF TypeOK, ThreadInv, HoldsWhatItMay, NewNodeIsPrivate, SearchIsRight, StateIsKnown,
        MayHold, Linked, Private, Publishing, Removing
<1> QED
  BY <1>4, <1>5, <1>6, MovesKeep

-----------------------------------------------------------------------------
(* Steps by which t lets go of nodes, or writes a node off the list.         *)

(* The nodes of gone, off the list, change; they, and no others, are t's.    *)
Touches(t, gone) ==
  /\ \A n \in gone : n \in Nodes /\ heap[n] # "linked" /\ heap'[n] \in {"free", "owned"}
  /\ \A n \in gone : waits[n] \subseteq {t} /\ waits'[n] = {} /\ (pc'[t] # "idle" => waits[n] = {})
  /\ \A n \in Nodes \ gone : heap'[n] = heap[n]
  /\ \A n \in AllNodes \ gone : key'[n] = key[n] /\ next'[n] = next[n] /\ state'[n] = state[n]
  /\ \A n \in Nodes \ gone : waits'[n] = waits[n] \/ (pc'[t] = "idle" /\ waits'[n] = waits[n] \ {t})
  /\ phase = "running" /\ UNCHANGED <<phase, todo>>
  /\ pc[t] # "idle" /\ pc'[t] # "free"
  /\ pc'[t] = "idle" => \A n \in Nodes : t \notin waits'[n]
  /\ \A u \in Threads \ {t} :
       /\ SameLocals(u)
       /\ pc[u] \in Private => newNode[u] \notin gone
       /\ pc[u] = "free" => curr[u] \notin gone
  /\ pc'[t] \in Private => newNode'[t] \in gone

(* A step on nodes that are private to one thread leaves the list as it was. *)
LEMMA TouchesStep ==
  ASSUME IInv, NEW t \in Threads, NEW gone, Touches(t, gone), TypeOK', ThreadInv(t)'
  PROVE  IInv'
<1> USE DEF IInv, Touches
<1>1. Linked' = Linked /\ \A n \in Linked \union {Tail} : n \notin gone
  <2>1. \A n \in Linked \union {Tail} : n \notin gone
    BY NodesAssumption DEF Linked, AllNodes
  <2>2. \A n \in Nodes : heap'[n] = "linked" <=> heap[n] = "linked"
    OBVIOUS
  <2> QED
    BY <2>1, <2>2 DEF Linked
<1>2. \A n \in Linked : n \in AllNodes /\ key'[n] = key[n] /\ next'[n] = next[n]
  BY <1>1, LinkedIsNode
<1>3. \A n \in Linked : key'[next[n]] = key[next[n]]
  BY <1>1, <1>2, NodesAssumption DEF ListIsSorted, AllNodes
<1>4. ListIsSorted'
  BY <1>1, <1>2, <1>3 DEF ListIsSorted
<1>5. SentinelsAreFixed'
  BY NodesAssumption DEF SentinelsAreFixed, AllNodes
<1>7. ASSUME NEW u \in Threads \ {t}, NEW n, MayHold(u, n)
      PROVE  n \notin gone /\ MayHold(u, n)'
  BY <1>1, <1>7 DEF MayHold
<1>8. RetiredIsClosed'
  <2> SUFFICES ASSUME NEW n \in Nodes, NEW u \in waits'[n]
               PROVE  /\ heap'[n] = "unlinked" /\ state'[n] = DELETED
                      /\ pc'[u] # "idle" /\ MayHold(u, next[n])'
    BY DEF RetiredIsClosed
  <2>1. n \notin gone /\ u \in waits[n]
    OBVIOUS
  <2>2. u \in Threads /\ heap[n] = "unlinked" /\ state[n] = DELETED /\ pc[u] # "idle" /\ MayHold(u, next[n])
    BY <2>1 DEF RetiredIsClosed, TypeOK
  <2>3. heap'[n] = "unlinked" /\ state'[n] = DELETED /\ next'[n] = next[n]
    BY <2>1, <2>2 DEF AllNodes
  <2>4. CASE u = t
    <3>1. pc'[t] # "idle"
      BY <2>4
    <3>2. MayHold(u, next[n])'
      BY <1>1, <2>2, <2>3, <2>4, <3>1 DEF MayHold
    <3> QED
      BY <2>3, <2>4, <3>1, <3>2
  <2>5. CASE u # t
    BY <1>7, <2>2, <2>3, <2>5 DEF SameLocals
  <2> QED
    BY <2>4, <2>5
<1>9. ASSUME NEW u \in Threads
      PROVE  ThreadInv(u)'
  <2>1. CASE u = t
    BY <2>1
  <2>2. CASE u # t
    <3>1. pc[u] # "idle" => \A n : MayHold(u, n) =>
            MayHold(u, n)' /\ key'[n] = key[n] /\ Advances(state[n], state'[n])
      BY <1>7, <2>2, HeldIsNode DEF Advances
    <3>2. pc[u] \in Private => NodeKept(newNode[u])
      BY <2>2, OwnNode DEF NodeKept, AllNodes
    <3>3. pc[u] = "free" => heap'[curr[u]] = heap[curr[u]]
      BY <2>2 DEF ThreadInv, StateIsKnown
    <3> QED
      BY <2>2, <3>1, <3>2, <3>3, OthersKeep
  <2> QED
    BY <2>1, <2>2
<1>10. ThreadsAreApart'
  BY DEF ThreadsAreApart, SameLocals
<1>11. RecoveryIsAlone'
  BY DEF RecoveryIsAlone
<1> QED
  BY <1>4, <1>5, <1>8, <1>9, <1>10, <1>11

(* An operation answers: it lets go of all it held, and what nobody holds     *)
(* any more is blank again.                                                  *)
LEMMA ReturnInv ==
  ASSUME IInv, NEW t \in Threads, NEW r, pc[t] # "idle", Return(t, r),
         UNCHANGED <<persistent, nvm, pheap, recovering>>
  PROVE  IInv'
<1> USE DEF IInv
<1>1. PICK gone : gone = {n \in Nodes : heap[n] = "unlinked" /\ waits[n] \subseteq {t}}
  OBVIOUS
<1>2. /\ heap' = [n \in Nodes |-> IF n \in gone THEN "free" ELSE heap[n]]
      /\ key' = [n \in AllNodes |-> IF n \in gone THEN 0 ELSE key[n]]
      /\ pptr' = [n \in Nodes |-> IF n \in gone THEN Nil ELSE pptr[n]]
      /\ pValidity' = [n \in Nodes |-> IF n \in gone THEN FALSE ELSE pValidity[n]]
      /\ next' = [n \in AllNodes |-> IF n \in gone THEN Nil ELSE next[n]]
      /\ state' = [n \in AllNodes |-> IF n \in gone THEN INSERTED ELSE state[n]]
  <2>1. Blank(gone)
    BY <1>1 DEF Return
  <2> QED
    BY <2>1 DEF Blank, Blanked, TypeOK
<1>3. /\ call' = [call EXCEPT ![t] = DS!None] /\ pc' = [pc EXCEPT ![t] = "idle"]
      /\ pred' = [pred EXCEPT ![t] = Nil] /\ predState' = [predState EXCEPT ![t] = INSERTED]
      /\ curr' = [curr EXCEPT ![t] = Nil] /\ succ' = [succ EXCEPT ![t] = Nil]
      /\ newNode' = [newNode EXCEPT ![t] = Nil] /\ result' = [result EXCEPT ![t] = FALSE]
      /\ waits' = [m \in Nodes \union PNodes |->
                    IF QuiesceOnFree /\ m \in PNodes THEN waits[m] ELSE waits[m] \ {t}]
  BY DEF Return
<1>4. phase = "running"
  BY Holding
<1>5. TypeOK'
  <2>1. /\ heap' \in [Nodes -> {"free", "owned", "linked", "unlinked"}]
        /\ key' \in [AllNodes -> Int] /\ pptr' \in [Nodes -> PNodes \union {Nil}]
        /\ pValidity' \in [Nodes -> BOOLEAN]
        /\ next' \in [AllNodes -> AllNodes \union {Nil}] /\ state' \in [AllNodes -> States]
    <3>1. heap' \in [Nodes -> {"free", "owned", "linked", "unlinked"}]
      BY <1>2 DEF TypeOK
    <3>2. key' \in [AllNodes -> Int]
      BY <1>2 DEF TypeOK
    <3>3. pptr' \in [Nodes -> PNodes \union {Nil}] /\ pValidity' \in [Nodes -> BOOLEAN]
      BY <1>2 DEF TypeOK
    <3>4. next' \in [AllNodes -> AllNodes \union {Nil}]
      BY <1>2 DEF TypeOK
    <3>5. state' \in [AllNodes -> States]
      BY <1>2 DEF TypeOK, States
    <3> QED
      BY <3>1, <3>2, <3>3, <3>4, <3>5
  <2>2. waits' \in [Nodes \union PNodes -> SUBSET Threads]
    BY <1>3 DEF TypeOK
  <2> QED
    BY <1>3, <2>1, <2>2 DEF TypeOK, Labels, States, persistent, recovering
<1>6. ThreadInv(t)'
  BY <1>3 DEF ThreadInv, TypeOK
<1>7. \A n \in Nodes : n \notin PNodes /\ waits'[n] = waits[n] \ {t}
  BY <1>3, NodesAssumption
<1>8. \A u \in Threads \ {t} : /\ pc[u] \in Private => newNode[u] \notin gone
                               /\ pc[u] = "free" => curr[u] \notin gone
  <2> SUFFICES ASSUME NEW u \in Threads \ {t}
               PROVE  /\ pc[u] \in Private => newNode[u] \notin gone
                      /\ pc[u] = "free" => curr[u] \notin gone
    OBVIOUS
  <2>1. pc[u] \in Private => newNode[u] \notin gone
    BY <1>1, OwnNode
  <2>2. pc[u] = "free" => MayHold(u, curr[u]) /\ curr[u] \in Nodes /\ heap[curr[u]] = "unlinked"
    BY DEF ThreadInv, HoldsWhatItMay, StateIsKnown
  <2>3. pc[u] = "free" => u \in waits[curr[u]]
    BY <2>2, NodesAssumption DEF MayHold, Linked, AllNodes
  <2> QED
    BY <1>1, <2>1, <2>3
<1>9. Touches(t, gone)
  <2>1. \A n \in gone : n \in Nodes /\ heap[n] # "linked" /\ heap'[n] \in {"free", "owned"}
    BY <1>1, <1>2
  <2>2. pc'[t] = "idle"
    BY <1>3 DEF TypeOK
  <2>3. \A n \in gone : waits[n] \subseteq {t} /\ waits'[n] = {} /\ (pc'[t] # "idle" => waits[n] = {})
    BY <1>1, <1>7, <2>2
  <2>4. /\ \A n \in Nodes \ gone : heap'[n] = heap[n]
        /\ \A n \in AllNodes \ gone : key'[n] = key[n] /\ next'[n] = next[n] /\ state'[n] = state[n]
    BY <1>2
  <2>5. \A u \in Threads \ {t} : SameLocals(u)
    BY <1>3 DEF SameLocals, TypeOK
  <2> QED
    BY <1>4, <1>7, <1>8, <2>1, <2>2, <2>3, <2>4, <2>5 DEF Touches, Private, recovering
<1> QED
  BY <1>5, <1>6, <1>9, TouchesStep

(* The steps that answer. *)
LEMMA AnswersInv ==
  ASSUME IInv, NEW t \in Threads,
         \/ Done(t) \/ InsertFound(t) \/ Published(t) \/ RemoveMiss(t) \/ BuriedByOther(t)
         \/ ContainsAnswers(t)
  PROVE  IInv'
<1>1. /\ pc[t] # "idle" /\ UNCHANGED <<persistent, nvm, pheap, recovering>>
      /\ \E r : Return(t, r)
  BY DEF Done, InsertFound, Published, RemoveMiss, BuriedByOther, ContainsAnswers, FindStops
<1> QED
  BY <1>1, ReturnInv

(* insert takes two free nodes that nobody holds. *)
LEMMA AllocNodeInv ==
  ASSUME IInv, NEW t \in Threads, AllocNode(t)
  PROVE  IInv'
<1> USE DEF IInv
<1>1. PICK x \in Nodes, p \in PNodes :
        /\ heap[x] = "free" /\ heap' = [heap EXCEPT ![x] = "owned"]
        /\ pheap' = [pheap EXCEPT ![p] = "used"]
        /\ key' = [key EXCEPT ![x] = call[t].arg]
        /\ pptr' = [pptr EXCEPT ![x] = p]
        /\ pValidity' = [pValidity EXCEPT ![x] = ~validStart[p]]
        /\ next' = [next EXCEPT ![x] = curr[t]]
        /\ state' = [state EXCEPT ![x] = INTEND_TO_INSERT]
        /\ newNode' = [newNode EXCEPT ![t] = x]
  BY DEF AllocNode, alloc
<1>2. /\ pc[t] = "alloc" /\ pc' = [pc EXCEPT ![t] = "link"]
      /\ UNCHANGED <<persistent, nvm, waits, call, pred, predState, curr, succ, result, phase, todo, crashes>>
  BY DEF AllocNode, Goto, search, recovering
<1>3. /\ waits[x] = {} /\ x \notin Linked /\ x # curr[t] /\ x # pred[t] /\ x \in AllNodes
      /\ MayHold(t, pred[t]) /\ MayHold(t, curr[t]) /\ pred[t] \in AllNodes /\ curr[t] \in AllNodes
      /\ call[t].arg \in Int /\ phase = "running"
  BY <1>1, <1>2, OwnedIsNotHeld, Holding, CallHasKey DEF AllNodes
<1>4. TypeOK'
  BY <1>1, <1>2, <1>3 DEF TypeOK, Labels, States, persistent
<1>5. ThreadInv(t)'
  <2>1. /\ key'[pred[t]] = key[pred[t]] /\ key'[curr[t]] = key[curr[t]]
        /\ key'[x] = call[t].arg /\ next'[x] = curr[t] /\ state'[x] = INTEND_TO_INSERT
        /\ heap'[x] = "owned" /\ newNode'[t] = x /\ pc'[t] = "link"
    BY <1>1, <1>2, <1>3 DEF TypeOK
  <2>2. MayHold(t, pred[t])' /\ MayHold(t, curr[t])'
    BY <1>1, <1>2, <1>3 DEF MayHold, Linked, TypeOK
  <2>3. key[pred[t]] < call[t].arg /\ predState[t] # DELETED /\ call[t].arg < key[curr[t]]
    BY <1>2 DEF ThreadInv, SearchIsRight
  <2> QED
    BY <1>2, <2>1, <2>2, <2>3
    DEF ThreadInv, HoldsWhatItMay, NewNodeIsPrivate, SearchIsRight, StateIsKnown, Private, Publishing,
        Removing
<1>6. \A u \in Threads \ {t} : /\ pc[u] \in Private => newNode[u] # x
                               /\ pc[u] = "free" => curr[u] # x
  BY <1>1, OwnNode DEF ThreadInv, StateIsKnown
<1>7. Touches(t, {x})
  <2>1. heap'[x] = "owned" /\ pc'[t] = "link" /\ newNode'[t] = x
    BY <1>1, <1>2 DEF TypeOK
  <2>2. /\ \A n \in Nodes \ {x} : heap'[n] = heap[n]
        /\ \A n \in AllNodes \ {x} : key'[n] = key[n] /\ next'[n] = next[n] /\ state'[n] = state[n]
    BY <1>1 DEF TypeOK
  <2>3. \A u \in Threads \ {t} : SameLocals(u)
    BY <1>1, <1>2 DEF SameLocals, TypeOK
  <2> QED
    BY <1>1, <1>2, <1>3, <1>6, <2>1, <2>2, <2>3 DEF Touches
<1> QED
  BY <1>4, <1>5, <1>7, TouchesStep

(* The insertion that lost the race frees both nodes and searches again. *)
LEMMA RetryInv ==
  ASSUME IInv, NEW t \in Threads, Retry(t)
  PROVE  IInv'
<1> USE DEF IInv
<1>1. PICK x : x = newNode[t]
  OBVIOUS
<1>2. /\ pc[t] = "retry" /\ x \in Nodes /\ heap[x] = "owned" /\ waits[x] = {} /\ x \notin Linked
      /\ \A u \in Threads \ {t} : /\ pc[u] \in Private => newNode[u] # x
                                  /\ pc[u] = "free" => curr[u] # x
  BY <1>1, OwnNode DEF Retry, Private
<1>3. /\ heap' = [n \in Nodes |-> IF n \in {x} THEN "free" ELSE heap[n]]
      /\ key' = [n \in AllNodes |-> IF n \in {x} THEN 0 ELSE key[n]]
      /\ pptr' = [n \in Nodes |-> IF n \in {x} THEN Nil ELSE pptr[n]]
      /\ pValidity' = [n \in Nodes |-> IF n \in {x} THEN FALSE ELSE pValidity[n]]
      /\ next' = [n \in AllNodes |-> IF n \in {x} THEN Nil ELSE next[n]]
      /\ state' = [n \in AllNodes |-> IF n \in {x} THEN INSERTED ELSE state[n]]
  <2>1. Blank({x})
    BY <1>1 DEF Retry
  <2> QED
    BY <2>1 DEF Blank, Blanked, TypeOK
<1>4. /\ \A m \in Nodes : waits'[m] = waits[m]
      /\ waits' \in [Nodes \union PNodes -> SUBSET Threads]
      /\ pheap' \in [PNodes -> {"free", "used"}]
  <2>1. Free(t, pptr[x])
    BY <1>1 DEF Retry
  <2> QED
    BY <1>2, <2>1, FreeSparesNodes
<1>5. /\ UNCHANGED <<persistent, nvm, call, succ, result, phase, todo, crashes>>
      /\ newNode' = [newNode EXCEPT ![t] = Nil] /\ pc' = [pc EXCEPT ![t] = "find"]
      /\ pred' = [pred EXCEPT ![t] = Head] /\ predState' = [predState EXCEPT ![t] = state[Head]]
      /\ curr' = [curr EXCEPT ![t] = next[Head]]
  BY DEF Retry, StartSearch, Goto, recovering
<1>6. /\ Head \in Linked /\ next[Head] \in Linked \union {Tail} /\ Head \in AllNodes
      /\ next[Head] \in AllNodes /\ Head # x /\ Tail # x /\ state[Head] = INSERTED /\ key[Head] = MinKey
      /\ call[t].arg \in Int /\ MinKey < call[t].arg /\ phase = "running"
  BY <1>2, Holding, CallHasKey, LinkedIsNode, NodesAssumption DEF Linked, ListIsSorted, SentinelsAreFixed, AllNodes
<1>7. TypeOK'
  <2>1. /\ heap' \in [Nodes -> {"free", "owned", "linked", "unlinked"}]
        /\ key' \in [AllNodes -> Int] /\ pptr' \in [Nodes -> PNodes \union {Nil}]
        /\ pValidity' \in [Nodes -> BOOLEAN]
        /\ next' \in [AllNodes -> AllNodes \union {Nil}] /\ state' \in [AllNodes -> States]
    <3>1. heap' \in [Nodes -> {"free", "owned", "linked", "unlinked"}]
      BY <1>3 DEF TypeOK
    <3>2. key' \in [AllNodes -> Int]
      BY <1>3 DEF TypeOK
    <3>3. pptr' \in [Nodes -> PNodes \union {Nil}] /\ pValidity' \in [Nodes -> BOOLEAN]
      BY <1>3 DEF TypeOK
    <3>4. next' \in [AllNodes -> AllNodes \union {Nil}]
      BY <1>3 DEF TypeOK
    <3>5. state' \in [AllNodes -> States]
      BY <1>3 DEF TypeOK, States
    <3> QED
      BY <3>1, <3>2, <3>3, <3>4, <3>5
  <2> QED
    BY <1>2, <1>4, <1>5, <1>6, <2>1 DEF TypeOK, Labels, States, persistent
<1>8. ThreadInv(t)'
  <2>1. Linked' = Linked
    BY <1>2, <1>3 DEF Linked
  <2>2. /\ key'[Head] = MinKey /\ pred'[t] = Head /\ predState'[t] = INSERTED /\ curr'[t] = next[Head]
        /\ pc'[t] = "find" /\ newNode'[t] = Nil
    BY <1>3, <1>5, <1>6 DEF TypeOK
  <2> QED
    BY <1>5, <1>6, <2>1, <2>2
    DEF ThreadInv, HoldsWhatItMay, NewNodeIsPrivate, SearchIsRight, StateIsKnown, Private, Publishing,
        Removing, MayHold, INSERTED, DELETED
<1>9. Touches(t, {x})
  <2>1. heap'[x] = "free" /\ pc'[t] = "find"
    BY <1>2, <1>3, <1>5 DEF TypeOK
  <2>2. \A u \in Threads \ {t} : SameLocals(u)
    BY <1>5 DEF SameLocals, TypeOK
  <2> QED
    BY <1>2, <1>3, <1>4, <1>5, <1>6, <2>1, <2>2 DEF Touches, Private
<1> QED
  BY <1>7, <1>8, <1>9, TouchesStep

-----------------------------------------------------------------------------
(* A node is taken off the list, or put on it. *)

(* The compare-and-swap of trim: it unlinks the deleted node, or fails and    *)
(* changes nothing.                                                          *)
LEMMA TrimInv ==
  ASSUME IInv, NEW t \in Threads, Trim(t)
  PROVE  IInv'
<1> USE DEF IInv
<1>1. pc[t] = "trim" /\ curr[t] \in Nodes /\ state[curr[t]] = DELETED /\ phase = "running"
  BY Holding DEF Trim, ThreadInv, StateIsKnown
<1>2. CASE ~Expects(pred[t], curr[t], predState[t])
  <2>1. /\ IF result[t]
           THEN Goto(t, "done") /\ UNCHANGED curr
           ELSE Goto(t, "find") /\ curr' = [curr EXCEPT ![t] = next[curr[t]]]
        /\ UNCHANGED <<volatile, persistent, nvm, heap, pheap, waits, call, pred, predState, succ,
                       newNode, result, recovering>>
    BY <1>2 DEF Trim, volatile
  <2>2. /\ pheap' \in [PNodes -> {"free", "used"}]
        /\ waits' \in [Nodes \union PNodes -> SUBSET Threads]
    BY <2>1 DEF TypeOK
  <2> QED
    BY <1>1, <2>1, <2>2, TrimEnds
<1>3. CASE Expects(pred[t], curr[t], predState[t])
  <2>0. PICK p, c : p = pred[t] /\ c = curr[t]
    OBVIOUS
  <2>1. /\ p \in Linked /\ c \in Linked /\ next[p] = c /\ heap[c] = "linked" /\ c \in Nodes
        /\ key[p] \in Int /\ key[c] \in Int /\ key[next[c]] \in Int /\ p \in AllNodes
        /\ next[c] \in Linked \union {Tail} /\ next[c] \in AllNodes
        /\ key[p] < key[c] /\ key[c] < key[next[c]]
        /\ state[p] = predState[t]
    <3>1. p \in Linked /\ next[p] = c /\ c \in Linked /\ state[p] = predState[t]
      BY <1>1, <1>3, <2>0, PredIsLinked, NodesAssumption DEF AllNodes
    <3>2. next[c] \in Linked \union {Tail} /\ key[p] < key[c] /\ key[c] < key[next[c]]
      BY <3>1 DEF ListIsSorted
    <3> QED
      BY <1>1, <2>0, <3>1, <3>2, LinkedIsNode, NodesAssumption DEF Linked
  <2>2. p # c /\ next[c] # c /\ next[c] # p
    BY <2>1
  <2>3. /\ next' = [next EXCEPT ![p] = next[c]]
        /\ heap' = [heap EXCEPT ![c] = "unlinked"]
        /\ \A n \in Nodes : waits'[n] = IF n = c THEN Busy ELSE waits[n]
        /\ waits' \in [Nodes \union PNodes -> SUBSET Threads]
        /\ pc' = [pc EXCEPT ![t] = "free"]
        /\ UNCHANGED <<key, pptr, pValidity, state, persistent, nvm, pheap, call, pred, predState, curr,
                       succ, newNode, result, phase, todo, crashes>>
    <3>1. state' = state
      BY <1>3, <2>0, <2>1 DEF Trim, TypeOK
    <3>2. /\ \A n \in Nodes : waits'[n] = IF n = c THEN Busy ELSE waits[n]
          /\ waits' \in [Nodes \union PNodes -> SUBSET Threads]
      <4>1. \/ waits' = [waits EXCEPT ![c] = Busy]
            \/ waits' = [waits EXCEPT ![c] = Busy, ![pptr[c]] = Busy]
        BY <1>3, <2>0 DEF Trim, Unlink
      <4>2. pptr[c] \notin Nodes
        BY <2>1, NodesAssumption DEF TypeOK, AllNodes
      <4>3. Busy \in SUBSET Threads /\ waits \in [Nodes \union PNodes -> SUBSET Threads]
        BY DEF Busy, TypeOK
      <4>4. waits' \in [Nodes \union PNodes -> SUBSET Threads]
        BY <4>1, <4>3
      <4>5. \A n \in Nodes : waits'[n] = IF n = c THEN Busy ELSE waits[n]
        BY <2>1, <4>1, <4>2, <4>3
      <4> QED
        BY <4>4, <4>5
    <3> QED
      BY <1>3, <2>0, <3>1, <3>2 DEF Trim, Unlink, Goto, recovering
  <2>4. Linked' = Linked \ {c}
    BY <2>1, <2>3, NodesAssumption DEF Linked, TypeOK, AllNodes
  <2>5. TypeOK'
    BY <1>1, <2>1, <2>3 DEF TypeOK, Labels, persistent
  <2>6. \A m \in Linked : next[m] = c => m = p
    <3> TAKE m \in Linked
    <3> HAVE next[m] = c
    <3>1. key[m] \in Int /\ key[m] < key[c]
      BY LinkedIsNode DEF ListIsSorted
    <3>2. ~(key[p] < key[m] /\ key[m] < key[c]) /\ ~(key[m] < key[p] /\ key[p] < key[c])
      BY <2>1 DEF ListIsSorted
    <3>3. key[m] = key[p]
      BY <2>1, <3>1, <3>2
    <3> QED
      BY <2>1, <3>3 DEF ListIsSorted
  <2>7. \A m \in Linked' : m \in Linked /\ m # c /\ next'[m] = IF m = p THEN next[c] ELSE next[m]
    BY <2>1, <2>3, <2>4, LinkedIsNode DEF TypeOK
  <2>8. ListIsSorted'
    <3>1. ASSUME NEW m \in Linked'
          PROVE  next'[m] \in Linked' \union {Tail} /\ key[m] < key[next'[m]]
      <4>1. CASE m = p
        BY <2>1, <2>2, <2>4, <2>7, <4>1
      <4>2. CASE m # p
        BY <2>4, <2>6, <2>7, <4>2 DEF ListIsSorted
      <4> QED
        BY <4>1, <4>2
    <3>2. ASSUME NEW m \in Linked', NEW n \in Linked'
          PROVE  ~(key[m] < key[n] /\ key[n] < key[next'[m]])
      <4>1. CASE m = p
        <5>1. next'[m] = next[c] /\ n \in Linked /\ n # c /\ key[n] \in Int
          BY <2>7, <4>1, LinkedIsNode
        <5>2. ~(key[p] < key[n] /\ key[n] < key[c]) /\ ~(key[c] < key[n] /\ key[n] < key[next[c]])
          BY <2>1, <5>1 DEF ListIsSorted
        <5>3. key[n] # key[c]
          BY <2>1, <5>1 DEF ListIsSorted
        <5> QED
          BY <2>1, <4>1, <5>1, <5>2, <5>3
      <4>2. CASE m # p
        BY <2>7, <4>2 DEF ListIsSorted
      <4> QED
        BY <4>1, <4>2
    <3>3. \A m, n \in Linked' : key[m] = key[n] => m = n
      BY <2>4 DEF ListIsSorted
    <3> QED
      BY <2>3, <3>1, <3>2, <3>3 DEF ListIsSorted
  <2>9. SentinelsAreFixed'
    BY <2>3 DEF SentinelsAreFixed
  <2>10. \A u \in Threads : pc[u] # "idle" => \A n : MayHold(u, n) => MayHold(u, n)'
    BY <2>1, <2>3, <2>4 DEF MayHold, Busy
  <2>11. RetiredIsClosed'
    <3> SUFFICES ASSUME NEW n \in Nodes, NEW u \in waits'[n]
                 PROVE  /\ heap'[n] = "unlinked" /\ state'[n] = DELETED /\ pc'[u] # "idle"
                        /\ MayHold(u, next[n])'
      BY DEF RetiredIsClosed
    <3>1. u \in Threads
      BY <2>5 DEF TypeOK
    <3>2. CASE n = c
      <4>1. heap'[n] = "unlinked" /\ state'[n] = DELETED /\ u \in Busy
        BY <1>1, <2>0, <2>3, <3>2 DEF TypeOK
      <4>2. next'[n] = next[c]
        BY <2>1, <2>2, <2>3, <3>2 DEF TypeOK
      <4>3. MayHold(u, next[n])'
        BY <2>1, <2>2, <2>4, <4>2 DEF MayHold
      <4> QED
        BY <2>3, <4>1, <4>3, <3>1 DEF Busy, TypeOK
    <3>3. CASE n # c
      <4>1. u \in waits[n] /\ heap'[n] = heap[n]
        BY <2>3, <3>3 DEF TypeOK
      <4>2. heap[n] = "unlinked" /\ state[n] = DELETED /\ pc[u] # "idle" /\ MayHold(u, next[n])
        BY <4>1 DEF RetiredIsClosed
      <4>3. next'[n] = next[n]
        BY <2>1, <2>3, <4>2, NodesAssumption DEF TypeOK, Linked, AllNodes
      <4>4. MayHold(u, next[n])'
        BY <2>10, <3>1, <4>2, <4>3
      <4> QED
        BY <2>3, <3>1, <4>1, <4>2, <4>4 DEF TypeOK
    <3> QED
      BY <3>2, <3>3
  <2>12. ASSUME NEW u \in Threads
         PROVE  ThreadInv(u)'
    <3>1. CASE u = t
      <4>1. /\ pc'[t] = "free" /\ heap'[c] = "unlinked"
            /\ MayHold(t, p)' /\ MayHold(t, c)'
        BY <1>1, <2>0, <2>1, <2>3, <2>10, Holding DEF TypeOK
      <4> QED
        BY <1>1, <2>0, <2>3, <3>1, <4>1
        DEF ThreadInv, HoldsWhatItMay, NewNodeIsPrivate, SearchIsRight, StateIsKnown,
            Private, Publishing, Removing
    <3>2. CASE u # t
      <4>1. SameLocals(u)
        BY <2>3, <3>2 DEF SameLocals, TypeOK
      <4>2. pc[u] \in Private => NodeKept(newNode[u])
        <5> SUFFICES ASSUME pc[u] \in Private
                     PROVE  NodeKept(newNode[u])
          OBVIOUS
        <5>1. newNode[u] \in Nodes /\ heap[newNode[u]] = "owned"
          BY OwnNode
        <5>2. newNode[u] # c /\ newNode[u] # p
          BY <2>1, <5>1, OwnedIsNotHeld
        <5> QED
          BY <2>3, <5>1, <5>2 DEF NodeKept, TypeOK, AllNodes
      <4>3. pc[u] = "free" => heap'[curr[u]] = heap[curr[u]]
        BY <2>1, <2>3 DEF ThreadInv, StateIsKnown, TypeOK
      <4>4. pc[u] # "idle" => \A n : MayHold(u, n) =>
              MayHold(u, n)' /\ key'[n] = key[n] /\ Advances(state[n], state'[n])
        BY <2>3, <2>10 DEF Advances
      <4> QED
        BY <4>1, <4>2, <4>3, <4>4, OthersKeep
    <3> QED
      BY <3>1, <3>2
  <2>13. ThreadsAreApart'
    <3>1. \A u \in Threads : pc[u] = "free" => curr[u] # c
      BY <2>1 DEF ThreadInv, StateIsKnown
    <3> QED
      BY <1>1, <2>0, <2>3, <3>1 DEF ThreadsAreApart, Private, TypeOK
  <2>14. RecoveryIsAlone'
    BY <1>1, <2>3 DEF RecoveryIsAlone
  <2> QED
    BY <2>5, <2>8, <2>9, <2>11, <2>12, <2>13, <2>14
<1> QED
  BY <1>2, <1>3

(* A node x is put on the list between p and its successor. *)
Inserts(p, x) ==
  /\ p \in Linked /\ x \notin Linked
  /\ Linked' = Linked \union {x}
  /\ \A m \in Linked \union {Tail} : key'[m] = key[m]
  /\ \A m \in Linked : next'[m] = IF m = p THEN x ELSE next[m]
  /\ next'[x] = next[p]
  /\ key'[x] \in Int
  /\ key[p] < key'[x] /\ key'[x] < key[next[p]]

(* An insertion where the key belongs keeps the list sorted. *)
LEMMA InsertionSorts ==
  ASSUME IInv, NEW p, NEW x, Inserts(p, x)
  PROVE  ListIsSorted'
<1> USE DEF Inserts
<1>1. \A m \in Linked : /\ key[m] \in Int /\ key[next[m]] \in Int /\ next[m] \in Linked \union {Tail}
                        /\ key'[m] = key[m] /\ key'[next[m]] = key[next[m]]
  BY LinkedIsNode DEF IInv, ListIsSorted
<1>2. ASSUME NEW m \in Linked, key[m] # key[p]
      PROVE  /\ ~(key[m] < key[p] /\ key[p] < key[next[m]])
             /\ key[p] < key[m] => key[next[p]] <= key[m]
             /\ key[m] < key[p] => key[next[m]] <= key[p]
  BY <1>1 DEF IInv, ListIsSorted
<1>3. ASSUME NEW m \in Linked
      PROVE  key[m] # key'[x]
  BY <1>1, <1>2
<1>4. ASSUME NEW m \in Linked'
      PROVE  next'[m] \in Linked' \union {Tail} /\ key'[m] < key'[next'[m]]
  <2>1. CASE m = p
    BY <1>1, <2>1
  <2>2. CASE m = x
    BY <1>1, <2>2
  <2>3. CASE m \in Linked \ {p}
    BY <1>1, <2>3 DEF IInv, ListIsSorted
  <2> QED
    BY <2>1, <2>2, <2>3
<1>5. ASSUME NEW m \in Linked', NEW n \in Linked'
      PROVE  ~(key'[m] < key'[n] /\ key'[n] < key'[next'[m]])
  <2>1. CASE m = x /\ n = x
    BY <2>1
  <2>2. CASE m = x /\ n \in Linked
    <3>1. ~(key[p] < key[n] /\ key[n] < key[next[p]])
      BY <2>2 DEF IInv, ListIsSorted
    <3> QED
      BY <1>1, <2>2, <3>1
  <2>3. CASE m = p /\ n \in Linked'
    <3>1. next'[m] = x /\ key'[m] = key[p]
      BY <2>3
    <3>2. CASE n = x
      BY <3>1, <3>2
    <3>3. CASE n \in Linked
      <4>1. ~(key[p] < key[n] /\ key[n] < key[next[p]])
        BY <3>3 DEF IInv, ListIsSorted
      <4> QED
        BY <1>1, <2>3, <3>1, <3>3, <4>1
    <3> QED
      BY <2>3, <3>2, <3>3
  <2>4. CASE m \in Linked \ {p} /\ n = x
    <3>1. next'[m] = next[m] /\ key[m] # key[p]
      BY <2>4 DEF IInv, ListIsSorted
    <3>2. key[p] < key[m] => key'[x] < key[m]
      BY <1>1, <1>2, <2>4, <3>1
    <3>3. key[m] < key[p] => key[next[m]] < key'[x]
      BY <1>1, <1>2, <2>4, <3>1
    <3> QED
      BY <1>1, <2>4, <3>1, <3>2, <3>3
  <2>5. CASE m \in Linked \ {p} /\ n \in Linked
    BY <1>1, <2>5 DEF IInv, ListIsSorted
  <2> QED
    BY <2>1, <2>2, <2>3, <2>4, <2>5
<1>6. ASSUME NEW m \in Linked', NEW n \in Linked', key'[m] = key'[n]
      PROVE  m = n
  BY <1>1, <1>3, <1>6 DEF IInv, ListIsSorted
<1> QED
  BY <1>4, <1>5, <1>6 DEF ListIsSorted

(* insert links its node, or has lost the race. *)
LEMMA LinkNodeInv ==
  ASSUME IInv, NEW t \in Threads, LinkNode(t)
  PROVE  IInv'
<1> USE DEF IInv
<1>0. PICK x, p : x = newNode[t] /\ p = pred[t]
  OBVIOUS
<1>1. /\ pc[t] = "link" /\ phase = "running" /\ curr[t] \in AllNodes
      /\ MayHold(t, p) /\ MayHold(t, curr[t])
      /\ UNCHANGED <<key, pptr, pValidity, persistent, nvm, pheap, waits, call, pred, predState, curr,
                     succ, newNode, phase, todo, crashes>>
  BY <1>0, Holding DEF LinkNode, search, recovering
<1>2. /\ x \in Nodes /\ heap[x] = "owned" /\ waits[x] = {} /\ x \notin Linked
      /\ x # curr[t] /\ x # p /\ next[x] = curr[t] /\ key[x] = call[t].arg
      /\ state[x] = INTEND_TO_INSERT
      /\ \A u \in Threads \ {t} : /\ pc[u] \in Private => newNode[u] # x
                                  /\ pc[u] = "free" => curr[u] # x
  BY <1>0, <1>1, OwnNode DEF Private
<1>3. CASE ~Expects(p, curr[t], predState[t])
  <2>1. pc' = [pc EXCEPT ![t] = "retry"] /\ UNCHANGED <<next, state, heap, result>>
    BY <1>0, <1>3 DEF LinkNode, Goto
  <2>2. Moves(t)
    BY <1>1, <2>1 DEF Moves, Advances, SameLocals, Private, TypeOK
  <2>3. TypeOK'
    BY <1>1, <2>1 DEF TypeOK, Labels, persistent
  <2>4. ThreadInv(t)'
    BY <1>1, <2>1
    DEF ThreadInv, HoldsWhatItMay, NewNodeIsPrivate, SearchIsRight, StateIsKnown, TypeOK,
        MayHold, Linked, Private, Publishing, Removing
  <2> QED
    BY <2>2, <2>3, <2>4, MovesKeep
<1>4. CASE Expects(p, curr[t], predState[t])
  <2>2. /\ p \in Linked /\ p \in AllNodes /\ key[p] < call[t].arg
        /\ next[p] = curr[t] /\ state[p] = predState[t] /\ curr[t] \in Linked \union {Tail}
    BY <1>0, <1>1, <1>4, PredIsLinked, LinkedIsNode
  <2>1. /\ next' = [next EXCEPT ![p] = x]
        /\ state' = state
        /\ heap' = [heap EXCEPT ![x] = "linked"]
        /\ result' = [result EXCEPT ![t] = TRUE]
        /\ pc' = [pc EXCEPT ![t] = "create"]
    BY <1>0, <1>4, <2>2 DEF LinkNode, Goto, TypeOK
  <2>3. call[t].arg < key[curr[t]]
    BY <1>1 DEF ThreadInv, SearchIsRight
  <2>4. Linked' = Linked \union {x}
    BY <1>2, <2>1 DEF Linked, TypeOK
  <2>5. TypeOK'
    BY <1>1, <1>2, <2>1, <2>2 DEF TypeOK, Labels, AllNodes, persistent
  <2>6. ListIsSorted'
    <3>1. key[x] \in Int /\ x \in AllNodes
      BY <1>2 DEF TypeOK, AllNodes
    <3>2. next'[x] = next[p]
      BY <1>2, <2>1, <2>2, <2>3, <3>1 DEF TypeOK
    <3>3. \A m \in Linked : next'[m] = IF m = p THEN x ELSE next[m]
      BY <2>1, LinkedIsNode DEF TypeOK
    <3>4. Inserts(p, x)
      BY <1>1, <1>2, <2>2, <2>3, <2>4, <3>1, <3>2, <3>3 DEF Inserts
    <3> QED
      BY <3>4, InsertionSorts
  <2>7. SentinelsAreFixed'
    BY <1>1, <2>1 DEF SentinelsAreFixed
  <2>8. \A u \in Threads : \A n : MayHold(u, n) => MayHold(u, n)'
    BY <1>1, <2>4 DEF MayHold
  <2>9. RetiredIsClosed'
    <3> SUFFICES ASSUME NEW n \in Nodes, NEW u \in waits[n]
                 PROVE  /\ heap'[n] = "unlinked" /\ state[n] = DELETED /\ pc'[u] # "idle"
                        /\ next'[n] = next[n] /\ MayHold(u, next[n])'
      BY <1>1, <2>1 DEF RetiredIsClosed
    <3>1. /\ u \in Threads
          /\ heap[n] = "unlinked" /\ state[n] = DELETED /\ pc[u] # "idle"
          /\ MayHold(u, next[n])
      BY DEF RetiredIsClosed, TypeOK
    <3>2. n # x /\ n # p
      BY <1>2, <2>2, <3>1, LinkedIsNode, NodesAssumption DEF AllNodes
    <3>3. next'[n] = next[n]
      BY <2>1, <3>2 DEF TypeOK, AllNodes
    <3> QED
      BY <2>1, <2>8, <3>1, <3>2, <3>3 DEF TypeOK
  <2>10. ASSUME NEW u \in Threads
         PROVE  ThreadInv(u)'
    <3>1. CASE u = t
      <4>1. MayHold(t, p)' /\ MayHold(t, curr[t])' /\ MayHold(t, x)'
        BY <1>1, <2>4, <2>8, Holding DEF MayHold
      <4>2. key[p] < call[t].arg /\ predState[t] # DELETED /\ x # Nil
        BY <1>0, <1>1, <1>2, NodesAssumption DEF ThreadInv, SearchIsRight, AllNodes
      <4> QED
        BY <1>0, <1>1, <1>2, <2>1, <3>1, <4>1, <4>2
        DEF ThreadInv, HoldsWhatItMay, NewNodeIsPrivate, SearchIsRight, StateIsKnown,
            Private, Publishing, Removing, TypeOK
    <3>2. CASE u # t
      <4>1. SameLocals(u)
        BY <1>1, <2>1, <3>2 DEF SameLocals, TypeOK
      <4>2. pc[u] \in Private => NodeKept(newNode[u])
        <5> SUFFICES ASSUME pc[u] \in Private
                     PROVE  NodeKept(newNode[u])
          OBVIOUS
        <5>1. /\ newNode[u] \in Nodes /\ heap[newNode[u]] = "owned" /\ newNode[u] \notin Linked
              /\ newNode[u] # x
          BY <1>2, <3>2, OwnNode
        <5> QED
          BY <1>1, <2>1, <2>2, <5>1 DEF NodeKept, TypeOK, AllNodes
      <4>3. pc[u] = "free" => heap'[curr[u]] = heap[curr[u]]
        BY <1>2, <2>1, <3>2 DEF TypeOK
      <4>4. pc[u] # "idle" => \A n : MayHold(u, n) =>
              MayHold(u, n)' /\ key'[n] = key[n] /\ Advances(state[n], state'[n])
        BY <1>1, <2>1, <2>8 DEF Advances
      <4> QED
        BY <4>1, <4>2, <4>3, <4>4, OthersKeep
    <3> QED
      BY <3>1, <3>2
  <2>11. ThreadsAreApart'
    BY <1>1, <2>1 DEF ThreadsAreApart, Private, TypeOK
  <2>12. RecoveryIsAlone'
    BY <1>1 DEF RecoveryIsAlone
  <2> QED
    BY <2>5, <2>6, <2>7, <2>9, <2>10, <2>11, <2>12
<1> QED
  BY <1>3, <1>4

-----------------------------------------------------------------------------
(* Invocations, evictions, crashes and recovery. *)

(* An operation starts at the head. *)
LEMMA InvokeInv ==
  ASSUME IInv, NEW t \in Threads, NEW c \in DS!Calls, Invoke(t, c)
  PROVE  IInv'
<1> USE DEF IInv
<1>1. /\ pc[t] = "idle" /\ phase = "running"
      /\ pc' = [pc EXCEPT ![t] = IF c.op = "contains" THEN "walk" ELSE "find"]
      /\ call' = [call EXCEPT ![t] = c]
      /\ pred' = [pred EXCEPT ![t] = Head] /\ predState' = [predState EXCEPT ![t] = state[Head]]
      /\ curr' = [curr EXCEPT ![t] = next[Head]]
      /\ UNCHANGED <<key, pptr, pValidity, next, state, persistent, nvm, heap, pheap, waits, succ,
                     newNode, result, phase, todo, crashes>>
  BY DEF Invoke, StartSearch, Goto, volatile, memory, recovering
<1>2. c.arg \in Keys /\ c.arg \in Int /\ MinKey < c.arg
  BY KeysAssumption DEF DS!Calls
<1>3. /\ Head \in Linked /\ next[Head] \in Linked \union {Tail} /\ state[Head] = INSERTED
      /\ Head \in AllNodes /\ next[Head] \in AllNodes /\ key[Head] = MinKey
  BY LinkedIsNode DEF Linked, ListIsSorted, SentinelsAreFixed
<1>4. Moves(t)
  BY <1>1 DEF Moves, Advances, SameLocals, Private, TypeOK
<1>5. TypeOK'
  <2>1. pc'[t] # "idle" /\ call'[t] = c
    BY <1>1 DEF TypeOK
  <2> QED
    BY <1>1, <1>3, <2>1 DEF TypeOK, Labels, States, persistent
<1>6. ThreadInv(t)'
  <2>1. /\ pred'[t] = Head /\ predState'[t] = INSERTED /\ curr'[t] = next[Head] /\ newNode'[t] = Nil
        /\ pc'[t] \in {"walk", "find"} /\ call'[t] = c
    BY <1>1, <1>3 DEF TypeOK, ThreadInv
  <2> QED
    BY <1>1, <1>2, <1>3, <2>1
    DEF ThreadInv, HoldsWhatItMay, NewNodeIsPrivate, SearchIsRight, StateIsKnown, INSERTED, DELETED,
        MayHold, Linked, Private, Publishing, Removing
<1> QED
  BY <1>4, <1>5, <1>6, MovesKeep

(* Nothing that the invariant speaks of but a type changes. *)
LEMMA QuietStep ==
  ASSUME IInv, TypeOK',
         UNCHANGED <<key, next, state, heap, waits, call, pc, pred, predState, curr, newNode, phase, todo>>
  PROVE  IInv'
<1> USE DEF IInv
<1>1. ListIsSorted' /\ SentinelsAreFixed' /\ RetiredIsClosed'
  BY DEF ListIsSorted, SentinelsAreFixed, RetiredIsClosed, MayHold, Linked
<1>2. \A t \in Threads : ThreadInv(t)'
  BY DEF ThreadInv, HoldsWhatItMay, NewNodeIsPrivate, SearchIsRight, StateIsKnown, MayHold, Linked
<1>3. ThreadsAreApart' /\ RecoveryIsAlone'
  BY DEF ThreadsAreApart, RecoveryIsAlone
<1> QED
  BY <1>1, <1>2, <1>3

(* A write-back changes NVM only. *)
LEMMA EvictInv ==
  ASSUME IInv, NEW p \in PNodes, Evict(p)
  PROVE  IInv'
<1>1. nvm' \in [PNodes -> Lines]
  <2>1. \A q \in PNodes : Line(q) \in Lines
    BY LineType DEF IInv
  <2>2. nvm \in [PNodes -> Lines]
    BY DEF IInv, TypeOK, Lines
  <2> QED
    BY <2>1, <2>2 DEF Evict, BARRIER
<1>2. UNCHANGED <<volatile, persistent, memory, locals, recovering>>
  BY DEF Evict
<1>3. TypeOK'
  BY <1>1, <1>2 DEF IInv, TypeOK, Lines, volatile, persistent, memory, locals, search, recovering
<1> QED
  BY <1>2, <1>3, QuietStep DEF volatile, memory, locals, search, recovering

(* A crash leaves an empty list, free nodes and no operation. *)
LEMMA CrashInv ==
  ASSUME IInv, Crash
  PROVE  IInv'
<1> USE DEF IInv
<1>1. Linked' = {Head}
  BY DEF Crash, Linked
<1>2. TypeOK'
  <2>1. \A p \in PNodes : /\ nvm[p].validStart \in BOOLEAN /\ nvm[p].validEnd \in BOOLEAN
                          /\ nvm[p].deleted \in BOOLEAN /\ nvm[p].key \in Int
    BY DEF TypeOK
  <2>2. /\ validStart' \in [PNodes -> BOOLEAN] /\ validEnd' \in [PNodes -> BOOLEAN]
        /\ deleted' \in [PNodes -> BOOLEAN] /\ pkey' \in [PNodes -> Int]
    BY <2>1 DEF Crash
  <2>3. /\ key' \in [AllNodes -> Int] /\ pptr' \in [Nodes -> PNodes \union {Nil}]
        /\ pValidity' \in [Nodes -> BOOLEAN]
        /\ next' \in [AllNodes -> AllNodes \union {Nil}] /\ state' \in [AllNodes -> States]
    BY DEF Crash, TypeOK, AllNodes, States
  <2>4. /\ heap' \in [Nodes -> {"free", "owned", "linked", "unlinked"}]
        /\ pheap' \in [PNodes -> {"free", "used"}] /\ waits' \in [Nodes \union PNodes -> SUBSET Threads]
        /\ nvm' \in [PNodes -> [validStart : BOOLEAN, validEnd : BOOLEAN, deleted : BOOLEAN, key : Int]]
    BY DEF Crash, TypeOK
  <2>5. /\ call' \in [Threads -> DS!Calls \union {DS!None}] /\ pc' \in [Threads -> Labels]
        /\ \A t \in Threads : pc'[t] # "idle" => call'[t] \in DS!Calls
        /\ pred' \in [Threads -> AllNodes \union {Nil}] /\ predState' \in [Threads -> States]
        /\ curr' \in [Threads -> AllNodes \union {Nil}] /\ succ' \in [Threads -> AllNodes \union {Nil}]
        /\ newNode' \in [Threads -> Nodes \union {Nil}] /\ result' \in [Threads -> BOOLEAN]
    BY DEF Crash, Labels, States
  <2>6. phase' \in {"running", "recovering"} /\ todo' \in SUBSET PNodes /\ crashes' \in Nat
    BY DEF Crash, TypeOK, ChunkPNodes
  <2> QED
    BY <2>2, <2>3, <2>4, <2>5, <2>6 DEF TypeOK
<1>3. ListIsSorted'
  BY <1>1, KeysAssumption, NodesAssumption DEF Crash, ListIsSorted, AllNodes, SentinelsAreFixed
<1>4. SentinelsAreFixed'
  BY NodesAssumption DEF Crash, SentinelsAreFixed, AllNodes
<1>5. RetiredIsClosed'
  BY DEF Crash, RetiredIsClosed
<1>6. \A t \in Threads : ThreadInv(t)'
  BY DEF Crash, ThreadInv
<1>7. ThreadsAreApart' /\ RecoveryIsAlone'
  BY DEF Crash, ThreadsAreApart, RecoveryIsAlone, Private
<1> QED
  BY <1>2, <1>3, <1>4, <1>5, <1>6, <1>7

(* While recovery() works, nobody runs and nobody is waited for. *)
LEMMA RecoveringAlone ==
  ASSUME IInv, phase = "recovering"
  PROVE  /\ \A t \in Threads : pc[t] = "idle"
         /\ \A n \in Nodes : waits[n] = {}
         /\ \A n \in Nodes : heap[n] = "free" => n \notin Linked
BY NodesAssumption DEF IInv, RecoveryIsAlone, RetiredIsClosed, TypeOK, Linked, AllNodes

(* recovery passes over a dead PNode. *)
LEMMA RecoverDeadInv ==
  ASSUME IInv, NEW p \in PNodes, RecoverDead(p)
  PROVE  IInv'
<1> USE DEF IInv, RecoverDead, volatile, memory, locals, search
<1>1. TypeOK' /\ ListIsSorted' /\ SentinelsAreFixed' /\ RetiredIsClosed'
  BY DEF TypeOK, ListIsSorted, SentinelsAreFixed, RetiredIsClosed, MayHold, Linked
<1>2. \A t \in Threads : ThreadInv(t)'
  BY RecoveringAlone DEF ThreadInv
<1>3. ThreadsAreApart' /\ RecoveryIsAlone'
  BY DEF ThreadsAreApart, RecoveryIsAlone
<1> QED
  BY <1>1, <1>2, <1>3

(* recovery's insertion keeps the list sorted. *)
LEMMA QuickInsertInv ==
  ASSUME IInv, NEW p \in PNodes, QuickInsert(p)
  PROVE  IInv'
<1> USE DEF IInv
<1>1. PICK x \in Nodes, m \in Linked :
        /\ heap[x] = "free"
        /\ key[m] < pkey[p] /\ pkey[p] < key[next[m]]
        /\ key' = [key EXCEPT ![x] = pkey[p]]
        /\ pptr' = [pptr EXCEPT ![x] = p]
        /\ pValidity' = [pValidity EXCEPT ![x] = validStart[p]]
        /\ next' = [next EXCEPT ![x] = next[m], ![m] = x]
        /\ state' = [state EXCEPT ![x] = INSERTED]
        /\ heap' = [heap EXCEPT ![x] = "linked"]
  BY DEF QuickInsert
<1>2. /\ phase = "recovering"
      /\ pheap' = [pheap EXCEPT ![p] = "used"]
      /\ todo' = todo \ {p}
      /\ UNCHANGED <<persistent, nvm, waits, call, pc, pred, predState, curr, succ, newNode, result,
                     phase, crashes>>
  BY DEF QuickInsert, locals, search
<1>3. /\ \A t \in Threads : pc[t] = "idle"
      /\ \A n \in Nodes : waits[n] = {}
      /\ x \notin Linked
  BY <1>1, <1>2, RecoveringAlone
<1>4. m \in AllNodes /\ next[m] \in AllNodes /\ m # x /\ x \in AllNodes /\ pkey[p] \in Int
  BY <1>3, LinkedIsNode DEF AllNodes, TypeOK
<1>5. TypeOK'
  <2>1. next' \in [AllNodes -> AllNodes \union {Nil}]
    BY <1>1, <1>4 DEF TypeOK
  <2>2. /\ key' \in [AllNodes -> Int] /\ pptr' \in [Nodes -> PNodes \union {Nil}]
        /\ pValidity' \in [Nodes -> BOOLEAN] /\ state' \in [AllNodes -> States]
        /\ heap' \in [Nodes -> {"free", "owned", "linked", "unlinked"}]
    BY <1>1, <1>4 DEF TypeOK, States
  <2> QED
    BY <1>2, <2>1, <2>2 DEF TypeOK, persistent
<1>6. ListIsSorted'
  <2>1. Linked' = Linked \union {x}
    BY <1>1 DEF Linked, TypeOK
  <2>2. \A n \in Linked : next'[n] = IF n = m THEN x ELSE next[n]
    BY <1>1, <1>3, <1>4, LinkedIsNode DEF TypeOK
  <2>3. next'[x] = next[m]
    BY <1>1, <1>4 DEF TypeOK
  <2>5. \A n \in Linked \union {Tail} : key'[n] = key[n]
    BY <1>1, <1>3, LinkedIsNode, NodesAssumption DEF TypeOK, AllNodes
  <2>6. key'[x] = pkey[p]
    BY <1>1, <1>4 DEF TypeOK
  <2>7. Inserts(m, x)
    BY <1>1, <1>3, <1>4, <2>1, <2>2, <2>3, <2>5, <2>6 DEF Inserts
  <2> QED
    BY <2>7, InsertionSorts
<1>7. SentinelsAreFixed' /\ RetiredIsClosed'
  <2>1. x # Head /\ x # Tail
    BY NodesAssumption
  <2>2. waits' = waits
    BY <1>2
  <2> QED
    BY <1>1, <1>3, <2>1, <2>2 DEF SentinelsAreFixed, RetiredIsClosed, TypeOK, AllNodes
<1>8. \A t \in Threads : ThreadInv(t)'
  BY <1>2, <1>3 DEF ThreadInv
<1>9. ThreadsAreApart'
  BY <1>2, <1>3 DEF ThreadsAreApart, Private
<1>10. RecoveryIsAlone'
  BY <1>1, <1>2, <1>3, <1>4 DEF RecoveryIsAlone, TypeOK
<1> QED
  BY <1>5, <1>6, <1>7, <1>8, <1>9, <1>10

(* The last PNode recovered: operations may start. *)
LEMMA RecoverDoneInv ==
  ASSUME IInv, RecoverDone
  PROVE  IInv'
<1> USE DEF IInv, RecoverDone, volatile, persistent, memory, locals, search
<1>1. TypeOK' /\ ListIsSorted' /\ SentinelsAreFixed' /\ RetiredIsClosed'
  BY DEF TypeOK, ListIsSorted, SentinelsAreFixed, RetiredIsClosed, MayHold, Linked
<1>2. \A t \in Threads : ThreadInv(t)'
  BY RecoveringAlone DEF ThreadInv
<1>3. ThreadsAreApart' /\ RecoveryIsAlone'
  BY DEF ThreadsAreApart, RecoveryIsAlone
<1> QED
  BY <1>1, <1>2, <1>3

-----------------------------------------------------------------------------
(* The initial states satisfy the invariant. *)
LEMMA InitIInv == Init => IInv
<1> SUFFICES ASSUME Init PROVE IInv
  OBVIOUS
<1> USE DEF Init
<1>1. Linked = {Head}
  BY DEF Linked
<1>2. \A p \in PNodes : Line(p) \in Lines
  BY DEF Line, Lines
<1>3. TypeOK
  BY <1>2, KeysAssumption, NodesAssumption DEF TypeOK, AllNodes, Labels, States, Lines
<1>4. ListIsSorted /\ SentinelsAreFixed
  BY <1>1, KeysAssumption, NodesAssumption DEF ListIsSorted, SentinelsAreFixed, AllNodes
<1>5. RetiredIsClosed /\ ThreadsAreApart /\ RecoveryIsAlone
  BY DEF RetiredIsClosed, ThreadsAreApart, RecoveryIsAlone, Private
<1>6. \A t \in Threads : ThreadInv(t)
  BY DEF ThreadInv
<1> QED
  BY <1>3, <1>4, <1>5, <1>6 DEF IInv

(* Every step keeps the invariant. *)
LEMMA NextIInv ==
  ASSUME IInv, [Next]_vars
  PROVE  IInv'
<1>1. ASSUME NEW t \in Threads, Step(t)
      PROVE  IInv'
  BY <1>1, FindPassInv, FindDeletedInv, TrimInv, FreeTrimmedInv, AnswersInv, InsertHelpsInv,
     InsertMissInv, AllocNodeInv, LinkNodeInv, RetryInv, CreateStartInv, CreateEndInv,
     FlushCreateInv, PublishInv, PublishCASInv, RemoveFoundInv, ClaimInv, ClaimCASInv,
     ClaimedInv, DestroyInv, FlushDestroyInv, BuryInv, BuryCASInv, BuriedByThisInv,
     ContainsStepInv
  DEF Step
<1>2. ASSUME NEW t \in Threads, NEW c \in DS!Calls, Invoke(t, c)
      PROVE  IInv'
  BY <1>2, InvokeInv
<1>3. ASSUME NEW p \in PNodes, Evict(p)
      PROVE  IInv'
  BY <1>3, EvictInv
<1>4. CASE Crash
  BY <1>4, CrashInv
<1>5. CASE Recover
  BY <1>5, RecoverDeadInv, QuickInsertInv, RecoverDoneInv DEF Recover
<1>6. CASE UNCHANGED vars
  <2>1. TypeOK'
    BY <1>6 DEF IInv, vars, volatile, persistent, memory, locals, search, recovering, TypeOK
  <2> QED
    BY <1>6, <2>1, QuietStep DEF vars, volatile, memory, locals, search, recovering
<1> QED
  BY <1>1, <1>2, <1>3, <1>4, <1>5, <1>6 DEF Next

(* IInv holds in every state of every behaviour. *)
LEMMA Invariance == Spec => []IInv
<1>1. IInv /\ [Next]_vars => IInv'
  BY NextIInv
<1> QED
  BY <1>1, InitIInv, PTL DEF Spec

(* Every variable keeps its type: in particular nobody follows a null link,  *)
(* for a running operation's pred and curr stay nodes.                       *)
THEOREM TypeCorrect == Spec => []TypeOK
BY Invariance, PTL DEF IInv

(* The list of volatile nodes is sorted and without a gap or a duplicate key  *)
(* at every moment, however inserts, helpers, removes and trims interleave,  *)
(* although one word holds both a node's state and its link, and although    *)
(* trim writes back the state it read of the predecessor.                    *)
THEOREM SortedList == Spec => []ListIsSorted
BY Invariance, PTL DEF IInv

(* The life of a node is one way, under helpers that may come late: nobody    *)
(* revives a claimed or deleted node, and no link of a deleted one is written.*)
THEOREM StatesAdvance == Spec => StatesOnlyAdvance
<1> DEFINE Forward(n) == /\ Advances(state[n], state'[n])
                         /\ state[n] = DELETED => next'[n] = next[n]
<1>1. ASSUME IInv, Next, phase' = "running", crashes' = crashes,
             NEW n \in Nodes, heap[n] # "free", heap'[n] \in {"linked", "unlinked"}
      PROVE  Forward(n)
  <2> USE <1>1
  <2>1. ASSUME NEW t \in Threads, Step(t)
        PROVE  Forward(n)
    <3>1. CASE Trim(t) \/ LinkNode(t)
      <4>1. /\ UNCHANGED <<next, state>>
            \/ /\ Expects(pred[t], curr[t], predState[t]) /\ pc[t] # "idle"
               /\ \E m : next' = [next EXCEPT ![pred[t]] = m]
               /\ state' = [state EXCEPT ![pred[t]] = predState[t]]
        BY <3>1 DEF Trim, LinkNode
      <4>2. CASE UNCHANGED <<next, state>>
        BY <4>2 DEF Advances
      <4>3. CASE /\ Expects(pred[t], curr[t], predState[t]) /\ pc[t] # "idle"
                 /\ \E m : next' = [next EXCEPT ![pred[t]] = m]
                 /\ state' = [state EXCEPT ![pred[t]] = predState[t]]
        <5>1. predState[t] # DELETED
          BY <4>3 DEF IInv, ThreadInv, SearchIsRight
        <5>2. n \in AllNodes /\ state[pred[t]] = predState[t]
          BY <4>3 DEF AllNodes, Expects
        <5> QED
          BY <4>3, <5>1, <5>2 DEF Advances, IInv, TypeOK
      <4> QED
        BY <4>1, <4>2, <4>3
    <3>2. CASE AllocNode(t)
      BY <3>2 DEF AllocNode, IInv, TypeOK, Advances, AllNodes
    <3>3. CASE Retry(t)
      <4>1. Blank({newNode[t]})
        BY <3>3 DEF Retry
      <4> QED
        BY <4>1 DEF Blank, Blanked, IInv, TypeOK, Advances, AllNodes
    <3>4. CASE \/ Done(t) \/ InsertFound(t) \/ Published(t) \/ RemoveMiss(t) \/ BuriedByOther(t)
               \/ ContainsAnswers(t)
      <4>1. Blank({m \in Nodes : heap[m] = "unlinked" /\ waits[m] \subseteq {t}})
        BY <3>4 DEF Done, InsertFound, Published, RemoveMiss, BuriedByOther, ContainsAnswers, Return
      <4> QED
        BY <4>1 DEF Blank, Blanked, IInv, TypeOK, Advances, AllNodes
    <3>5. CASE PublishCAS(t) \/ ClaimCAS(t) \/ BuryCAS(t)
      <4>1. next' = next /\ n \in AllNodes
        BY <3>5 DEF PublishCAS, ClaimCAS, BuryCAS, AllNodes
      <4>2. pc[t] \in Publishing \union Removing
        BY <3>5 DEF PublishCAS, ClaimCAS, BuryCAS, Publishing, Removing
      <4>3. \/ stateCAS(t, INTEND_TO_INSERT, INSERTED)
            \/ stateCAS(t, INSERTED, INTEND_TO_DELETE)
            \/ stateCAS(t, INTEND_TO_DELETE, DELETED)
        BY <3>5 DEF PublishCAS, ClaimCAS, BuryCAS
      <4>4. /\ INTEND_TO_INSERT # DELETED /\ INSERTED # DELETED /\ INTEND_TO_DELETE # DELETED
            /\ INTEND_TO_INSERT \in States /\ INSERTED \in States /\ INTEND_TO_DELETE \in States
            /\ DELETED \in States
            /\ Advances(INTEND_TO_INSERT, INSERTED) /\ Advances(INSERTED, INTEND_TO_DELETE)
            /\ Advances(INTEND_TO_DELETE, DELETED)
        BY DEF States, Advances, INTEND_TO_INSERT, INSERTED, INTEND_TO_DELETE, DELETED
      <4>5. Advances(state[n], state'[n])
        BY <4>1, <4>2, <4>3, <4>4, CASAdvances
      <4> QED
        BY <4>1, <4>5
    <3>6. CASE \/ FindPass(t) \/ FindDeleted(t) \/ FreeTrimmed(t) \/ InsertHelps(t) \/ InsertMiss(t)
               \/ RemoveFound(t) \/ Claimed(t) \/ BuriedByThis(t) \/ ContainsStep(t)
      BY <3>6 DEF FindPass, FindDeleted, FreeTrimmed, InsertHelps, InsertMiss, RemoveFound, Claimed,
                  BuriedByThis, ContainsStep, volatile, Advances
    <3>7. CASE \/ CreateStart(t) \/ CreateEnd(t) \/ FlushCreate(t) \/ Publish(t) \/ Claim(t)
               \/ Destroy(t) \/ FlushDestroy(t) \/ Bury(t)
      BY <3>7 DEF CreateStart, CreateEnd, FlushCreate, Publish, Claim, Destroy, FlushDestroy, Bury,
                  LoadForCAS, volatile, Advances
    <3> QED
      BY <2>1, <3>1, <3>2, <3>3, <3>4, <3>5, <3>6, <3>7 DEF Step
  <2>2. ASSUME NEW t \in Threads, NEW c \in DS!Calls, Invoke(t, c)
        PROVE  Forward(n)
    BY <2>2 DEF Invoke, volatile, Advances
  <2>3. ASSUME NEW p \in PNodes, Evict(p)
        PROVE  Forward(n)
    BY <2>3 DEF Evict, volatile, Advances
  <2>4. ~Crash
    BY DEF Crash, IInv, TypeOK
  <2>5. CASE Recover
    BY <2>5 DEF Recover, RecoverDead, QuickInsert, RecoverDone, volatile, Advances
  <2> QED
    BY <2>1, <2>2, <2>3, <2>4, <2>5 DEF Next
<1>2. IInv /\ [Next]_vars =>
        [phase' = "running" /\ crashes' = crashes =>
           \A n \in Nodes : heap[n] # "free" /\ heap'[n] \in {"linked", "unlinked"} =>
             /\ <<state[n], state'[n]>> \in
                  {<<s, s>> : s \in States} \union
                  {<<INTEND_TO_INSERT, INSERTED>>, <<INSERTED, INTEND_TO_DELETE>>,
                   <<INTEND_TO_DELETE, DELETED>>}
             /\ state[n] = DELETED => next'[n] = next[n]]_vars
  <2> SUFFICES ASSUME IInv, Next, phase' = "running", crashes' = crashes,
                      NEW n \in Nodes, heap[n] # "free", heap'[n] \in {"linked", "unlinked"}
               PROVE  /\ <<state[n], state'[n]>> \in
                           {<<s, s>> : s \in States} \union
                           {<<INTEND_TO_INSERT, INSERTED>>, <<INSERTED, INTEND_TO_DELETE>>,
                            <<INTEND_TO_DELETE, DELETED>>}
                      /\ state[n] = DELETED => next'[n] = next[n]
    OBVIOUS
  <2>1. Forward(n)
    BY <1>1
  <2>2. state[n] \in States
    BY DEF IInv, TypeOK, AllNodes
  <2> QED
    BY <2>1, <2>2 DEF Advances
<1> QED
  BY <1>2, Invariance, PTL DEF Spec, StatesOnlyAdvance

-----------------------------------------------------------------------------
(* Who has a PNode. *)

(* A thread serves a node that it holds. *)
LEMMA ServesHeld ==
  ASSUME IInv, NEW u \in Threads, pc[u] \in Serving
  PROVE  /\ Target(u) \in Nodes /\ MayHold(u, Target(u)) /\ pc[u] # "idle" /\ pc[u] # "free"
         /\ ~Live(Target(u)) => u \in waits[Target(u)] /\ state[Target(u)] = DELETED
<1>1. pc[u] \in Publishing \union Removing /\ pc[u] # "idle" /\ pc[u] # "free"
  BY DEF Serving, Publishing, Removing
<1>2. Target(u) \in Nodes /\ MayHold(u, Target(u))
  BY <1>1, TargetIsHeld
<1>3. ~Live(Target(u)) => u \in waits[Target(u)]
  BY <1>2, NodesAssumption DEF Live, MayHold, Linked, AllNodes
<1> QED
  BY <1>1, <1>2, <1>3 DEF IInv, RetiredIsClosed

(* A thread that frees a node's PNode is the only one, and holds the node. *)
LEMMA FreesHeld ==
  ASSUME IInv, NEW u \in Threads, pc[u] = "free"
  PROVE  /\ curr[u] \in Nodes /\ heap[curr[u]] = "unlinked" /\ state[curr[u]] = DELETED
         /\ u \in waits[curr[u]] /\ Freeing(curr[u]) /\ Live(curr[u])
         /\ \A t \in Threads : pc[t] = "free" /\ curr[t] = curr[u] => t = u
<1>1. /\ curr[u] \in Nodes /\ heap[curr[u]] = "unlinked" /\ state[curr[u]] = DELETED
      /\ MayHold(u, curr[u])
  BY DEF IInv, ThreadInv, StateIsKnown, HoldsWhatItMay
<1>2. u \in waits[curr[u]]
  BY <1>1, NodesAssumption DEF MayHold, Linked, AllNodes
<1> QED
  BY <1>1, <1>2 DEF Freeing, Live, IInv, ThreadsAreApart

(* The state of a node says whether it may be off the list. *)
LEMMA LiveNode ==
  ASSUME IInv, NEW n \in Nodes, Attached(n)
  PROVE  /\ heap[n] # "free"
         /\ heap[n] = "owned" => Live(n)
         /\ heap[n] = "linked" => Live(n)
         /\ heap[n] = "unlinked" => state[n] = DELETED
<1>1. CASE heap[n] \in {"owned", "linked"}
  BY <1>1 DEF Live
<1>2. CASE Freeing(n)
  <2>1. PICK u \in Threads : pc[u] = "free" /\ curr[u] = n
    BY <1>2 DEF Freeing
  <2> QED
    BY <2>1, FreesHeld
<1>3. CASE ~Live(n)
  <2>1. PICK u \in Threads : pc[u] \in Serving /\ Target(u) = n
    BY <1>3 DEF Attached
  <2> QED
    BY <1>3, <2>1, ServesHeld DEF IInv, RetiredIsClosed
<1> QED
  BY <1>1, <1>2, <1>3 DEF Live

(* A step that leaves every PNode with its node. *)
OwnersKept ==
  /\ \A n \in Nodes : Live(n)' <=> Live(n)
  /\ \A n \in Nodes : Attached(n)' => Attached(n) /\ pptr'[n] = pptr[n]
  /\ pheap' = pheap
  /\ todo' \subseteq todo

(* A step that leaves every PNode with its node keeps AInv. *)
LEMMA OwnersKeep ==
  ASSUME AInv, OwnersKept, ServedPNodesAreKept', FreedPNodesAreCovered'
  PROVE  AInv'
<1> USE DEF AInv, OwnersKept
<1>1. OwnersHavePNodes'
  BY DEF OwnersHavePNodes
<1>2. PNodesAreApart'
  BY DEF PNodesAreApart
<1>3. UsedPNodesHaveOwners'
  <2> SUFFICES ASSUME NEW p \in PNodes, pheap[p] = "used"
               PROVE  \E n \in Nodes : Live(n)' /\ pptr'[n] = p
    BY DEF UsedPNodesHaveOwners
  <2>1. PICK n \in Nodes : Live(n) /\ pptr[n] = p
    BY DEF UsedPNodesHaveOwners
  <2>2. Attached(n)'
    BY <2>1 DEF Attached
  <2> QED
    BY <2>1, <2>2
<1>4. TodoIsFree'
  BY DEF TodoIsFree
<1> QED
  BY <1>1, <1>2, <1>3, <1>4

(* A step that moves one thread, and gives or takes no node's place. *)
Local(t) ==
  /\ UNCHANGED <<heap, pheap, waits, pptr>>
  /\ todo' \subseteq todo
  /\ pc[t] # "free" /\ pc'[t] # "free"
  /\ \A u \in Threads \ {t} : SameLocals(u)
  /\ pc'[t] \in Serving => \/ pc[t] \in Serving /\ Target(t)' = Target(t)
                           \/ \E n \in Nodes : Target(t)' = n /\ heap[n] = "linked"

(* A step that moves one thread gives no node a PNode and takes none away. *)
LEMMA LocalKeeps ==
  ASSUME NEW t \in Threads, Local(t)
  PROVE  /\ \A n \in Nodes : (Live(n)' <=> Live(n)) /\ (Attached(n)' => Attached(n))
         /\ \A n \in Nodes : Freeing(n)' <=> Freeing(n)
         /\ \A u \in Threads \ {t} : Target(u)' = Target(u)
<1> USE DEF Local
<1>1. \A u \in Threads \ {t} : Target(u)' = Target(u)
  BY DEF Target, SameLocals
<1>2. ASSUME NEW n \in Nodes
      PROVE  Freeing(n)' <=> Freeing(n)
  BY DEF Freeing, SameLocals
<1>3. ASSUME NEW n \in Nodes
      PROVE  Live(n)' <=> Live(n)
  BY <1>2 DEF Live
<1>4. ASSUME NEW n \in Nodes, Attached(n)'
      PROVE  Attached(n)
  <2>1. CASE Live(n)'
    BY <1>3, <2>1 DEF Attached
  <2>2. CASE ~Live(n)'
    <3>1. PICK u \in Threads : pc'[u] \in Serving /\ Target(u)' = n
      BY <1>4, <2>2 DEF Attached
    <3>2. CASE u # t
      BY <1>1, <3>1, <3>2 DEF Attached, SameLocals
    <3>3. CASE u = t
      BY <2>2, <3>1, <3>3 DEF Attached, Live
    <3> QED
      BY <3>2, <3>3
  <2> QED
    BY <2>1, <2>2
<1> QED
  BY <1>1, <1>2, <1>3, <1>4

(* A step that moves one thread, to a node on the list if to any, keeps AInv. *)
LEMMA LocalAInv ==
  ASSUME IInv, AInv, NEW t \in Threads, Local(t)
  PROVE  AInv'
<1>1. OwnersKept
  BY LocalKeeps DEF OwnersKept, Local
<1>2. ServedPNodesAreKept'
  <2> SUFFICES ASSUME NEW u \in Threads, pc'[u] \in Serving, ~Live(Target(u))'
               PROVE  u \in waits'[pptr'[Target(u)']]
    BY DEF ServedPNodesAreKept
  <2>1. pc[u] \in Serving /\ Target(u)' = Target(u)
    BY LocalKeeps DEF Local, SameLocals, Live
  <2>2. ~Live(Target(u))
    BY <2>1, LocalKeeps, ServesHeld
  <2> QED
    BY <2>1, <2>2 DEF AInv, ServedPNodesAreKept, Local
<1>3. FreedPNodesAreCovered'
  BY LocalKeeps DEF FreedPNodesAreCovered, AInv, Local
<1> QED
  BY <1>1, <1>2, <1>3, OwnersKeep

-----------------------------------------------------------------------------
(* The steps that are local in this sense. *)

(* A thread begins to serve a node that it found on the list. *)
LEMMA FoundIsLinked ==
  ASSUME IInv, NEW t \in Threads, FindStops(t), Found(t)
  PROVE  /\ curr[t] \in Nodes /\ heap[curr[t]] = "linked" /\ newNode[t] = Nil
         /\ Target(t) = curr[t]
<1>1. pc[t] = "find" /\ pc[t] # "idle" /\ key[curr[t]] = call[t].arg /\ state[curr[t]] # DELETED
  BY DEF FindStops, Found
<1>2. curr[t] \in Nodes /\ MayHold(t, curr[t])
  BY <1>1, Holding, KeyedIsNode
<1>3. newNode[t] = Nil
  BY <1>1 DEF IInv, ThreadInv, NewNodeIsPrivate, Private, Publishing
<1> QED
  BY <1>1, <1>2, <1>3, NodesAssumption, NotDeletedIsLinked DEF IInv, Linked, Target, AllNodes

(* A thread that begins to serve a node has just found it on the list. *)
LEMMA ServiceBegins ==
  ASSUME IInv, NEW t \in Threads, InsertHelps(t) \/ RemoveFound(t)
  PROVE  Local(t)
<1>1. /\ curr[t] \in Nodes /\ heap[curr[t]] = "linked" /\ newNode[t] = Nil /\ pc[t] = "find"
      /\ pc' = [pc EXCEPT ![t] = pc'[t]] /\ pc'[t] \in {"create", "claim"}
      /\ UNCHANGED <<heap, pheap, waits, pptr, todo, call, pred, predState, curr, newNode>>
  BY FoundIsLinked
  DEF InsertHelps, RemoveFound, Goto, FindStops, IInv, TypeOK, volatile, memory, search, recovering
<1>2. Target(t)' = curr[t]
  BY <1>1 DEF Target
<1> QED
  BY <1>1, <1>2 DEF Local, SameLocals, IInv, TypeOK

(* A thread that goes on serving does so for the same node. *)
LEMMA ServiceGoesOn ==
  ASSUME IInv, NEW t \in Threads,
         \/ CreateStart(t) \/ CreateEnd(t) \/ FlushCreate(t) \/ Publish(t) \/ PublishCAS(t)
         \/ Claim(t) \/ ClaimCAS(t) \/ Claimed(t) \/ Destroy(t) \/ FlushDestroy(t)
         \/ Bury(t) \/ BuryCAS(t) \/ BuriedByThis(t)
  PROVE  Local(t) /\ Target(t)' = Target(t)
<1>1. /\ pc' = [pc EXCEPT ![t] = pc'[t]] /\ pc[t] # "free" /\ pc'[t] # "free"
      /\ pc'[t] \in Serving => pc[t] \in Serving
      /\ UNCHANGED <<heap, pheap, waits, pptr, todo, call, pred, predState, curr, newNode>>
  <2> USE DEF IInv, TypeOK, volatile, memory, search, recovering, Goto, Serving
  <2>1. CASE CreateStart(t) \/ CreateEnd(t) \/ FlushCreate(t) \/ Publish(t) \/ PublishCAS(t)
    BY <2>1 DEF CreateStart, CreateEnd, FlushCreate, Publish, PublishCAS, LoadForCAS
  <2>2. CASE Claim(t) \/ Claimed(t) \/ Destroy(t) \/ FlushDestroy(t)
    BY <2>2 DEF Claim, Claimed, Destroy, FlushDestroy, LoadForCAS
  <2>3. CASE ClaimCAS(t)
    BY <2>3 DEF ClaimCAS
  <2>4. CASE Bury(t) \/ BuryCAS(t) \/ BuriedByThis(t)
    BY <2>4 DEF Bury, BuryCAS, BuriedByThis, LoadForCAS
  <2> QED
    BY <2>1, <2>2, <2>3, <2>4
<1>2. Target(t)' = Target(t)
  BY <1>1 DEF Target
<1> QED
  BY <1>1, <1>2 DEF Local, SameLocals, IInv, TypeOK

(* A search serves nobody and writes nothing that is shared. *)
LEMMA SearchGoesOn ==
  ASSUME IInv, NEW t \in Threads,
         \/ FindPass(t) \/ FindDeleted(t) \/ InsertMiss(t) \/ ContainsStep(t)
         \/ \E c \in DS!Calls : Invoke(t, c)
  PROVE  Local(t) /\ UNCHANGED <<volatile, persistent, nvm, todo>> /\ pc'[t] \notin Serving \union Publishing \union Removing
<1>1. /\ pc[t] # "free" /\ pc'[t] \in {"find", "walk", "trim", "alloc"}
      /\ UNCHANGED <<volatile, persistent, nvm, memory, newNode, todo>>
      /\ \A u \in Threads \ {t} : SameLocals(u)
  <2> USE DEF IInv, TypeOK, memory, search, recovering, Goto, SameLocals
  <2>1. CASE FindPass(t)
    BY <2>1 DEF FindPass
  <2>2. CASE FindDeleted(t) \/ InsertMiss(t)
    BY <2>2 DEF FindDeleted, InsertMiss, FindStops
  <2>3. CASE ContainsStep(t)
    BY <2>3 DEF ContainsStep
  <2>4. CASE \E c \in DS!Calls : Invoke(t, c)
    BY <2>4 DEF Invoke, StartSearch
  <2> QED
    BY <2>1, <2>2, <2>3, <2>4
<1> QED
  BY <1>1 DEF Local, Serving, Publishing, Removing, volatile, memory

-----------------------------------------------------------------------------
(* The other steps keep AInv too. *)

(* The insert that linked its node begins to serve it. *)
LEMMA LinkNodeAInv ==
  ASSUME IInv, AInv, NEW t \in Threads, LinkNode(t)
  PROVE  AInv'
<1>0. PICK x : x = newNode[t]
  OBVIOUS
<1>1. /\ pc[t] = "link" /\ x \in Nodes /\ heap[x] = "owned" /\ x # Nil
      /\ UNCHANGED <<pptr, pheap, waits, call, pred, predState, curr, newNode, todo>>
      /\ pc' = [pc EXCEPT ![t] = pc'[t]]
      /\ \/ pc'[t] = "retry" /\ heap' = heap
         \/ pc'[t] = "create" /\ heap' = [heap EXCEPT ![x] = "linked"]
  BY <1>0, OwnNode, NodesAssumption DEF LinkNode, Private, Goto, IInv, TypeOK, search, recovering, AllNodes
<1>2. \A u \in Threads \ {t} : SameLocals(u) /\ Target(u)' = Target(u)
  BY <1>1 DEF SameLocals, Target, IInv, TypeOK
<1>3. Target(t)' = x
  BY <1>0, <1>1 DEF Target
<1>4. ASSUME NEW n \in Nodes
      PROVE  (Freeing(n)' <=> Freeing(n)) /\ (Live(n)' <=> Live(n))
  <2>1. Freeing(n)' <=> Freeing(n)
    BY <1>1, <1>2 DEF Freeing, SameLocals
  <2> QED
    BY <1>1, <2>1 DEF Live, IInv, TypeOK
<1>5. ASSUME NEW u \in Threads, pc'[u] \in Serving
      PROVE  Live(Target(u))' \/ (pc[u] \in Serving /\ Target(u)' = Target(u))
  <2>1. CASE u = t
    BY <1>1, <1>3, <1>5, <2>1 DEF Live, Serving, IInv, TypeOK
  <2>2. CASE u # t
    BY <1>2, <1>5, <2>2 DEF SameLocals
  <2> QED
    BY <2>1, <2>2
<1>6. OwnersKept
  BY <1>1, <1>4, <1>5 DEF OwnersKept, Attached, Live
<1>7. ServedPNodesAreKept'
  <2> SUFFICES ASSUME NEW u \in Threads, pc'[u] \in Serving, ~Live(Target(u))'
               PROVE  u \in waits'[pptr'[Target(u)']]
    BY DEF ServedPNodesAreKept
  <2>1. pc[u] \in Serving /\ Target(u)' = Target(u)
    BY <1>5
  <2>2. ~Live(Target(u))
    BY <1>4, <2>1, ServesHeld
  <2> QED
    BY <1>1, <2>1, <2>2 DEF AInv, ServedPNodesAreKept
<1>8. FreedPNodesAreCovered'
  BY <1>1, <1>4 DEF FreedPNodesAreCovered, AInv
<1> QED
  BY <1>6, <1>7, <1>8, OwnersKeep

(* The thread that unlinks a node is the one that will free its PNode, which *)
(* is kept for all who hold the node.                                        *)
LEMMA TrimAInv ==
  ASSUME IInv, AInv, NEW t \in Threads, Trim(t)
  PROVE  AInv'
<1>0. PICK c : c = curr[t]
  OBVIOUS
<1>1. /\ pc[t] = "trim" /\ c \in Nodes /\ newNode[t] = Nil
      /\ UNCHANGED <<pptr, pheap, call, pred, predState, newNode, todo>>
      /\ \A u \in Threads \ {t} : SameLocals(u) /\ Target(u)' = Target(u)
  <2>1. pc[t] = "trim" /\ c \in Nodes /\ newNode[t] = Nil
    BY <1>0 DEF Trim, IInv, ThreadInv, StateIsKnown, NewNodeIsPrivate, Private, Publishing
  <2>2. \A u \in Threads \ {t} : SameLocals(u)
    BY DEF Trim, SameLocals, Goto, IInv, TypeOK
  <2> QED
    BY <2>1, <2>2 DEF Trim, SameLocals, Target, recovering
<1>2. CASE ~Expects(pred[t], curr[t], predState[t])
  <2>1. UNCHANGED <<heap, waits>> /\ pc'[t] \in {"done", "find"}
    BY <1>2 DEF Trim, Goto, IInv, TypeOK
  <2>2. Local(t)
    BY <1>1, <2>1 DEF Local, Serving
  <2> QED
    BY <2>2, LocalAInv
<1>3. CASE Expects(pred[t], curr[t], predState[t])
  <2>1. /\ heap[c] = "linked" /\ heap' = [heap EXCEPT ![c] = "unlinked"] /\ Unlink(c)
        /\ pc' = [pc EXCEPT ![t] = "free"] /\ curr' = curr
    <3>1. c \in Linked
      BY <1>0, <1>1, <1>3, PredIsLinked, NodesAssumption DEF AllNodes
    <3> QED
      BY <1>0, <1>1, <1>3, <3>1, NodesAssumption DEF Trim, Unlink, Goto, Linked, AllNodes
  <2>2. pc'[t] = "free" /\ curr'[t] = c /\ heap'[c] = "unlinked"
        /\ \A n \in Nodes \ {c} : heap'[n] = heap[n]
    BY <1>0, <1>1, <2>1 DEF IInv, TypeOK
  <2>3. ~Freeing(c)
    BY <2>1, FreesHeld DEF Freeing
  <2>4. Freeing(c)' /\ Live(c) /\ Attached(c)
    BY <2>1, <2>2 DEF Freeing, Live, Attached
  <2>5. ASSUME NEW n \in Nodes, n # c
        PROVE  Freeing(n)' <=> Freeing(n)
    BY <1>0, <1>1, <2>2, <2>5 DEF Freeing, SameLocals
  <2>6. \A n \in Nodes : Live(n)' <=> Live(n)
    BY <2>2, <2>4, <2>5 DEF Live
  <2>7. \A u \in Threads : pc'[u] \in Serving => pc[u] \in Serving /\ Target(u)' = Target(u) /\ u # t
    BY <1>1, <2>2 DEF Serving, SameLocals
  <2>8. \A n \in Nodes : Attached(n)' => Attached(n)
    BY <2>6, <2>7 DEF Attached
  <2>9. OwnersKept
    BY <1>1, <2>6, <2>8 DEF OwnersKept
  <2>10. \A n \in Nodes : Attached(n) /\ n # c => pptr[n] \in PNodes /\ pptr[n] # pptr[c]
    BY <1>1, <2>4 DEF AInv, PNodesAreApart, OwnersHavePNodes
  <2>11. pptr[c] \in PNodes /\ \A n \in Nodes : n # pptr[c] /\ n \notin PNodes
    BY <1>1, <2>4, NodesAssumption DEF AInv, OwnersHavePNodes
  <2>12. \A p \in PNodes : p # pptr[c] => waits'[p] = waits[p]
    BY <2>1, <2>11, <1>1 DEF Unlink, IInv, TypeOK
  <2>13. \A n \in Nodes : n # c => waits'[n] = waits[n]
    BY <2>1, <2>11 DEF Unlink, IInv, TypeOK
  <2>14. ServedPNodesAreKept'
    <3> SUFFICES ASSUME NEW u \in Threads, pc'[u] \in Serving, ~Live(Target(u))'
                 PROVE  u \in waits'[pptr'[Target(u)']]
      BY DEF ServedPNodesAreKept
    <3>1. pc[u] \in Serving /\ Target(u)' = Target(u) /\ Target(u) \in Nodes
      BY <2>7, ServesHeld
    <3>2. ~Live(Target(u)) /\ Attached(Target(u)) /\ Target(u) # c
      BY <2>4, <2>6, <3>1 DEF Attached
    <3>3. u \in waits[pptr[Target(u)]]
      BY <3>1, <3>2 DEF AInv, ServedPNodesAreKept
    <3> QED
      BY <1>1, <2>10, <2>12, <3>1, <3>2, <3>3
  <2>15. FreedPNodesAreCovered'
    <3> SUFFICES ASSUME ~QuiesceOnFree, NEW n \in Nodes, Freeing(n)'
                 PROVE  waits'[n] \subseteq waits'[pptr'[n]]
      BY DEF FreedPNodesAreCovered
    <3>1. CASE n = c
      <4>1. waits'[c] = Busy /\ waits'[pptr[c]] = Busy
        BY <1>1, <2>1, <2>11 DEF Unlink, IInv, TypeOK
      <4> QED
        BY <1>1, <3>1, <4>1
    <3>2. CASE n # c
      <4>1. Freeing(n) /\ Attached(n)
        BY <2>5, <3>2 DEF Attached, Live
      <4> QED
        BY <1>1, <2>10, <2>12, <2>13, <3>2, <4>1 DEF AInv, FreedPNodesAreCovered
    <3> QED
      BY <3>1, <3>2
  <2> QED
    BY <2>9, <2>14, <2>15, OwnersKeep
<1> QED
  BY <1>2, <1>3

(* ssmem_free takes the PNode of x from it; x is then nobody's to serve, or   *)
(* those who serve it are waited for.                                        *)
Frees(t, x) ==
  /\ Live(x) /\ ~Live(x)'
  /\ \A n \in Nodes \ {x} : (Live(n)' <=> Live(n)) /\ pptr'[n] = pptr[n]
  /\ \A n \in Nodes : Freeing(n)' => Freeing(n)
  /\ \A u \in Threads : pc'[u] \in Serving => pc[u] \in Serving /\ Target(u)' = Target(u) /\ u # t
  /\ Attached(x)' => pptr'[x] = pptr[x]
  /\ \A u \in Threads : pc[u] \in Serving /\ Target(u) = x => Freeing(x)
  /\ pheap' = [pheap EXCEPT ![pptr[x]] = "free"]
  /\ Free(t, pptr[x])
  /\ todo = {} /\ todo' = {}

(* Freeing the PNode of a deleted node keeps AInv. *)
LEMMA FreesAInv ==
  ASSUME IInv, AInv, NEW t \in Threads, NEW x \in Nodes, Frees(t, x)
  PROVE  AInv'
<1> USE DEF AInv, Frees
<1>1. Attached(x) /\ pptr[x] \in PNodes /\ pheap[pptr[x]] = "used"
  BY DEF Attached, OwnersHavePNodes
<1>2. \A n \in Nodes : Attached(n)' => Attached(n) /\ pptr'[n] = pptr[n]
  BY DEF Attached
<1>3. \A n \in Nodes \ {x} : Attached(n) => pptr[n] # pptr[x]
  BY <1>1 DEF PNodesAreApart
<1>4. OwnersHavePNodes'
  <2> SUFFICES ASSUME NEW n \in Nodes, Attached(n)'
               PROVE  pptr'[n] \in PNodes /\ pheap'[pptr'[n]] = IF Live(n)' THEN "used" ELSE "free"
    BY DEF OwnersHavePNodes
  <2>1. Attached(n) /\ pptr'[n] = pptr[n] /\ pptr[n] \in PNodes
        /\ pheap[pptr[n]] = IF Live(n) THEN "used" ELSE "free"
    BY <1>2 DEF OwnersHavePNodes
  <2>2. CASE n = x
    BY <1>1, <2>1, <2>2 DEF IInv, TypeOK
  <2>3. CASE n # x
    BY <1>3, <2>1, <2>3 DEF IInv, TypeOK
  <2> QED
    BY <2>2, <2>3
<1>5. PNodesAreApart'
  BY <1>2 DEF PNodesAreApart
<1>6. UsedPNodesHaveOwners'
  <2> SUFFICES ASSUME NEW p \in PNodes, pheap'[p] = "used"
               PROVE  \E n \in Nodes : Live(n)' /\ pptr'[n] = p
    BY DEF UsedPNodesHaveOwners
  <2>1. pheap[p] = "used" /\ p # pptr[x]
    BY <1>1 DEF IInv, TypeOK
  <2>2. PICK n \in Nodes : Live(n) /\ pptr[n] = p
    BY <2>1 DEF UsedPNodesHaveOwners
  <2> QED
    BY <2>1, <2>2
<1>7. /\ QuiesceOnFree => /\ waits'[pptr[x]] = Threads
                          /\ \A p \in PNodes \ {pptr[x]} : waits'[p] = waits[p] \ {t}
      /\ ~QuiesceOnFree => waits' = waits
  BY <1>1 DEF Free
<1>8. ServedPNodesAreKept'
  <2> SUFFICES ASSUME NEW u \in Threads, pc'[u] \in Serving, ~Live(Target(u))'
               PROVE  u \in waits'[pptr'[Target(u)']]
    BY DEF ServedPNodesAreKept
  <2>0. PICK n : n = Target(u)
    OBVIOUS
  <2>1. /\ pc[u] \in Serving /\ Target(u)' = n /\ n \in Nodes /\ u # t /\ MayHold(u, n)
        /\ Attached(n)
    BY <2>0, ServesHeld DEF Attached
  <2>2. ~Live(n)' /\ Attached(n)'
    BY <2>1 DEF Attached
  <2>3. pptr'[n] = pptr[n] /\ pptr[n] \in PNodes
    BY <1>2, <2>1, <2>2 DEF OwnersHavePNodes
  <2>4. CASE n = x
    <3>1. Freeing(x)
      BY <2>0, <2>1, <2>4
    <3>2. heap[x] = "unlinked"
      BY <3>1, FreesHeld DEF Freeing
    <3>3. u \in waits[x]
      BY <2>1, <2>4, <3>2, NodesAssumption DEF MayHold, Linked, AllNodes
    <3> QED
      BY <1>7, <2>1, <2>3, <2>4, <3>1, <3>3 DEF FreedPNodesAreCovered
  <2>5. CASE n # x
    <3>1. ~Live(n)
      BY <2>1, <2>2, <2>5
    <3>2. u \in waits[pptr[n]]
      BY <2>0, <2>1, <3>1 DEF ServedPNodesAreKept
    <3> QED
      BY <1>3, <1>7, <2>1, <2>3, <2>5, <3>2
  <2> QED
    BY <2>4, <2>5
<1>9. FreedPNodesAreCovered'
  BY <1>2, <1>7 DEF FreedPNodesAreCovered, Attached, Live
<1>10. TodoIsFree'
  BY DEF TodoIsFree
<1> QED
  BY <1>4, <1>5, <1>6, <1>8, <1>9, <1>10

(* The thread that unlinked the node frees its PNode. *)
LEMMA FreeTrimmedAInv ==
  ASSUME IInv, AInv, NEW t \in Threads, FreeTrimmed(t)
  PROVE  AInv'
<1>0. PICK x : x = curr[t]
  OBVIOUS
<1>1. /\ pc[t] = "free" /\ x \in Nodes /\ heap[x] = "unlinked" /\ Freeing(x) /\ Live(x)
      /\ \A u \in Threads : pc[u] = "free" /\ curr[u] = x => u = t
  BY <1>0, FreesHeld DEF FreeTrimmed
<1>2. /\ UNCHANGED <<heap, pptr, todo>> /\ pc'[t] \in {"done", "find"}
      /\ \A u \in Threads \ {t} : SameLocals(u)
      /\ Free(t, pptr[x])
  BY <1>0 DEF FreeTrimmed, Goto, SameLocals, IInv, TypeOK, volatile, recovering
<1>3. \A u \in Threads \ {t} : Target(u)' = Target(u)
  BY <1>2 DEF SameLocals, Target
<1>4. \A n \in Nodes : Freeing(n)' => Freeing(n)
  BY <1>2 DEF Freeing, SameLocals
<1>5. ~Freeing(x)'
  BY <1>1, <1>2 DEF Freeing, SameLocals
<1>6. \A n \in Nodes \ {x} : Freeing(n) => Freeing(n)'
  BY <1>0, <1>2 DEF Freeing, SameLocals
<1>7. todo = {}
  BY <1>1, Holding DEF IInv, RecoveryIsAlone
<1>8. \A u \in Threads : pc'[u] \in Serving => pc[u] \in Serving /\ Target(u)' = Target(u) /\ u # t
  BY <1>2, <1>3 DEF Serving, SameLocals
<1>9. Frees(t, x)
  <2>1. ~Live(x)'
    BY <1>1, <1>2, <1>5 DEF Live
  <2>2. \A n \in Nodes \ {x} : Live(n)' <=> Live(n)
    BY <1>2, <1>4, <1>6 DEF Live
  <2> QED
    BY <1>1, <1>2, <1>4, <1>7, <1>8, <2>1, <2>2 DEF Frees, Free
<1> QED
  BY <1>1, <1>9, FreesAInv

(* The insertion that lost the race frees the PNode of a node nobody met. *)
LEMMA RetryAInv ==
  ASSUME IInv, AInv, NEW t \in Threads, Retry(t)
  PROVE  AInv'
<1>0. PICK x : x = newNode[t]
  OBVIOUS
<1>1. pc[t] = "retry" /\ x \in Nodes /\ heap[x] = "owned" /\ Live(x) /\ todo = {}
  BY <1>0, OwnNode, Holding DEF Retry, Private, Live, IInv, RecoveryIsAlone
<1>2. /\ heap' = [n \in Nodes |-> IF n \in {x} THEN "free" ELSE heap[n]]
      /\ pptr' = [n \in Nodes |-> IF n \in {x} THEN Nil ELSE pptr[n]]
  <2>1. Blank({x})
    BY <1>0 DEF Retry
  <2> QED
    BY <2>1 DEF Blank, Blanked, IInv, TypeOK
<1>3. /\ todo' = todo /\ pc'[t] = "find"
      /\ \A u \in Threads \ {t} : SameLocals(u)
      /\ Free(t, pptr[x])
  BY <1>0 DEF Retry, StartSearch, Goto, SameLocals, IInv, TypeOK, recovering
<1>4. \A u \in Threads \ {t} : Target(u)' = Target(u)
  BY <1>3 DEF SameLocals, Target
<1>5. \A n \in Nodes : Freeing(n)' <=> Freeing(n)
  BY <1>1, <1>3 DEF Freeing, SameLocals
<1>6. ~Freeing(x) /\ \A u \in Threads : pc[u] \in Serving => Target(u) # x
  <2>1. ~Freeing(x)
    BY <1>1, FreesHeld DEF Freeing
  <2>2. \A u \in Threads : pc[u] \in Serving => Target(u) # x
    BY <1>1, ServesHeld, OwnedIsNotHeld
  <2> QED
    BY <2>1, <2>2
<1>7. \A u \in Threads : pc'[u] \in Serving => pc[u] \in Serving /\ Target(u)' = Target(u) /\ u # t
  BY <1>3, <1>4 DEF Serving, SameLocals
<1>8. ~Live(x)' /\ ~Attached(x)'
  <2>1. ~Live(x)'
    BY <1>1, <1>2, <1>5, <1>6 DEF Live
  <2> QED
    BY <1>6, <1>7, <2>1 DEF Attached
<1>9. \A n \in Nodes \ {x} : (Live(n)' <=> Live(n)) /\ pptr'[n] = pptr[n]
  BY <1>2, <1>5 DEF Live
<1>10. Frees(t, x)
  BY <1>1, <1>3, <1>5, <1>6, <1>7, <1>8, <1>9 DEF Frees, Free
<1> QED
  BY <1>1, <1>10, FreesAInv

(* An operation that answers lets go of everything. *)
LEMMA ReturnAInv ==
  ASSUME IInv, AInv, NEW t \in Threads, NEW r, pc[t] # "idle", pc[t] # "free", Return(t, r),
         UNCHANGED <<pheap, todo>>
  PROVE  AInv'
<1>1. PICK gone : gone = {n \in Nodes : heap[n] = "unlinked" /\ waits[n] \subseteq {t}}
  OBVIOUS
<1>2. /\ heap' = [n \in Nodes |-> IF n \in gone THEN "free" ELSE heap[n]]
      /\ pptr' = [n \in Nodes |-> IF n \in gone THEN Nil ELSE pptr[n]]
  <2>1. Blank(gone)
    BY <1>1 DEF Return
  <2> QED
    BY <2>1 DEF Blank, Blanked, IInv, TypeOK
<1>3. /\ pc'[t] = "idle" /\ \A u \in Threads \ {t} : SameLocals(u) /\ Target(u)' = Target(u)
      /\ waits' = [m \in Nodes \union PNodes |->
                    IF QuiesceOnFree /\ m \in PNodes THEN waits[m] ELSE waits[m] \ {t}]
  BY DEF Return, SameLocals, Target, IInv, TypeOK
<1>4. \A u \in Threads : pc'[u] \in Serving => pc[u] \in Serving /\ Target(u)' = Target(u) /\ u # t
  BY <1>3 DEF Serving, SameLocals
<1>5. \A n \in Nodes : Freeing(n)' <=> Freeing(n)
  BY <1>3 DEF Freeing, SameLocals
<1>6. \A n \in gone : ~Live(n) /\ ~Live(n)' /\ ~Attached(n)'
  <2> SUFFICES ASSUME NEW n \in gone
               PROVE  ~Live(n) /\ ~Live(n)' /\ ~Attached(n)'
    OBVIOUS
  <2>1. n \in Nodes /\ heap[n] = "unlinked" /\ waits[n] \subseteq {t} /\ heap'[n] = "free"
    BY <1>1, <1>2
  <2>2. ~Freeing(n)
    BY <2>1, FreesHeld DEF Freeing
  <2>3. ~Live(n) /\ ~Live(n)'
    BY <1>5, <2>1, <2>2 DEF Live
  <2>4. \A u \in Threads : pc'[u] \in Serving => Target(u)' # n
    BY <1>4, <2>1, <2>3, ServesHeld
  <2> QED
    BY <2>3, <2>4 DEF Attached
<1>7. \A n \in Nodes : (Live(n)' <=> Live(n)) /\ (n \notin gone => pptr'[n] = pptr[n])
  BY <1>2, <1>5, <1>6 DEF Live
<1>8. \A n \in Nodes : Attached(n)' => Attached(n) /\ pptr'[n] = pptr[n]
  BY <1>4, <1>6, <1>7 DEF Attached
<1>9. OwnersKept
  BY <1>7, <1>8 DEF OwnersKept
<1>10. ServedPNodesAreKept'
  <2> SUFFICES ASSUME NEW u \in Threads, pc'[u] \in Serving, ~Live(Target(u))'
               PROVE  u \in waits'[pptr'[Target(u)']]
    BY DEF ServedPNodesAreKept
  <2>1. pc[u] \in Serving /\ Target(u)' = Target(u) /\ Target(u) \in Nodes /\ u # t
    BY <1>4, ServesHeld
  <2>2. ~Live(Target(u)) /\ Attached(Target(u)) /\ Attached(Target(u))'
    BY <1>7, <2>1 DEF Attached
  <2>3. pptr'[Target(u)] = pptr[Target(u)] /\ pptr[Target(u)] \in PNodes
    BY <1>8, <2>1, <2>2 DEF AInv, OwnersHavePNodes
  <2> QED
    BY <1>3, <2>1, <2>2, <2>3 DEF AInv, ServedPNodesAreKept
<1>11. FreedPNodesAreCovered'
  <2> SUFFICES ASSUME ~QuiesceOnFree, NEW n \in Nodes, Freeing(n)'
               PROVE  waits'[n] \subseteq waits'[pptr'[n]]
    BY DEF FreedPNodesAreCovered
  <2>1. Freeing(n) /\ Attached(n) /\ Attached(n)'
    BY <1>5 DEF Attached, Live
  <2>2. pptr'[n] = pptr[n] /\ pptr[n] \in PNodes
    BY <1>8, <2>1 DEF AInv, OwnersHavePNodes
  <2> QED
    BY <1>3, <2>1, <2>2 DEF AInv, FreedPNodesAreCovered
<1> QED
  BY <1>9, <1>10, <1>11, OwnersKeep

(* The steps that answer. *)
LEMMA AnswersAInv ==
  ASSUME IInv, AInv, NEW t \in Threads,
         \/ Done(t) \/ InsertFound(t) \/ Published(t) \/ RemoveMiss(t) \/ BuriedByOther(t)
         \/ ContainsAnswers(t)
  PROVE  AInv'
<1>1. /\ pc[t] # "idle" /\ pc[t] # "free" /\ UNCHANGED <<pheap, todo>>
      /\ \E r : Return(t, r)
  BY DEF Done, InsertFound, Published, RemoveMiss, BuriedByOther, ContainsAnswers, FindStops, recovering
<1> QED
  BY <1>1, ReturnAInv

(* A free node gets a free PNode that nobody serves. *)
Takes(x, p) ==
  /\ heap[x] = "free" /\ Live(x)' /\ pptr'[x] = p
  /\ pheap[p] = "free" /\ pheap' = [pheap EXCEPT ![p] = "used"]
  /\ \A n \in Nodes \ {x} : (Live(n)' <=> Live(n)) /\ pptr'[n] = pptr[n]
  /\ \A n \in Nodes : Freeing(n)' => Freeing(n)
  /\ \A u \in Threads : pc'[u] \in Serving => pc[u] \in Serving /\ Target(u)' = Target(u)
  /\ waits' = waits
  /\ waits[p] = {} \/ \A u \in Threads : pc[u] \notin Serving
  /\ todo' \subseteq todo \ {p}

(* Such a PNode has no node yet. *)
LEMMA TakesFresh ==
  ASSUME IInv, AInv, NEW x \in Nodes, NEW p \in PNodes, Takes(x, p)
  PROVE  /\ ~Live(x) /\ ~Attached(x)
         /\ \A n \in Nodes : Attached(n) => pptr[n] # p
         /\ \A n \in Nodes \ {x} : Attached(n)' => Attached(n)
<1> USE DEF Takes
<1>1. ~Attached(x)
  BY LiveNode
<1>2. ASSUME NEW n \in Nodes, Attached(n), pptr[n] = p
      PROVE  FALSE
  <2>1. ~Live(n)
    BY <1>2 DEF AInv, OwnersHavePNodes
  <2>2. PICK u \in Threads : pc[u] \in Serving /\ Target(u) = n
    BY <1>2, <2>1 DEF Attached
  <2>3. u \in waits[p]
    BY <1>2, <2>1, <2>2 DEF AInv, ServedPNodesAreKept
  <2> QED
    BY <2>2, <2>3
<1>3. \A n \in Nodes \ {x} : Attached(n)' => Attached(n)
  BY DEF Attached
<1> QED
  BY <1>1, <1>2, <1>3 DEF Attached

(* Taking a free PNode for a new node keeps AInv. *)
LEMMA TakesAInv ==
  ASSUME IInv, AInv, NEW x \in Nodes, NEW p \in PNodes, Takes(x, p)
  PROVE  AInv'
<1> USE DEF AInv, Takes
<1>1. \A n \in Nodes \ {x} : Attached(n)' => Attached(n) /\ pptr'[n] = pptr[n] /\ pptr[n] # p
  BY TakesFresh
<1>2. OwnersHavePNodes'
  <2> SUFFICES ASSUME NEW n \in Nodes, Attached(n)'
               PROVE  pptr'[n] \in PNodes /\ pheap'[pptr'[n]] = IF Live(n)' THEN "used" ELSE "free"
    BY DEF OwnersHavePNodes
  <2>1. CASE n = x
    BY <2>1 DEF IInv, TypeOK
  <2>2. CASE n # x
    BY <1>1, <2>2 DEF OwnersHavePNodes, IInv, TypeOK
  <2> QED
    BY <2>1, <2>2
<1>3. PNodesAreApart'
  BY <1>1 DEF PNodesAreApart
<1>4. UsedPNodesHaveOwners'
  <2> SUFFICES ASSUME NEW q \in PNodes, pheap'[q] = "used"
               PROVE  \E n \in Nodes : Live(n)' /\ pptr'[n] = q
    BY DEF UsedPNodesHaveOwners
  <2>1. CASE q = p
    BY <2>1
  <2>2. CASE q # p
    <3>1. PICK n \in Nodes : Live(n) /\ pptr[n] = q
      BY <2>2 DEF UsedPNodesHaveOwners, IInv, TypeOK
    <3>2. n # x
      BY <3>1, TakesFresh
    <3> QED
      BY <3>1, <3>2
  <2> QED
    BY <2>1, <2>2
<1>5. ServedPNodesAreKept'
  <2> SUFFICES ASSUME NEW u \in Threads, pc'[u] \in Serving, ~Live(Target(u))'
               PROVE  u \in waits'[pptr'[Target(u)']]
    BY DEF ServedPNodesAreKept
  <2>1. pc[u] \in Serving /\ Target(u)' = Target(u) /\ Target(u) \in Nodes
    BY ServesHeld
  <2>2. Target(u) # x
    BY <2>1, TakesFresh DEF Attached
  <2> QED
    BY <2>1, <2>2 DEF ServedPNodesAreKept
<1>6. FreedPNodesAreCovered'
  BY TakesFresh DEF FreedPNodesAreCovered, Live
<1>7. TodoIsFree'
  BY DEF TodoIsFree, IInv, TypeOK
<1> QED
  BY <1>2, <1>3, <1>4, <1>5, <1>6, <1>7

(* insert takes both nodes from the allocators. *)
LEMMA AllocNodeTakes ==
  ASSUME IInv, NEW t \in Threads, AllocNode(t)
  PROVE  \E x \in Nodes, p \in PNodes :
           /\ Takes(x, p) /\ pValidity' = [pValidity EXCEPT ![x] = ~validStart[p]]
           /\ heap[x] = "free" /\ heap' = [heap EXCEPT ![x] = "owned"]
           /\ key' = [key EXCEPT ![x] = call[t].arg]
           /\ pptr' = [pptr EXCEPT ![x] = p]
           /\ state' = [state EXCEPT ![x] = INTEND_TO_INSERT]
           /\ pc'[t] = "link" /\ \A u \in Threads \ {t} : SameLocals(u)
           /\ UNCHANGED <<persistent, nvm, todo, phase>> /\ todo = {}
           /\ pheap[p] = "free"
<1>1. PICK x \in Nodes, p \in PNodes :
        /\ heap[x] = "free" /\ Allocatable(p)
        /\ heap' = [heap EXCEPT ![x] = "owned"]
        /\ pheap' = [pheap EXCEPT ![p] = "used"]
        /\ key' = [key EXCEPT ![x] = call[t].arg]
        /\ pptr' = [pptr EXCEPT ![x] = p]
        /\ pValidity' = [pValidity EXCEPT ![x] = ~validStart[p]]
        /\ state' = [state EXCEPT ![x] = INTEND_TO_INSERT]
        /\ newNode' = [newNode EXCEPT ![t] = x]
  BY DEF AllocNode, alloc
<1>2. /\ pc[t] = "alloc" /\ pc' = [pc EXCEPT ![t] = "link"]
      /\ UNCHANGED <<persistent, nvm, waits, call, pred, predState, curr, succ, result, phase, todo, crashes>>
  BY DEF AllocNode, Goto, search, recovering
<1>3. pc'[t] = "link" /\ \A u \in Threads \ {t} : SameLocals(u) /\ Target(u)' = Target(u)
  BY <1>1, <1>2 DEF SameLocals, Target, IInv, TypeOK
<1>4. todo = {} /\ pheap[p] = "free" /\ waits[p] = {}
  BY <1>1, <1>2, Holding DEF IInv, RecoveryIsAlone, Allocatable
<1>5. \A n \in Nodes : Freeing(n)' <=> Freeing(n)
  BY <1>2, <1>3 DEF Freeing, SameLocals
<1>6. Live(x)' /\ pptr'[x] = p
  BY <1>1 DEF Live, IInv, TypeOK
<1>7. \A n \in Nodes \ {x} : (Live(n)' <=> Live(n)) /\ pptr'[n] = pptr[n]
  BY <1>1, <1>5 DEF Live, IInv, TypeOK
<1>8. \A u \in Threads : pc'[u] \in Serving => pc[u] \in Serving /\ Target(u)' = Target(u)
  BY <1>3 DEF Serving, SameLocals
<1>9. Takes(x, p)
  BY <1>1, <1>2, <1>4, <1>5, <1>6, <1>7, <1>8 DEF Takes
<1> QED
  BY <1>1, <1>2, <1>3, <1>4, <1>9

(* recovery's insertion takes the PNode that it found, and a new node. *)
LEMMA QuickInsertTakes ==
  ASSUME IInv, AInv, NEW p \in PNodes, QuickInsert(p)
  PROVE  \E x \in Nodes :
           /\ Takes(x, p) /\ pValidity' = [pValidity EXCEPT ![x] = validStart[p]]
           /\ heap[x] = "free" /\ heap' = [heap EXCEPT ![x] = "linked"]
           /\ key' = [key EXCEPT ![x] = pkey[p]]
           /\ pptr' = [pptr EXCEPT ![x] = p]
           /\ state' = [state EXCEPT ![x] = INSERTED]
           /\ UNCHANGED <<persistent, nvm, pc, phase>> /\ phase = "recovering"
           /\ pheap[p] = "free" /\ p \in todo /\ todo' = todo \ {p}
<1>1. PICK x \in Nodes :
        /\ heap[x] = "free"
        /\ key' = [key EXCEPT ![x] = pkey[p]]
        /\ pptr' = [pptr EXCEPT ![x] = p]
        /\ pValidity' = [pValidity EXCEPT ![x] = validStart[p]]
        /\ state' = [state EXCEPT ![x] = INSERTED]
        /\ heap' = [heap EXCEPT ![x] = "linked"]
  BY DEF QuickInsert
<1>2. /\ phase = "recovering" /\ p \in todo
      /\ pheap' = [pheap EXCEPT ![p] = "used"]
      /\ todo' = todo \ {p}
      /\ UNCHANGED <<persistent, nvm, waits, call, pc, pred, predState, curr, succ, newNode, result,
                     phase, crashes>>
  BY DEF QuickInsert, locals, search
<1>3. pheap[p] = "free" /\ \A u \in Threads : pc[u] = "idle"
  BY <1>2, RecoveringAlone DEF AInv, TodoIsFree
<1>4. \A n \in Nodes : Freeing(n)' <=> Freeing(n)
  BY <1>2 DEF Freeing
<1>5. Live(x)' /\ pptr'[x] = p /\ \A n \in Nodes \ {x} : (Live(n)' <=> Live(n)) /\ pptr'[n] = pptr[n]
  BY <1>1, <1>4 DEF Live, IInv, TypeOK
<1>6. Takes(x, p)
  BY <1>1, <1>2, <1>3, <1>4, <1>5 DEF Takes, Serving
<1> QED
  BY <1>1, <1>2, <1>3, <1>6

(* A step outside the operations and the allocators. *)
LEMMA QuietAInv ==
  ASSUME AInv, UNCHANGED <<heap, pheap, waits, pptr, pc, curr, newNode>>, todo' \subseteq todo
  PROVE  AInv'
<1>1. \A u : Target(u)' = Target(u)
  BY DEF Target
<1>2. \A n : (Freeing(n)' <=> Freeing(n)) /\ (Live(n)' <=> Live(n)) /\ (Attached(n)' <=> Attached(n))
  BY <1>1 DEF Freeing, Live, Attached
<1>3. OwnersKept
  BY <1>2 DEF OwnersKept
<1>4. ServedPNodesAreKept'
  BY <1>1, <1>2 DEF AInv, ServedPNodesAreKept, Live, Freeing
<1>5. FreedPNodesAreCovered'
  BY <1>2 DEF AInv, FreedPNodesAreCovered
<1> QED
  BY <1>3, <1>4, <1>5, OwnersKeep

(* Nobody has a PNode when nobody has a node. *)
LEMMA BlankAInv ==
  ASSUME \A n \in Nodes : heap[n] = "free", \A p \in PNodes : pheap[p] = "free",
         \A u \in Threads : pc[u] = "idle", todo \subseteq PNodes
  PROVE  AInv /\ \A n \in Nodes : ~Attached(n)
BY DEF AInv, OwnersHavePNodes, PNodesAreApart, UsedPNodesHaveOwners, ServedPNodesAreKept,
         FreedPNodesAreCovered, TodoIsFree, Attached, Live, Freeing, Serving

(* A crash takes every node and every thread away. *)
LEMMA CrashAInv ==
  ASSUME Crash
  PROVE  AInv' /\ \A n \in Nodes : ~Attached(n)'
<1>1. /\ \A n \in Nodes : heap'[n] = "free"
      /\ \A p \in PNodes : pheap'[p] = "free"
      /\ \A u \in Threads : pc'[u] = "idle"
      /\ todo' = PNodes
  BY DEF Crash, ChunkPNodes
<1> QED
  BY <1>1
  DEF AInv, OwnersHavePNodes, PNodesAreApart, UsedPNodesHaveOwners, ServedPNodesAreKept,
      FreedPNodesAreCovered, TodoIsFree, Attached, Live, Freeing, Serving

(* Every step keeps AInv. *)
LEMMA NextAInv ==
  ASSUME IInv, AInv, [Next]_vars
  PROVE  AInv'
<1>1. ASSUME NEW t \in Threads, Step(t)
      PROVE  AInv'
  <2>1. CASE \/ FindPass(t) \/ FindDeleted(t) \/ InsertMiss(t) \/ ContainsStep(t)
    BY <2>1, SearchGoesOn, LocalAInv
  <2>2. CASE InsertHelps(t) \/ RemoveFound(t)
    BY <2>2, ServiceBegins, LocalAInv
  <2>3. CASE \/ CreateStart(t) \/ CreateEnd(t) \/ FlushCreate(t) \/ Publish(t) \/ PublishCAS(t)
             \/ Claim(t) \/ ClaimCAS(t) \/ Claimed(t) \/ Destroy(t) \/ FlushDestroy(t)
             \/ Bury(t) \/ BuryCAS(t) \/ BuriedByThis(t)
    BY <2>3, ServiceGoesOn, LocalAInv
  <2>4. CASE \/ Done(t) \/ InsertFound(t) \/ Published(t) \/ RemoveMiss(t) \/ BuriedByOther(t)
             \/ ContainsAnswers(t)
    BY <2>4, AnswersAInv
  <2>5. CASE AllocNode(t)
    BY <2>5, AllocNodeTakes, TakesAInv
  <2> QED
    BY <1>1, <2>1, <2>2, <2>3, <2>4, <2>5, TrimAInv, FreeTrimmedAInv, LinkNodeAInv, RetryAInv DEF Step
<1>2. ASSUME NEW t \in Threads, NEW c \in DS!Calls, Invoke(t, c)
      PROVE  AInv'
  BY <1>2, SearchGoesOn, LocalAInv
<1>3. ASSUME NEW p \in PNodes, Evict(p)
      PROVE  AInv'
  BY <1>3, QuietAInv DEF Evict, volatile, memory, locals, search, recovering
<1>4. CASE Crash
  BY <1>4, CrashAInv
<1>5. CASE Recover
  <2>1. ASSUME NEW p \in PNodes, RecoverDead(p)
        PROVE  AInv'
    BY <2>1, QuietAInv DEF RecoverDead, volatile, memory, locals, search
  <2>2. ASSUME NEW p \in PNodes, QuickInsert(p)
        PROVE  AInv'
    BY <2>2, QuickInsertTakes, TakesAInv
  <2>3. CASE RecoverDone
    BY <2>3, QuietAInv DEF RecoverDone, volatile, memory, locals, search
  <2> QED
    BY <1>5, <2>1, <2>2, <2>3 DEF Recover
<1>6. CASE UNCHANGED vars
  BY <1>6, QuietAInv DEF vars, volatile, memory, locals, search, recovering
<1> QED
  BY <1>1, <1>2, <1>3, <1>4, <1>5, <1>6 DEF Next

-----------------------------------------------------------------------------
(* What NVM holds: steps that write no PNode.                                *)

SameNode(n) ==
  key'[n] = key[n] /\ pptr'[n] = pptr[n] /\ pValidity'[n] = pValidity[n] /\ state'[n] = state[n]

LineKept(p) ==
  /\ validStart'[p] = validStart[p] /\ validEnd'[p] = validEnd[p]
  /\ deleted'[p] = deleted[p] /\ pkey'[p] = pkey[p]

(* The program counters at which a thread has seen to something. *)
Pledged == {"createEnd", "flushCreate", "publish", "publishCAS", "flushDestroy", "bury", "buryCAS"}

(* The thread has the duties it had. *)
SameDuty(u) ==
  /\ Target(u)' = Target(u) /\ SameNode(Target(u))
  /\ \/ pc'[u] = pc[u]
     \/ pc[u] \in {"publish", "publishCAS"} /\ pc'[u] \in {"publish", "publishCAS"}
     \/ pc[u] \in {"bury", "buryCAS"} /\ pc'[u] \in {"bury", "buryCAS"}

(* A node persists as it did while neither it nor its PNode is written. *)
LEMMA NodeKeeps ==
  ASSUME NEW n, NodePersists(n), SameNode(n), LineKept(pptr[n]), nvm'[pptr[n]] = nvm[pptr[n]],
         heap'[n] = "owned" => heap[n] = "owned"
  PROVE  NodePersists(n)'
BY DEF NodePersists, SameNode, LineKept, Line, Written

(* A thread's promise about a PNode stands while the PNode is not written. *)
LEMMA DutyKeeps ==
  ASSUME NEW u, ThreadPersists(u), SameDuty(u), LineKept(pptr[Target(u)]),
         nvm'[pptr[Target(u)]] = nvm[pptr[Target(u)]]
  PROVE  ThreadPersists(u)'
<1>1. PICK n : n = Target(u) /\ Target(u)' = n
  BY DEF SameDuty
<1>2. SameNode(n) /\ LineKept(pptr[n]) /\ nvm'[pptr[n]] = nvm[pptr[n]]
  BY <1>1 DEF SameDuty
<1>3. Line(pptr[n])' = Line(pptr[n])
  BY <1>2 DEF Line, LineKept, SameNode
<1> QED
  BY <1>1, <1>2, <1>3 DEF ThreadPersists, SameDuty, SameNode, Written

(* A thread that has stored or flushed nothing has promised nothing. *)
LEMMA UnpledgedPersists ==
  ASSUME NEW u, pc'[u] \notin Pledged
  PROVE  ThreadPersists(u)'
BY DEF ThreadPersists, Pledged

Unwritten ==
  /\ UNCHANGED <<persistent, nvm>>
  /\ todo' \subseteq todo
  /\ \A n \in Nodes : Attached(n)' =>
       \/ NodePersists(n)'
       \/ Attached(n) /\ SameNode(n) /\ (heap'[n] = "owned" => heap[n] = "owned")
  /\ \A p \in PNodes : pheap'[p] = "free" /\ p \notin todo' =>
       PNodeIsDead(p) \/ (pheap[p] = "free" /\ p \notin todo)
  /\ \A u \in Threads : pc'[u] \in Pledged => ThreadPersists(u)' \/ SameDuty(u)

(* A step that writes no PNode, in memory or in NVM, keeps PInv. *)
LEMMA UnwrittenKeeps ==
  ASSUME PInv, Unwritten
  PROVE  PInv'
<1> USE DEF PInv, Unwritten
<1>1. nvm' = nvm /\ \A p : LineKept(p) /\ Line(p)' = Line(p)
  BY DEF persistent, LineKept, Line
<1>2. NodesPersist'
  <2> SUFFICES ASSUME NEW n \in Nodes, Attached(n)'
               PROVE  NodePersists(n)'
    BY DEF NodesPersist
  <2> QED
    BY <1>1, NodeKeeps DEF NodesPersist
<1>3. ThreadsPersist'
  <2> SUFFICES ASSUME NEW u \in Threads
               PROVE  ThreadPersists(u)'
    BY DEF ThreadsPersist
  <2>1. CASE pc'[u] \notin Pledged
    BY <2>1, UnpledgedPersists
  <2>2. CASE pc'[u] \in Pledged
    BY <1>1, <2>2, DutyKeeps DEF ThreadsPersist
  <2> QED
    BY <2>1, <2>2
<1>4. FreePNodesAreDead'
  BY <1>1 DEF FreePNodesAreDead, PNodeIsDead, LineKept
<1>5. TodoIsAsInNVM'
  BY <1>1 DEF TodoIsAsInNVM
<1>6. \A p \in PNodes : CopyIsSound(p)'
  BY <1>1 DEF CopyIsSound, InOrder, IsValid
<1>7. PersistedKeysAreUnique'
  BY <1>1 DEF PersistedKeysAreUnique, IsValid
<1> QED
  BY <1>2, <1>3, <1>4, <1>5, <1>6, <1>7

(* A node that a pledged thread works on is held. *)
LEMMA PledgedHolds ==
  ASSUME IInv, NEW u \in Threads, pc[u] \in Pledged
  PROVE  /\ Target(u) \in Nodes /\ MayHold(u, Target(u)) /\ pc[u] # "idle"
         /\ Target(u) \in AllNodes
         /\ heap[Target(u)] \in {"linked", "unlinked"}
         /\ heap[Target(u)] = "unlinked" => u \in waits[Target(u)] /\ state[Target(u)] = DELETED
<1>1. pc[u] \in Publishing \union Removing /\ pc[u] # "idle"
  BY DEF Pledged, Publishing, Removing
<1>2. Target(u) \in Nodes /\ MayHold(u, Target(u))
  BY <1>1, TargetIsHeld
<1>3. heap[Target(u)] \in {"linked", "unlinked"}
  BY <1>2, HeldIsNode DEF IInv
<1>4. heap[Target(u)] = "unlinked" => u \in waits[Target(u)]
  BY <1>2, NodesAssumption DEF MayHold, Linked, AllNodes
<1> QED
  BY <1>1, <1>2, <1>3, <1>4 DEF IInv, RetiredIsClosed, AllNodes

(* A step that moves one thread only. *)
LEMMA LocalPInv ==
  ASSUME IInv, PInv, NEW t \in Threads, Local(t), UNCHANGED <<volatile, persistent, nvm>>, todo' = todo,
         pc'[t] \in Pledged => SameDuty(t)
  PROVE  PInv'
<1>1. \A n : SameNode(n)
  BY DEF SameNode, volatile
<1>2. \A n \in Nodes : Attached(n)' => Attached(n)
  BY LocalKeeps
<1>3. \A u \in Threads : pc'[u] \in Pledged => SameDuty(u)
  BY <1>1, LocalKeeps DEF SameDuty, Local, SameLocals
<1>4. Unwritten
  BY <1>1, <1>2, <1>3 DEF Unwritten, Local
<1> QED
  BY <1>4, UnwrittenKeeps

(* A search, a loop's load, a loop's end: no node and no PNode is written. *)
LEMMA LocalStepsPInv ==
  ASSUME IInv, PInv, NEW t \in Threads,
         \/ FindPass(t) \/ FindDeleted(t) \/ InsertMiss(t) \/ ContainsStep(t)
         \/ \E c \in DS!Calls : Invoke(t, c)
         \/ InsertHelps(t) \/ RemoveFound(t)
         \/ Publish(t) \/ Claim(t) \/ Claimed(t) \/ Bury(t) \/ BuriedByThis(t)
  PROVE  PInv'
<1>1. CASE \/ FindPass(t) \/ FindDeleted(t) \/ InsertMiss(t) \/ ContainsStep(t)
           \/ \E c \in DS!Calls : Invoke(t, c)
  <2>1. Local(t) /\ UNCHANGED <<volatile, persistent, nvm, todo>> /\ pc'[t] \notin Serving \union Publishing \union Removing
    BY <1>1, SearchGoesOn
  <2> QED
    BY <2>1, LocalPInv DEF Pledged, Publishing, Removing
<1>2. CASE InsertHelps(t) \/ RemoveFound(t)
  <2>1. UNCHANGED <<volatile, persistent, nvm, todo>> /\ pc'[t] \notin Pledged
    BY <1>2 DEF InsertHelps, RemoveFound, Goto, Pledged, IInv, TypeOK, recovering
  <2> QED
    BY <1>2, <2>1, ServiceBegins, LocalPInv
<1>3. CASE Publish(t) \/ Claim(t) \/ Claimed(t) \/ Bury(t) \/ BuriedByThis(t)
  <2>1. Local(t) /\ Target(t)' = Target(t)
    BY <1>3, ServiceGoesOn
  <2>2. /\ UNCHANGED <<volatile, persistent, nvm, todo>>
        /\ \/ pc'[t] \notin Pledged
           \/ pc[t] = "publish" /\ pc'[t] = "publishCAS"
           \/ pc[t] = "bury" /\ pc'[t] = "buryCAS"
    BY <1>3 DEF Publish, Claim, Claimed, Bury, BuriedByThis, LoadForCAS, Goto, Pledged, IInv, TypeOK,
                recovering
  <2>3. pc'[t] \in Pledged => SameDuty(t)
    BY <2>1, <2>2 DEF SameDuty, SameNode, volatile
  <2> QED
    BY <2>1, <2>2, <2>3, LocalPInv
<1> QED
  BY <1>1, <1>2, <1>3

(* The node that an insert linked is what it was, and in the list. *)
LEMMA LinkNodePInv ==
  ASSUME IInv, PInv, NEW t \in Threads, LinkNode(t)
  PROVE  PInv'
<1>0. PICK x : x = newNode[t]
  OBVIOUS
<1>1. /\ x \in Nodes /\ heap[x] = "owned" /\ x # Nil
      /\ UNCHANGED <<key, pptr, pValidity, persistent, nvm, pheap, todo, newNode, curr>>
      /\ pc'[t] \in {"create", "retry"} /\ \A u \in Threads \ {t} : SameLocals(u)
      /\ heap' = heap \/ heap' = [heap EXCEPT ![x] = "linked"]
  BY <1>0, OwnNode, NodesAssumption DEF LinkNode, Private, Goto, SameLocals, IInv, TypeOK, search,
                                        recovering, AllNodes
<1>2. state' = state
  BY DEF LinkNode, Expects, IInv, TypeOK
<1>3. \A n : SameNode(n)
  BY <1>1, <1>2 DEF SameNode
<1>4. \A u \in Threads : Target(u)' = Target(u)
  BY <1>1 DEF Target
<1>5. Target(t) = x
  BY <1>0, <1>1 DEF Target
<1>6. ASSUME NEW n \in Nodes, Attached(n)'
      PROVE  Attached(n) /\ (heap'[n] = "owned" => heap[n] = "owned")
  <2>1. heap'[n] \in {"owned", "linked"} => heap[n] \in {"owned", "linked"}
    BY <1>1 DEF IInv, TypeOK
  <2>2. heap'[n] = "owned" => heap[n] = "owned"
    BY <1>1 DEF IInv, TypeOK
  <2>3. Freeing(n)' => Freeing(n)
    BY <1>1 DEF Freeing, SameLocals
  <2>4. CASE Live(n)'
    BY <2>1, <2>2, <2>3, <2>4 DEF Live, Attached
  <2>5. CASE ~Live(n)'
    <3>1. PICK u \in Threads : pc'[u] \in Serving /\ Target(u)' = n
      BY <1>6, <2>5 DEF Attached
    <3>2. CASE u = t
      BY <1>1, <1>4, <1>5, <2>2, <3>1, <3>2 DEF Live, Attached
    <3>3. CASE u # t
      BY <1>1, <1>4, <2>2, <3>1, <3>3 DEF Attached, SameLocals
    <3> QED
      BY <3>2, <3>3
  <2> QED
    BY <2>4, <2>5
<1>7. \A u \in Threads : pc'[u] \in Pledged => SameDuty(u)
  BY <1>1, <1>3, <1>4 DEF SameDuty, SameLocals, Pledged
<1>8. Unwritten
  BY <1>1, <1>3, <1>6, <1>7 DEF Unwritten
<1> QED
  BY <1>8, UnwrittenKeeps

(* A node that is unlinked is what it was. *)
LEMMA TrimPInv ==
  ASSUME IInv, PInv, NEW t \in Threads, Trim(t)
  PROVE  PInv'
<1>0. PICK c : c = curr[t]
  OBVIOUS
<1>1. /\ pc[t] = "trim" /\ c \in Nodes
      /\ UNCHANGED <<key, pptr, pValidity, persistent, nvm, pheap, todo, newNode>>
      /\ pc'[t] \in {"done", "find", "free"} /\ \A u \in Threads \ {t} : SameLocals(u)
  <2>1. pc[t] = "trim" /\ c \in Nodes
    BY <1>0 DEF Trim, IInv, ThreadInv, StateIsKnown
  <2>2. \A u \in Threads \ {t} : SameLocals(u)
    BY DEF Trim, SameLocals, Goto, IInv, TypeOK
  <2>3. pc'[t] \in {"done", "find", "free"}
    BY DEF Trim, Goto, IInv, TypeOK
  <2> QED
    BY <2>1, <2>2, <2>3 DEF Trim, recovering
<1>2. state' = state
  BY DEF Trim, Expects, IInv, TypeOK
<1>3. \A n : SameNode(n)
  BY <1>1, <1>2 DEF SameNode
<1>4. \/ heap' = heap /\ pc'[t] # "free"
      \/ heap[c] = "linked" /\ heap' = [heap EXCEPT ![c] = "unlinked"] /\ curr' = curr
  <2>1. CASE ~Expects(pred[t], curr[t], predState[t])
    BY <2>1 DEF Trim, Goto, IInv, TypeOK
  <2>2. CASE Expects(pred[t], curr[t], predState[t])
    <3>1. c \in Linked
      BY <1>0, <1>1, <2>2, PredIsLinked, NodesAssumption DEF AllNodes
    <3> QED
      BY <1>0, <1>1, <2>2, <3>1, NodesAssumption DEF Trim, Unlink, Linked, AllNodes
  <2> QED
    BY <2>1, <2>2
<1>5. \A u \in Threads \ {t} : Target(u)' = Target(u)
  BY <1>1 DEF Target, SameLocals
<1>6. ASSUME NEW n \in Nodes, Attached(n)'
      PROVE  Attached(n) /\ (heap'[n] = "owned" => heap[n] = "owned")
  <2>1. heap'[n] \in {"owned", "linked"} => heap[n] = heap'[n]
    BY <1>4 DEF IInv, TypeOK
  <2>2. CASE heap'[n] \in {"owned", "linked"}
    BY <2>1, <2>2 DEF Live, Attached
  <2>3. CASE Freeing(n)'
    <3>1. PICK u \in Threads : pc'[u] = "free" /\ curr'[u] = n
      BY <2>3 DEF Freeing
    <3>2. CASE u = t
      BY <1>0, <1>4, <2>1, <3>1, <3>2 DEF Live, Attached
    <3>3. CASE u # t
      BY <1>1, <2>1, <3>1, <3>3 DEF Freeing, Live, Attached, SameLocals
    <3> QED
      BY <3>2, <3>3
  <2>4. CASE \E u \in Threads : pc'[u] \in Serving /\ Target(u)' = n
    <3>1. PICK u \in Threads : pc'[u] \in Serving /\ Target(u)' = n
      BY <2>4
    <3>2. u # t
      BY <1>1, <3>1 DEF Serving
    <3> QED
      BY <1>1, <1>5, <2>1, <3>1, <3>2 DEF Attached, SameLocals
  <2> QED
    BY <1>6, <2>2, <2>3, <2>4 DEF Attached, Live
<1>7. \A u \in Threads : pc'[u] \in Pledged => SameDuty(u)
  BY <1>1, <1>3, <1>5 DEF SameDuty, SameLocals, Pledged
<1>8. Unwritten
  BY <1>1, <1>3, <1>6, <1>7 DEF Unwritten
<1> QED
  BY <1>8, UnwrittenKeeps

(* The nodes that an answer makes blank are nobody's. *)
LEMMA ReturnPInv ==
  ASSUME IInv, PInv, NEW t \in Threads, NEW r, pc[t] # "idle", pc[t] # "free", Return(t, r),
         UNCHANGED <<persistent, nvm, pheap, todo>>
  PROVE  PInv'
<1>1. PICK gone : gone = {n \in Nodes : heap[n] = "unlinked" /\ waits[n] \subseteq {t}}
  OBVIOUS
<1>2. /\ heap' = [n \in Nodes |-> IF n \in gone THEN "free" ELSE heap[n]]
      /\ key' = [n \in AllNodes |-> IF n \in gone THEN 0 ELSE key[n]]
      /\ pptr' = [n \in Nodes |-> IF n \in gone THEN Nil ELSE pptr[n]]
      /\ pValidity' = [n \in Nodes |-> IF n \in gone THEN FALSE ELSE pValidity[n]]
      /\ state' = [n \in AllNodes |-> IF n \in gone THEN INSERTED ELSE state[n]]
  <2>1. Blank(gone)
    BY <1>1 DEF Return
  <2> QED
    BY <2>1 DEF Blank, Blanked, IInv, TypeOK
<1>3. pc'[t] = "idle" /\ \A u \in Threads \ {t} : SameLocals(u) /\ Target(u)' = Target(u)
  BY DEF Return, SameLocals, Target, IInv, TypeOK
<1>4. \A n \in Nodes : n \notin gone => SameNode(n) /\ heap'[n] = heap[n]
  BY <1>2 DEF SameNode, AllNodes
<1>5. ASSUME NEW n \in Nodes, Attached(n)'
      PROVE  n \notin gone /\ Attached(n)
  <2>1. Freeing(n)' => Freeing(n)
    BY <1>3 DEF Freeing, SameLocals
  <2>2. ASSUME n \in gone
        PROVE  FALSE
    <3>1. heap[n] = "unlinked" /\ waits[n] \subseteq {t} /\ heap'[n] = "free"
      BY <1>1, <1>2, <2>2
    <3>2. ~Freeing(n)
      BY <3>1, FreesHeld DEF Freeing
    <3>3. ~Live(n) /\ ~Live(n)'
      BY <2>1, <3>1, <3>2 DEF Live
    <3>4. PICK u \in Threads : pc'[u] \in Serving /\ Target(u)' = n
      BY <1>5, <3>3 DEF Attached
    <3>5. u # t /\ pc[u] \in Serving /\ Target(u) = n
      BY <1>3, <3>4 DEF Serving, SameLocals
    <3> QED
      BY <3>1, <3>3, <3>5, ServesHeld
  <2>3. Live(n)' => Live(n)
    BY <1>4, <2>1, <2>2 DEF Live
  <2>4. \A u \in Threads : pc'[u] \in Serving => pc[u] \in Serving /\ Target(u)' = Target(u)
    BY <1>3 DEF Serving, SameLocals
  <2> QED
    BY <1>5, <2>2, <2>3, <2>4 DEF Attached
<1>6. ASSUME NEW u \in Threads, pc'[u] \in Pledged
      PROVE  SameDuty(u)
  <2>1. u # t /\ pc'[u] = pc[u] /\ Target(u)' = Target(u)
    BY <1>3, <1>6 DEF Pledged, SameLocals
  <2>2. /\ Target(u) \in Nodes
        /\ heap[Target(u)] = "unlinked" => u \in waits[Target(u)]
    BY <1>6, <2>1, PledgedHolds
  <2>3. Target(u) \notin gone
    BY <1>1, <2>1, <2>2
  <2> QED
    BY <1>4, <2>1, <2>2, <2>3 DEF SameDuty
<1>7. Unwritten
  BY <1>4, <1>5, <1>6 DEF Unwritten
<1> QED
  BY <1>7, UnwrittenKeeps

(* An answer writes no PNode. *)
LEMMA AnswersPInv ==
  ASSUME IInv, PInv, NEW t \in Threads,
         \/ Done(t) \/ InsertFound(t) \/ Published(t) \/ RemoveMiss(t) \/ BuriedByOther(t)
         \/ ContainsAnswers(t)
  PROVE  PInv'
<1>1. /\ pc[t] # "idle" /\ pc[t] # "free" /\ UNCHANGED <<persistent, nvm, pheap, todo>>
      /\ \E r : Return(t, r)
  BY DEF Done, InsertFound, Published, RemoveMiss, BuriedByOther, ContainsAnswers, FindStops, recovering
<1> QED
  BY <1>1, ReturnPInv

(* The PNode of a deleted node is dead when it is freed. *)
LEMMA FreeTrimmedPInv ==
  ASSUME IInv, AInv, PInv, NEW t \in Threads, FreeTrimmed(t)
  PROVE  PInv'
<1>0. PICK x : x = curr[t]
  OBVIOUS
<1>1. x \in Nodes /\ heap[x] = "unlinked" /\ state[x] = DELETED /\ Live(x) /\ Attached(x)
  BY <1>0, FreesHeld DEF FreeTrimmed, Attached
<1>2. /\ UNCHANGED <<volatile, persistent, nvm, heap, todo>> /\ pc'[t] \in {"done", "find"}
      /\ \A u \in Threads \ {t} : SameLocals(u)
      /\ pheap' = [pheap EXCEPT ![pptr[x]] = "free"]
  BY <1>0 DEF FreeTrimmed, Free, Goto, SameLocals, IInv, TypeOK, recovering
<1>3. \A n : SameNode(n)
  BY <1>2 DEF SameNode, volatile
<1>4. \A u \in Threads \ {t} : Target(u)' = Target(u)
  BY <1>2 DEF SameLocals, Target
<1>5. ASSUME NEW n \in Nodes, Attached(n)'
      PROVE  Attached(n) /\ heap'[n] = heap[n]
  <2>1. Freeing(n)' => Freeing(n)
    BY <1>2 DEF Freeing, SameLocals
  <2>2. \A u \in Threads : pc'[u] \in Serving => pc[u] \in Serving /\ Target(u)' = Target(u)
    BY <1>2, <1>4 DEF Serving, SameLocals
  <2> QED
    BY <1>2, <1>5, <2>1, <2>2 DEF Attached, Live
<1>6. pptr[x] \in PNodes /\ PNodeIsDead(pptr[x])
  <2>1. NodePersists(x) /\ pptr[x] \in PNodes
    BY <1>1 DEF PInv, NodesPersist, AInv, OwnersHavePNodes
  <2> QED
    BY <1>1, <2>1
    DEF NodePersists, Written, Line, PNodeIsDead, INTEND_TO_INSERT, DELETED
<1>7. \A u \in Threads : pc'[u] \in Pledged => SameDuty(u)
  BY <1>2, <1>3, <1>4 DEF SameDuty, SameLocals, Pledged
<1>8. Unwritten
  BY <1>2, <1>3, <1>5, <1>6, <1>7 DEF Unwritten, IInv, TypeOK
<1> QED
  BY <1>8, UnwrittenKeeps

(* The PNode of a node that was never linked is still the dead one it was.   *)
LEMMA RetryPInv ==
  ASSUME IInv, AInv, PInv, NEW t \in Threads, Retry(t)
  PROVE  PInv'
<1>0. PICK x : x = newNode[t]
  OBVIOUS
<1>1. /\ x \in Nodes /\ heap[x] = "owned" /\ state[x] = INTEND_TO_INSERT /\ Attached(x)
      /\ \A u \in Threads : ~MayHold(u, x)
  BY <1>0, OwnNode, OwnedIsNotHeld DEF Retry, Private, Live, Attached
<1>2. /\ heap' = [n \in Nodes |-> IF n \in {x} THEN "free" ELSE heap[n]]
      /\ key' = [n \in AllNodes |-> IF n \in {x} THEN 0 ELSE key[n]]
      /\ pptr' = [n \in Nodes |-> IF n \in {x} THEN Nil ELSE pptr[n]]
      /\ pValidity' = [n \in Nodes |-> IF n \in {x} THEN FALSE ELSE pValidity[n]]
      /\ state' = [n \in AllNodes |-> IF n \in {x} THEN INSERTED ELSE state[n]]
  <2>1. Blank({x})
    BY <1>0 DEF Retry
  <2> QED
    BY <2>1 DEF Blank, Blanked, IInv, TypeOK
<1>3. /\ UNCHANGED <<persistent, nvm, todo>> /\ pc'[t] = "find"
      /\ \A u \in Threads \ {t} : SameLocals(u)
      /\ pheap' = [pheap EXCEPT ![pptr[x]] = "free"]
  BY <1>0 DEF Retry, Free, StartSearch, Goto, SameLocals, IInv, TypeOK, recovering
<1>4. \A u \in Threads \ {t} : Target(u)' = Target(u)
  BY <1>3 DEF SameLocals, Target
<1>5. \A n \in Nodes : n # x => SameNode(n) /\ heap'[n] = heap[n]
  BY <1>2 DEF SameNode, AllNodes
<1>6. ASSUME NEW n \in Nodes, Attached(n)'
      PROVE  n # x /\ Attached(n)
  <2>1. Freeing(n)' => Freeing(n)
    BY <1>3 DEF Freeing, SameLocals
  <2>2. \A u \in Threads : pc'[u] \in Serving => pc[u] \in Serving /\ Target(u)' = Target(u)
    BY <1>3, <1>4 DEF Serving, SameLocals
  <2>3. ~Freeing(x) /\ \A u \in Threads : pc[u] \in Serving => Target(u) # x
    BY <1>1, FreesHeld, ServesHeld DEF Freeing
  <2>4. n # x
    BY <1>2, <1>6, <2>1, <2>2, <2>3 DEF Attached, Live
  <2> QED
    BY <1>5, <1>6, <2>1, <2>2, <2>4 DEF Attached, Live
<1>7. pptr[x] \in PNodes /\ PNodeIsDead(pptr[x])
  <2>1. NodePersists(x) /\ pptr[x] \in PNodes
    BY <1>1 DEF PInv, NodesPersist, AInv, OwnersHavePNodes
  <2> QED
    BY <1>1, <2>1
    DEF NodePersists, Written, Line, PNodeIsDead, INTEND_TO_INSERT, DELETED, IInv, TypeOK
<1>8. ASSUME NEW u \in Threads, pc'[u] \in Pledged
      PROVE  SameDuty(u)
  <2>1. u # t /\ pc'[u] = pc[u] /\ Target(u)' = Target(u)
    BY <1>3, <1>4, <1>8 DEF Pledged, SameLocals
  <2>2. Target(u) \in Nodes /\ Target(u) # x
    BY <1>1, <1>8, <2>1, PledgedHolds
  <2> QED
    BY <1>5, <2>1, <2>2 DEF SameDuty
<1>9. Unwritten
  BY <1>3, <1>5, <1>6, <1>7, <1>8 DEF Unwritten, IInv, TypeOK
<1> QED
  BY <1>9, UnwrittenKeeps

(* A node that gets a PNode of its own: NodePersists says what it must hold. *)
LEMMA TakesPInv ==
  ASSUME IInv, AInv, PInv, NEW x \in Nodes, NEW p \in PNodes, Takes(x, p), NodePersists(x)',
         UNCHANGED <<persistent, nvm>>, todo' = todo \ {p},
         \A n \in AllNodes \ {x} : key'[n] = key[n] /\ state'[n] = state[n],
         \A n \in Nodes \ {x} : pValidity'[n] = pValidity[n] /\ heap'[n] = heap[n],
         \A u \in Threads : pc'[u] \in Pledged => SameLocals(u)
  PROVE  PInv'
<1>1. ASSUME NEW n \in Nodes \ {x}
      PROVE  SameNode(n) /\ heap'[n] = heap[n] /\ (Attached(n)' => Attached(n))
  BY TakesFresh DEF Takes, SameNode, AllNodes
<1>2. ASSUME NEW u \in Threads, pc'[u] \in Pledged
      PROVE  SameDuty(u)
  <2>1. pc'[u] = pc[u] /\ Target(u)' = Target(u)
    BY <1>2 DEF SameLocals, Target
  <2>2. Target(u) \in Nodes /\ Target(u) # x
    BY <1>2, <2>1, PledgedHolds DEF Takes
  <2> QED
    BY <1>1, <2>1, <2>2 DEF SameDuty
<1>3. Unwritten
  <2>1. \A q \in PNodes : pheap'[q] = "free" /\ q \notin todo' => pheap[q] = "free" /\ q \notin todo
    BY DEF Takes, IInv, TypeOK
  <2> QED
    BY <1>1, <1>2, <2>1 DEF Unwritten
<1> QED
  BY <1>3, UnwrittenKeeps

(* The validity that alloc chose makes the PNode valid in both words only    *)
(* once create has stored it in both.                                        *)
LEMMA AllocNodePInv ==
  ASSUME IInv, AInv, PInv, NEW t \in Threads, AllocNode(t)
  PROVE  PInv'
<1>1. PICK x \in Nodes, p \in PNodes :
           /\ Takes(x, p) /\ pValidity' = [pValidity EXCEPT ![x] = ~validStart[p]]
           /\ heap[x] = "free" /\ heap' = [heap EXCEPT ![x] = "owned"]
           /\ key' = [key EXCEPT ![x] = call[t].arg]
           /\ pptr' = [pptr EXCEPT ![x] = p]
           /\ state' = [state EXCEPT ![x] = INTEND_TO_INSERT]
           /\ pc'[t] = "link" /\ \A u \in Threads \ {t} : SameLocals(u)
           /\ UNCHANGED <<persistent, nvm, todo, phase>> /\ todo = {}
           /\ pheap[p] = "free"
  BY AllocNodeTakes
<1>2. PNodeIsDead(p)
  BY <1>1 DEF PInv, FreePNodesAreDead
<1>3. /\ heap'[x] = "owned" /\ pptr'[x] = p /\ state'[x] = INTEND_TO_INSERT
      /\ pValidity'[x] = ~validStart[p]
  BY <1>1 DEF IInv, TypeOK, AllNodes
<1>4. /\ validStart'[p] = validStart[p] /\ validEnd'[p] = validStart[p]
      /\ deleted'[p] = validStart[p] /\ nvm'[p].validEnd = validStart[p]
      /\ nvm'[p].deleted = validStart[p] /\ validStart[p] \in BOOLEAN
  BY <1>1, <1>2 DEF PNodeIsDead, persistent, IInv, TypeOK
<1>5. NodePersists(x)'
  <2>1. (~pValidity'[x]) = validStart[p] /\ pValidity'[x] # validStart[p]
    BY <1>3, <1>4
  <2>2. /\ Line(p)'.validStart = validStart[p] /\ Line(p)'.validEnd = validStart[p]
        /\ Line(p)'.deleted = validStart[p]
    BY <1>4 DEF Line
  <2> QED
    BY <1>3, <1>4, <2>1, <2>2 DEF NodePersists, INTEND_TO_INSERT, INSERTED, DELETED
<1>6. \A u \in Threads : pc'[u] \in Pledged => SameLocals(u)
  BY <1>1 DEF Pledged
<1>7. /\ \A n \in AllNodes \ {x} : key'[n] = key[n] /\ state'[n] = state[n]
      /\ \A n \in Nodes \ {x} : pValidity'[n] = pValidity[n] /\ heap'[n] = heap[n]
      /\ todo' = todo \ {p}
  BY <1>1 DEF IInv, TypeOK
<1> QED
  BY <1>1, <1>5, <1>6, <1>7, TakesPInv

(* recovery's PNode is a member in its line and in NVM. *)
LEMMA QuickInsertPInv ==
  ASSUME IInv, AInv, PInv, NEW p \in PNodes, QuickInsert(p)
  PROVE  PInv'
<1>1. PICK x \in Nodes :
           /\ Takes(x, p) /\ pValidity' = [pValidity EXCEPT ![x] = validStart[p]]
           /\ heap[x] = "free" /\ heap' = [heap EXCEPT ![x] = "linked"]
           /\ key' = [key EXCEPT ![x] = pkey[p]]
           /\ pptr' = [pptr EXCEPT ![x] = p]
           /\ state' = [state EXCEPT ![x] = INSERTED]
           /\ UNCHANGED <<persistent, nvm, pc, phase>> /\ phase = "recovering"
           /\ pheap[p] = "free" /\ p \in todo /\ todo' = todo \ {p}
  BY QuickInsertTakes
<1>2. IsValid(Line(p)) /\ Line(p) = nvm[p]
  BY <1>1 DEF QuickInsert, PInv, TodoIsAsInNVM
<1>3. /\ heap'[x] = "linked" /\ pptr'[x] = p /\ state'[x] = INSERTED
      /\ pValidity'[x] = validStart[p] /\ key'[x] = pkey[p]
  BY <1>1 DEF IInv, TypeOK, AllNodes
<1>4. /\ Line(p)' = Line(p) /\ nvm'[p] = Line(p)
      /\ validEnd[p] = validStart[p] /\ deleted[p] = ~validStart[p]
  BY <1>1, <1>2 DEF Line, IsValid, persistent, IInv, TypeOK
<1>5. NodePersists(x)'
  BY <1>3, <1>4 DEF NodePersists, Written, Line, INTEND_TO_INSERT, INSERTED, DELETED, IInv, TypeOK
<1>6. \A u \in Threads : pc'[u] \notin Pledged
  BY <1>1, RecoveringAlone DEF Pledged
<1>7. /\ \A n \in AllNodes \ {x} : key'[n] = key[n] /\ state'[n] = state[n]
      /\ \A n \in Nodes \ {x} : pValidity'[n] = pValidity[n] /\ heap'[n] = heap[n]
  BY <1>1 DEF IInv, TypeOK
<1> QED
  BY <1>1, <1>5, <1>6, <1>7, TakesPInv

(* A step outside the operations that writes nothing. *)
LEMMA QuietPInv ==
  ASSUME PInv, UNCHANGED <<volatile, persistent, nvm, memory, pc, curr, newNode, todo>>
  PROVE  PInv'
<1>1. \A u : Target(u)' = Target(u)
  BY DEF Target
<1>2. \A n : (Attached(n)' <=> Attached(n)) /\ SameNode(n)
  BY <1>1 DEF Attached, Live, Freeing, SameNode, volatile, memory
<1>3. Unwritten
  BY <1>1, <1>2 DEF Unwritten, SameDuty, memory
<1> QED
  BY <1>3, UnwrittenKeeps

-----------------------------------------------------------------------------
(* The compare-and-swaps: a state moves on only when NVM holds what the next *)
(* state says.                                                               *)
LEMMA StateMovesPInv ==
  ASSUME IInv, PInv, NEW t \in Threads, NEW m \in Nodes, Local(t), heap[m] = "linked",
         UNCHANGED <<key, pptr, pValidity, persistent, nvm, todo>>,
         \A n \in AllNodes \ {m} : state'[n] = state[n],
         \/ /\ state[m] = INTEND_TO_INSERT /\ state'[m] = INSERTED
            /\ Written(nvm[pptr[m]], m)
         \/ state[m] = INSERTED /\ state'[m] = INTEND_TO_DELETE
         \/ /\ state[m] = INTEND_TO_DELETE /\ state'[m] = DELETED
            /\ nvm[pptr[m]].deleted = pValidity[m],
         pc'[t] \in Pledged => ThreadPersists(t)'
  PROVE  PInv'
<1>1. Attached(m) /\ NodePersists(m)
  BY DEF Attached, Live, PInv, NodesPersist
<1>2. heap' = heap
  BY DEF Local
<1>3. \A n \in Nodes : n # m => SameNode(n)
  BY DEF SameNode, AllNodes
<1>4. pptr'[m] = pptr[m] /\ Line(pptr[m])' = Line(pptr[m]) /\ nvm'[pptr[m]] = nvm[pptr[m]]
  BY DEF Line, persistent
<1>5. NodePersists(m)'
  BY <1>1, <1>2, <1>4 DEF NodePersists, Written, INTEND_TO_INSERT, INSERTED, INTEND_TO_DELETE, DELETED
<1>6. ASSUME NEW u \in Threads, pc'[u] \in Pledged
      PROVE  ThreadPersists(u)' \/ SameDuty(u)
  <2>1. CASE u # t
    <3>1. pc'[u] = pc[u] /\ Target(u)' = Target(u) /\ Target(u) \in Nodes
      BY <1>6, <2>1, LocalKeeps, PledgedHolds DEF Local, SameLocals
    <3>2. CASE Target(u) # m
      BY <1>3, <3>1, <3>2 DEF SameDuty
    <3>3. CASE Target(u) = m
      <4>1. ThreadPersists(u)
        BY DEF PInv, ThreadsPersist
      <4>2. pc[u] \in {"publish", "publishCAS"} => state'[m] # INTEND_TO_INSERT
        BY DEF INTEND_TO_INSERT, INSERTED, INTEND_TO_DELETE, DELETED
      <4>3. pc[u] \in {"bury", "buryCAS"} => state'[m] # INTEND_TO_DELETE
        <5> SUFFICES ASSUME pc[u] \in {"bury", "buryCAS"}
                     PROVE  state'[m] # INTEND_TO_DELETE
          OBVIOUS
        <5>1. pc[u] # "idle" /\ Target(u) = curr[u]
          BY TargetIsHeld DEF Removing
        <5>2. state[curr[u]] # INSERTED
          BY <5>1 DEF IInv, ThreadInv, StateIsKnown, Removing
        <5> QED
          BY <3>3, <5>1, <5>2 DEF INTEND_TO_INSERT, INSERTED, INTEND_TO_DELETE, DELETED
      <4> QED
        BY <1>4, <3>1, <3>3, <4>1, <4>2, <4>3 DEF ThreadPersists, Written
    <3> QED
      BY <3>2, <3>3
  <2>2. CASE u = t
    BY <1>6, <2>2
  <2> QED
    BY <2>1, <2>2
<1>7. Unwritten
  <2>1. \A n \in Nodes : Attached(n)' => Attached(n)
    BY LocalKeeps
  <2>2. \A n \in Nodes : Attached(n)' => NodePersists(n)' \/ (Attached(n) /\ SameNode(n))
    BY <1>3, <1>5, <2>1
  <2> QED
    BY <1>2, <1>6, <2>1, <2>2 DEF Unwritten, Local
<1> QED
  BY <1>7, UnwrittenKeeps

(* A change of state comes after the flush that it stands for. *)
LEMMA CASPInv ==
  ASSUME IInv, PInv, NEW t \in Threads, PublishCAS(t) \/ ClaimCAS(t) \/ BuryCAS(t)
  PROVE  PInv'
<1>0. PICK m : m = Target(t)
  OBVIOUS
<1>1. Local(t) /\ Target(t)' = m
  BY <1>0, ServiceGoesOn
<1>2. /\ UNCHANGED <<key, pptr, pValidity, persistent, nvm, todo, next>>
      /\ \/ pc[t] = "publishCAS" /\ pc'[t] = "publish" /\ stateCAS(t, INTEND_TO_INSERT, INSERTED)
         \/ pc[t] = "claimCAS" /\ pc'[t] \notin Pledged /\ stateCAS(t, INSERTED, INTEND_TO_DELETE)
         \/ pc[t] = "buryCAS" /\ pc'[t] = "bury" /\ stateCAS(t, INTEND_TO_DELETE, DELETED)
  BY DEF PublishCAS, ClaimCAS, BuryCAS, Goto, IInv, TypeOK, recovering, Pledged
<1>3. m \in Nodes /\ MayHold(t, m) /\ m \in AllNodes /\ m # Tail
  BY <1>0, <1>2, TargetIsHeld, NodesAssumption DEF Publishing, Removing, AllNodes
<1>4. CASE state' = state
  <2>1. \A n : SameNode(n)
    BY <1>2, <1>4 DEF SameNode
  <2>2. pc'[t] \in Pledged => SameDuty(t)
    BY <1>0, <1>1, <1>2, <2>1 DEF SameDuty
  <2>3. UNCHANGED volatile
    BY <1>2, <1>4 DEF volatile
  <2> QED
    BY <1>1, <1>2, <2>2, <2>3, LocalPInv
<1>5. CASE state' # state
  <2>1. \E from, to \in States :
          /\ state[m] = from /\ state' = [state EXCEPT ![m] = to]
          /\ <<from, to>> \in {<<INTEND_TO_INSERT, INSERTED>>, <<INSERTED, INTEND_TO_DELETE>>,
                               <<INTEND_TO_DELETE, DELETED>>}
          /\ pc[t] = "publishCAS" => from = INTEND_TO_INSERT
          /\ pc[t] = "buryCAS" => from = INTEND_TO_DELETE
          /\ from = INTEND_TO_INSERT => pc[t] = "publishCAS"
          /\ from = INTEND_TO_DELETE => pc[t] = "buryCAS"
    BY <1>0, <1>2, <1>5
    DEF stateCAS, Expects, States, INTEND_TO_INSERT, INSERTED, INTEND_TO_DELETE, DELETED
  <2>2. /\ \/ state[m] = INTEND_TO_INSERT /\ state'[m] = INSERTED /\ pc[t] = "publishCAS"
           \/ state[m] = INSERTED /\ state'[m] = INTEND_TO_DELETE /\ pc[t] = "claimCAS"
           \/ state[m] = INTEND_TO_DELETE /\ state'[m] = DELETED /\ pc[t] = "buryCAS"
        /\ \A n \in AllNodes \ {m} : state'[n] = state[n]
    BY <1>2, <1>3, <2>1 DEF IInv, TypeOK, INTEND_TO_INSERT, INSERTED, INTEND_TO_DELETE, DELETED
  <2>3. heap[m] = "linked"
    <3>1. state[m] # DELETED
      BY <2>2 DEF INTEND_TO_INSERT, INSERTED, INTEND_TO_DELETE, DELETED
    <3>2. m \in Linked
      BY <1>3, <3>1, NotDeletedIsLinked DEF IInv
    <3> QED
      BY <1>3, <3>2, NodesAssumption DEF Linked, AllNodes
  <2>4. ThreadPersists(t)
    BY DEF PInv, ThreadsPersist
  <2>5. /\ pc[t] = "publishCAS" => Written(nvm[pptr[m]], m)
        /\ pc[t] = "buryCAS" => nvm[pptr[m]].deleted = pValidity[m]
    BY <1>0, <2>2, <2>4 DEF ThreadPersists
  <2>6. pc'[t] \in Pledged => ThreadPersists(t)'
    <3>1. pc'[t] = "publish" => state'[m] # INTEND_TO_INSERT
      BY <1>2, <2>2 DEF INTEND_TO_INSERT, INSERTED, INTEND_TO_DELETE, DELETED, Pledged
    <3>2. pc'[t] = "bury" => state'[m] # INTEND_TO_DELETE
      BY <1>2, <2>2 DEF INTEND_TO_INSERT, INSERTED, INTEND_TO_DELETE, DELETED, Pledged
    <3> QED
      BY <1>1, <1>2, <3>1, <3>2 DEF ThreadPersists
  <2> QED
    BY <1>1, <1>2, <1>3, <2>2, <2>3, <2>5, <2>6, StateMovesPInv
<1> QED
  BY <1>4, <1>5

-----------------------------------------------------------------------------
(* The stores of create and destroy. *)

(* A store on behalf of m: it changes no line but m's, undoes nothing that   *)
(* another thread at work on m relies on, and repeats what was stored once m *)
(* is deleted.                                                               *)
Stores(m) ==
  /\ UNCHANGED <<volatile, nvm, todo>>
  /\ \A q \in PNodes : q # pptr[m] => LineKept(q)
  /\ validStart[pptr[m]] = pValidity[m] => validStart'[pptr[m]] = pValidity[m]
  /\ Written(Line(pptr[m]), m) => Written(Line(pptr[m]), m)'
  /\ deleted[pptr[m]] = pValidity[m] => deleted'[pptr[m]] = pValidity[m]
  /\ state[m] = DELETED => LineKept(pptr[m])

(* create and destroy, whoever runs them, store what the node's life asks for. *)
LEMMA StoresPInv ==
  ASSUME IInv, AInv, PInv, NEW t \in Threads, pc[t] \in Serving, Local(t),
         NEW m \in Nodes, m = Target(t), Stores(m), NodePersists(m)', ThreadPersists(t)'
  PROVE  PInv'
<1>1. m \in Nodes /\ Attached(m) /\ pptr[m] \in PNodes /\ phase = "running" /\ todo = {}
  BY ServesHeld, Holding DEF Attached, AInv, OwnersHavePNodes, IInv, RecoveryIsAlone
<1>2. /\ nvm' = nvm /\ todo' = todo /\ pheap' = pheap /\ heap' = heap
      /\ \A n : SameNode(n)
      /\ \A q \in PNodes : q # pptr[m] => LineKept(q)
      /\ state[m] = DELETED => LineKept(pptr[m])
  BY DEF Stores, Local, SameNode, volatile
<1>3. \A n \in Nodes \ {m} : Attached(n) => pptr[n] # pptr[m] /\ pptr[n] \in PNodes /\ LineKept(pptr[n])
  BY <1>1, <1>2 DEF AInv, PNodesAreApart, OwnersHavePNodes
<1>4. NodesPersist'
  <2> SUFFICES ASSUME NEW n \in Nodes, Attached(n)'
               PROVE  NodePersists(n)'
    BY DEF NodesPersist
  <2>1. CASE n = m
    BY <2>1
  <2>2. CASE n # m
    <3>1. Attached(n) /\ NodePersists(n)
      BY LocalKeeps DEF PInv, NodesPersist
    <3>2. LineKept(pptr[n]) /\ SameNode(n) /\ nvm'[pptr[n]] = nvm[pptr[n]] /\ heap'[n] = heap[n]
      BY <1>2, <1>3, <2>2, <3>1
    <3> QED
      BY <3>1, <3>2, NodeKeeps
  <2> QED
    BY <2>1, <2>2
<1>5. ThreadsPersist'
  <2> SUFFICES ASSUME NEW u \in Threads, u # t, pc'[u] \in Pledged
               PROVE  ThreadPersists(u)'
    BY UnpledgedPersists DEF ThreadsPersist
  <2>1. PICK n : n = Target(u) /\ Target(u)' = n /\ pc'[u] = pc[u]
    BY LocalKeeps DEF Local, SameLocals
  <2>2. n \in Nodes /\ ThreadPersists(u)
    BY <2>1, PledgedHolds DEF PInv, ThreadsPersist
  <2>3. /\ pptr'[n] = pptr[n] /\ pValidity'[n] = pValidity[n] /\ key'[n] = key[n] /\ state'[n] = state[n]
        /\ nvm'[pptr[n]] = nvm[pptr[n]]
    BY <1>2 DEF SameNode
  <2>4. CASE pc[u] \in Serving
    <3>1. Attached(n)
      BY <2>1, <2>2, <2>4 DEF Attached
    <3>2. CASE n # m
      BY <1>2, <1>3, <2>1, <2>2, <3>1, <3>2, DutyKeeps DEF SameDuty
    <3>3. CASE n = m
      <4>1. /\ validStart[pptr[m]] = pValidity[m] => validStart'[pptr[m]] = pValidity[m]
            /\ deleted[pptr[m]] = pValidity[m] => deleted'[pptr[m]] = pValidity[m]
            /\ Written(Line(pptr[m]), m) => Written(Line(pptr[m]), m)'
        BY DEF Stores
      <4>2. /\ pc[u] = "createEnd" => validStart[pptr[m]] = pValidity[m]
            /\ pc[u] = "flushCreate" => Written(Line(pptr[m]), m)
            /\ pc[u] = "flushDestroy" => deleted[pptr[m]] = pValidity[m]
        BY <2>1, <2>2, <3>3 DEF ThreadPersists, Line
      <4>3. /\ pc[u] = "createEnd" => Line(pptr[m])'.validStart = pValidity'[m]
            /\ pc[u] = "flushCreate" => Written(Line(pptr[m]), m)'
            /\ pc[u] = "flushDestroy" => Line(pptr[m])'.deleted = pValidity'[m]
        BY <2>3, <3>3, <4>1, <4>2 DEF Line
      <4>4. pc[u] \notin {"publish", "publishCAS", "bury", "buryCAS"}
        BY <2>4 DEF Serving
      <4> QED
        BY <2>1, <3>3, <4>3, <4>4 DEF ThreadPersists
    <3> QED
      BY <3>2, <3>3
  <2>5. CASE pc[u] \notin Serving
    BY <2>1, <2>2, <2>3, <2>5 DEF ThreadPersists, Written, Serving
  <2> QED
    BY <2>4, <2>5
<1>6. FreePNodesAreDead'
  <2> SUFFICES ASSUME NEW q \in PNodes, pheap[q] = "free"
               PROVE  PNodeIsDead(q)'
    BY <1>2 DEF FreePNodesAreDead
  <2>1. PNodeIsDead(q)
    BY <1>1 DEF PInv, FreePNodesAreDead
  <2>2. LineKept(q)
    <3>1. CASE q # pptr[m]
      BY <1>2, <3>1
    <3>2. CASE q = pptr[m]
      <4>1. ~Live(m)
        BY <1>1, <3>2 DEF AInv, OwnersHavePNodes
      <4>2. state[m] = DELETED
        BY <4>1, ServesHeld
      <4> QED
        BY <1>2, <3>2, <4>2
    <3> QED
      BY <3>1, <3>2
  <2> QED
    BY <1>2, <2>1, <2>2 DEF PNodeIsDead, LineKept
<1>7. TodoIsAsInNVM'
  BY <1>1, <1>2 DEF TodoIsAsInNVM
<1>8. \A p \in PNodes : CopyIsSound(p)'
  BY <1>2 DEF PInv, CopyIsSound, InOrder, IsValid
<1>9. PersistedKeysAreUnique'
  BY <1>2 DEF PInv, PersistedKeysAreUnique, IsValid
<1> QED
  BY <1>4, <1>5, <1>6, <1>7, <1>8, <1>9 DEF PInv

(* What a step of create or destroy may assume of its node. *)
LEMMA ServedNode ==
  ASSUME IInv, AInv, PInv, NEW t \in Threads, pc[t] \in Serving
  PROVE  /\ Target(t) \in Nodes /\ Attached(Target(t)) /\ NodePersists(Target(t)) /\ ThreadPersists(t)
         /\ heap[Target(t)] \in {"linked", "unlinked"} /\ pptr[Target(t)] \in PNodes
         /\ pc[t] \in Removing => Target(t) = curr[t] /\ state[Target(t)] # INTEND_TO_INSERT
         /\ pc[t] \in {"destroy", "flushDestroy"} => state[Target(t)] # INSERTED
         /\ state[Target(t)] \in States /\ pValidity[Target(t)] \in BOOLEAN
<1>1. /\ Target(t) \in Nodes /\ MayHold(t, Target(t)) /\ Attached(Target(t)) /\ pc[t] # "idle"
      /\ Target(t) \in AllNodes
  BY ServesHeld DEF Attached, AllNodes
<1>2. heap[Target(t)] \in {"linked", "unlinked"}
  BY <1>1, HeldIsNode DEF IInv
<1>3. pc[t] \in Removing => Target(t) = curr[t]
  BY TargetIsHeld
<1>4. /\ pc[t] \in Removing => state[Target(t)] # INTEND_TO_INSERT
      /\ pc[t] \in {"destroy", "flushDestroy"} => state[Target(t)] # INSERTED
  BY <1>1, <1>3 DEF IInv, ThreadInv, StateIsKnown, Removing
<1>5. NodePersists(Target(t)) /\ ThreadPersists(t) /\ pptr[Target(t)] \in PNodes
  BY <1>1 DEF PInv, NodesPersist, ThreadsPersist, AInv, OwnersHavePNodes
<1> QED
  BY <1>1, <1>2, <1>3, <1>4, <1>5 DEF IInv, TypeOK

(* The first store of create. *)
LEMMA CreateStartPInv ==
  ASSUME IInv, AInv, PInv, NEW t \in Threads, CreateStart(t)
  PROVE  PInv'
<1>0. PICK m : m = Target(t)
  OBVIOUS
<1>1. PICK p, v : p = pptr[m] /\ v = pValidity[m]
  OBVIOUS
<1>2. pc[t] \in Serving /\ Local(t) /\ Target(t)' = m
  BY <1>0, ServiceGoesOn DEF CreateStart, Serving
<1>3. /\ m \in Nodes /\ NodePersists(m) /\ heap[m] # "owned" /\ p \in PNodes
      /\ heap' = heap /\ state[m] \in States /\ v \in BOOLEAN
  BY <1>0, <1>1, <1>2, ServedNode DEF Local
<1>4. /\ validStart' = [validStart EXCEPT ![p] = v] /\ pc'[t] = "createEnd"
      /\ UNCHANGED <<volatile, validEnd, deleted, pkey, nvm, todo>>
  BY <1>0, <1>1 DEF CreateStart, Goto, IInv, TypeOK, recovering
<1>5. /\ validStart'[p] = v /\ \A q \in PNodes : q # p => validStart'[q] = validStart[q]
      /\ pptr'[m] = p /\ pValidity'[m] = v /\ key'[m] = key[m] /\ state'[m] = state[m]
      /\ validEnd'[p] = validEnd[p] /\ deleted'[p] = deleted[p] /\ pkey'[p] = pkey[p]
      /\ nvm'[p] = nvm[p]
  BY <1>1, <1>3, <1>4 DEF IInv, TypeOK, volatile
<1>6. Written(Line(p), m) => validStart[p] = v /\ Written(Line(p), m)'
  BY <1>1, <1>5 DEF Written, Line
<1>7. state[m] = DELETED => Written(Line(p), m)
  BY <1>1, <1>3 DEF NodePersists, INTEND_TO_INSERT, DELETED
<1>8. Stores(m)
  BY <1>1, <1>4, <1>5, <1>6, <1>7 DEF Stores, LineKept, volatile
<1>9. NodePersists(m)'
  BY <1>1, <1>3, <1>5 DEF NodePersists, Written, Line
<1>10. ThreadPersists(t)'
  BY <1>2, <1>4, <1>5 DEF ThreadPersists, Line
<1> QED
  BY <1>0, <1>2, <1>3, <1>8, <1>9, <1>10, StoresPInv

(* The rest of create's stores: the PNode is valid in its line. *)
LEMMA CreateEndPInv ==
  ASSUME IInv, AInv, PInv, NEW t \in Threads, CreateEnd(t)
  PROVE  PInv'
<1>0. PICK m : m = Target(t)
  OBVIOUS
<1>1. PICK p, v : p = pptr[m] /\ v = pValidity[m]
  OBVIOUS
<1>2. pc[t] = "createEnd" /\ pc[t] \in Serving /\ Local(t) /\ Target(t)' = m
  BY <1>0, ServiceGoesOn DEF CreateEnd, Serving
<1>3. /\ m \in Nodes /\ NodePersists(m) /\ ThreadPersists(t) /\ heap[m] # "owned" /\ p \in PNodes
      /\ heap' = heap /\ state[m] \in States /\ v \in BOOLEAN
  BY <1>0, <1>1, <1>2, ServedNode DEF Local
<1>4. /\ validEnd' = [validEnd EXCEPT ![p] = v] /\ pkey' = [pkey EXCEPT ![p] = key[m]]
      /\ pc'[t] = "flushCreate"
      /\ UNCHANGED <<volatile, validStart, deleted, nvm, todo>>
  BY <1>0, <1>1 DEF CreateEnd, Goto, IInv, TypeOK, recovering
<1>5. /\ validEnd'[p] = v /\ pkey'[p] = key[m]
      /\ \A q \in PNodes : q # p => validEnd'[q] = validEnd[q] /\ pkey'[q] = pkey[q]
      /\ pptr'[m] = p /\ pValidity'[m] = v /\ key'[m] = key[m] /\ state'[m] = state[m]
      /\ validStart'[p] = validStart[p] /\ deleted'[p] = deleted[p]
      /\ nvm'[p] = nvm[p]
  BY <1>1, <1>3, <1>4 DEF IInv, TypeOK, volatile
<1>6. validStart[p] = v /\ Written(Line(p), m)'
  <2>1. validStart[p] = v
    BY <1>0, <1>1, <1>2, <1>3 DEF ThreadPersists, Line
  <2> QED
    BY <1>5, <2>1 DEF Written, Line
<1>7. state[m] = DELETED => validEnd[p] = v /\ pkey[p] = key[m]
  BY <1>1, <1>3 DEF NodePersists, Written, Line, INTEND_TO_INSERT, DELETED
<1>8. Stores(m)
  BY <1>1, <1>4, <1>5, <1>6, <1>7 DEF Stores, LineKept, volatile
<1>9. NodePersists(m)'
  BY <1>1, <1>3, <1>5, <1>6 DEF NodePersists, Written, Line
<1>10. ThreadPersists(t)'
  BY <1>2, <1>4, <1>5, <1>6 DEF ThreadPersists
<1> QED
  BY <1>0, <1>2, <1>3, <1>8, <1>9, <1>10, StoresPInv

(* destroy's store: the PNode is dead in its line. *)
LEMMA DestroyPInv ==
  ASSUME IInv, AInv, PInv, NEW t \in Threads, Destroy(t)
  PROVE  PInv'
<1>0. PICK m : m = Target(t)
  OBVIOUS
<1>1. PICK p, v : p = pptr[m] /\ v = pValidity[m]
  OBVIOUS
<1>2. pc[t] = "destroy" /\ pc[t] \in Serving /\ Local(t) /\ Target(t)' = m
  BY <1>0, ServiceGoesOn DEF Destroy, Serving
<1>3. /\ m \in Nodes /\ NodePersists(m) /\ heap[m] # "owned" /\ p \in PNodes
      /\ heap' = heap /\ v \in BOOLEAN /\ m = curr[t]
      /\ state[m] # INTEND_TO_INSERT /\ state[m] # INSERTED
  BY <1>0, <1>1, <1>2, ServedNode DEF Local, Removing
<1>4. /\ deleted' = [deleted EXCEPT ![p] = v]
      /\ pc'[t] = "flushDestroy"
      /\ UNCHANGED <<volatile, validStart, validEnd, pkey, nvm, todo>>
  BY <1>1, <1>3 DEF Destroy, Goto, IInv, TypeOK, recovering
<1>5. /\ deleted'[p] = v
      /\ \A q \in PNodes : q # p => deleted'[q] = deleted[q]
      /\ pptr'[m] = p /\ pValidity'[m] = v /\ key'[m] = key[m] /\ state'[m] = state[m]
      /\ validStart'[p] = validStart[p] /\ validEnd'[p] = validEnd[p] /\ pkey'[p] = pkey[p]
      /\ nvm'[p] = nvm[p]
  BY <1>1, <1>3, <1>4 DEF IInv, TypeOK, volatile
<1>6. Written(Line(p), m) => Written(Line(p), m)'
  BY <1>1, <1>5 DEF Written, Line
<1>7. state[m] = DELETED => deleted[p] = v
  BY <1>1, <1>3 DEF NodePersists, Line
<1>8. Stores(m)
  BY <1>1, <1>4, <1>5, <1>6, <1>7 DEF Stores, LineKept, volatile
<1>9. NodePersists(m)'
  BY <1>1, <1>3, <1>5 DEF NodePersists, Written, Line
<1>10. ThreadPersists(t)'
  BY <1>2, <1>4, <1>5 DEF ThreadPersists, Line
<1> QED
  BY <1>0, <1>2, <1>3, <1>8, <1>9, <1>10, StoresPInv

-----------------------------------------------------------------------------
(* The write-backs, of a flush or of an eviction. *)

(* A line, or a persistent copy, whose PNode a crash might take for a member *)
(* is that of a node on the list, and complete.                              *)
LEMMA ValidHasOwner ==
  ASSUME IInv, AInv, PInv, NEW p \in PNodes, p \notin todo, NEW line, line \in {Line(p), nvm[p]},
         line.validEnd # line.deleted
  PROVE  \E n \in Nodes : heap[n] = "linked" /\ pptr[n] = p /\ Written(line, n)
                          /\ state[n] # DELETED
<1>1. pheap[p] = "used"
  <2>1. pheap[p] # "free"
    BY DEF PInv, FreePNodesAreDead, PNodeIsDead, Line
  <2> QED
    BY <2>1 DEF IInv, TypeOK
<1>2. PICK n \in Nodes : Live(n) /\ pptr[n] = p
  BY <1>1 DEF AInv, UsedPNodesHaveOwners
<1>3. NodePersists(n) /\ pValidity[n] \in BOOLEAN /\ state[n] \in States
  BY <1>2 DEF PInv, NodesPersist, Attached, IInv, TypeOK, AllNodes
<1>4. line.validEnd \in BOOLEAN /\ line.deleted \in BOOLEAN
  BY DEF IInv, TypeOK, Line
<1>5. state[n] # DELETED
  BY <1>2, <1>3 DEF NodePersists, Written, INTEND_TO_INSERT, DELETED
<1>6. heap[n] # "owned"
  <2> SUFFICES ASSUME heap[n] = "owned" PROVE FALSE
    OBVIOUS
  <2>1. Line(p).validEnd = ~pValidity[n] /\ nvm[p].validEnd = ~pValidity[n]
    BY <1>2, <1>3 DEF NodePersists
  <2>2. state[n] = INTEND_TO_INSERT
    BY <1>2, <1>3, <2>1 DEF NodePersists, Written
  <2> QED
    BY <1>2, <1>3, <2>1, <2>2 DEF NodePersists
<1>7. heap[n] = "linked"
  BY <1>2, <1>5, <1>6, FreesHeld DEF Live, Freeing
<1>8. Written(line, n)
  <2>1. CASE state[n] = INTEND_TO_INSERT
    <3>1. line.deleted = ~pValidity[n]
      BY <1>2, <1>3, <2>1 DEF NodePersists
    <3>2. line.validEnd = pValidity[n]
      BY <1>3, <1>4, <3>1
    <3> QED
      BY <1>2, <1>3, <2>1, <3>2 DEF NodePersists
  <2>2. CASE state[n] # INTEND_TO_INSERT
    BY <1>2, <1>3, <2>2 DEF NodePersists
  <2> QED
    BY <2>1, <2>2
<1> QED
  BY <1>2, <1>5, <1>7, <1>8

(* A write-back of p is safe whenever it comes. *)
LEMMA FlushPInv ==
  ASSUME IInv, AInv, PInv, NEW p \in PNodes, p \notin todo, BARRIER(p),
         UNCHANGED <<volatile, persistent, heap, pheap, todo>>,
         \A n \in Nodes : Attached(n)' => Attached(n),
         \A u \in Threads : pc'[u] \in Pledged => ThreadPersists(u)' \/ SameDuty(u)
  PROVE  PInv'
<1>1. /\ \A n : SameNode(n)
      /\ \A q : LineKept(q) /\ Line(q)' = Line(q)
      /\ nvm'[p] = Line(p) /\ \A q \in PNodes : q # p => nvm'[q] = nvm[q]
      /\ todo' = todo
  BY DEF SameNode, LineKept, Line, volatile, persistent, BARRIER, IInv, TypeOK
<1>2. NodesPersist'
  <2> SUFFICES ASSUME NEW n \in Nodes, Attached(n)'
               PROVE  NodePersists(n)'
    BY DEF NodesPersist
  <2>1. NodePersists(n) /\ pptr[n] \in PNodes
    BY DEF PInv, NodesPersist, AInv, OwnersHavePNodes
  <2>2. /\ pptr'[n] = pptr[n] /\ pValidity'[n] = pValidity[n] /\ key'[n] = key[n]
        /\ state'[n] = state[n] /\ heap' = heap
    BY <1>1 DEF SameNode
  <2>3. CASE pptr[n] = p
    BY <1>1, <2>1, <2>2, <2>3 DEF NodePersists, Written
  <2>4. CASE pptr[n] # p
    BY <1>1, <2>1, <2>2, <2>4, NodeKeeps
  <2> QED
    BY <2>3, <2>4
<1>3. ThreadsPersist'
  <2> SUFFICES ASSUME NEW u \in Threads, SameDuty(u), pc'[u] \in Pledged
               PROVE  ThreadPersists(u)'
    BY UnpledgedPersists DEF ThreadsPersist
  <2>1. PICK n : n = Target(u) /\ Target(u)' = n
    BY DEF SameDuty
  <2>2. pc[u] \in Pledged
    BY DEF SameDuty, Pledged
  <2>3. n \in Nodes /\ ThreadPersists(u) /\ (state[n] # DELETED => heap[n] = "linked")
    BY <2>1, <2>2, PledgedHolds DEF PInv, ThreadsPersist
  <2>4. /\ pptr'[n] = pptr[n] /\ pValidity'[n] = pValidity[n] /\ key'[n] = key[n]
        /\ state'[n] = state[n]
    BY <1>1 DEF SameNode
  <2>5. /\ pc[u] \in {"publish", "publishCAS"} /\ state[n] = INTEND_TO_INSERT =>
             Written(nvm'[pptr[n]], n)
        /\ pc[u] \in {"bury", "buryCAS"} /\ state[n] = INTEND_TO_DELETE =>
             nvm'[pptr[n]].deleted = pValidity[n]
    <3> SUFFICES ASSUME state[n] # DELETED
                 PROVE  <2>5!1 /\ <2>5!2
      BY DEF INTEND_TO_INSERT, INTEND_TO_DELETE, DELETED
    <3>1. NodePersists(n) /\ pptr[n] \in PNodes
      BY <2>3 DEF PInv, NodesPersist, AInv, OwnersHavePNodes, Attached, Live
    <3>2. CASE pptr[n] = p
      BY <1>1, <2>1, <2>3, <3>1, <3>2 DEF ThreadPersists, NodePersists, Written
    <3>3. CASE pptr[n] # p
      BY <1>1, <2>1, <2>3, <3>1, <3>3 DEF ThreadPersists
    <3> QED
      BY <3>2, <3>3
  <2>6. /\ pc[u] = "createEnd" => Line(pptr[n]).validStart = pValidity[n]
        /\ pc[u] = "flushCreate" => Written(Line(pptr[n]), n)
        /\ pc[u] = "flushDestroy" => Line(pptr[n]).deleted = pValidity[n]
    BY <2>1, <2>3 DEF ThreadPersists
  <2>7. \/ pc'[u] = pc[u]
        \/ pc[u] \in {"publish", "publishCAS"} /\ pc'[u] \in {"publish", "publishCAS"}
        \/ pc[u] \in {"bury", "buryCAS"} /\ pc'[u] \in {"bury", "buryCAS"}
    BY DEF SameDuty
  <2>8. Line(pptr[n])' = Line(pptr[n])
    BY <1>1, <2>4
  <2> QED
    BY <2>1, <2>4, <2>5, <2>6, <2>7, <2>8 DEF ThreadPersists, Written
<1>4. FreePNodesAreDead'
  BY <1>1 DEF PInv, FreePNodesAreDead, PNodeIsDead, LineKept, Line
<1>5. TodoIsAsInNVM'
  BY <1>1 DEF PInv, TodoIsAsInNVM, IInv, TypeOK
<1>6. \A q \in PNodes : CopyIsSound(q)'
  <2> SUFFICES ASSUME NEW q \in PNodes
               PROVE  CopyIsSound(q)'
    OBVIOUS
  <2>1. CASE q # p
    BY <1>1, <2>1 DEF PInv, CopyIsSound, InOrder, IsValid
  <2>2. CASE q = p
    <3>1. ASSUME Line(p).validEnd # Line(p).deleted
          PROVE  Line(p).validStart = Line(p).validEnd /\ Line(p).key # MinKey
      <4>1. PICK n \in Nodes : heap[n] = "linked" /\ Written(Line(p), n)
        BY <3>1, ValidHasOwner
      <4>2. key[n] # key[Head] /\ key[Head] = MinKey
        BY <4>1, NodesAssumption DEF IInv, ListIsSorted, Linked, SentinelsAreFixed
      <4> QED
        BY <4>1, <4>2 DEF Written
    <3> QED
      BY <1>1, <2>2, <3>1 DEF CopyIsSound, InOrder, IsValid
  <2> QED
    BY <2>1, <2>2
<1>7. ASSUME NEW q \in PNodes, q # p, IsValid(Line(p)), IsValid(nvm[q]), Line(p).key = nvm[q].key
      PROVE  FALSE
  <2>1. PICK n \in Nodes : heap[n] = "linked" /\ pptr[n] = p /\ Written(Line(p), n) /\ state[n] # DELETED
    BY <1>7, ValidHasOwner DEF IsValid
  <2>2. CASE q \notin todo
    <3>1. PICK k \in Nodes : heap[k] = "linked" /\ pptr[k] = q /\ Written(nvm[q], k)
      BY <1>7, <2>2, ValidHasOwner DEF IsValid
    <3>2. key[k] = key[n]
      BY <1>7, <2>1, <3>1 DEF Written
    <3>3. k \in Linked /\ n \in Linked
      BY <2>1, <3>1 DEF Linked
    <3>4. k = n
      BY <3>2, <3>3 DEF IInv, ListIsSorted
    <3> QED
      BY <1>7, <2>1, <3>1, <3>4
  <2>3. CASE q \in todo
    <3>1. state[n] = INSERTED
      BY <2>1, <2>3 DEF IInv, RecoveryIsAlone, TypeOK
    <3>2. NodePersists(n) /\ pValidity[n] \in BOOLEAN
      BY <2>1 DEF PInv, NodesPersist, Attached, Live, IInv, TypeOK
    <3>3. Written(nvm[p], n) /\ nvm[p].deleted = ~pValidity[n]
      BY <2>1, <3>1, <3>2 DEF NodePersists, INSERTED, INTEND_TO_INSERT
    <3>4. IsValid(nvm[p]) /\ nvm[p].key = nvm[q].key
      BY <1>7, <2>1, <3>2, <3>3 DEF IsValid, Written
    <3> QED
      BY <1>7, <3>4 DEF PInv, PersistedKeysAreUnique
  <2> QED
    BY <2>2, <2>3
<1>8. PersistedKeysAreUnique'
  <2> SUFFICES ASSUME NEW q \in PNodes, NEW r \in PNodes, q # r,
                      IsValid(nvm'[q]), IsValid(nvm'[r]), nvm'[q].key = nvm'[r].key
               PROVE  FALSE
    BY DEF PersistedKeysAreUnique, IsValid
  <2>1. CASE q = p
    BY <1>1, <1>7, <2>1 DEF IsValid
  <2>2. CASE r = p
    BY <1>1, <1>7, <2>2 DEF IsValid
  <2>3. CASE q # p /\ r # p
    BY <1>1, <2>3 DEF PInv, PersistedKeysAreUnique, IsValid
  <2> QED
    BY <2>1, <2>2, <2>3
<1> QED
  BY <1>2, <1>3, <1>4, <1>5, <1>6, <1>8 DEF PInv

(* A flush of create or destroy, and an eviction. *)
LEMMA FlushCreatePInv ==
  ASSUME IInv, AInv, PInv, NEW t \in Threads, FlushCreate(t) \/ FlushDestroy(t)
  PROVE  PInv'
<1>0. PICK m, p : m = Target(t) /\ p = pptr[m]
  OBVIOUS
<1>1. /\ \/ pc[t] = "flushCreate" /\ pc'[t] = "publish"
         \/ pc[t] = "flushDestroy" /\ pc'[t] = "bury"
      /\ UNCHANGED <<volatile, persistent, heap, pheap, todo>>
  BY DEF FlushCreate, FlushDestroy, Goto, IInv, TypeOK, memory, recovering
<1>2. pc[t] \in Serving
  BY <1>1 DEF Serving
<1>3. Local(t) /\ Target(t)' = m
  BY <1>0, ServiceGoesOn
<1>4. /\ m \in Nodes /\ p \in PNodes /\ NodePersists(m) /\ ThreadPersists(t)
      /\ pc[t] = "flushDestroy" => m = curr[t]
  BY <1>0, <1>1, <1>2, ServedNode DEF Removing
<1>5. BARRIER(p)
  BY <1>0, <1>1, <1>4 DEF FlushCreate, FlushDestroy
<1>6. todo = {}
  BY <1>1, Holding DEF IInv, RecoveryIsAlone
<1>7. ThreadPersists(t)'
  <2>1. nvm'[p] = Line(p) /\ pptr'[m] = p /\ pValidity'[m] = pValidity[m] /\ key'[m] = key[m]
    BY <1>0, <1>1, <1>4, <1>5 DEF BARRIER, volatile, IInv, TypeOK
  <2>2. /\ pc[t] = "flushCreate" => Written(Line(p), m)
        /\ pc[t] = "flushDestroy" => Line(p).deleted = pValidity[m]
    BY <1>0, <1>4 DEF ThreadPersists
  <2> QED
    BY <1>1, <1>3, <2>1, <2>2 DEF ThreadPersists, Written
<1>8. \A n : SameNode(n)
  BY <1>1 DEF SameNode, volatile
<1>9. \A u \in Threads \ {t} : pc'[u] \in Pledged => SameDuty(u)
  BY <1>3, <1>8, LocalKeeps DEF Local, SameLocals, SameDuty
<1>10. \A n \in Nodes : Attached(n)' => Attached(n)
  BY <1>3, LocalKeeps
<1> QED
  BY <1>1, <1>4, <1>5, <1>6, <1>7, <1>9, <1>10, FlushPInv

(* A line may be written back at any moment. *)
LEMMA EvictPInv ==
  ASSUME IInv, AInv, PInv, NEW p \in PNodes, Evict(p)
  PROVE  PInv'
<1>1. UNCHANGED <<volatile, persistent, memory, locals, recovering>> /\ BARRIER(p) /\ nvm[p] # Line(p)
  BY DEF Evict
<1>2. p \notin todo
  BY <1>1 DEF PInv, TodoIsAsInNVM
<1>3. \A u : Target(u)' = Target(u)
  BY <1>1 DEF Target, locals, search
<1>4. \A n : (Attached(n)' <=> Attached(n)) /\ SameNode(n)
  BY <1>1, <1>3 DEF Attached, Live, Freeing, SameNode, volatile, memory, locals, search
<1>5. \A u : SameDuty(u)
  BY <1>1, <1>3, <1>4 DEF SameDuty, locals
<1>6. UNCHANGED <<volatile, persistent, heap, pheap, todo>>
  BY <1>1 DEF memory, recovering
<1> QED
  BY <1>1, <1>2, <1>4, <1>5, <1>6, FlushPInv

-----------------------------------------------------------------------------
(* Crash and recovery. *)

(* A PNode that recovery passes over is dead in both copies. *)
LEMMA RecoverDeadPInv ==
  ASSUME IInv, AInv, PInv, NEW p \in PNodes, RecoverDead(p)
  PROVE  PInv'
<1>1. /\ phase = "recovering" /\ p \in todo /\ ~IsValid(Line(p))
      /\ validStart' = [validStart EXCEPT ![p] = validEnd[p]]
      /\ todo' = todo \ {p}
      /\ UNCHANGED <<volatile, validEnd, deleted, pkey, nvm, memory, locals>>
  BY DEF RecoverDead
<1>2. \A u \in Threads : pc[u] = "idle" /\ pc'[u] = "idle"
  BY <1>1, RecoveringAlone DEF locals
<1>3. pheap[p] = "free" /\ Line(p) = nvm[p]
  BY <1>1 DEF AInv, TodoIsFree, PInv, TodoIsAsInNVM
<1>4. \A q \in PNodes \ {p} : LineKept(q) /\ Line(q)' = Line(q)
  BY <1>1 DEF LineKept, Line, IInv, TypeOK
<1>5. NodesPersist'
  <2> SUFFICES ASSUME NEW n \in Nodes, Attached(n)'
               PROVE  NodePersists(n)'
    BY DEF NodesPersist
  <2>1. Live(n) /\ Attached(n)
    BY <1>1, <1>2 DEF Attached, Live, Freeing, Serving, memory
  <2>2. NodePersists(n) /\ pptr[n] \in PNodes /\ pptr[n] # p
    BY <1>3, <2>1 DEF AInv, OwnersHavePNodes, PInv, NodesPersist
  <2>3. SameNode(n) /\ nvm' = nvm /\ heap' = heap
    BY <1>1 DEF SameNode, volatile, memory
  <2> QED
    BY <1>4, <2>2, <2>3, NodeKeeps
<1>6. ThreadsPersist'
  BY <1>2, UnpledgedPersists DEF ThreadsPersist, Pledged
<1>7. FreePNodesAreDead'
  <2>1. PNodeIsDead(p)'
    <3>1. validEnd[p] = deleted[p]
      BY <1>1, <1>3 DEF IsValid, PInv, CopyIsSound, InOrder, Line
    <3>2. nvm[p].validEnd = validEnd[p] /\ nvm[p].deleted = deleted[p]
      BY <1>3 DEF Line
    <3> QED
      BY <1>1, <3>1, <3>2 DEF PNodeIsDead, IInv, TypeOK
  <2>2. ASSUME NEW q \in PNodes, q # p, pheap'[q] = "free", q \notin todo'
        PROVE  PNodeIsDead(q)'
    <3>1. PNodeIsDead(q)
      BY <1>1, <2>2 DEF PInv, FreePNodesAreDead, memory
    <3> QED
      BY <1>1, <1>4, <2>2, <3>1 DEF PNodeIsDead, LineKept
  <2> QED
    BY <2>1, <2>2 DEF FreePNodesAreDead
<1>8. TodoIsAsInNVM'
  BY <1>1, <1>4 DEF PInv, TodoIsAsInNVM, IInv, TypeOK
<1>9. (\A q \in PNodes : CopyIsSound(q)') /\ PersistedKeysAreUnique'
  BY <1>1 DEF PInv, CopyIsSound, InOrder, IsValid, PersistedKeysAreUnique
<1> QED
  BY <1>5, <1>6, <1>7, <1>8, <1>9 DEF PInv

(* After a crash every line is what NVM holds of it. *)
LEMMA CrashPInv ==
  ASSUME IInv, PInv, Crash
  PROVE  PInv'
<1>1. NodesPersist'
  BY CrashAInv DEF NodesPersist
<1>2. ThreadsPersist'
  BY UnpledgedPersists DEF ThreadsPersist, Pledged, Crash
<1>3. todo' = PNodes /\ nvm' = nvm
  BY DEF Crash, ChunkPNodes
<1>4. FreePNodesAreDead'
  BY <1>3 DEF FreePNodesAreDead
<1>5. TodoIsAsInNVM'
  <2> SUFFICES ASSUME NEW p \in PNodes
               PROVE  Line(p)' = nvm[p]
    BY <1>3 DEF TodoIsAsInNVM
  <2>1. /\ validStart'[p] = nvm[p].validStart /\ validEnd'[p] = nvm[p].validEnd
        /\ deleted'[p] = nvm[p].deleted /\ pkey'[p] = nvm[p].key
    BY DEF Crash
  <2>2. nvm[p] \in [validStart : BOOLEAN, validEnd : BOOLEAN, deleted : BOOLEAN, key : Int]
    BY DEF IInv, TypeOK
  <2> QED
    BY <2>1, <2>2 DEF Line
<1>6. (\A q \in PNodes : CopyIsSound(q)') /\ PersistedKeysAreUnique'
  BY <1>3 DEF PInv, CopyIsSound, InOrder, IsValid, PersistedKeysAreUnique
<1> QED
  BY <1>1, <1>2, <1>4, <1>5, <1>6 DEF PInv

-----------------------------------------------------------------------------
(* The invariant. *)

(* All three invariants hold at the start, when every PNode is zeroed. *)
LEMMA InitSOFTInv == Init => SOFTInv
<1> SUFFICES ASSUME Init PROVE SOFTInv
  OBVIOUS
<1>1. IInv
  BY InitIInv
<1>2. /\ \A n \in Nodes : heap[n] = "free"
      /\ \A p \in PNodes : pheap[p] = "free"
      /\ \A u \in Threads : pc[u] = "idle"
      /\ todo = {}
  BY DEF Init
<1>3. AInv /\ \A n \in Nodes : ~Attached(n)
  BY <1>2, BlankAInv
<1>4. \A p \in PNodes : /\ validStart[p] = FALSE /\ validEnd[p] = FALSE /\ deleted[p] = FALSE
                        /\ nvm[p] = Line(p) /\ nvm[p].validStart = FALSE /\ nvm[p].validEnd = FALSE
                        /\ nvm[p].deleted = FALSE
  BY DEF Init, Line
<1>5. NodesPersist /\ ThreadsPersist
  BY <1>2, <1>3 DEF NodesPersist, ThreadsPersist, ThreadPersists
<1>6. FreePNodesAreDead /\ TodoIsAsInNVM
  BY <1>2, <1>4 DEF FreePNodesAreDead, TodoIsAsInNVM, PNodeIsDead
<1>7. (\A q \in PNodes : CopyIsSound(q)) /\ PersistedKeysAreUnique
  BY <1>4 DEF CopyIsSound, InOrder, IsValid, PersistedKeysAreUnique
<1> QED
  BY <1>1, <1>3, <1>5, <1>6, <1>7 DEF SOFTInv, PInv

(* Every step keeps PInv. *)
LEMMA NextPInv ==
  ASSUME IInv, AInv, PInv, [Next]_vars
  PROVE  PInv'
<1>1. ASSUME NEW t \in Threads, Step(t)
      PROVE  PInv'
  BY <1>1, LocalStepsPInv, TrimPInv, FreeTrimmedPInv, AnswersPInv, AllocNodePInv, LinkNodePInv,
     RetryPInv, CreateStartPInv, CreateEndPInv, FlushCreatePInv, CASPInv, DestroyPInv
  DEF Step
<1>2. ASSUME NEW t \in Threads, NEW c \in DS!Calls, Invoke(t, c)
      PROVE  PInv'
  BY <1>2, LocalStepsPInv
<1>3. ASSUME NEW p \in PNodes, Evict(p)
      PROVE  PInv'
  BY <1>3, EvictPInv
<1>4. CASE Crash
  BY <1>4, CrashPInv
<1>5. CASE Recover
  <2>1. CASE RecoverDone
    BY <2>1, QuietPInv DEF RecoverDone, locals, search
  <2> QED
    BY <1>5, <2>1, RecoverDeadPInv, QuickInsertPInv DEF Recover
<1>6. CASE UNCHANGED vars
  BY <1>6, QuietPInv DEF vars, locals, search, recovering
<1> QED
  BY <1>1, <1>2, <1>3, <1>4, <1>5, <1>6 DEF Next

(* SOFTInv holds in every state of every behaviour. *)
LEMMA SOFTInvariance == Spec => []SOFTInv
<1>1. SOFTInv /\ [Next]_vars => SOFTInv'
  BY NextIInv, NextAInv, NextPInv DEF SOFTInv
<1> QED
  BY <1>1, InitSOFTInv, PTL DEF Spec

(* A helper that comes late still writes the PNode of the node it came for:   *)
(* ssmem's rule keeps a freed PNode for all that may yet call create or      *)
(* destroy on it.                                                            *)
THEOREM HelpersFindTheirPNode == Spec => []HelpedPNodesAreNotReused
<1>1. SOFTInv => HelpedPNodesAreNotReused
  <2> SUFFICES ASSUME SOFTInv, NEW t \in Threads, NEW n \in Nodes,
                      pc[t] \in {"create", "createEnd", "flushCreate", "destroy", "flushDestroy"},
                      heap[n] \in {"owned", "linked"}, pptr[n] = pptr[Target(t)]
               PROVE  n = Target(t)
    BY DEF HelpedPNodesAreNotReused
  <2>1. Attached(n) /\ Target(t) \in Nodes /\ Attached(Target(t))
    BY ServesHeld DEF SOFTInv, Attached, Live, Serving
  <2> QED
    BY <2>1 DEF SOFTInv, AInv, PNodesAreApart
<1> QED
  BY <1>1, SOFTInvariance, PTL

(* INSERTED and DELETED are true of NVM before anybody can read them: the     *)
(* owner or a helper has flushed the PNode before its compare-and-swap.      *)
THEOREM StatesTellOfNVM == Spec => []StatesArePersisted
<1>1. SOFTInv => StatesArePersisted
  <2> SUFFICES ASSUME SOFTInv, NEW n \in Nodes, heap[n] = "linked"
               PROVE  /\ state[n] = INSERTED => IsValid(nvm[pptr[n]]) /\ nvm[pptr[n]].key = key[n]
                      /\ state[n] = DELETED => ~IsValid(nvm[pptr[n]])
    BY DEF StatesArePersisted
  <2>1. NodePersists(n) /\ pValidity[n] \in BOOLEAN
    BY DEF SOFTInv, IInv, TypeOK, PInv, NodesPersist, Attached, Live
  <2> QED
    BY <2>1 DEF NodePersists, Written, IsValid, INSERTED, INTEND_TO_INSERT, DELETED
<1> QED
  BY <1>1, SOFTInvariance, PTL

(* Whatever lines the processor wrote back, and whenever: NVM never holds two *)
(* members with one key.                                                     *)
THEOREM NVMHoldsNoKeyTwice == Spec => []PersistedKeysAreUnique
BY SOFTInvariance, PTL DEF SOFTInv, PInv

(* A PNode that is free for reuse does not come back after a crash. *)
THEOREM FreedPNodesAreDeadInNVM == Spec => []FreedPNodesStayDead
<1>1. SOFTInv => FreedPNodesStayDead
  BY DEF SOFTInv, IInv, RecoveryIsAlone, PInv, FreePNodesAreDead, PNodeIsDead, FreedPNodesStayDead,
         IsValid
<1> QED
  BY <1>1, SOFTInvariance, PTL

(* recovery never stops at an assertion of quickInsert: what it meets on the *)
(* list is neither deleted nor has the key it is about to insert.            *)
THEOREM QuickInsertAssertionsHold == Spec => []RecoveryAssertionsHold
<1>1. SOFTInv => RecoveryAssertionsHold
  <2> SUFFICES ASSUME SOFTInv, phase = "recovering", NEW p \in todo, IsValid(Line(p)),
                      NEW m \in Linked, state[m] = DELETED \/ key[m] = pkey[p]
               PROVE  FALSE
    BY DEF RecoveryAssertionsHold, AssertionFails
  <2> USE DEF SOFTInv
  <2>1. p \in PNodes /\ Line(p) = nvm[p] /\ pheap[p] = "free" /\ nvm[p].key = pkey[p]
    BY DEF IInv, TypeOK, PInv, TodoIsAsInNVM, AInv, TodoIsFree, Line
  <2>2. CASE m = Head
    BY <2>1, <2>2 DEF IInv, SentinelsAreFixed, PInv, CopyIsSound, INSERTED, DELETED
  <2>3. CASE m # Head
    <3>1. m \in Nodes /\ heap[m] = "linked"
      BY <2>3 DEF Linked
    <3>2. state[m] = INSERTED
      BY <3>1 DEF IInv, RecoveryIsAlone
    <3>3. /\ Attached(m) /\ Live(m) /\ NodePersists(m) /\ pValidity[m] \in BOOLEAN
          /\ pptr[m] \in PNodes /\ pheap[pptr[m]] = "used"
      BY <3>1 DEF Attached, Live, PInv, NodesPersist, AInv, OwnersHavePNodes, IInv, TypeOK
    <3>4. Written(nvm[pptr[m]], m) /\ nvm[pptr[m]].deleted = ~pValidity[m]
      BY <3>2, <3>3 DEF NodePersists, INSERTED, INTEND_TO_INSERT
    <3>5. IsValid(nvm[pptr[m]]) /\ nvm[pptr[m]].key = nvm[p].key
      BY <2>1, <3>2, <3>3, <3>4 DEF IsValid, Written, INSERTED, DELETED
    <3> QED
      BY <2>1, <3>3, <3>5 DEF PInv, PersistedKeysAreUnique
  <2> QED
    BY <2>2, <2>3
<1> QED
  BY <1>1, SOFTInvariance, PTL

-----------------------------------------------------------------------------
(* What the histories promise. *)

(* What the calls c are. *)
CallsOf(c) == c \in [Threads -> DS!Calls \union {DS!None}]

(* One operation takes effect. *)
EffectStep(c) ==
  {gh \in DS!Configurations \X DS!Configurations :
     \E t \in DS!Running(c, gh[1]) : gh[2] = DS!TakeEffect(c, gh[1], t)}

(* An effect leads from a configuration to a configuration. *)
LEMMA EffectType ==
  ASSUME NEW c, CallsOf(c), NEW g \in DS!Configurations, NEW t \in DS!Running(c, g)
  PROVE  /\ DS!TakeEffect(c, g, t) \in DS!Configurations
         /\ <<g, DS!TakeEffect(c, g, t)>> \in EffectStep(c)
         /\ c[t] \in DS!Calls
<1>1. t \in Threads /\ c[t] \in DS!Calls /\ t \notin DOMAIN g.res
  BY DEF CallsOf, DS!Running
<1>2. g.set \in SUBSET Keys
  BY DEF DS!Configurations
<1>3. c[t].op \in DS!Operations /\ c[t].arg \in Keys
  BY <1>1 DEF DS!Calls
<1>4. DS!SetAfter(c[t], g.set) \in SUBSET Keys /\ DS!AnswerOf(c[t], g.set) \in BOOLEAN
  <2>1. CASE c[t].op = "insert"
    BY <1>2, <1>3, <2>1 DEF DS!SetAfter, DS!AnswerOf
  <2>2. CASE c[t].op = "remove"
    BY <1>2, <1>3, <2>2 DEF DS!SetAfter, DS!AnswerOf
  <2>3. CASE c[t].op = "contains"
    BY <1>2, <1>3, <2>3 DEF DS!SetAfter, DS!AnswerOf
  <2> QED
    BY <1>3, <2>1, <2>2, <2>3 DEF DS!Operations
<1>5. PICK T \in SUBSET Threads : g.res \in [T -> BOOLEAN]
  BY DEF DS!Configurations
<1> DEFINE h == [u \in DOMAIN g.res \union {t} |->
                   IF u = t THEN DS!AnswerOf(c[t], g.set) ELSE g.res[u]]
<1>6. h \in [T \union {t} -> BOOLEAN] /\ T \union {t} \in SUBSET Threads
  BY <1>1, <1>4, <1>5
<1>7. DS!TakeEffect(c, g, t) = [set |-> DS!SetAfter(c[t], g.set), res |-> h]
  BY DEF DS!TakeEffect
<1> HIDE DEF h
<1>8. DS!TakeEffect(c, g, t) \in DS!Configurations
  BY <1>4, <1>6, <1>7 DEF DS!Configurations
<1> QED
  BY <1>1, <1>8 DEF EffectStep

(* The answers given so far: at most one of each thread, one more with each effect. *)
LEMMA AnswersGrow ==
  ASSUME NEW c, CallsOf(c)
  PROVE  LET r == [g \in DS!Configurations |-> Cardinality(DOMAIN g.res)] IN
         /\ r \in [DS!Configurations -> 0..Cardinality(Threads)]
         /\ \A g, h \in DS!Configurations : <<g, h>> \in EffectStep(c) => r[g] < r[h]
<1> DEFINE C(g) == Cardinality(DOMAIN g.res)
<1>1. ASSUME NEW g \in DS!Configurations
      PROVE  IsFiniteSet(DOMAIN g.res) /\ C(g) \in 0..Cardinality(Threads)
  <2>1. DOMAIN g.res \in SUBSET Threads
    BY DEF DS!Configurations
  <2> QED
    BY <2>1, ThreadsAssumption, FS_Subset, FS_CardinalityType
<1>2. ASSUME NEW g \in DS!Configurations, NEW h \in DS!Configurations, <<g, h>> \in EffectStep(c)
      PROVE  C(g) < C(h)
  <2>1. PICK t \in DS!Running(c, g) : h = DS!TakeEffect(c, g, t)
    BY <1>2 DEF EffectStep
  <2>2. DOMAIN h.res = DOMAIN g.res \union {t} /\ t \notin DOMAIN g.res
    BY <2>1 DEF DS!TakeEffect, DS!Running
  <2>3. C(h) = C(g) + 1
    BY <1>1, <2>2, FS_AddElement
  <2> QED
    BY <1>1, <2>3
<1> HIDE DEF C
<1>3. [g \in DS!Configurations |-> C(g)] \in [DS!Configurations -> 0..Cardinality(Threads)]
  BY <1>1
<1> QED
  BY <1>2, <1>3 DEF C

(* ReachFrom goes as many rounds as there are threads. *)
LEMMA ReachRounds ==
  ASSUME NEW c, CallsOf(c), NEW o \in SUBSET DS!Configurations
  PROVE  \E f : /\ Rounds(f, Cardinality(Threads), DS!Configurations, EffectStep(c), o)
                /\ DS!ReachFrom(c, o) = f[Cardinality(Threads)]
<1> DEFINE N == Cardinality(Threads)
           D == DS!Configurations
           G(x) == x \union UNION {{DS!TakeEffect(c, g, t) : t \in DS!Running(c, g)} : g \in x}
           Rec(f) == f = [k \in 0..N |-> IF k = 0 THEN o ELSE G(f[k-1])]
<1>1. N \in Nat
  BY ThreadsAssumption, FS_CardinalityType
<1>2. ASSUME NEW x \in SUBSET D
      PROVE  G(x) = OneRound(x, D, EffectStep(c))
  <2>1. ASSUME NEW g \in x, NEW t \in DS!Running(c, g)
        PROVE  /\ DS!TakeEffect(c, g, t) \in D
               /\ <<g, DS!TakeEffect(c, g, t)>> \in EffectStep(c)
    BY EffectType
  <2>2. ASSUME NEW g \in x, NEW h \in D, <<g, h>> \in EffectStep(c)
        PROVE  \E t \in DS!Running(c, g) : h = DS!TakeEffect(c, g, t)
    BY <2>2 DEF EffectStep
  <2>3. \A h \in G(x) : h \in OneRound(x, D, EffectStep(c))
    <3> SUFFICES ASSUME NEW h \in G(x) PROVE h \in OneRound(x, D, EffectStep(c))
      OBVIOUS
    <3>1. CASE h \in x
      BY <3>1 DEF OneRound
    <3>2. CASE \E g \in x : \E t \in DS!Running(c, g) : h = DS!TakeEffect(c, g, t)
      BY <2>1, <3>2 DEF OneRound
    <3> QED
      BY <3>1, <3>2
  <2>4. \A h \in OneRound(x, D, EffectStep(c)) : h \in G(x)
    <3> SUFFICES ASSUME NEW h \in D, NEW g \in x, <<g, h>> \in EffectStep(c) PROVE h \in G(x)
      BY DEF OneRound
    <3>1. PICK t \in DS!Running(c, g) : h = DS!TakeEffect(c, g, t)
      BY <2>2
    <3> QED
      BY <3>1
  <2> QED
    BY <2>3, <2>4
<1>3. PICK g : Rounds(g, N, D, EffectStep(c), o)
  <2>1. o \in SUBSET D
    OBVIOUS
  <2> HIDE DEF N, D
  <2> QED
    BY <1>1, <2>1, RoundsExist
<1>4. Rec(g)
  <2>1. g \in [0..N -> SUBSET D] /\ \A k \in 1..N : g[k] = OneRound(g[k-1], D, EffectStep(c))
    BY <1>3 DEF Rounds
  <2>2. \A k \in 1..N : g[k-1] \in SUBSET D
    BY <1>1, <2>1
  <2> HIDE DEF G, D
  <2>3. \A k \in 1..N : g[k] = G(g[k-1])
    BY <1>2, <2>1, <2>2
  <2>4. \A k \in 0..N : g[k] = IF k = 0 THEN o ELSE G(g[k-1])
    BY <1>1, <1>3, <2>3 DEF Rounds
  <2> QED
    BY <2>1, <2>4
<1>5. PICK f : Rec(f) /\ DS!ReachFrom(c, o) = f[N]
  <2>1. Rec(CHOOSE f : Rec(f))
    BY <1>4
  <2>2. DS!ReachFrom(c, o) = (CHOOSE f : Rec(f))[N]
    BY DEF DS!ReachFrom, DS!Cardinality, Cardinality
  <2> QED
    BY <2>1, <2>2
<1>6. f = [k \in 0..N |-> f[k]] /\ f[0] = o /\ \A k \in 1..N : f[k] = G(f[k-1])
  <2> HIDE DEF G
  <2> QED
    BY <1>1, <1>5
<1>7. \A k \in 1..N : f[k-1] \in SUBSET D => f[k] = OneRound(f[k-1], D, EffectStep(c))
  <2> HIDE DEF G, D
  <2> QED
    BY <1>2, <1>6
<1>8. f[0] = o /\ o \in SUBSET D
  BY <1>6
<1> HIDE DEF N, D, G
<1>9. Rounds(f, N, D, EffectStep(c), o)
  BY <1>1, <1>6, <1>7, <1>8, RoundsOfRecursion
<1> QED
  BY <1>5, <1>6, <1>9 DEF N, D

(* The pairs reached: those at hand, and whatever one effect makes of a pair reached. *)
LEMMA ReachCloses ==
  ASSUME NEW c, CallsOf(c), NEW o \in SUBSET DS!Configurations
  PROVE  /\ o \subseteq DS!ReachFrom(c, o)
         /\ DS!ReachFrom(c, o) \subseteq DS!Configurations
         /\ \A g \in DS!ReachFrom(c, o) : \A t \in DS!Running(c, g) :
              DS!TakeEffect(c, g, t) \in DS!ReachFrom(c, o)
<1> DEFINE N == Cardinality(Threads)
           D == DS!Configurations
           r == [g \in DS!Configurations |-> Cardinality(DOMAIN g.res)]
<1>1. N \in Nat
  BY ThreadsAssumption, FS_CardinalityType
<1>2. PICK f : /\ Rounds(f, N, D, EffectStep(c), o)
               /\ DS!ReachFrom(c, o) = f[N]
  BY ReachRounds
<1>3. r \in [D -> 0..N] /\ \A g, h \in D : <<g, h>> \in EffectStep(c) => r[g] < r[h]
  BY AnswersGrow
<1>4. ASSUME NEW g \in D, NEW t \in DS!Running(c, g)
      PROVE  DS!TakeEffect(c, g, t) \in D /\ <<g, DS!TakeEffect(c, g, t)>> \in EffectStep(c)
  BY EffectType
<1> HIDE DEF N, D, r
<1>5. o \subseteq f[N] /\ f[N] \subseteq D
  BY <1>1, <1>2, RoundsGrow
<1>6. \A g \in f[N] : \A h \in D : <<g, h>> \in EffectStep(c) => h \in f[N]
  BY <1>1, <1>2, <1>3, RoundsClose
<1> QED
  BY <1>2, <1>4, <1>5, <1>6 DEF D

(* Nothing else is reached. *)
LEMMA ReachIsLeast ==
  ASSUME NEW c, CallsOf(c), NEW o \in SUBSET DS!Configurations, NEW T, o \subseteq T,
         \A g \in T : g \in DS!Configurations =>
            \A t \in DS!Running(c, g) : DS!TakeEffect(c, g, t) \in T
  PROVE  DS!ReachFrom(c, o) \subseteq T
<1> DEFINE N == Cardinality(Threads)
           D == DS!Configurations
<1>1. N \in Nat
  BY ThreadsAssumption, FS_CardinalityType
<1>2. PICK f : /\ Rounds(f, N, D, EffectStep(c), o)
               /\ DS!ReachFrom(c, o) = f[N]
  BY ReachRounds
<1>3. Stays(T, D, EffectStep(c))
  BY DEF EffectStep, Stays
<1>4. o \subseteq T
  OBVIOUS
<1> HIDE DEF N, D
<1>5. f[N] \subseteq T
  BY <1>1, <1>2, <1>3, <1>4, RoundsStay
<1> QED
  BY <1>2, <1>5

-----------------------------------------------------------------------------
(* What is promised, and how it grows. *)

(* R with the answer of t, which takes effect at the set S. *)
LEMMA OneMore ==
  ASSUME NEW c, CallsOf(c), NEW o \in SUBSET DS!Configurations,
         NEW S \in SUBSET Keys, NEW R \in Answers, NEW t \in DOMAIN R, c[t] # DS!None,
         NEW W, W \in Answers, DOMAIN W = DOMAIN R \ {t},
         \A u \in DOMAIN W : W[u] = R[u],
         [set |-> S, res |-> W] \in DS!ReachFrom(c, o), R[t] = DS!AnswerOf(c[t], S)
  PROVE  [set |-> DS!SetAfter(c[t], S), res |-> R] \in DS!ReachFrom(c, o)
<1> DEFINE g == [set |-> S, res |-> W]
<1>1. t \in Threads
  BY DEF Answers
<1>2. t \in DS!Running(c, g)
  BY <1>1 DEF DS!Running
<1>3. DS!TakeEffect(c, g, t) \in DS!ReachFrom(c, o)
  BY <1>2, ReachCloses
<1> DEFINE h == [u \in DOMAIN W \union {t} |-> IF u = t THEN DS!AnswerOf(c[t], S) ELSE W[u]]
<1>4. DS!TakeEffect(c, g, t) = [set |-> DS!SetAfter(c[t], S), res |-> h]
  BY DEF DS!TakeEffect
<1>5. h = R
  <2>1. DOMAIN h = DOMAIN R /\ \A u \in DOMAIN R : h[u] = R[u]
    OBVIOUS
  <2>2. R = [u \in DOMAIN R |-> R[u]] /\ h = [u \in DOMAIN h |-> h[u]]
    BY DEF Answers
  <2> HIDE DEF h
  <2> QED
    BY <2>1, <2>2
<1> QED
  BY <1>3, <1>4, <1>5

(* The answers without that of t. *)
LEMMA OneLess ==
  ASSUME NEW R \in Answers, NEW t
  PROVE  \E W \in Answers : DOMAIN W = DOMAIN R \ {t} /\ \A u \in DOMAIN W : W[u] = R[u]
<1>1. PICK D \in SUBSET Threads : R \in [D -> BOOLEAN]
  BY DEF Answers
<1> DEFINE W == [u \in D \ {t} |-> R[u]]
<1>2. W \in [D \ {t} -> BOOLEAN] /\ D \ {t} \in SUBSET Threads
  BY <1>1
<1>3. W \in Answers
  BY <1>2 DEF Answers
<1>4. DOMAIN W = DOMAIN R \ {t} /\ \A u \in DOMAIN W : W[u] = R[u]
  BY <1>1
<1> QED
  BY <1>3, <1>4

(* An operation that would now change nothing may take effect now. *)
LEMMA Settle ==
  ASSUME NEW c, CallsOf(c), NEW o \in SUBSET DS!Configurations, NEW S \in SUBSET Keys,
         NEW M, NEW Q, NEW P, Promised(c, o, S, M, Q),
         \A t \in Threads : c[t] # DS!None => P[t] \subseteq Q[t] \union FreeAnswers(c[t], S)
  PROVE  Promised(c, o, S, M, P)
<1> DEFINE New(R) == {t \in DOMAIN R : t \notin M /\ R[t] \notin Q[t]}
           Told(R) == [set |-> S, res |-> R] \in DS!ReachFrom(c, o)
           I == {n \in Nat : \A R \in Answers :
                   Answered(c, M, P, R) /\ Cardinality(New(R)) = n => Told(R)}
<1>1. \A R \in Answers : IsFiniteSet(New(R)) /\ Cardinality(New(R)) \in Nat
  <2> SUFFICES ASSUME NEW R \in Answers PROVE IsFiniteSet(New(R)) /\ Cardinality(New(R)) \in Nat
    OBVIOUS
  <2>1. New(R) \in SUBSET Threads
    BY DEF Answers
  <2> HIDE DEF New
  <2> QED
    BY <2>1, ThreadsAssumption, FS_Subset, FS_CardinalityType
<1>2. 0 \in I
  <2> SUFFICES ASSUME NEW R \in Answers, Answered(c, M, P, R), Cardinality(New(R)) = 0
               PROVE  Told(R)
    OBVIOUS
  <2>1. New(R) = {}
    <3> HIDE DEF New
    <3> QED
      BY <1>1, FS_EmptySet
  <2>2. Answered(c, M, Q, R)
    BY <2>1 DEF Answered
  <2> QED
    BY <2>2 DEF Promised
<1>3. ASSUME NEW n \in Nat, n \in I
      PROVE  n + 1 \in I
  <2> SUFFICES ASSUME NEW R \in Answers, Answered(c, M, P, R), Cardinality(New(R)) = n + 1
               PROVE  Told(R)
    OBVIOUS
  <2>1. New(R) # {}
    <3> HIDE DEF New
    <3> QED
      BY FS_EmptySet
  <2>2. PICK t \in DOMAIN R : t \in New(R)
    BY <2>1
  <2>3. PICK W \in Answers : DOMAIN W = DOMAIN R \ {t} /\ \A u \in DOMAIN W : W[u] = R[u]
    BY OneLess
  <2>4. New(W) = New(R) \ {t}
    BY <2>3
  <2>5. Cardinality(New(W)) = n
    <3>1. IsFiniteSet(New(R)) /\ t \in New(R) /\ New(W) = New(R) \ {t}
      BY <1>1, <2>2, <2>4
    <3> HIDE DEF New
    <3>2. Cardinality(New(W)) = Cardinality(New(R)) - 1
      BY <3>1, FS_RemoveElement, SMTT(30)
    <3> QED
      BY <3>2
  <2>6. Answered(c, M, P, W)
    BY <2>2, <2>3 DEF Answered
  <2>7. Told(W)
    BY <1>3, <2>5, <2>6
  <2>8. t \in Threads /\ c[t] # DS!None /\ R[t] \in FreeAnswers(c[t], S)
    BY <2>2 DEF Answered, Answers
  <2>9. R[t] = DS!AnswerOf(c[t], S) /\ DS!SetAfter(c[t], S) = S
    BY <2>8 DEF FreeAnswers
  <2> QED
    BY <2>3, <2>7, <2>8, <2>9, OneMore
<1> HIDE DEF I
<1>4. Nat \subseteq I
  BY <1>2, <1>3, SetInduction
<1> QED
  BY <1>1, <1>4 DEF I, Promised

(* An operation that answers TRUE takes effect. *)
LEMMA Commit ==
  ASSUME NEW c, CallsOf(c), NEW o \in SUBSET DS!Configurations, NEW S \in SUBSET Keys,
         NEW M, NEW Q, Promised(c, o, S, M, Q),
         NEW t \in Threads, t \notin M, c[t] # DS!None, DS!AnswerOf(c[t], S)
  PROVE  Promised(c, o, DS!SetAfter(c[t], S), M \union {t}, Q)
<1> SUFFICES ASSUME NEW R \in Answers,
                    Answered(c, M \union {t}, Q, R)
             PROVE  [set |-> DS!SetAfter(c[t], S), res |-> R] \in DS!ReachFrom(c, o)
  BY DEF Promised
<1>1. t \in DOMAIN R /\ R[t] = TRUE
  BY DEF Answered
<1>2. PICK W \in Answers : DOMAIN W = DOMAIN R \ {t} /\ \A u \in DOMAIN W : W[u] = R[u]
  BY OneLess
<1>3. Answered(c, M, Q, W)
  BY <1>2 DEF Answered
<1>4. [set |-> S, res |-> W] \in DS!ReachFrom(c, o)
  BY <1>3 DEF Promised
<1>5. DS!AnswerOf(c[t], S) = TRUE
  <2>1. c[t] \in DS!Calls
    BY DEF CallsOf
  <2>2. c[t].op \in {"insert", "remove", "contains"}
    BY <2>1 DEF DS!Calls, DS!Operations
  <2> QED
    BY <2>2 DEF DS!AnswerOf
<1> QED
  BY <1>1, <1>2, <1>4, <1>5, OneMore

(* An invocation. *)
LEMMA PromiseToNew ==
  ASSUME NEW c, CallsOf(c), NEW o \in SUBSET DS!Configurations, NEW S \in SUBSET Keys,
         NEW M, NEW Q, NEW P, Promised(c, o, S, M, Q),
         NEW t \in Threads, c[t] = DS!None, t \notin M, NEW d, CallsOf(d),
         d[t] # DS!None, \A u \in Threads : u # t => d[u] = c[u] /\ P[u] \subseteq Q[u],
         P[t] \subseteq FreeAnswers(d[t], S)
  PROVE  Promised(d, o, S, M, P)
<1> DEFINE E == [u \in Threads |-> IF u = t THEN {} ELSE Q[u]]
           T == DS!ReachFrom(d, o)
<1>1. DS!ReachFrom(c, o) \subseteq T
  <2>1. o \subseteq T /\ T \subseteq DS!Configurations
    BY ReachCloses
  <2>2. ASSUME NEW g \in T, NEW u \in DS!Running(c, g)
        PROVE  DS!TakeEffect(c, g, u) \in T
    <3>1. u \in Threads /\ u # t /\ c[u] = d[u] /\ u \in DS!Running(d, g)
      BY <2>2 DEF DS!Running
    <3>2. DS!TakeEffect(d, g, u) \in T
      BY <3>1, ReachCloses
    <3> QED
      BY <3>1, <3>2 DEF DS!TakeEffect
  <2> HIDE DEF T
  <2> QED
    BY <2>1, <2>2, ReachIsLeast
<1>2. Promised(d, o, S, M, E)
  <2> SUFFICES ASSUME NEW R \in Answers, Answered(d, M, E, R)
               PROVE  [set |-> S, res |-> R] \in T
    BY DEF Promised
  <2>1. DOMAIN R \subseteq Threads
    BY DEF Answers
  <2>2. t \notin DOMAIN R
    BY DEF Answered
  <2>3. Answered(c, M, Q, R)
    BY <2>1, <2>2 DEF Answered
  <2> HIDE DEF T
  <2> QED
    BY <1>1, <2>3 DEF Promised
<1>3. \A u \in Threads : d[u] # DS!None => P[u] \subseteq E[u] \union FreeAnswers(d[u], S)
  OBVIOUS
<1> HIDE DEF E
<1> QED
  BY <1>2, <1>3, Settle

(* What is left of the histories when t answers r. *)
Answering(c, o, t, r) ==
  {[set |-> g.set, res |-> DS!Restrict(g.res, DOMAIN g.res \ {t})] :
     g \in {h \in DS!ReachFrom(c, o) : t \in DOMAIN h.res /\ h.res[t] = r}}

(* An answer. *)
LEMMA PromiseKept ==
  ASSUME NEW c, CallsOf(c), NEW o \in SUBSET DS!Configurations, NEW S \in SUBSET Keys,
         NEW M, NEW Q, Promised(c, o, S, M, Q), M \subseteq {u \in Threads : c[u] # DS!None},
         NEW t \in Threads, c[t] # DS!None, NEW r \in BOOLEAN,
         t \in M => r = TRUE, t \notin M => r \in Q[t],
         NEW d, CallsOf(d), d[t] = DS!None, \A u \in Threads : u # t => d[u] = c[u],
         NEW p, p = Answering(c, o, t, r)
  PROVE  /\ Promised(d, p, S, M \ {t}, Q)
         /\ p # {} /\ p \subseteq DS!Configurations
<1> USE DEF Answering
<1>1. ASSUME NEW R \in Answers, Answered(d, M \ {t}, Q, R)
      PROVE  [set |-> S, res |-> R] \in p
  <2>1. PICK D \in SUBSET Threads : R \in [D -> BOOLEAN]
    BY DEF Answers
  <2>2. t \notin D
    BY <1>1, <2>1 DEF Answered
  <2> DEFINE W == [u \in D \union {t} |-> IF u = t THEN r ELSE R[u]]
             g == [set |-> S, res |-> W]
  <2>3. W \in [D \union {t} -> BOOLEAN] /\ D \union {t} \in SUBSET Threads
    BY <2>1
  <2>4. W \in Answers
    BY <2>3 DEF Answers
  <2>5. DOMAIN W = D \union {t} /\ W[t] = r /\ \A u \in D : W[u] = R[u] /\ u # t
    BY <2>1, <2>2
  <2> HIDE DEF W
  <2>6. Answered(c, M, Q, W)
    <3>1. M \subseteq DOMAIN W
      BY <1>1, <2>1, <2>5 DEF Answered
    <3>2. ASSUME NEW u \in D
          PROVE  c[u] # DS!None /\ IF u \in M THEN W[u] = TRUE ELSE W[u] \in Q[u]
      BY <1>1, <2>1, <2>5 DEF Answered
    <3> QED
      BY <2>5, <3>1, <3>2 DEF Answered
  <2>7. g \in DS!ReachFrom(c, o) /\ t \in DOMAIN g.res /\ g.res[t] = r
    BY <2>4, <2>5, <2>6 DEF Promised
  <2>8. DS!Restrict(W, DOMAIN W \ {t}) = R
    <3>1. DOMAIN W \ {t} = D
      BY <2>2, <2>5
    <3>2. R = [u \in D |-> R[u]]
      BY <2>1
    <3> QED
      BY <2>5, <3>1, <3>2 DEF DS!Restrict
  <2>9. g \in {h \in DS!ReachFrom(c, o) : t \in DOMAIN h.res /\ h.res[t] = r}
    BY <2>7
  <2>10. [set |-> g.set, res |-> DS!Restrict(g.res, DOMAIN g.res \ {t})] \in p
    <3> HIDE DEF g
    <3> QED
      BY <2>9
  <2>11. g.set = S /\ g.res = W
    OBVIOUS
  <2> QED
    BY <2>8, <2>10, <2>11
<1>2. p \subseteq DS!Configurations
  <2> SUFFICES ASSUME NEW g \in DS!ReachFrom(c, o)
               PROVE  [set |-> g.set, res |-> DS!Restrict(g.res, DOMAIN g.res \ {t})]
                        \in DS!Configurations
    OBVIOUS
  <2>1. g \in DS!Configurations
    BY ReachCloses
  <2>2. PICK D \in SUBSET Threads : g.res \in [D -> BOOLEAN] /\ g.set \in SUBSET Keys
    BY <2>1 DEF DS!Configurations
  <2>3. DS!Restrict(g.res, DOMAIN g.res \ {t}) \in [D \ {t} -> BOOLEAN]
    BY <2>2 DEF DS!Restrict
  <2>4. D \ {t} \in SUBSET Threads
    OBVIOUS
  <2>5. DS!Restrict(g.res, DOMAIN g.res \ {t}) \in UNION {[T -> BOOLEAN] : T \in SUBSET Threads}
    BY <2>3, <2>4
  <2> HIDE DEF DS!Restrict
  <2> QED
    BY <2>2, <2>5 DEF DS!Configurations
<1>3. p # {}
  <2> DEFINE R == [u \in M \ {t} |-> TRUE]
  <2>1. R \in [M \ {t} -> BOOLEAN] /\ M \ {t} \in SUBSET Threads
    OBVIOUS
  <2>2. R \in Answers
    BY <2>1 DEF Answers
  <2>3. Answered(d, M \ {t}, Q, R)
    BY DEF Answered
  <2> QED
    BY <1>1, <2>2, <2>3
<1>4. Promised(d, p, S, M \ {t}, Q)
  <2>1. p \subseteq DS!ReachFrom(d, p)
    BY <1>2, ReachCloses
  <2> QED
    BY <1>1, <2>1 DEF Promised
<1> QED
  BY <1>2, <1>3, <1>4

(* The same with the hypotheses under one name. *)
OneAnswers(c, o, S, M, Q, t, r, d, p) ==
  /\ CallsOf(c) /\ o \in SUBSET DS!Configurations /\ S \in SUBSET Keys
  /\ Promised(c, o, S, M, Q) /\ M \subseteq {u \in Threads : c[u] # DS!None}
  /\ t \in Threads /\ c[t] # DS!None /\ r \in BOOLEAN
  /\ t \in M => r = TRUE
  /\ t \notin M => r \in Q[t]
  /\ CallsOf(d) /\ d[t] = DS!None /\ \A u \in Threads : u # t => d[u] = c[u]
  /\ p = Answering(c, o, t, r)

(* PromiseKept, by that name. *)
LEMMA OneAnswerIsKept ==
  ASSUME NEW c, NEW o, NEW S, NEW M, NEW Q, NEW t, NEW r, NEW d, NEW p,
         OneAnswers(c, o, S, M, Q, t, r, d, p)
  PROVE  Promised(d, p, S, M \ {t}, Q) /\ p # {}
BY ZenonT(60), PromiseKept DEF OneAnswers

(* When nothing runs there is nothing to answer. *)
LEMMA PromiseToNobody ==
  ASSUME NEW c, CallsOf(c), NEW o \in SUBSET DS!Configurations, NEW S, NEW Q,
         \A t \in Threads : c[t] = DS!None, [set |-> S, res |-> DS!NoAnswer] \in o
  PROVE  Promised(c, o, S, {}, Q)
<1> SUFFICES ASSUME NEW R \in Answers, Answered(c, {}, Q, R)
             PROVE  [set |-> S, res |-> R] \in DS!ReachFrom(c, o)
  BY DEF Promised
<1>1. PICK D \in SUBSET Threads : R \in [D -> BOOLEAN]
  BY DEF Answers
<1>2. D = {}
  BY <1>1 DEF Answered
<1>3. R = DS!NoAnswer
  BY <1>1, <1>2 DEF DS!NoAnswer
<1> QED
  BY <1>3, ReachCloses

-----------------------------------------------------------------------------

-----------------------------------------------------------------------------
(* What a thread knows of the node it meets, and what it may conclude. *)

(* The call of a running operation. *)
LEMMA CallIsKnown ==
  ASSUME IInv, DInv, NEW t \in Threads, pc[t] # "idle"
  PROVE  /\ CallIsRight(t) /\ call[t] \in DS!Calls /\ call[t] # DS!None
         /\ call[t].op \in {"insert", "remove", "contains"} /\ call[t].arg \in Keys
         /\ pc[t] \in LabelsOf(call[t].op)
         /\ phase = "running" /\ outcomes \subseteq DS!Configurations
<1>1. call[t] \in DS!Calls
  BY DEF IInv, TypeOK
<1>2. call[t].op \in {"insert", "remove", "contains"}
  BY <1>1 DEF DS!Calls, DS!Operations
<1>3. call[t] # DS!None
  BY <1>1, <1>2 DEF DS!None
<1>4. phase = "running"
  BY DEF IInv, TypeOK, RecoveryIsAlone
<1> QED
  BY <1>1, <1>2, <1>3, <1>4 DEF DInv, CallIsRight, DS!Calls

(* What a label says of the operation. *)
LEMMA OperationOf ==
  ASSUME IInv, DInv, NEW t \in Threads
  PROVE  /\ pc[t] \in Private \union Publishing \union {"alloc"} => call[t].op = "insert"
         /\ pc[t] \in Removing \union {"done"} => call[t].op = "remove"
         /\ pc[t] = "walk" => call[t].op = "contains"
         /\ pc[t] \in {"find", "trim", "free"} => call[t].op \in {"insert", "remove"}
<1>1. CASE pc[t] = "idle"
  BY <1>1 DEF Private, Publishing, Removing
<1>2. CASE pc[t] # "idle"
  <2>1. pc[t] \in LabelsOf(call[t].op) /\ call[t].op \in {"insert", "remove", "contains"}
    BY <1>2, CallIsKnown
  <2> QED
    BY <2>1 DEF LabelsOf, Private, Publishing, Removing
<1> QED
  BY <1>1, <1>2

(* Only running operations have results. *)
LEMMA ActorsRun ==
  ASSUME IInv, DInv, NEW t \in Threads
  PROVE  /\ Inserted(t) => /\ pc[t] \in Publishing /\ newNode[t] \in Nodes /\ MayHold(t, newNode[t])
                           /\ key[newNode[t]] = call[t].arg /\ call[t].op = "insert"
         /\ Removed(t) => /\ pc[t] \in Burying \union {"trim", "free", "done"}
                          /\ call[t].op = "remove"
         /\ Inserted(t) \/ Removed(t) => pc[t] # "idle"
<1>1. CallIsRight(t)
  BY DEF DInv
<1>2. CASE pc[t] = "idle"
  BY <1>1, <1>2 DEF CallIsRight, Inserted, Removed
<1>3. CASE pc[t] # "idle"
  <2>1. Inserted(t) => pc[t] \in Publishing /\ newNode[t] # Nil /\ key[newNode[t]] = call[t].arg
    BY <1>1, <1>3 DEF CallIsRight, Inserted
  <2>2. newNode[t] # Nil => newNode[t] \in Nodes
    BY DEF IInv, TypeOK
  <2>3. Inserted(t) => MayHold(t, newNode[t])
    BY <1>3, <2>1 DEF IInv, ThreadInv, HoldsWhatItMay
  <2> QED
    BY <1>1, <1>3, <2>1, <2>2, <2>3 DEF CallIsRight, Inserted, Removed
<1> QED
  BY <1>2, <1>3

(* The node of a removal under way. *)
LEMMA BuryingNode ==
  ASSUME IInv, NEW t \in Threads, pc[t] \in Burying
  PROVE  /\ curr[t] \in Nodes /\ MayHold(t, curr[t]) /\ key[curr[t]] = call[t].arg
         /\ state[curr[t]] \in {INTEND_TO_DELETE, DELETED}
         /\ state[curr[t]] # DELETED => heap[curr[t]] = "linked"
         /\ newNode[t] = Nil /\ Target(t) = curr[t] /\ pc[t] # "idle"
<1>1. pc[t] \in Removing /\ pc[t] # "idle" /\ pc[t] \in Removing \ {"claim", "claimCAS"}
  BY DEF Burying, Removing
<1>2. Target(t) \in Nodes /\ MayHold(t, Target(t)) /\ Target(t) = curr[t] /\ newNode[t] = Nil
  BY <1>1, TargetIsHeld
<1>3. key[curr[t]] = call[t].arg /\ state[curr[t]] # INTEND_TO_INSERT /\ state[curr[t]] # INSERTED
  BY <1>1 DEF IInv, ThreadInv, SearchIsRight, StateIsKnown
<1>4. state[curr[t]] \in States
  BY <1>2 DEF IInv, TypeOK, AllNodes
<1>5. state[curr[t]] # DELETED => heap[curr[t]] = "linked"
  BY <1>2, NodesAssumption DEF MayHold, Linked, IInv, RetiredIsClosed, AllNodes
<1> QED
  BY <1>1, <1>2, <1>3, <1>4, <1>5 DEF States

(* What the set is to a key of the list. *)
LEMMA MemberOrNot ==
  ASSUME IInv, NEW n \in Nodes, heap[n] = "linked"
  PROVE  key[n] \in Members <=> state[n] \in {INSERTED, INTEND_TO_DELETE}
<1>1. n \in Linked
  BY DEF Linked
<1>2. \A m \in Nodes : heap[m] = "linked" /\ key[m] = key[n] => m = n
  BY <1>1 DEF Linked, IInv, ListIsSorted
<1> QED
  BY <1>2 DEF Members

(* A key between two neighbours is not in the set. *)
LEMMA BetweenIsOut ==
  ASSUME IInv, NEW n \in Linked, NEW k \in Int, key[n] < k, k < key[next[n]]
  PROVE  k \notin Members
<1>1. ASSUME NEW m \in Nodes, heap[m] = "linked", key[m] = k
      PROVE  FALSE
  BY <1>1 DEF Linked, IInv, ListIsSorted
<1> QED
  BY <1>1 DEF Members

(* Who does not find its key may answer FALSE. *)
LEMMA MissMayAnswer ==
  ASSUME NEW c, c.op \in {"remove", "contains"}, NEW S, c.arg \notin S
  PROVE  MayFail(FreeAnswers(c, S))
<1>1. DS!AnswerOf(c, S) = FALSE
  <2>1. CASE c.op = "remove"
    BY <2>1 DEF DS!AnswerOf
  <2>2. CASE c.op = "contains"
    BY <2>2 DEF DS!AnswerOf
  <2> QED
    BY <2>1, <2>2
<1>2. DS!SetAfter(c, S) = S
  <2>1. CASE c.op = "remove"
    BY <2>1 DEF DS!SetAfter
  <2>2. CASE c.op = "contains"
    BY <2>2 DEF DS!SetAfter
  <2> QED
    BY <2>1, <2>2
<1> QED
  BY <1>1, <1>2 DEF FreeAnswers, MayFail

(* A deleted node that is still on the list tells the same as one off it. *)
LEMMA DeletedTells ==
  ASSUME IInv, DInv, NEW t \in Threads, pc[t] # "idle", call[t].op # "insert",
         NEW q, ThreadKnows(t, q), NEW n \in Nodes, heap[n] = "linked", state[n] = DELETED
  PROVE  /\ key[n] = call[t].arg => MayFail(q)
         /\ key[n] < call[t].arg => MayFail(q) \/ key[next[n]] <= call[t].arg
<1>1. call[t].op \in {"remove", "contains"} /\ call[t].arg \in Keys
  BY CallIsKnown
<1>2. call[t].arg \notin Members => MayFail(q)
  <2>1. FreeAnswers(call[t], Members) \subseteq q
    BY DEF ThreadKnows
  <2>2. call[t].arg \notin Members => MayFail(FreeAnswers(call[t], Members))
    BY <1>1, MissMayAnswer
  <2> QED
    BY <2>1, <2>2 DEF MayFail
<1>3. key[n] = call[t].arg => call[t].arg \notin Members
  BY MemberOrNot DEF INSERTED, INTEND_TO_DELETE, DELETED
<1>4. n \in Linked /\ key[next[n]] \in Int /\ call[t].arg \in Int
  <2>1. n \in Linked
    BY DEF Linked
  <2> QED
    BY <1>1, <2>1, LinkedIsNode, KeysAssumption
<1>5. key[n] < call[t].arg /\ call[t].arg < key[next[n]] => call[t].arg \notin Members
  BY <1>4, BetweenIsOut
<1> QED
  BY <1>2, <1>3, <1>4, <1>5

(* Going on from a node: the key was missing, or it is still ahead. *)
LEMMA PassedBy ==
  ASSUME IInv, DInv, NEW t \in Threads, pc[t] # "idle", call[t].op # "insert",
         NEW q, ThreadKnows(t, q), curr[t] # Tail,
         key[curr[t]] < call[t].arg \/ state[curr[t]] = DELETED,
         key[next[curr[t]]] > call[t].arg
  PROVE  MayFail(q)
<1>1. call[t].op \in {"remove", "contains"} /\ call[t].arg \in Keys /\ call[t].arg \in Int
  BY CallIsKnown, KeysAssumption
<1>2. /\ MayHold(t, curr[t]) /\ key[curr[t]] \in Int /\ key[next[curr[t]]] \in Int
  BY Holding DEF IInv, TypeOK
<1>3. \A n \in Nodes : t \in waits[n] =>
         /\ key[n] = call[t].arg => MayFail(q)
         /\ key[n] < call[t].arg => MayFail(q) \/ key[next[n]] <= call[t].arg
  BY DEF ThreadKnows, MissIsKnown
<1>4. key[curr[t]] > call[t].arg => MayFail(q)
  BY DEF ThreadKnows, MissIsKnown
<1>5. call[t].arg \notin Members => MayFail(q)
  <2>1. FreeAnswers(call[t], Members) \subseteq q
    BY DEF ThreadKnows
  <2>2. call[t].arg \notin Members => MayFail(FreeAnswers(call[t], Members))
    BY <1>1, MissMayAnswer
  <2> QED
    BY <2>1, <2>2 DEF MayFail
<1>6. CASE curr[t] \in Nodes /\ t \in waits[curr[t]]
  BY <1>1, <1>2, <1>3, <1>4, <1>6
<1>7. CASE curr[t] \in Linked
  <2>1. key[curr[t]] < call[t].arg => MayFail(q)
    BY <1>1, <1>5, <1>7, BetweenIsOut
  <2>2. CASE state[curr[t]] = DELETED
    <3>1. curr[t] \in Nodes /\ heap[curr[t]] = "linked"
      BY <1>7, <2>2 DEF Linked, IInv, SentinelsAreFixed, DELETED, INSERTED
    <3>2. key[curr[t]] = call[t].arg => MayFail(q)
      BY <2>2, <3>1, DeletedTells
    <3> QED
      BY <1>1, <1>2, <1>4, <2>1, <3>2
  <2> QED
    BY <2>1, <2>2
<1> QED
  BY <1>2, <1>6, <1>7 DEF MayHold

(* What a step must leave of what u knows, for it to know p. *)
StaysTrue(u, p) ==
  /\ call'[u] = call[u] /\ curr'[u] = curr[u] /\ key'[curr[u]] = key[curr[u]]
  /\ pc'[u] \in Publishing /\ newNode'[u] = Nil =>
       /\ pc[u] \in Publishing /\ newNode[u] = Nil
       /\ state[curr[u]] = INTEND_TO_INSERT => state'[curr[u]] = INTEND_TO_INSERT \/ MayFail(p)
  /\ \A n \in Nodes : u \in waits'[n] =>
       /\ u \in waits[n] \/ (heap[n] = "linked" /\ state[n] = DELETED)
       /\ key'[n] = key[n] /\ next'[n] = next[n] /\ key'[next[n]] = key[next[n]]

(* Then u knows p. *)
LEMMA StillKnows ==
  ASSUME IInv, DInv, NEW u \in Threads, pc[u] # "idle", NEW q, ThreadKnows(u, q), NEW p,
         q \subseteq p, FreeAnswers(call[u], Members') \subseteq p, StaysTrue(u, p)
  PROVE  ThreadKnows(u, p)'
<1>0. MayFail(q) => MayFail(p)
  BY DEF MayFail
<1>1. call'[u] = call[u] /\ curr'[u] = curr[u]
  BY DEF StaysTrue
<1>2. FreeAnswers(call[u], Members)' \subseteq p
  BY <1>1 DEF FreeAnswers
<1>3. HelpIsKnown(u, p)'
  BY <1>0, <1>1 DEF StaysTrue, ThreadKnows, HelpIsKnown, Publishing
<1>4. ASSUME call[u].op # "insert", NEW n \in Nodes, u \in waits'[n]
      PROVE  /\ key'[n] = call[u].arg => MayFail(p)
             /\ key'[n] < call[u].arg => MayFail(p) \/ key'[next'[n]] <= call[u].arg
  <2>0. /\ u \in waits[n] \/ (heap[n] = "linked" /\ state[n] = DELETED)
        /\ key'[n] = key[n] /\ next'[n] = next[n] /\ key'[next[n]] = key[next[n]]
    BY <1>4 DEF StaysTrue
  <2>1. CASE u \in waits[n]
    BY <1>0, <1>4, <2>0, <2>1 DEF ThreadKnows, MissIsKnown
  <2>2. CASE heap[n] = "linked" /\ state[n] = DELETED
    BY <1>0, <1>4, <2>0, <2>2, DeletedTells
  <2> QED
    BY <2>0, <2>1, <2>2
<1>5. call[u].op # "insert" => (key'[curr[u]] > call[u].arg => MayFail(p))
  BY <1>0 DEF StaysTrue, ThreadKnows, MissIsKnown
<1>6. MissIsKnown(u, p)'
  BY <1>1, <1>4, <1>5 DEF MissIsKnown
<1> QED
  BY <1>2, <1>3, <1>6 DEF ThreadKnows

(* Who does nothing knows nothing. *)
LEMMA IdleKnows ==
  ASSUME NEW u, pc[u] = "idle", NEW q
  PROVE  ThreadKnows(u, q)
BY DEF ThreadKnows, HelpIsKnown, MissIsKnown, Publishing

-----------------------------------------------------------------------------
(* What a step leaves of DInv. *)

(* The step is t's own. *)
OthersStay(t) ==
  \A u \in Threads \ {t} :
    /\ pc'[u] = pc[u] /\ call'[u] = call[u] /\ curr'[u] = curr[u]
    /\ newNode'[u] = newNode[u] /\ result'[u] = result[u]

(* No thread comes to share an insertion or a deletion with t. *)
LEMMA ActorsStayAlone ==
  ASSUME DInv, NEW t \in Threads, OthersStay(t),
         \A u \in Threads \ {t} :
           /\ Inserted(t)' /\ Inserted(u) => newNode'[t] # newNode[u]
           /\ Removed(t)' /\ pc'[t] \in Burying /\ Removed(u) /\ pc[u] \in Burying => curr'[t] # curr[u]
  PROVE  ActorsAreAlone'
<1>1. \A u \in Threads \ {t} : /\ pc'[u] = pc[u] /\ curr'[u] = curr[u] /\ newNode'[u] = newNode[u]
                               /\ Inserted(u)' <=> Inserted(u)
                               /\ Removed(u)' <=> Removed(u)
  BY DEF OthersStay, Inserted, Removed
<1>2. ActorsAreAlone
  BY DEF DInv
<1>3. ASSUME NEW u \in Threads, NEW v \in Threads
      PROVE  /\ Inserted(u)' /\ Inserted(v)' /\ newNode'[u] = newNode'[v] => u = v
             /\ Removed(u)' /\ Removed(v)' /\ pc'[u] \in Burying /\ pc'[v] \in Burying
                  /\ curr'[u] = curr'[v] => u = v
  BY <1>1, <1>2 DEF ActorsAreAlone
<1> QED
  BY <1>3 DEF ActorsAreAlone, Burying

(* A node whose state stays keeps the one it belongs to. *)
LEMMA NodeStaysRight ==
  ASSUME NEW n, NodeIsRight(n), NEW t \in Threads, OthersStay(t),
         heap'[n] = "linked" => heap[n] = "linked" /\ key'[n] = key[n] /\ state'[n] = state[n],
         Inserted(t) /\ newNode[t] = n /\ state[n] = INTEND_TO_INSERT => Inserted(t)' /\ newNode'[t] = n,
         Removed(t) /\ pc[t] \in Burying /\ curr[t] = n /\ state[n] = INTEND_TO_DELETE =>
           Removed(t)' /\ pc'[t] \in Burying /\ curr'[t] = n
  PROVE  NodeIsRight(n)'
<1>1. \A u \in Threads \ {t} : /\ pc'[u] = pc[u] /\ curr'[u] = curr[u] /\ newNode'[u] = newNode[u]
                               /\ Inserted(u)' <=> Inserted(u)
                               /\ Removed(u)' <=> Removed(u)
  BY DEF OthersStay, Inserted, Removed
<1>2. ASSUME heap'[n] = "linked", state'[n] = INTEND_TO_INSERT
      PROVE  \E u \in Threads : Inserted(u)' /\ newNode'[u] = n
  <2>1. PICK u \in Threads : Inserted(u) /\ newNode[u] = n
    BY <1>2 DEF NodeIsRight
  <2>2. Inserted(u)' /\ newNode'[u] = n
    BY <1>1, <1>2, <2>1
  <2> QED
    BY <2>2
<1>3. ASSUME heap'[n] = "linked", state'[n] = INTEND_TO_DELETE
      PROVE  \E u \in Threads : Removed(u)' /\ pc'[u] \in Burying /\ curr'[u] = n
  <2>1. PICK u \in Threads : Removed(u) /\ pc[u] \in Burying /\ curr[u] = n
    BY <1>3 DEF NodeIsRight
  <2>2. Removed(u)' /\ pc'[u] \in Burying /\ curr'[u] = n
    BY <1>1, <1>3, <2>1
  <2> QED
    BY <2>2
<1> QED
  BY <1>2, <1>3 DEF NodeIsRight, Burying

(* The rest of DInv. *)
LEMMA StepIsRight ==
  ASSUME IInv, DInv, NEW t \in Threads, OthersStay(t), phase' # "recovering",
         \A u \in Threads \ {t} : Inserted(u) => key'[newNode[u]] = key[newNode[u]],
         CallIsRight(t)', ActorsAreAlone', \A n \in Nodes : NodeIsRight(n)',
         outcomes' \subseteq DS!Configurations
  PROVE  DInv'
<1>1. ASSUME NEW u \in Threads \ {t}
      PROVE  CallIsRight(u)'
  <2>1. pc'[u] = pc[u] /\ call'[u] = call[u] /\ newNode'[u] = newNode[u] /\ result'[u] = result[u]
    BY DEF OthersStay
  <2>2. (Inserted(u)' <=> Inserted(u)) /\ (Removed(u)' <=> Removed(u))
    BY <2>1 DEF Inserted, Removed
  <2>3. CallIsRight(u)
    BY DEF DInv
  <2> QED
    BY <2>1, <2>2, <2>3 DEF CallIsRight, Publishing, Burying, LabelsOf, Private, Removing
<1> QED
  BY <1>1 DEF DInv, RecoveryIsRight

-----------------------------------------------------------------------------
(* Steps that change nothing but where t is. *)

(* The set stays what it is, and so do the histories. *)
LEMMA QuietLInv ==
  ASSUME LInv, phase = "running", DInv', UNCHANGED <<call, outcomes>>,
         Members' = Members, AllCommitted' = AllCommitted, \A Q : Knows(Q) => Knows(Q)'
  PROVE  LInv'
<1>1. PICK Q \in [Threads -> SUBSET BOOLEAN] :
        Knows(Q) /\ Promised(call, outcomes, Members, AllCommitted, Q)
  BY DEF LInv
<1>2. Knows(Q)'
  BY <1>1
<1>3. Promised(call, outcomes, Members, AllCommitted, Q)'
  BY <1>1 DEF Promised
<1> QED
  BY <1>2, <1>3 DEF LInv

(* t reads what is there, or writes where only recovery looks. *)
Works(t) ==
  /\ UNCHANGED <<key, next, state, heap, call, newNode, result, outcomes, phase>>
  /\ \A n \in Nodes : waits'[n] = waits[n]
  /\ OthersStay(t) /\ pc[t] # "idle"
  /\ pc'[t] \in LabelsOf(call[t].op)
  /\ pc'[t] # "done" \/ Removed(t)
  /\ \/ pc[t] \in Publishing /\ pc'[t] \in Publishing /\ curr'[t] = curr[t]
     \/ pc[t] \notin Publishing /\ pc'[t] \notin Publishing
     \/ /\ pc[t] \notin Publishing /\ newNode[t] = Nil
        /\ state[curr[t]] = INTEND_TO_INSERT /\ curr'[t] = curr[t]
  /\ Removed(t) =>
       \/ pc[t] \in Burying /\ pc'[t] \in Burying /\ curr'[t] = curr[t]
       \/ pc[t] \in Burying /\ pc'[t] = "trim" /\ state[curr[t]] = DELETED
       \/ pc[t] \notin Burying /\ pc'[t] \in {"trim", "free", "done"}
  /\ \/ curr'[t] = curr[t]
     \/ /\ curr'[t] = next[curr[t]] /\ curr[t] # Tail
        /\ key[curr[t]] < call[t].arg \/ state[curr[t]] = DELETED

(* What such a step leaves of DInv. *)
LEMMA WorksIsRight ==
  ASSUME IInv, DInv, NEW t \in Threads, Works(t)
  PROVE  DInv' /\ Members' = Members /\ AllCommitted' = AllCommitted
<1> USE DEF Works
<1>1. /\ CallIsRight(t) /\ call[t].op \in {"insert", "remove", "contains"}
      /\ phase = "running" /\ outcomes \subseteq DS!Configurations
  BY CallIsKnown
<1>2. (Inserted(t)' <=> Inserted(t)) /\ (Removed(t)' <=> Removed(t))
  BY DEF Inserted, Removed
<1>3. CallIsRight(t)'
  <2>1. pc'[t] # "idle"
    BY <1>1 DEF LabelsOf, Private, Publishing, Removing
  <2>2. call[t].op = "insert" => (result[t] <=> pc'[t] \in Publishing /\ newNode[t] # Nil)
    BY <1>1 DEF CallIsRight
  <2>3. Removed(t) => pc'[t] \in Burying \union {"trim", "free", "done"}
    OBVIOUS
  <2> HIDE DEF Works
  <2>4. pc'[t] \in LabelsOf(call[t].op) /\ (pc'[t] = "done" => Removed(t))
        /\ UNCHANGED <<call, result, key, newNode>>
    BY DEF Works
  <2>5. pc[t] # "idle"
    BY DEF Works
  <2>6. /\ call[t].op = "contains" => ~result[t]
        /\ Inserted(t) => key[newNode[t]] = call[t].arg
    BY <1>1, <2>5 DEF CallIsRight
  <2>7. (pc[t] \in LabelsOf(call[t].op))' /\ (Burying = Burying') /\ Publishing = Publishing'
    BY <2>4 DEF Publishing, Burying, LabelsOf, Private, Removing
  <2> QED
    BY <1>2, <2>1, <2>2, <2>3, <2>4, <2>6, <2>7 DEF CallIsRight
<1>4. ActorsAreAlone'
  <2>1. ASSUME NEW u \in Threads \ {t}, Inserted(t)', Inserted(u)
        PROVE  newNode'[t] # newNode[u]
    BY <1>2, <2>1 DEF DInv, ActorsAreAlone
  <2>2. ASSUME NEW u \in Threads \ {t}, Removed(t)', pc'[t] \in Burying, Removed(u), pc[u] \in Burying
        PROVE  curr'[t] # curr[u]
    BY <1>2, <2>2 DEF DInv, ActorsAreAlone, Burying
  <2> QED
    BY <2>1, <2>2, ActorsStayAlone
<1>5. ASSUME NEW n \in Nodes
      PROVE  NodeIsRight(n)'
  <2>1. NodeIsRight(n)
    BY DEF DInv
  <2>2. Removed(t) /\ pc[t] \in Burying /\ curr[t] = n /\ state[n] = INTEND_TO_DELETE =>
           Removed(t)' /\ pc'[t] \in Burying /\ curr'[t] = n
    BY <1>2 DEF INTEND_TO_DELETE, DELETED
  <2> QED
    BY <1>2, <2>1, <2>2, NodeStaysRight
<1>6. DInv'
  BY <1>1, <1>3, <1>4, <1>5, StepIsRight
<1>7. Members' = Members
  BY DEF Members
<1>8. ASSUME NEW u \in Threads
      PROVE  Committed(u)' <=> Committed(u)
  <2>1. CASE u = t
    BY <1>2, <2>1 DEF Committed, Burying
  <2>2. CASE u # t
    <3>1. /\ pc'[u] = pc[u] /\ curr'[u] = curr[u] /\ newNode'[u] = newNode[u]
          /\ Inserted(u)' <=> Inserted(u)
          /\ Removed(u)' <=> Removed(u)
      BY <2>2 DEF OthersStay, Inserted, Removed
    <3> QED
      BY <3>1 DEF Committed, Burying
  <2> QED
    BY <2>1, <2>2
<1>9. AllCommitted' = AllCommitted
  BY <1>8 DEF AllCommitted
<1> QED
  BY <1>6, <1>7, <1>9

(* What t may answer, after such a step. *)
LEMMA WorkerKnows ==
  ASSUME IInv, DInv, NEW t \in Threads, Works(t), NEW q, ThreadKnows(t, q), Members' = Members
  PROVE  ThreadKnows(t, q)'
<1> USE DEF Works
<1>1. FreeAnswers(call[t], Members)' \subseteq q
  BY DEF ThreadKnows, FreeAnswers
<1>2. HelpIsKnown(t, q)'
  BY DEF ThreadKnows, HelpIsKnown, Publishing
<1>3. call[t].op # "insert" /\ key[curr'[t]] > call[t].arg => MayFail(q)
  BY PassedBy DEF ThreadKnows, MissIsKnown
<1>4. \A n \in Nodes : waits'[n] = waits[n]
  OBVIOUS
<1> HIDE DEF Works
<1>5. UNCHANGED <<key, next, call>> /\ pc[t] # "idle"
  BY DEF Works
<1>6. MissIsKnown(t, q)'
  BY <1>3, <1>4, <1>5 DEF ThreadKnows, MissIsKnown
<1> QED
  BY <1>1, <1>2, <1>6 DEF ThreadKnows

(* Such a step changes nothing that histories tell of. *)
LEMMA WorksLInv ==
  ASSUME IInv, LInv, NEW t \in Threads, Works(t)
  PROVE  LInv'
<1>1. DInv
  BY DEF LInv
<1>2. DInv' /\ Members' = Members /\ AllCommitted' = AllCommitted
  BY <1>1, WorksIsRight
<1>3. ASSUME NEW Q, Knows(Q)
      PROVE  Knows(Q)'
  <2>1. ASSUME NEW u \in Threads
        PROVE  ThreadKnows(u, Q[u])'
    <3>1. PICK q : q = Q[u] /\ ThreadKnows(u, q)
      BY <1>3 DEF Knows
    <3>2. CASE u = t
      BY <1>1, <1>2, <3>1, <3>2, WorkerKnows
    <3>3. CASE u # t /\ pc[u] = "idle"
      <4>1. pc'[u] = "idle"
        BY <3>3 DEF Works, OthersStay
      <4> QED
        BY <4>1 DEF ThreadKnows, HelpIsKnown, MissIsKnown, Publishing
    <3>4. CASE u # t /\ pc[u] # "idle"
      <4>1. StaysTrue(u, q)
        BY <3>4 DEF Works, OthersStay, StaysTrue, Publishing
      <4>2. FreeAnswers(call[u], Members') \subseteq q
        BY <1>2, <3>1, <3>4 DEF ThreadKnows
      <4>3. ThreadKnows(u, q)'
        BY <1>1, <3>1, <3>4, <4>1, <4>2, StillKnows
      <4> QED
        BY <3>1, <4>3
    <3> QED
      BY <3>2, <3>3, <3>4
  <2> QED
    BY <2>1 DEF Knows
<1>4. phase = "running" /\ UNCHANGED <<call, outcomes>>
  BY <1>1, CallIsKnown DEF Works
<1> QED
  BY <1>2, <1>3, <1>4, QuietLInv

-----------------------------------------------------------------------------
(* The variables that what threads know is about. *)
Seen == <<key, next, state, heap, call, newNode, result, outcomes, phase>>

(* A search goes on. *)
LEMMA SearchWorks ==
  ASSUME IInv, DInv, NEW t \in Threads,
         FindPass(t) \/ FindDeleted(t) \/ ContainsStep(t) \/ InsertHelps(t) \/ InsertMiss(t) \/ RemoveFound(t)
  PROVE  Works(t)
<1>1. UNCHANGED Seen /\ waits' = waits
  BY DEF Seen, FindPass, FindDeleted, ContainsStep, InsertHelps, InsertMiss, RemoveFound,
         volatile, memory, recovering
<1>2. OthersStay(t)
  BY DEF OthersStay, FindPass, FindDeleted, ContainsStep, InsertHelps, InsertMiss, RemoveFound,
         Goto, search, IInv, TypeOK
<1>3. pc[t] \in {"find", "walk"}
  BY DEF FindPass, FindDeleted, ContainsStep, InsertHelps, InsertMiss, RemoveFound, FindStops
<1>4. pc[t] # "idle" /\ pc[t] \notin Private \union Publishing \union Burying /\ newNode[t] = Nil
  BY <1>3 DEF Private, Publishing, Burying, IInv, ThreadInv, NewNodeIsPrivate
<1>5. /\ pc[t] = "walk" => call[t].op = "contains"
      /\ pc[t] = "find" => call[t].op \in {"insert", "remove"}
      /\ ~Removed(t)
  BY <1>3, OperationOf, ActorsRun DEF Burying
<1>6. /\ pc'[t] \in {"find", "walk", "trim", "create", "alloc", "claim"}
      /\ pc'[t] \in {"find", "walk", "trim", "alloc", "claim"} \/ InsertHelps(t)
      /\ pc'[t] \in LabelsOf(call[t].op)
  <2>1. CASE ContainsStep(t)
    BY <1>5, <2>1 DEF ContainsStep, LabelsOf
  <2>2. CASE FindPass(t) \/ FindDeleted(t)
    BY <1>5, <2>2 DEF FindPass, FindDeleted, Goto, LabelsOf, IInv, TypeOK
  <2>3. CASE InsertHelps(t) \/ InsertMiss(t)
    BY <1>5, <2>3 DEF InsertHelps, InsertMiss, Goto, LabelsOf, Publishing, IInv, TypeOK
  <2>4. CASE RemoveFound(t)
    BY <1>5, <2>4 DEF RemoveFound, Goto, LabelsOf, Removing, IInv, TypeOK
  <2> QED
    BY <2>1, <2>2, <2>3, <2>4
<1>7. InsertHelps(t) => state[curr[t]] = INTEND_TO_INSERT /\ curr'[t] = curr[t]
  BY DEF InsertHelps, search
<1>8. \/ curr'[t] = curr[t]
      \/ curr'[t] = next[curr[t]] /\ curr[t] # Tail /\ key[curr[t]] < call[t].arg
  <2>1. key[curr[t]] < call[t].arg => curr[t] # Tail
    <3>1. call[t].arg < MaxKey /\ call[t].arg \in Int
      BY <1>4, CallHasKey DEF IInv
    <3> QED
      BY <3>1, KeysAssumption DEF IInv, SentinelsAreFixed
  <2> QED
    BY <2>1 DEF FindPass, FindDeleted, ContainsStep, InsertHelps, InsertMiss, RemoveFound,
                search, IInv, TypeOK
<1>9. pc'[t] \notin Publishing \/ InsertHelps(t)
  BY <1>6 DEF Publishing
<1> QED
  BY <1>1, <1>2, <1>4, <1>5, <1>6, <1>7, <1>8, <1>9 DEF Works, Seen

(* A trim that fails, and what comes after one. *)
LEMMA TrimWorks ==
  ASSUME IInv, DInv, NEW t \in Threads, pc[t] \in {"trim", "free"},
         UNCHANGED Seen, \A n \in Nodes : waits'[n] = waits[n],
         IF result[t]
         THEN Goto(t, "done") /\ UNCHANGED curr
         ELSE Goto(t, "find") /\ curr' = [curr EXCEPT ![t] = next[curr[t]]]
  PROVE  Works(t)
<1>1. OthersStay(t)
  BY DEF OthersStay, Goto, Seen, IInv, TypeOK
<1>2. pc[t] # "idle" /\ pc[t] \notin Private \union Publishing \union Burying
  BY DEF Private, Publishing, Burying
<1>3. call[t].op \in {"insert", "remove"} /\ (result[t] => Removed(t))
  BY <1>2, OperationOf, CallIsKnown DEF CallIsRight, Removed
<1>4. pc'[t] = (IF result[t] THEN "done" ELSE "find") /\ curr'[t] = (IF result[t] THEN curr[t] ELSE next[curr[t]])
  BY DEF Goto, IInv, TypeOK
<1>5. curr[t] # Tail /\ state[curr[t]] = DELETED
  BY <1>2, NodesAssumption DEF IInv, ThreadInv, StateIsKnown, AllNodes
<1>6. pc'[t] \in LabelsOf(call[t].op) /\ pc'[t] \notin Publishing
  <2>1. CASE result[t]
    BY <1>3, <1>4, <2>1 DEF Removed, LabelsOf, Publishing
  <2>2. CASE ~result[t]
    BY <1>3, <1>4, <2>2 DEF LabelsOf, Publishing
  <2> QED
    BY <2>1, <2>2
<1>7. Removed(t) => result[t]
  BY DEF Removed
<1> QED
  BY <1>1, <1>2, <1>3, <1>4, <1>5, <1>6, <1>7 DEF Works, Seen

(* create, and the loop that publishes. *)
LEMMA PublishingWorks ==
  ASSUME IInv, DInv, NEW t \in Threads, pc[t] \in Publishing, pc'[t] \in Publishing,
         UNCHANGED <<Seen, curr, waits>>, \E l : pc' = [pc EXCEPT ![t] = l]
  PROVE  Works(t)
<1>1. OthersStay(t)
  BY DEF OthersStay, Seen, IInv, TypeOK
<1>2. pc[t] # "idle" /\ pc[t] \notin Burying /\ pc'[t] # "done"
  BY DEF Publishing, Burying
<1>3. call[t].op = "insert" /\ ~Removed(t)
  BY <1>2, OperationOf DEF Removed
<1>4. pc'[t] \in LabelsOf(call[t].op)
  BY <1>3 DEF LabelsOf
<1> QED
  BY <1>1, <1>2, <1>3, <1>4 DEF Works, Seen

(* The three loops of remove. *)
LEMMA RemovingWorks ==
  ASSUME IInv, DInv, NEW t \in Threads, pc[t] \in Removing,
         UNCHANGED <<Seen, curr, waits>>, \E l : pc' = [pc EXCEPT ![t] = l],
         \/ pc[t] \in Removing \ Burying /\ pc'[t] \in Removing
         \/ pc[t] \in Burying /\ pc'[t] \in Burying
         \/ pc[t] \in Burying /\ pc'[t] = "trim" /\ state[curr[t]] = DELETED
  PROVE  Works(t)
<1>1. OthersStay(t)
  BY DEF OthersStay, Seen, IInv, TypeOK
<1>2. pc[t] # "idle" /\ pc[t] \notin Publishing /\ pc'[t] # "done" /\ pc'[t] \notin Publishing
  BY DEF Publishing, Burying, Removing
<1>3. call[t].op = "remove" /\ (Removed(t) => pc[t] \in Burying)
  BY OperationOf, ActorsRun DEF Removing, Burying
<1>4. pc'[t] \in LabelsOf(call[t].op)
  BY <1>3 DEF LabelsOf, Burying, Removing
<1> QED
  BY <1>1, <1>2, <1>3, <1>4 DEF Works, Seen

(* The steps that no history tells of. *)
LEMMA WorkingSteps ==
  ASSUME IInv, DInv, NEW t \in Threads,
         \/ FindPass(t) \/ FindDeleted(t) \/ ContainsStep(t)
         \/ InsertHelps(t) \/ InsertMiss(t) \/ RemoveFound(t)
         \/ Trim(t) /\ ~Expects(pred[t], curr[t], predState[t])
         \/ FreeTrimmed(t)
         \/ CreateStart(t) \/ CreateEnd(t) \/ FlushCreate(t) \/ Publish(t)
         \/ PublishCAS(t) /\ ~Expects(Target(t), succ[t], INTEND_TO_INSERT)
         \/ Claim(t) \/ Claimed(t)
         \/ ClaimCAS(t) /\ ~Expects(curr[t], succ[t], INSERTED)
         \/ Destroy(t) \/ FlushDestroy(t) \/ Bury(t) \/ BuriedByThis(t)
         \/ BuryCAS(t) /\ ~Expects(Target(t), succ[t], INTEND_TO_DELETE)
  PROVE  Works(t)
<1>0. pc \in [Threads -> Labels] /\ result \in [Threads -> BOOLEAN]
  BY DEF IInv, TypeOK
<1>1. CASE \/ FindPass(t) \/ FindDeleted(t) \/ ContainsStep(t)
           \/ InsertHelps(t) \/ InsertMiss(t) \/ RemoveFound(t)
  BY <1>1, SearchWorks
<1>2. CASE Trim(t) /\ ~Expects(pred[t], curr[t], predState[t])
  <2>1. UNCHANGED Seen /\ waits' = waits /\ pc[t] \in {"trim", "free"}
    BY <1>2 DEF Trim, Seen, recovering
  <2>2. IF result[t]
         THEN Goto(t, "done") /\ UNCHANGED curr
         ELSE Goto(t, "find") /\ curr' = [curr EXCEPT ![t] = next[curr[t]]]
    BY <1>2 DEF Trim
  <2> QED
    BY <2>1, <2>2, TrimWorks
<1>3. CASE FreeTrimmed(t)
  <2>1. UNCHANGED Seen /\ pc[t] \in {"trim", "free"}
    BY <1>3 DEF FreeTrimmed, Seen, recovering, volatile
  <2>2. IF result[t]
         THEN Goto(t, "done") /\ UNCHANGED curr
         ELSE Goto(t, "find") /\ curr' = [curr EXCEPT ![t] = next[curr[t]]]
    BY <1>3 DEF FreeTrimmed
  <2>3. curr[t] \in Nodes /\ Free(t, pptr[curr[t]])
    BY <1>3 DEF FreeTrimmed, IInv, ThreadInv, StateIsKnown
  <2>4. \A n \in Nodes : waits'[n] = waits[n]
    BY <2>3, FreeSparesNodes DEF IInv
  <2> QED
    BY <2>1, <2>2, <2>4, TrimWorks
<1>4. CASE \/ CreateStart(t) \/ CreateEnd(t) \/ FlushCreate(t) \/ Publish(t)
           \/ PublishCAS(t) /\ ~Expects(Target(t), succ[t], INTEND_TO_INSERT)
  <2>1. UNCHANGED <<Seen, curr, waits>>
    BY <1>4 DEF CreateStart, CreateEnd, FlushCreate, Publish, PublishCAS, LoadForCAS, stateCAS,
                Seen, volatile, memory, search, recovering
  <2>2. \E l : pc' = [pc EXCEPT ![t] = l]
    BY <1>4 DEF CreateStart, CreateEnd, FlushCreate, Publish, PublishCAS, LoadForCAS, Goto
  <2>3. pc[t] \in Publishing /\ pc'[t] \in Publishing
    BY <1>0, <1>4 DEF CreateStart, CreateEnd, FlushCreate, Publish, PublishCAS, LoadForCAS, Goto, Publishing
  <2> QED
    BY <2>1, <2>2, <2>3, PublishingWorks
<1>5. CASE \/ Claim(t) \/ Claimed(t)
           \/ ClaimCAS(t) /\ ~Expects(curr[t], succ[t], INSERTED)
           \/ Destroy(t) \/ FlushDestroy(t) \/ Bury(t) \/ BuriedByThis(t)
           \/ BuryCAS(t) /\ ~Expects(Target(t), succ[t], INTEND_TO_DELETE)
  <2>1. pc[t] \in Removing /\ newNode[t] = Nil /\ Target(t) = curr[t]
    <3>1. pc[t] \in Removing
      BY <1>5 DEF Claim, Claimed, ClaimCAS, Destroy, FlushDestroy, Bury, BuriedByThis, BuryCAS, Removing
    <3> QED
      BY <3>1, TargetIsHeld
  <2>2. result' = result
    <3>1. CASE ClaimCAS(t) /\ ~Expects(curr[t], succ[t], INSERTED)
      <4>1. ~result[t]
        <5>1. ~Removed(t) /\ call[t].op = "remove"
          BY <2>1, <3>1, ActorsRun, OperationOf DEF ClaimCAS, Burying
        <5> QED
          BY <5>1 DEF Removed
      <4>2. PICK b : b = Expects(curr[t], succ[t], INSERTED) /\ result' = [result EXCEPT ![t] = b]
        BY <3>1 DEF ClaimCAS
      <4>3. b = FALSE /\ result[t] = FALSE
        BY <1>0, <3>1, <4>1, <4>2
      <4> QED
        BY <1>0, <4>2, <4>3
    <3>2. CASE \/ Claim(t) \/ Claimed(t) \/ Destroy(t) \/ FlushDestroy(t) \/ Bury(t) \/ BuriedByThis(t)
               \/ BuryCAS(t)
      BY <3>2 DEF Claim, Claimed, Destroy, FlushDestroy, Bury, BuriedByThis, BuryCAS, LoadForCAS
    <3> QED
      BY <1>5, <3>1, <3>2
  <2>3. UNCHANGED <<key, next, state, heap, call, newNode, outcomes, phase, curr, waits>>
    BY <1>5, <2>1 DEF Claim, Claimed, ClaimCAS, Destroy, FlushDestroy, Bury, BuriedByThis, BuryCAS,
                LoadForCAS, stateCAS, volatile, memory, search, recovering
  <2>4. \E l : pc' = [pc EXCEPT ![t] = l]
    BY <1>5 DEF Claim, Claimed, ClaimCAS, Destroy, FlushDestroy, Bury, BuriedByThis, BuryCAS,
                LoadForCAS, Goto
  <2>5. \/ pc[t] \in Removing \ Burying /\ pc'[t] \in Removing
        \/ pc[t] \in Burying /\ pc'[t] \in Burying
        \/ pc[t] \in Burying /\ pc'[t] = "trim" /\ state[curr[t]] = DELETED
    <3>1. CASE Claim(t) \/ Claimed(t)
      BY <1>0, <3>1 DEF Claim, Claimed, LoadForCAS, Goto, Removing, Burying
    <3>2. CASE ClaimCAS(t)
      <4>1. PICK l \in {"destroy", "claim"} : pc' = [pc EXCEPT ![t] = l]
        BY <3>2 DEF ClaimCAS, Goto
      <4> QED
        BY <1>0, <3>2, <4>1 DEF ClaimCAS, Removing, Burying
    <3>3. CASE Destroy(t) \/ FlushDestroy(t) \/ Bury(t) \/ BuryCAS(t)
      BY <1>0, <3>3 DEF Destroy, FlushDestroy, Bury, BuryCAS, LoadForCAS, Goto, Burying
    <3>4. CASE BuriedByThis(t)
      <4>1. pc[t] \in Burying /\ state[curr[t]] # INTEND_TO_DELETE /\ pc'[t] = "trim"
        BY <1>0, <3>4 DEF BuriedByThis, Goto, Burying
      <4> QED
        BY <4>1, BuryingNode
    <3> QED
      BY <1>5, <3>1, <3>2, <3>3, <3>4
  <2>6. UNCHANGED <<Seen, curr, waits>>
    BY <2>2, <2>3 DEF Seen
  <2> QED
    BY <2>1, <2>4, <2>5, <2>6, RemovingWorks
<1> QED
  BY <1>1, <1>2, <1>3, <1>4, <1>5

-----------------------------------------------------------------------------
(* Steps that change the list, but neither the set nor what is committed. *)

(* n is a member. *)
IsMember(n) == heap[n] = "linked" /\ state[n] \in {INSERTED, INTEND_TO_DELETE}

(* The set, when its nodes stay. *)
LEMMA MembersStay ==
  ASSUME \A n \in Nodes : /\ IsMember(n)' <=> IsMember(n)
                          /\ IsMember(n) => key'[n] = key[n]
  PROVE  Members' = Members
<1>1. Members = {key[n] : n \in {m \in Nodes : IsMember(m)}}
  BY DEF Members, IsMember
<1>2. Members' = {key'[n] : n \in {m \in Nodes : IsMember(m)'}}
  BY DEF Members, IsMember
<1>3. {m \in Nodes : IsMember(m)'} = {m \in Nodes : IsMember(m)}
  OBVIOUS
<1>4. \A n \in {m \in Nodes : IsMember(m)} : key'[n] = key[n]
  OBVIOUS
<1> HIDE DEF IsMember
<1> QED
  BY <1>1, <1>2, <1>3, <1>4

(* What the others have committed, when their nodes stay. *)
LEMMA OthersCommit ==
  ASSUME NEW t \in Threads, OthersStay(t), NEW u \in Threads \ {t},
         Inserted(u) => (state'[newNode[u]] = INTEND_TO_INSERT <=> state[newNode[u]] = INTEND_TO_INSERT),
         Removed(u) /\ pc[u] \in Burying => (state'[curr[u]] = DELETED <=> state[curr[u]] = DELETED)
  PROVE  Committed(u)' <=> Committed(u)
<1>1. /\ pc'[u] = pc[u] /\ curr'[u] = curr[u] /\ newNode'[u] = newNode[u]
      /\ Inserted(u)' <=> Inserted(u)
      /\ Removed(u)' <=> Removed(u)
  BY DEF OthersStay, Inserted, Removed
<1> QED
  BY <1>1 DEF Committed, Burying

(* A step that leaves what threads know. *)
LEMMA ShiftLInv ==
  ASSUME IInv, LInv, phase = "running", DInv', UNCHANGED <<call, outcomes>>, Members' = Members,
         \A u \in Threads : Committed(u)' <=> Committed(u),
         \A u \in Threads : pc[u] = "idle" => pc'[u] = "idle",
         \A u \in Threads : pc[u] # "idle" => StaysTrue(u, {})
  PROVE  LInv'
<1>1. DInv
  BY DEF LInv
<1>2. ASSUME NEW Q, Knows(Q)
      PROVE  Knows(Q)'
  <2>1. ASSUME NEW u \in Threads
        PROVE  ThreadKnows(u, Q[u])'
    <3>1. PICK q : q = Q[u] /\ ThreadKnows(u, q)
      BY <1>2 DEF Knows
    <3>2. CASE pc[u] = "idle"
      <4>1. pc'[u] = "idle"
        BY <3>2
      <4> QED
        BY <4>1 DEF ThreadKnows, HelpIsKnown, MissIsKnown, Publishing
    <3>3. CASE pc[u] # "idle"
      <4>1. StaysTrue(u, q)
        <5>1. StaysTrue(u, {}) /\ ~MayFail({})
          BY <3>3 DEF MayFail
        <5> QED
          BY <5>1 DEF StaysTrue
      <4>2. FreeAnswers(call[u], Members') \subseteq q
        BY <3>1, <3>3 DEF ThreadKnows
      <4>3. ThreadKnows(u, q)'
        BY <1>1, <3>1, <3>3, <4>1, <4>2, StillKnows
      <4> QED
        BY <3>1, <4>3
    <3> QED
      BY <3>2, <3>3
  <2> QED
    BY <2>1 DEF Knows
<1>3. AllCommitted' = AllCommitted
  BY DEF AllCommitted
<1> QED
  BY <1>2, <1>3, QuietLInv

(* Nodes that are waited for. *)
LEMMA WaitedFor ==
  ASSUME IInv, NEW n \in Nodes, NEW u \in Threads, u \in waits[n]
  PROVE  heap[n] = "unlinked" /\ state[n] = DELETED /\ MayHold(u, n) /\ MayHold(u, next[n])
BY DEF IInv, RetiredIsClosed, MayHold

(* A node is taken off the list. *)
LEMMA TrimLInv ==
  ASSUME IInv, LInv, NEW t \in Threads, Trim(t), Expects(pred[t], curr[t], predState[t])
  PROVE  LInv'
<1> SUFFICES ASSUME NEW x, x = curr[t], NEW p, p = pred[t] PROVE LInv'
  OBVIOUS
<1>1. DInv
  BY DEF LInv
<1>2. /\ pc[t] = "trim"
      /\ next' = [next EXCEPT ![p] = next[x]] /\ state' = [state EXCEPT ![p] = predState[t]]
      /\ Unlink(x) /\ pc' = [pc EXCEPT ![t] = "free"]
      /\ UNCHANGED <<curr, key, call, newNode, result, phase, outcomes>>
  BY DEF Trim, Goto, recovering
<1>3. pc[t] # "idle" /\ phase = "running" /\ CallIsRight(t) /\ call[t].op \in {"insert", "remove"}
  BY <1>1, <1>2, CallIsKnown, OperationOf
<1>4. p \in Linked /\ state[p] = predState[t] /\ x \in Linked \union {Tail}
  BY <1>3, PredIsLinked
<1>5. x \in Nodes /\ state[x] = DELETED /\ heap[x] = "linked" /\ p # x
  <2>1. x \in Nodes /\ state[x] = DELETED /\ predState[t] # DELETED
    BY <1>2, <1>3 DEF IInv, ThreadInv, StateIsKnown, SearchIsRight
  <2> QED
    BY <1>4, <2>1, NodesAssumption DEF Linked, AllNodes
<1>6. state' = state
  BY <1>2, <1>4 DEF IInv, TypeOK
<1>7. heap' = [heap EXCEPT ![x] = "unlinked"]
  BY <1>2 DEF Unlink
<1>8. \A n \in Nodes \ {x} : waits'[n] = waits[n] /\ heap'[n] = heap[n]
  <2>1. pptr[x] \notin Nodes
    BY <1>5, NodesAssumption DEF IInv, TypeOK, AllNodes
  <2> QED
    BY <1>2, <2>1 DEF Unlink, IInv, TypeOK
<1>9. OthersStay(t)
  BY <1>2 DEF OthersStay, IInv, TypeOK
<1>10. \A n \in AllNodes : n # p => next'[n] = next[n]
  BY <1>2 DEF IInv, TypeOK
<1>11. /\ Inserted(t)' <=> Inserted(t)
       /\ Removed(t)' <=> Removed(t)
       /\ ~Inserted(t) /\ pc'[t] = "free"
  <2>1. ~Inserted(t)
    BY <1>1, <1>2, ActorsRun DEF Publishing
  <2> QED
    BY <1>2, <2>1 DEF Inserted, Removed, IInv, TypeOK
<1>12. CallIsRight(t)'
  BY <1>2, <1>3, <1>11 DEF CallIsRight, LabelsOf, Publishing, Burying, Private, Removing
<1>13. ActorsAreAlone'
  BY <1>1, <1>9, <1>11, ActorsStayAlone DEF Burying
<1>14. ASSUME NEW n \in Nodes
       PROVE  NodeIsRight(n)'
  <2>1. NodeIsRight(n)
    BY <1>1 DEF DInv
  <2>2. heap'[n] = "linked" => heap[n] = "linked"
    BY <1>5, <1>7 DEF IInv, TypeOK
  <2>3. ~(pc[t] \in Burying)
    BY <1>2 DEF Burying
  <2> QED
    BY <1>2, <1>6, <1>9, <1>11, <2>1, <2>2, <2>3, NodeStaysRight
<1>15. DInv'
  <2>1. phase' # "recovering" /\ outcomes' \subseteq DS!Configurations
    BY <1>1, <1>2, <1>3 DEF DInv
  <2> QED
    BY <1>1, <1>2, <1>9, <1>12, <1>13, <1>14, <2>1, StepIsRight
<1>16. Members' = Members
  <2>1. \A n \in Nodes : IsMember(n)' <=> IsMember(n)
    BY <1>5, <1>6, <1>7, <1>8 DEF IsMember, INSERTED, INTEND_TO_DELETE, DELETED, IInv, TypeOK
  <2> QED
    BY <1>2, <2>1, MembersStay
<1>17. ASSUME NEW u \in Threads
       PROVE  Committed(u)' <=> Committed(u)
  <2>1. CASE u # t
    BY <1>6, <1>9, <2>1, OthersCommit
  <2>2. CASE u = t
    BY <1>2, <1>11, <2>2 DEF Committed, Burying
  <2> QED
    BY <2>1, <2>2
<1>18. ASSUME NEW u \in Threads, pc[u] # "idle"
       PROVE  StaysTrue(u, {})
  <2>1. /\ call'[u] = call[u] /\ curr'[u] = curr[u] /\ key'[curr[u]] = key[curr[u]]
        /\ newNode'[u] = newNode[u]
    BY <1>2
  <2>2. pc'[u] \in Publishing => pc[u] \in Publishing
    BY <1>2, <1>9, <1>11 DEF OthersStay, Publishing
  <2>3. ASSUME NEW n \in Nodes, u \in waits'[n]
        PROVE  /\ u \in waits[n] \/ (heap[n] = "linked" /\ state[n] = DELETED)
               /\ key'[n] = key[n] /\ next'[n] = next[n] /\ key'[next[n]] = key[next[n]]
    <3>1. CASE n = x
      BY <1>2, <1>5, <1>10, <3>1 DEF AllNodes
    <3>2. CASE n # x
      <4>1. u \in waits[n]
        BY <1>8, <2>3, <3>2
      <4>2. n # p
        BY <1>4, <4>1, WaitedFor, NodesAssumption DEF Linked
      <4> QED
        BY <1>2, <1>10, <4>1, <4>2 DEF AllNodes
    <3> QED
      BY <3>1, <3>2
  <2> QED
    BY <1>6, <2>1, <2>2, <2>3 DEF StaysTrue, Publishing
<1>19. \A u \in Threads : pc[u] = "idle" => pc'[u] = "idle"
  BY <1>3, <1>9 DEF OthersStay
<1> QED
  BY <1>2, <1>3, <1>15, <1>16, <1>17, <1>18, <1>19, ShiftLInv

-----------------------------------------------------------------------------
(* A node is linked: it stands for its insertion, and is no member yet. *)
LEMMA LinkNodeLInv ==
  ASSUME IInv, LInv, NEW t \in Threads, LinkNode(t), Expects(pred[t], curr[t], predState[t])
  PROVE  LInv'
<1> SUFFICES ASSUME NEW x, x = newNode[t], NEW p, p = pred[t] PROVE LInv'
  OBVIOUS
<1>1. DInv
  BY DEF LInv
<1>2. /\ pc[t] = "link"
      /\ next' = [next EXCEPT ![p] = x] /\ state' = [state EXCEPT ![p] = predState[t]]
      /\ heap' = [heap EXCEPT ![x] = "linked"] /\ result' = [result EXCEPT ![t] = TRUE]
      /\ pc' = [pc EXCEPT ![t] = "create"]
      /\ UNCHANGED <<curr, key, call, newNode, waits, phase, outcomes>>
  BY DEF LinkNode, Goto, recovering, search
<1>3. pc[t] # "idle" /\ phase = "running" /\ CallIsRight(t) /\ call[t].op = "insert" /\ call[t].arg \in Keys
  BY <1>1, <1>2, CallIsKnown, OperationOf DEF Private
<1>4. p \in Linked /\ state[p] = predState[t]
  BY <1>3, PredIsLinked
<1>5. /\ x \in Nodes /\ heap[x] = "owned" /\ x # p /\ x \notin Linked
      /\ state[x] = INTEND_TO_INSERT /\ key[x] = call[t].arg
  BY <1>2, OwnNode DEF Private
<1>6. state' = state
  BY <1>2, <1>4 DEF IInv, TypeOK
<1>7. OthersStay(t)
  BY <1>2 DEF OthersStay, IInv, TypeOK
<1>8. \A n \in AllNodes : n # p => next'[n] = next[n]
  BY <1>2 DEF IInv, TypeOK
<1>9. pc'[t] = "create" /\ result'[t] /\ heap'[x] = "linked" /\ \A n \in Nodes \ {x} : heap'[n] = heap[n]
  BY <1>2, <1>5 DEF IInv, TypeOK
<1>10. /\ ~Inserted(t) /\ ~Removed(t) /\ Inserted(t)' /\ ~Removed(t)'
       /\ newNode'[t] = x /\ newNode[t] = x /\ x # Nil
  <2>1. ~Inserted(t) /\ ~Removed(t)
    BY <1>1, <1>2, ActorsRun DEF Publishing, Burying
  <2>2. x # Nil
    BY <1>5, NodesAssumption DEF AllNodes
  <2> QED
    BY <1>2, <1>3, <1>9, <2>1, <2>2 DEF Inserted, Removed
<1>11. CallIsRight(t)'
  BY <1>2, <1>3, <1>5, <1>9, <1>10 DEF CallIsRight, LabelsOf, Publishing
<1>12. ASSUME NEW u \in Threads \ {t}, Inserted(u)
       PROVE  newNode[u] # x
  BY <1>1, <1>5, <1>12, ActorsRun, OwnedIsNotHeld
<1>13. ActorsAreAlone'
  BY <1>1, <1>7, <1>10, <1>12, ActorsStayAlone
<1>14. ASSUME NEW n \in Nodes
       PROVE  NodeIsRight(n)'
  <2>1. CASE n = x
    <3>1. key'[n] \in Keys /\ state'[n] = INTEND_TO_INSERT
      BY <1>2, <1>3, <1>5, <1>6, <2>1
    <3> QED
      BY <1>10, <2>1, <3>1 DEF NodeIsRight, INTEND_TO_INSERT, INTEND_TO_DELETE
  <2>2. CASE n # x
    <3>1. NodeIsRight(n)
      BY <1>1 DEF DInv
    <3> QED
      BY <1>2, <1>6, <1>7, <1>9, <1>10, <2>2, <3>1, NodeStaysRight
  <2> QED
    BY <2>1, <2>2
<1>15. DInv'
  <2>1. phase' # "recovering" /\ outcomes' \subseteq DS!Configurations
    BY <1>1, <1>2, <1>3 DEF DInv
  <2> QED
    BY <1>1, <1>2, <1>7, <1>11, <1>13, <1>14, <2>1, StepIsRight
<1>16. Members' = Members
  <2>1. ASSUME NEW n \in Nodes
        PROVE  IsMember(n)' <=> IsMember(n)
    <3>1. CASE n = x
      BY <1>5, <1>6, <3>1 DEF IsMember, INSERTED, INTEND_TO_DELETE, INTEND_TO_INSERT
    <3>2. CASE n # x
      BY <1>6, <1>9, <3>2 DEF IsMember, INSERTED, INTEND_TO_DELETE
    <3> QED
      BY <3>1, <3>2
  <2> QED
    BY <1>2, <2>1, MembersStay
<1>17. ASSUME NEW u \in Threads
       PROVE  Committed(u)' <=> Committed(u)
  <2>1. CASE u # t
    BY <1>6, <1>7, <2>1, OthersCommit
  <2>2. CASE u = t
    BY <1>5, <1>6, <1>10, <2>2 DEF Committed, INTEND_TO_INSERT
  <2> QED
    BY <2>1, <2>2
<1>18. ASSUME NEW u \in Threads, pc[u] # "idle"
       PROVE  StaysTrue(u, {})
  <2>1. /\ call'[u] = call[u] /\ curr'[u] = curr[u] /\ key'[curr[u]] = key[curr[u]]
        /\ newNode'[u] = newNode[u]
    BY <1>2
  <2>2. pc'[u] \in Publishing /\ newNode'[u] = Nil => pc[u] \in Publishing
    BY <1>2, <1>7, <1>10 DEF OthersStay, Publishing
  <2>3. ASSUME NEW n \in Nodes, u \in waits'[n]
        PROVE  /\ u \in waits[n] \/ (heap[n] = "linked" /\ state[n] = DELETED)
               /\ key'[n] = key[n] /\ next'[n] = next[n] /\ key'[next[n]] = key[next[n]]
    <3>1. u \in waits[n]
      BY <1>2, <2>3
    <3>2. n # p
      BY <1>4, <3>1, WaitedFor, NodesAssumption DEF Linked
    <3> QED
      BY <1>2, <1>8, <3>1, <3>2 DEF AllNodes
  <2> QED
    BY <1>6, <2>1, <2>2, <2>3 DEF StaysTrue, Publishing
<1>19. \A u \in Threads : pc[u] = "idle" => pc'[u] = "idle"
  BY <1>3, <1>7 DEF OthersStay
<1> QED
  BY <1>2, <1>3, <1>15, <1>16, <1>17, <1>18, <1>19, ShiftLInv

(* A node that is nobody else's is made or given back. *)
Prepares(t, x) ==
  /\ x \in Nodes /\ heap[x] \in {"free", "owned"} /\ heap'[x] \in {"free", "owned"}
  /\ \A n \in Nodes \ {x} : heap'[n] = heap[n]
  /\ \A n \in AllNodes \ {x} : key'[n] = key[n] /\ next'[n] = next[n] /\ state'[n] = state[n]
  /\ \A n \in Nodes : waits'[n] = waits[n]
  /\ UNCHANGED <<call, result, phase, outcomes>>
  /\ OthersStay(t) /\ pc[t] # "idle"
  /\ pc[t] \notin Publishing /\ pc'[t] \notin Publishing /\ pc'[t] # "idle"
  /\ call[t].op = "insert" /\ pc'[t] \in LabelsOf("insert")

(* What the others know stays true. *)
LEMMA PrivateLInv ==
  ASSUME IInv, LInv, NEW t \in Threads, NEW x, Prepares(t, x)
  PROVE  LInv'
<1> USE DEF Prepares
<1>1. DInv
  BY DEF LInv
<1>2. CallIsRight(t) /\ phase = "running" /\ ~result[t] /\ outcomes \subseteq DS!Configurations
  BY <1>1, CallIsKnown DEF CallIsRight
<1>3. x \notin Linked /\ (\A u \in Threads : ~MayHold(u, x)) /\ waits[x] = {}
  BY OwnedIsNotHeld
<1>4. ~Inserted(t) /\ ~Removed(t) /\ ~Inserted(t)' /\ ~Removed(t)'
  BY <1>2 DEF Inserted, Removed
<1>5. CallIsRight(t)'
  <2>1. Publishing' = Publishing /\ LabelsOf("insert")' = LabelsOf("insert") /\ ~result'[t]
    BY <1>2 DEF Publishing, LabelsOf, Private
  <2>2. pc'[t] # "done"
    BY DEF LabelsOf, Private, Publishing
  <2> QED
    BY <1>4, <2>1, <2>2 DEF CallIsRight
<1>6. ActorsAreAlone'
  BY <1>1, <1>4, ActorsStayAlone
<1>7. ASSUME NEW n \in Nodes
      PROVE  NodeIsRight(n)'
  <2>1. NodeIsRight(n)
    BY <1>1 DEF DInv
  <2>2. heap'[n] = "linked" => n # x
    OBVIOUS
  <2>3. heap'[n] = "linked" => heap[n] = "linked" /\ key'[n] = key[n] /\ state'[n] = state[n]
    BY <2>2 DEF AllNodes
  <2> QED
    BY <1>4, <2>1, <2>3, NodeStaysRight
<1>8. ASSUME NEW u \in Threads, pc[u] # "idle", NEW n, MayHold(u, n)
      PROVE  key'[n] = key[n] /\ state'[n] = state[n]
  <2>1. n # x /\ n \in AllNodes
    BY <1>3, <1>8, HeldIsNode DEF IInv
  <2> QED
    BY <2>1
<1>9. ASSUME NEW u \in Threads \ {t}
      PROVE  /\ Inserted(u) => key'[newNode[u]] = key[newNode[u]] /\ state'[newNode[u]] = state[newNode[u]]
             /\ Removed(u) /\ pc[u] \in Burying => state'[curr[u]] = state[curr[u]]
  <2>1. Inserted(u) => pc[u] # "idle" /\ MayHold(u, newNode[u])
    BY <1>1, ActorsRun
  <2>2. Removed(u) /\ pc[u] \in Burying => pc[u] # "idle" /\ MayHold(u, curr[u])
    BY BuryingNode
  <2> HIDE DEF Prepares
  <2> QED
    BY <1>8, <2>1, <2>2
<1>10. DInv'
  BY <1>1, <1>2, <1>5, <1>6, <1>7, <1>9, StepIsRight
<1>11. Members' = Members
  <2>1. ASSUME NEW n \in Nodes
        PROVE  (IsMember(n)' <=> IsMember(n)) /\ (IsMember(n) => key'[n] = key[n])
    <3>1. CASE n = x
      BY <3>1 DEF IsMember
    <3>2. CASE n # x
      BY <3>2 DEF IsMember, INSERTED, INTEND_TO_DELETE, AllNodes
    <3> QED
      BY <3>1, <3>2
  <2> QED
    BY <2>1, MembersStay
<1>12. ASSUME NEW u \in Threads
       PROVE  Committed(u)' <=> Committed(u)
  <2>1. CASE u # t
    BY <1>9, <2>1, OthersCommit
  <2>2. CASE u = t
    BY <1>4, <2>2 DEF Committed
  <2> QED
    BY <2>1, <2>2
<1>13. ASSUME NEW u \in Threads \ {t}, pc[u] # "idle"
       PROVE  StaysTrue(u, {})
  <2>1. MayHold(u, curr[u])
    BY <1>13 DEF IInv, ThreadInv, HoldsWhatItMay
  <2>2. key'[curr[u]] = key[curr[u]] /\ state'[curr[u]] = state[curr[u]]
    BY <1>8, <1>13, <2>1
  <2>3. ASSUME NEW n \in Nodes, u \in waits'[n]
        PROVE  /\ u \in waits[n]
               /\ key'[n] = key[n] /\ next'[n] = next[n] /\ key'[next[n]] = key[next[n]]
    <3>1. u \in waits[n] /\ n # x
      BY <1>3, <2>3
    <3>2. MayHold(u, next[n])
      BY <3>1, WaitedFor
    <3>3. key'[next[n]] = key[next[n]]
      BY <1>8, <1>13, <3>2
    <3> QED
      BY <3>1, <3>3 DEF AllNodes
  <2>4. /\ call'[u] = call[u] /\ curr'[u] = curr[u] /\ newNode'[u] = newNode[u] /\ pc'[u] = pc[u]
    BY DEF OthersStay
  <2> HIDE DEF Prepares
  <2> QED
    BY <2>2, <2>3, <2>4 DEF StaysTrue, Publishing
<1>14. ASSUME NEW Q, Knows(Q)
       PROVE  Knows(Q)'
  <2>1. ASSUME NEW u \in Threads
        PROVE  ThreadKnows(u, Q[u])'
    <3>1. PICK q : q = Q[u] /\ ThreadKnows(u, q)
      BY <1>14 DEF Knows
    <3>2. CASE u = t
      <4>1. pc'[u] \notin Publishing /\ call'[u].op = "insert" /\ call'[u] = call[u] /\ pc[u] # "idle"
        BY <3>2
      <4>2. FreeAnswers(call[u], Members)' \subseteq q
        BY <1>11, <3>1, <4>1 DEF ThreadKnows, FreeAnswers
      <4> HIDE DEF Prepares
      <4> QED
        BY <3>1, <4>1, <4>2 DEF ThreadKnows, HelpIsKnown, MissIsKnown, Publishing
    <3>3. CASE u # t /\ pc[u] = "idle"
      <4>1. pc'[u] = "idle"
        BY <3>3 DEF OthersStay
      <4> QED
        BY <4>1 DEF ThreadKnows, HelpIsKnown, MissIsKnown, Publishing
    <3>4. CASE u # t /\ pc[u] # "idle"
      <4> HIDE DEF Prepares
      <4>1. StaysTrue(u, q)
        <5>1. StaysTrue(u, {}) /\ ~MayFail({})
          BY <1>13, <3>4 DEF MayFail
        <5> QED
          BY <5>1 DEF StaysTrue
      <4>2. FreeAnswers(call[u], Members') \subseteq q
        BY <1>11, <3>1, <3>4 DEF ThreadKnows
      <4>3. ThreadKnows(u, q)'
        BY <1>1, <3>1, <3>4, <4>1, <4>2, StillKnows
      <4> QED
        BY <3>1, <4>3
    <3> QED
      BY <3>2, <3>3, <3>4
  <2> QED
    BY <2>1 DEF Knows
<1>15. AllCommitted' = AllCommitted
  BY <1>12 DEF AllCommitted
<1> QED
  BY <1>2, <1>10, <1>11, <1>14, <1>15, QuietLInv

(* A node is taken for an insertion. *)
LEMMA AllocNodeLInv ==
  ASSUME IInv, LInv, NEW t \in Threads, AllocNode(t)
  PROVE  LInv'
<1>1. DInv
  BY DEF LInv
<1>2. pc[t] = "alloc" /\ call[t].op = "insert"
  BY <1>1, OperationOf DEF AllocNode
<1>3. PICK x \in Nodes :
        /\ heap[x] = "free" /\ heap' = [heap EXCEPT ![x] = "owned"]
        /\ key' = [key EXCEPT ![x] = call[t].arg]
        /\ next' = [next EXCEPT ![x] = curr[t]]
        /\ state' = [state EXCEPT ![x] = INTEND_TO_INSERT]
        /\ newNode' = [newNode EXCEPT ![t] = x]
  BY DEF AllocNode
<1>4. pc' = [pc EXCEPT ![t] = "link"] /\ UNCHANGED <<waits, call, curr, result, phase, outcomes>>
  BY DEF AllocNode, Goto, search, recovering
<1>5. OthersStay(t) /\ pc'[t] = "link"
  BY <1>3, <1>4 DEF OthersStay, IInv, TypeOK
<1>6. Prepares(t, x)
  BY <1>2, <1>3, <1>4, <1>5 DEF Prepares, IInv, TypeOK, LabelsOf, Private, Publishing
<1> QED
  BY <1>6, PrivateLInv

(* A node goes back, and the search begins again. *)
LEMMA RetryLInv ==
  ASSUME IInv, LInv, NEW t \in Threads, Retry(t)
  PROVE  LInv'
<1> SUFFICES ASSUME NEW x, x = newNode[t] PROVE LInv'
  OBVIOUS
<1>1. DInv
  BY DEF LInv
<1>2. pc[t] = "retry" /\ call[t].op = "insert"
  BY <1>1, OperationOf DEF Retry, Private
<1>3. x \in Nodes /\ heap[x] = "owned"
  BY <1>2, OwnNode DEF Private
<1>4. /\ newNode' = [newNode EXCEPT ![t] = Nil] /\ pc' = [pc EXCEPT ![t] = "find"]
      /\ Blank({x}) /\ Free(t, pptr[x]) /\ curr' = [curr EXCEPT ![t] = next[Head]]
      /\ UNCHANGED <<call, result, phase, outcomes>>
  BY DEF Retry, StartSearch, Goto, recovering
<1>5. \A n \in Nodes : waits'[n] = waits[n]
  BY <1>3, <1>4, FreeSparesNodes DEF IInv
<1>6. /\ heap'[x] = "free" /\ \A n \in Nodes \ {x} : heap'[n] = heap[n]
      /\ \A n \in AllNodes \ {x} : key'[n] = key[n] /\ next'[n] = next[n] /\ state'[n] = state[n]
  BY <1>3, <1>4 DEF Blank, Blanked, IInv, TypeOK
<1>7. OthersStay(t) /\ pc'[t] = "find"
  BY <1>4 DEF OthersStay, IInv, TypeOK
<1>8. Prepares(t, x)
  BY <1>2, <1>3, <1>4, <1>5, <1>6, <1>7 DEF Prepares, LabelsOf, Private, Publishing
<1> QED
  BY <1>8, PrivateLInv

-----------------------------------------------------------------------------
(* The set is one of keys. *)
LEMMA MembersAreKeys ==
  ASSUME DInv
  PROVE  Members \in SUBSET Keys
<1>1. ASSUME NEW n \in Nodes, heap[n] = "linked"
      PROVE  key[n] \in Keys
  BY <1>1 DEF DInv, NodeIsRight
<1> QED
  BY <1>1 DEF Members

(* The target of a compare-and-swap that succeeds on a state not deleted. *)
LEMMA CASTarget ==
  ASSUME IInv, NEW t \in Threads, pc[t] \in Publishing \union Removing, state[Target(t)] # DELETED
  PROVE  Target(t) \in Nodes /\ heap[Target(t)] = "linked" /\ Target(t) \in Linked
<1>1. Target(t) \in Nodes /\ MayHold(t, Target(t))
  BY TargetIsHeld
<1>2. Target(t) \in Linked
  BY <1>1, NotDeletedIsLinked, NodesAssumption DEF IInv, AllNodes
<1> QED
  BY <1>1, <1>2, NodesAssumption DEF Linked, AllNodes

(* A removal is claimed: its node stays a member until it is deleted. *)
LEMMA ClaimCASLInv ==
  ASSUME IInv, LInv, NEW t \in Threads, ClaimCAS(t), Expects(curr[t], succ[t], INSERTED)
  PROVE  LInv'
<1> SUFFICES ASSUME NEW x, x = curr[t] PROVE LInv'
  OBVIOUS
<1>1. DInv
  BY DEF LInv
<1>2. pc[t] = "claimCAS" /\ pc[t] \in Removing /\ pc[t] # "idle" /\ pc[t] \notin Burying
  BY DEF ClaimCAS, Removing, Burying
<1>3. Target(t) = x /\ newNode[t] = Nil
  BY <1>2, TargetIsHeld
<1>4. state[x] = INSERTED
  BY DEF Expects
<1>5. x \in Nodes /\ heap[x] = "linked" /\ key[x] = call[t].arg
  <2>1. state[x] # DELETED
    BY <1>4 DEF INSERTED, DELETED
  <2>2. key[x] = call[t].arg
    BY <1>2 DEF IInv, ThreadInv, SearchIsRight
  <2> QED
    BY <1>2, <1>3, <2>1, <2>2, CASTarget
<1>6. /\ state' = [state EXCEPT ![x] = INTEND_TO_DELETE]
      /\ result' = [result EXCEPT ![t] = TRUE]
      /\ pc' = [pc EXCEPT ![t] = "destroy"]
      /\ UNCHANGED <<key, next, heap, waits, call, curr, newNode, phase, outcomes>>
  <2>1. Expects(Target(t), succ[t], INSERTED)
    BY <1>3
  <2>2. state' = [state EXCEPT ![x] = INTEND_TO_DELETE]
    BY <1>3, <2>1 DEF ClaimCAS, stateCAS
  <2>3. PICK b : b = Expects(curr[t], succ[t], INSERTED) /\ result' = [result EXCEPT ![t] = b]
    BY DEF ClaimCAS
  <2>4. b = TRUE
    BY <2>3
  <2>5. result' = [result EXCEPT ![t] = TRUE]
    BY <2>3, <2>4
  <2>6. result'[t]
    BY <2>5 DEF IInv, TypeOK
  <2> QED
    BY <2>2, <2>5, <2>6 DEF ClaimCAS, Goto, memory, search, recovering
<1>7. OthersStay(t) /\ pc'[t] = "destroy" /\ result'[t]
  BY <1>6 DEF OthersStay, IInv, TypeOK
<1>8. phase = "running" /\ CallIsRight(t) /\ call[t].op = "remove"
  BY <1>1, <1>2, CallIsKnown, OperationOf
<1>9. ~Inserted(t) /\ ~Removed(t) /\ ~Inserted(t)' /\ Removed(t)'
  <2>1. ~Inserted(t) /\ ~Removed(t)
    BY <1>1, <1>2, ActorsRun DEF Publishing, Burying
  <2> QED
    BY <1>6, <1>7, <1>8, <2>1 DEF Inserted, Removed
<1>10. state'[x] = INTEND_TO_DELETE /\ \A n \in AllNodes \ {x} : state'[n] = state[n]
  BY <1>5, <1>6 DEF IInv, TypeOK, AllNodes
<1>11. CallIsRight(t)'
  BY <1>6, <1>7, <1>8, <1>9 DEF CallIsRight, LabelsOf, Removing, Burying
<1>12. ASSUME NEW u \in Threads, Removed(u), pc[u] \in Burying
       PROVE  curr[u] # x
  BY <1>4, <1>12, BuryingNode DEF INSERTED, INTEND_TO_DELETE, DELETED
<1>13. ActorsAreAlone'
  BY <1>1, <1>6, <1>7, <1>9, <1>12, ActorsStayAlone
<1>14. ASSUME NEW n \in Nodes
       PROVE  NodeIsRight(n)'
  <2>0. NodeIsRight(n)
    BY <1>1 DEF DInv
  <2>1. CASE n = x
    <3>1. key'[n] \in Keys
      BY <1>5, <1>6, <2>0, <2>1 DEF NodeIsRight
    <3>2. Removed(t)' /\ (pc[t] \in Burying)' /\ curr'[t] = n
      BY <1>6, <1>7, <1>9, <2>1 DEF Burying
    <3> QED
      BY <1>10, <2>1, <3>1, <3>2 DEF NodeIsRight, INTEND_TO_INSERT, INTEND_TO_DELETE
  <2>2. CASE n # x
    BY <1>6, <1>7, <1>9, <1>10, <2>0, <2>2, NodeStaysRight DEF AllNodes
  <2> QED
    BY <2>1, <2>2
<1>15. DInv'
  <2>1. phase' # "recovering" /\ outcomes' \subseteq DS!Configurations
    BY <1>1, <1>6, <1>8 DEF DInv
  <2> QED
    BY <1>1, <1>6, <1>7, <1>11, <1>13, <1>14, <2>1, StepIsRight
<1>16. Members' = Members
  <2>1. ASSUME NEW n \in Nodes
        PROVE  IsMember(n)' <=> IsMember(n)
    <3>1. CASE n = x
      BY <1>4, <1>5, <1>6, <1>10, <3>1 DEF IsMember, INSERTED, INTEND_TO_DELETE
    <3>2. CASE n # x
      BY <1>6, <1>10, <3>2 DEF IsMember, INSERTED, INTEND_TO_DELETE, AllNodes
    <3> QED
      BY <3>1, <3>2
  <2> QED
    BY <1>6, <2>1, MembersStay
<1>17. ASSUME NEW u \in Threads
       PROVE  Committed(u)' <=> Committed(u)
  <2>1. CASE u # t
    <3>1. Inserted(u) => (state'[newNode[u]] = INTEND_TO_INSERT <=> state[newNode[u]] = INTEND_TO_INSERT)
      <4>1. Inserted(u) => newNode[u] \in Nodes
        BY <1>1, ActorsRun
      <4> QED
        BY <1>4, <1>10, <4>1 DEF INTEND_TO_INSERT, INTEND_TO_DELETE, INSERTED, AllNodes
    <3>2. Removed(u) /\ pc[u] \in Burying => (state'[curr[u]] = DELETED <=> state[curr[u]] = DELETED)
      <4>1. pc[u] \in Burying => curr[u] \in Nodes
        BY BuryingNode
      <4> QED
        BY <1>10, <1>12, <4>1 DEF AllNodes
    <3> QED
      BY <1>7, <2>1, <3>1, <3>2, OthersCommit
  <2>2. CASE u = t
    BY <1>6, <1>7, <1>9, <1>10, <2>2 DEF Committed, Burying, INTEND_TO_DELETE, DELETED
  <2> QED
    BY <2>1, <2>2
<1>18. ASSUME NEW u \in Threads, pc[u] # "idle"
       PROVE  StaysTrue(u, {})
  <2>1. /\ call'[u] = call[u] /\ curr'[u] = curr[u] /\ key'[curr[u]] = key[curr[u]]
        /\ newNode'[u] = newNode[u]
    BY <1>6
  <2>2. pc'[u] \in Publishing => pc[u] \in Publishing
    BY <1>7 DEF OthersStay, Publishing
  <2>3. state[curr[u]] = INTEND_TO_INSERT => state'[curr[u]] = INTEND_TO_INSERT
    <3>1. curr[u] \in AllNodes
      BY <1>18, Holding
    <3> QED
      BY <1>4, <1>10, <3>1 DEF INSERTED, INTEND_TO_INSERT
  <2>4. \A n \in Nodes : waits'[n] = waits[n] /\ key'[n] = key[n] /\ next'[n] = next[n] /\ key'[next[n]] = key[next[n]]
    BY <1>6
  <2> QED
    BY <2>1, <2>2, <2>3, <2>4 DEF StaysTrue, Publishing
<1>19. \A u \in Threads : pc[u] = "idle" => pc'[u] = "idle"
  BY <1>2, <1>7 DEF OthersStay
<1> QED
  BY <1>6, <1>8, <1>15, <1>16, <1>17, <1>18, <1>19, ShiftLInv

-----------------------------------------------------------------------------
(* Steps that commit an insertion or a deletion. *)

(* Every operation may now answer for S, too. *)
More(Q, c, S) == [t \in Threads |-> Q[t] \union FreeAnswers(c[t], S)]

(* The answers grow, by all that change nothing in S. *)
LEMMA MoreAnswers ==
  ASSUME NEW Q \in [Threads -> SUBSET BOOLEAN], NEW c, NEW S
  PROVE  /\ More(Q, c, S) \in [Threads -> SUBSET BOOLEAN]
         /\ \A t \in Threads : /\ Q[t] \subseteq More(Q, c, S)[t]
                               /\ FreeAnswers(c[t], S) \subseteq More(Q, c, S)[t]
BY DEF More, FreeAnswers

(* The insertion of k takes effect, and who runs may answer for it. *)
LEMMA Born ==
  ASSUME NEW c, CallsOf(c), NEW o \in SUBSET DS!Configurations, NEW S \in SUBSET Keys,
         NEW M, NEW Q, Promised(c, o, S, M, Q),
         NEW t \in Threads, t \notin M, NEW k \in Keys, c[t] = [op |-> "insert", arg |-> k], k \notin S
  PROVE  Promised(c, o, S \union {k}, M \union {t}, More(Q, c, S \union {k}))
<1>1. c[t] # DS!None /\ DS!SetAfter(c[t], S) = S \union {k} /\ DS!AnswerOf(c[t], S)
  BY DEF DS!None, DS!SetAfter, DS!AnswerOf
<1>2. Promised(c, o, S \union {k}, M \union {t}, Q)
  BY <1>1, Commit
<1>3. S \union {k} \in SUBSET Keys
  OBVIOUS
<1> QED
  BY <1>2, <1>3, Settle DEF More

(* The same for the removal of k. *)
LEMMA Died ==
  ASSUME NEW c, CallsOf(c), NEW o \in SUBSET DS!Configurations, NEW S \in SUBSET Keys,
         NEW M, NEW Q, Promised(c, o, S, M, Q),
         NEW t \in Threads, t \notin M, NEW k \in Keys, c[t] = [op |-> "remove", arg |-> k], k \in S
  PROVE  Promised(c, o, S \ {k}, M \union {t}, More(Q, c, S \ {k}))
<1>1. c[t] # DS!None /\ DS!SetAfter(c[t], S) = S \ {k} /\ DS!AnswerOf(c[t], S)
  BY DEF DS!None, DS!SetAfter, DS!AnswerOf
<1>2. Promised(c, o, S \ {k}, M \union {t}, Q)
  BY <1>1, Commit
<1>3. S \ {k} \in SUBSET Keys
  OBVIOUS
<1> QED
  BY <1>2, <1>3, Settle DEF More

(* t moves the state of x on, to one by which others answer. *)
Commits(t, x) ==
  /\ UNCHANGED <<key, next, heap, waits, call, curr, newNode, result, outcomes, phase>>
  /\ x \in Nodes /\ heap[x] = "linked"
  /\ \A n \in AllNodes \ {x} : state'[n] = state[n]
  /\ \/ state[x] = INTEND_TO_INSERT /\ state'[x] = INSERTED
     \/ state[x] = INTEND_TO_DELETE /\ state'[x] = DELETED
  /\ OthersStay(t)
  /\ \/ pc[t] \in Publishing /\ pc'[t] \in Publishing
     \/ pc[t] \in Burying /\ pc'[t] \in Burying

(* What such a step leaves of DInv. *)
LEMMA CommitIsRight ==
  ASSUME IInv, DInv, NEW t \in Threads, NEW x, Commits(t, x)
  PROVE  DInv' /\ \A u \in Threads : /\ Inserted(u)' <=> Inserted(u)
                                     /\ Removed(u)' <=> Removed(u)
                                     /\ pc'[u] \in Burying <=> pc[u] \in Burying
<1>1. /\ UNCHANGED <<key, next, heap, waits, call, curr, newNode, result, outcomes, phase>>
      /\ OthersStay(t)
  BY DEF Commits
<1>2. \A u \in Threads : /\ Inserted(u)' <=> Inserted(u)
                         /\ Removed(u)' <=> Removed(u)
  BY <1>1 DEF Inserted, Removed
<1>3. ASSUME NEW u \in Threads
      PROVE  pc'[u] \in Burying <=> pc[u] \in Burying
  <2>1. CASE u = t
    BY <2>1 DEF Commits, Publishing, Burying
  <2>2. CASE u # t
    BY <1>1, <2>2 DEF OthersStay
  <2> QED
    BY <2>1, <2>2
<1>4. pc[t] # "idle"
  BY DEF Commits, Publishing, Burying
<1>5. CallIsRight(t) /\ phase = "running" /\ outcomes \subseteq DS!Configurations
  BY <1>4, CallIsKnown
<1>6. CallIsRight(t)'
  <2>1. /\ pc[t] \in Publishing => call[t].op = "insert"
        /\ pc[t] \in Burying => call[t].op = "remove"
    BY OperationOf DEF Burying, Removing
  <2>2. pc'[t] \in LabelsOf(call[t].op) /\ pc'[t] \notin {"idle", "done"}
        /\ (pc'[t] \in Publishing <=> pc[t] \in Publishing)
    BY <2>1 DEF Commits, Publishing, Burying, LabelsOf, Private, Removing
  <2>3. Removed(t) => pc'[t] \in Burying
    BY <2>1 DEF Commits, Removed, Publishing, Burying
  <2>4. LabelsOf(call[t].op)' = LabelsOf(call[t].op) /\ Publishing' = Publishing /\ Burying' = Burying
    BY <1>1 DEF LabelsOf, Publishing, Burying, Private, Removing
  <2> QED
    BY <1>1, <1>2, <1>4, <1>5, <2>2, <2>3, <2>4 DEF CallIsRight
<1>7. ActorsAreAlone'
  <2>1. ActorsAreAlone
    BY DEF DInv
  <2>2. \A u \in Threads \ {t} :
           /\ Inserted(t)' /\ Inserted(u) => newNode'[t] # newNode[u]
           /\ Removed(t)' /\ pc'[t] \in Burying /\ Removed(u) /\ pc[u] \in Burying => curr'[t] # curr[u]
    BY <1>1, <1>2, <1>3, <2>1 DEF ActorsAreAlone
  <2> QED
    BY <1>1, <2>2, ActorsStayAlone
<1>8. ASSUME NEW n \in Nodes
      PROVE  NodeIsRight(n)'
  <2>0. NodeIsRight(n)
    BY DEF DInv
  <2>1. CASE n = x
    BY <1>1, <2>0, <2>1 DEF Commits, NodeIsRight, INSERTED, DELETED, INTEND_TO_INSERT, INTEND_TO_DELETE
  <2>2. CASE n # x
    <3>1. state'[n] = state[n]
      BY <2>2 DEF Commits, AllNodes
    <3> QED
      BY <1>1, <1>2, <1>3, <2>0, <3>1, NodeStaysRight
  <2> QED
    BY <2>1, <2>2
<1>9. DInv'
  <2>1. phase' # "recovering" /\ outcomes' \subseteq DS!Configurations
    BY <1>1, <1>5
  <2> QED
    BY <1>1, <1>6, <1>7, <1>8, <2>1, StepIsRight
<1> QED
  BY <1>2, <1>3, <1>9

(* After such a step everybody knows P, if P has what it teaches. *)
LEMMA CommitKnows ==
  ASSUME IInv, DInv, NEW t \in Threads, NEW x, Commits(t, x), NEW Q, Knows(Q), NEW P,
         \A u \in Threads : pc[u] # "idle" =>
            Q[u] \subseteq P[u] /\ FreeAnswers(call[u], Members') \subseteq P[u],
         state[x] = INTEND_TO_INSERT => key[x] \in Members'
  PROVE  Knows(P)'
<1> SUFFICES ASSUME NEW u \in Threads PROVE ThreadKnows(u, P[u])'
  BY DEF Knows
<1>1. PICK q, p : q = Q[u] /\ p = P[u] /\ ThreadKnows(u, q)
  BY DEF Knows
<1>2. CASE pc[u] = "idle"
  <2>1. u # t
    BY <1>2 DEF Commits, Publishing, Burying
  <2>2. pc'[u] = "idle"
    BY <1>2, <2>1 DEF Commits, OthersStay
  <2> QED
    BY <2>2 DEF ThreadKnows, HelpIsKnown, MissIsKnown, Publishing
<1>3. CASE pc[u] # "idle"
  <2>1. q \subseteq p /\ FreeAnswers(call[u], Members') \subseteq p
    BY <1>1, <1>3
  <2>2. UNCHANGED <<key, next, heap, waits, call, curr, newNode>>
    BY DEF Commits
  <2>3. pc'[u] \in Publishing <=> pc[u] \in Publishing
    BY DEF Commits, OthersStay, Publishing, Burying
  <2>4. curr[u] \in AllNodes
    BY <1>3, Holding
  <2>5. ASSUME state[curr[u]] = INTEND_TO_INSERT, pc[u] \in Publishing, newNode[u] = Nil
        PROVE  state'[curr[u]] = INTEND_TO_INSERT \/ MayFail(p)
    <3>1. CASE curr[u] # x
      BY <2>4, <2>5, <3>1 DEF Commits
    <3>2. CASE curr[u] = x
      <4>1. key[x] = call[u].arg /\ call[u].op = "insert"
        BY <1>3, <2>5, <3>2, OperationOf DEF IInv, ThreadInv, SearchIsRight
      <4>2. key[x] \in Members'
        BY <2>5, <3>2
      <4>3. DS!AnswerOf(call[u], Members') = FALSE /\ DS!SetAfter(call[u], Members') = Members'
        BY <4>1, <4>2 DEF DS!AnswerOf, DS!SetAfter
      <4>4. FALSE \in FreeAnswers(call[u], Members')
        BY <4>3 DEF FreeAnswers
      <4> QED
        BY <2>1, <4>4 DEF MayFail
    <3> QED
      BY <3>1, <3>2
  <2>6. StaysTrue(u, p)
    BY <2>2, <2>3, <2>5 DEF StaysTrue, Publishing
  <2>7. ThreadKnows(u, p)'
    BY <1>1, <1>3, <2>1, <2>6, StillKnows
  <2> QED
    BY <1>1, <2>7
<1> QED
  BY <1>2, <1>3

(* A node becomes a member: its insertion has taken effect. *)
LEMMA PublishCASLInv ==
  ASSUME IInv, LInv, NEW t \in Threads, PublishCAS(t), Expects(Target(t), succ[t], INTEND_TO_INSERT)
  PROVE  LInv'
<1> SUFFICES ASSUME NEW x, x = Target(t) PROVE LInv'
  OBVIOUS
<1>1. DInv
  BY DEF LInv
<1>2. pc[t] = "publishCAS" /\ pc[t] \in Publishing /\ pc[t] # "idle"
  BY DEF PublishCAS, Publishing
<1>3. state[x] = INTEND_TO_INSERT
  BY DEF Expects
<1>4. x \in Nodes /\ heap[x] = "linked" /\ x \in AllNodes
  <2>1. state[x] # DELETED
    BY <1>3 DEF INTEND_TO_INSERT, DELETED
  <2> QED
    BY <1>2, <2>1, CASTarget DEF AllNodes
<1>5. state' = [state EXCEPT ![x] = INSERTED] /\ pc' = [pc EXCEPT ![t] = "publish"]
      /\ UNCHANGED <<key, next, heap, waits, call, curr, newNode, result, outcomes, phase>>
  BY DEF PublishCAS, stateCAS, Goto, memory, search, recovering
<1>6. state'[x] = INSERTED /\ \A n \in AllNodes \ {x} : state'[n] = state[n]
  BY <1>4, <1>5 DEF IInv, TypeOK
<1>7. Commits(t, x)
  <2>1. OthersStay(t) /\ pc'[t] \in Publishing
    BY <1>5 DEF OthersStay, Publishing, IInv, TypeOK
  <2> QED
    BY <1>2, <1>3, <1>4, <1>5, <1>6, <2>1 DEF Commits
<1>8. phase = "running" /\ outcomes \in SUBSET DS!Configurations
  BY <1>1, <1>2, CallIsKnown
<1>9. PICK u \in Threads : Inserted(u) /\ newNode[u] = x
  BY <1>1, <1>3, <1>4 DEF DInv, NodeIsRight
<1>10. key[x] \in Keys /\ call[u] = [op |-> "insert", arg |-> key[x]]
  <2>1. call[u].op = "insert" /\ key[x] = call[u].arg /\ pc[u] # "idle"
    BY <1>1, <1>9, ActorsRun
  <2>2. call[u] \in DS!Calls
    BY <1>1, <2>1, CallIsKnown
  <2> QED
    BY <2>1, <2>2 DEF DS!Calls
<1>11. u \notin AllCommitted /\ ~Removed(u)
  BY <1>3, <1>9 DEF AllCommitted, Committed, Inserted, Removed
<1>12. key[x] \notin Members
  BY <1>3, <1>4, MemberOrNot DEF INSERTED, INTEND_TO_INSERT, INTEND_TO_DELETE
<1>13. Members' = Members \union {key[x]}
  <2>1. Members = {key[n] : n \in {m \in Nodes : IsMember(m)}}
    BY DEF Members, IsMember
  <2>2. Members' = {key[n] : n \in {m \in Nodes : IsMember(m)'}}
    BY <1>5 DEF Members, IsMember
  <2>3. \A n \in Nodes \ {x} : IsMember(n)' <=> IsMember(n)
    BY <1>5, <1>6 DEF IsMember, INSERTED, INTEND_TO_DELETE, AllNodes
  <2>4. IsMember(x)' /\ ~IsMember(x)
    BY <1>3, <1>4, <1>5, <1>6 DEF IsMember, INSERTED, INTEND_TO_DELETE, INTEND_TO_INSERT
  <2>5. {m \in Nodes : IsMember(m)'} = {m \in Nodes : IsMember(m)} \union {x}
    BY <1>4, <2>3, <2>4
  <2> HIDE DEF IsMember
  <2> QED
    BY <2>1, <2>2, <2>5
<1>14. /\ DInv'
       /\ \A v \in Threads : /\ Inserted(v)' <=> Inserted(v)
                             /\ Removed(v)' <=> Removed(v)
                             /\ pc'[v] \in Burying <=> pc[v] \in Burying
  BY <1>1, <1>7, CommitIsRight
<1>15. AllCommitted' = AllCommitted \union {u}
  <2>1. ASSUME NEW v \in Threads, Inserted(v)
        PROVE  Committed(v)' <=> Committed(v) \/ v = u
    <3>1. ~Removed(v) /\ newNode[v] \in AllNodes /\ newNode'[v] = newNode[v]
      BY <1>1, <1>5, <2>1, ActorsRun DEF Inserted, Removed, AllNodes
    <3>2. newNode[v] = x <=> v = u
      BY <1>1, <1>9, <2>1 DEF DInv, ActorsAreAlone
    <3> QED
      BY <1>6, <1>14, <2>1, <3>1, <3>2 DEF Committed, INSERTED, INTEND_TO_INSERT
  <2>2. ASSUME NEW v \in Threads, ~Inserted(v)
        PROVE  (Committed(v)' <=> Committed(v)) /\ v # u
    <3>1. pc[v] \in Burying => curr[v] \in AllNodes /\ curr[v] # x
      BY <1>3, BuryingNode DEF AllNodes, INTEND_TO_INSERT, INTEND_TO_DELETE, DELETED
    <3>2. pc[v] \in Burying => (state'[curr[v]] = DELETED <=> state[curr[v]] = DELETED)
      BY <1>6, <3>1
    <3> QED
      BY <1>5, <1>9, <1>14, <2>2, <3>2 DEF Committed, Burying
  <2> QED
    BY <2>1, <2>2 DEF AllCommitted
<1>16. PICK Q \in [Threads -> SUBSET BOOLEAN] :
         Knows(Q) /\ Promised(call, outcomes, Members, AllCommitted, Q)
  BY <1>8 DEF LInv
<1>17. PICK S : S = Members /\ S \in SUBSET Keys
  BY <1>1, MembersAreKeys
<1>18. CallsOf(call)
  BY DEF IInv, TypeOK, CallsOf
<1> DEFINE P == More(Q, call, S \union {key[x]})
<1>19. PICK R : R = P
  OBVIOUS
<1>20. Promised(call, outcomes, S \union {key[x]}, AllCommitted \union {u}, R)
  BY <1>8, <1>10, <1>11, <1>12, <1>16, <1>17, <1>18, <1>19, Born
<1>21. /\ R \in [Threads -> SUBSET BOOLEAN]
       /\ \A v \in Threads : Q[v] \subseteq R[v] /\ FreeAnswers(call[v], S \union {key[x]}) \subseteq R[v]
  BY <1>16, <1>19, MoreAnswers
<1> HIDE DEF P
<1>22. Knows(R)'
  <2>1. key[x] \in Members' /\ Members' = S \union {key[x]}
    BY <1>13, <1>17
  <2> QED
    BY <1>1, <1>7, <1>16, <1>21, <2>1, CommitKnows
<1>23. Promised(call, outcomes, Members, AllCommitted, R)'
  <2>1. Members' = S \union {key[x]} /\ UNCHANGED <<call, outcomes>>
    BY <1>5, <1>13, <1>17
  <2> QED
    BY <1>15, <1>20, <2>1 DEF Promised
<1> QED
  BY <1>14, <1>21, <1>22, <1>23 DEF LInv

(* A member is deleted: its removal has taken effect. *)
LEMMA BuryCASLInv ==
  ASSUME IInv, LInv, NEW t \in Threads, BuryCAS(t), Expects(Target(t), succ[t], INTEND_TO_DELETE)
  PROVE  LInv'
<1> SUFFICES ASSUME NEW x, x = Target(t) PROVE LInv'
  OBVIOUS
<1>1. DInv
  BY DEF LInv
<1>2. pc[t] = "buryCAS" /\ pc[t] \in Removing /\ pc[t] \in Burying /\ pc[t] # "idle"
  BY DEF BuryCAS, Removing, Burying
<1>3. state[x] = INTEND_TO_DELETE
  BY DEF Expects
<1>4. x \in Nodes /\ heap[x] = "linked" /\ x \in AllNodes
  <2>1. state[x] # DELETED
    BY <1>3 DEF INTEND_TO_DELETE, DELETED
  <2> QED
    BY <1>2, <2>1, CASTarget DEF AllNodes
<1>5. state' = [state EXCEPT ![x] = DELETED] /\ pc' = [pc EXCEPT ![t] = "bury"]
      /\ UNCHANGED <<key, next, heap, waits, call, curr, newNode, result, outcomes, phase>>
  BY DEF BuryCAS, stateCAS, Goto, memory, search, recovering
<1>6. state'[x] = DELETED /\ \A n \in AllNodes \ {x} : state'[n] = state[n]
  BY <1>4, <1>5 DEF IInv, TypeOK
<1>7. Commits(t, x)
  <2>1. OthersStay(t) /\ pc'[t] \in Burying
    BY <1>5 DEF OthersStay, Burying, IInv, TypeOK
  <2> QED
    BY <1>2, <1>3, <1>4, <1>5, <1>6, <2>1 DEF Commits
<1>8. phase = "running" /\ outcomes \in SUBSET DS!Configurations
  BY <1>1, <1>2, CallIsKnown
<1>9. PICK u \in Threads : Removed(u) /\ pc[u] \in Burying /\ curr[u] = x
  BY <1>1, <1>3, <1>4 DEF DInv, NodeIsRight
<1>10. key[x] \in Keys /\ call[u] = [op |-> "remove", arg |-> key[x]]
  <2>1. call[u].op = "remove" /\ key[x] = call[u].arg /\ pc[u] # "idle"
    BY <1>1, <1>9, ActorsRun, BuryingNode
  <2>2. call[u] \in DS!Calls
    BY <1>1, <2>1, CallIsKnown
  <2> QED
    BY <2>1, <2>2 DEF DS!Calls
<1>11. u \notin AllCommitted /\ ~Inserted(u)
  BY <1>3, <1>9 DEF AllCommitted, Committed, Inserted, Removed, INTEND_TO_DELETE, DELETED
<1>12. key[x] \in Members
  BY <1>3, <1>4, MemberOrNot
<1>13. Members' = Members \ {key[x]}
  <2>1. Members = {key[n] : n \in {m \in Nodes : IsMember(m)}}
    BY DEF Members, IsMember
  <2>2. Members' = {key[n] : n \in {m \in Nodes : IsMember(m)'}}
    BY <1>5 DEF Members, IsMember
  <2>3. \A n \in Nodes \ {x} : IsMember(n)' <=> IsMember(n)
    BY <1>5, <1>6 DEF IsMember, INSERTED, INTEND_TO_DELETE, AllNodes
  <2>4. ~IsMember(x)' /\ IsMember(x)
    BY <1>3, <1>4, <1>6 DEF IsMember, INSERTED, INTEND_TO_DELETE, DELETED
  <2>5. \A n \in Nodes : IsMember(n) /\ key[n] = key[x] => n = x
    BY <1>4 DEF IsMember, Linked, IInv, ListIsSorted
  <2>6. {m \in Nodes : IsMember(m)'} = {m \in Nodes : IsMember(m)} \ {x}
    BY <1>4, <2>3, <2>4
  <2> HIDE DEF IsMember
  <2> QED
    BY <1>4, <2>1, <2>2, <2>5, <2>6
<1>14. /\ DInv'
       /\ \A v \in Threads : /\ Inserted(v)' <=> Inserted(v)
                             /\ Removed(v)' <=> Removed(v)
                             /\ pc'[v] \in Burying <=> pc[v] \in Burying
  BY <1>1, <1>7, CommitIsRight
<1>15. AllCommitted' = AllCommitted \union {u}
  <2>1. ASSUME NEW v \in Threads, Inserted(v)
        PROVE  (Committed(v)' <=> Committed(v)) /\ v # u
    <3>1. ~Removed(v) /\ newNode[v] \in AllNodes /\ newNode'[v] = newNode[v]
      BY <1>1, <1>5, <2>1, ActorsRun DEF Inserted, Removed, AllNodes
    <3>2. state'[newNode[v]] = INTEND_TO_INSERT <=> state[newNode[v]] = INTEND_TO_INSERT
      BY <1>3, <1>6, <3>1 DEF INTEND_TO_INSERT, INTEND_TO_DELETE, DELETED
    <3> QED
      BY <1>9, <1>14, <2>1, <3>1, <3>2 DEF Committed
  <2>2. ASSUME NEW v \in Threads, ~Inserted(v), Removed(v), pc[v] \in Burying
        PROVE  Committed(v)' <=> Committed(v) \/ v = u
    <3>1. curr[v] \in AllNodes /\ curr'[v] = curr[v]
      BY <1>5, <2>2, BuryingNode DEF AllNodes
    <3>2. curr[v] = x <=> v = u
      BY <1>1, <1>9, <2>2 DEF DInv, ActorsAreAlone
    <3>3. pc'[v] \in Burying /\ Removed(v)' /\ ~Inserted(v)'
      BY <1>14, <2>2
    <3> QED
      BY <1>6, <2>2, <3>1, <3>2, <3>3 DEF Committed, Burying
  <2>3. ASSUME NEW v \in Threads, ~Inserted(v), ~(Removed(v) /\ pc[v] \in Burying)
        PROVE  (Committed(v)' <=> Committed(v)) /\ v # u
    BY <1>9, <1>14, <2>3 DEF Committed, Burying
  <2> QED
    BY <2>1, <2>2, <2>3 DEF AllCommitted
<1>16. PICK Q \in [Threads -> SUBSET BOOLEAN] :
         Knows(Q) /\ Promised(call, outcomes, Members, AllCommitted, Q)
  BY <1>8 DEF LInv
<1>17. PICK S : S = Members /\ S \in SUBSET Keys
  BY <1>1, MembersAreKeys
<1>18. CallsOf(call)
  BY DEF IInv, TypeOK, CallsOf
<1> DEFINE P == More(Q, call, S \ {key[x]})
<1>19. PICK R : R = P
  OBVIOUS
<1>20. Promised(call, outcomes, S \ {key[x]}, AllCommitted \union {u}, R)
  BY <1>8, <1>10, <1>11, <1>12, <1>16, <1>17, <1>18, <1>19, Died
<1>21. /\ R \in [Threads -> SUBSET BOOLEAN]
       /\ \A v \in Threads : Q[v] \subseteq R[v] /\ FreeAnswers(call[v], S \ {key[x]}) \subseteq R[v]
  BY <1>16, <1>19, MoreAnswers
<1> HIDE DEF P
<1>22. Knows(R)'
  <2>1. state[x] # INTEND_TO_INSERT /\ Members' = S \ {key[x]}
    BY <1>3, <1>13, <1>17 DEF INTEND_TO_INSERT, INTEND_TO_DELETE
  <2> QED
    BY <1>1, <1>7, <1>16, <1>21, <2>1, CommitKnows
<1>23. Promised(call, outcomes, Members, AllCommitted, R)'
  <2>1. Members' = S \ {key[x]} /\ UNCHANGED <<call, outcomes>>
    BY <1>5, <1>13, <1>17
  <2> QED
    BY <1>15, <1>20, <2>1 DEF Promised
<1> QED
  BY <1>14, <1>21, <1>22, <1>23 DEF LInv

-----------------------------------------------------------------------------
(* Calls and answers. *)

(* t calls d[t]; nobody's answers become more. *)
OneCalls(c, o, S, M, Q, t, d, P) ==
  /\ CallsOf(c) /\ CallsOf(d) /\ o \in SUBSET DS!Configurations /\ S \in SUBSET Keys
  /\ Promised(c, o, S, M, Q)
  /\ t \in Threads /\ c[t] = DS!None /\ t \notin M /\ d[t] # DS!None
  /\ \A u \in Threads : u # t => d[u] = c[u] /\ P[u] \subseteq Q[u]
  /\ P[t] \subseteq FreeAnswers(d[t], S)

(* What was promised is promised after the call. *)
LEMMA NewCallIsPromised ==
  ASSUME NEW c, NEW o, NEW S, NEW M, NEW Q, NEW t, NEW d, NEW P,
         OneCalls(c, o, S, M, Q, t, d, P)
  PROVE  Promised(d, o, S, M, P)
<1>1. /\ CallsOf(c) /\ CallsOf(d) /\ o \in SUBSET DS!Configurations /\ S \in SUBSET Keys
      /\ Promised(c, o, S, M, Q)
      /\ t \in Threads /\ c[t] = DS!None /\ t \notin M /\ d[t] # DS!None
      /\ \A u \in Threads : u # t => d[u] = c[u] /\ P[u] \subseteq Q[u]
      /\ P[t] \subseteq FreeAnswers(d[t], S)
  BY DEF OneCalls
<1> QED
  BY <1>1, PromiseToNew, ZenonT(60)

(* An operation begins. *)
LEMMA InvokeLInv ==
  ASSUME IInv, LInv, NEW t \in Threads, NEW c \in DS!Calls, Invoke(t, c)
  PROVE  LInv' /\ DS!Invoke(t, c)
<1>1. DInv
  BY DEF LInv
<1>2. pc[t] = "idle" /\ phase = "running" /\ CallIsRight(t) /\ newNode[t] = Nil
  BY <1>1 DEF Invoke, DInv, IInv, ThreadInv
<1>3. call[t] = DS!None /\ ~result[t]
  BY <1>2 DEF CallIsRight
<1>4. /\ call' = [call EXCEPT ![t] = c] /\ curr' = [curr EXCEPT ![t] = next[Head]]
      /\ pc' = [pc EXCEPT ![t] = IF c.op = "contains" THEN "walk" ELSE "find"]
      /\ UNCHANGED <<key, next, state, heap, waits, newNode, result, phase, outcomes>>
  BY DEF Invoke, StartSearch, Goto, volatile, memory, recovering
<1>5. OthersStay(t) /\ call'[t] = c /\ curr'[t] = next[Head]
      /\ pc'[t] = (IF c.op = "contains" THEN "walk" ELSE "find")
  BY <1>4 DEF OthersStay, IInv, TypeOK
<1>6. c.op \in {"insert", "remove", "contains"} /\ c.arg \in Keys /\ c # DS!None /\ c.arg \in Int
  <2>1. c.op \in {"insert", "remove", "contains"} /\ c.arg \in Keys
    BY DEF DS!Calls, DS!Operations
  <2>2. c.op # DS!None.op
    BY <2>1 DEF DS!None
  <2>3. c.arg \in Int
    BY <2>1, KeysAssumption
  <2> QED
    BY <2>1, <2>2, <2>3
<1>7. ~Inserted(t) /\ ~Removed(t) /\ ~Inserted(t)' /\ ~Removed(t)'
  BY <1>3, <1>4 DEF Inserted, Removed
<1>8. CallIsRight(t)'
  <2>1. pc'[t] \in {"walk", "find"} /\ pc'[t] \in LabelsOf(c.op) /\ pc'[t] # "done" /\ pc'[t] # "idle"
        /\ pc'[t] \notin Publishing
    BY <1>5, <1>6 DEF LabelsOf, Publishing
  <2>2. (pc[t] \in LabelsOf(call[t].op))' /\ Publishing' = Publishing
    BY <1>5, <2>1 DEF LabelsOf, Publishing, Private, Removing
  <2> QED
    BY <1>3, <1>4, <1>7, <2>1, <2>2 DEF CallIsRight
<1>9. ActorsAreAlone'
  BY <1>1, <1>5, <1>7, ActorsStayAlone
<1>10. ASSUME NEW n \in Nodes
       PROVE  NodeIsRight(n)'
  <2>1. NodeIsRight(n)
    BY <1>1 DEF DInv
  <2> QED
    BY <1>4, <1>5, <1>7, <2>1, NodeStaysRight
<1>11. outcomes \in SUBSET DS!Configurations
  BY <1>1 DEF DInv
<1>12. DInv'
  <2>1. phase' # "recovering" /\ outcomes' \subseteq DS!Configurations
    BY <1>2, <1>4, <1>11
  <2> QED
    BY <1>1, <1>4, <1>5, <1>8, <1>9, <1>10, <2>1, StepIsRight
<1>13. Members' = Members
  BY <1>4 DEF Members
<1>14. ASSUME NEW u \in Threads
       PROVE  Committed(u)' <=> Committed(u)
  <2>1. CASE u # t
    BY <1>4, <1>5, <2>1, OthersCommit
  <2>2. CASE u = t
    BY <1>7, <2>2 DEF Committed
  <2> QED
    BY <2>1, <2>2
<1>15. AllCommitted' = AllCommitted /\ t \notin AllCommitted
  BY <1>7, <1>14 DEF AllCommitted, Committed
<1>16. PICK Q \in [Threads -> SUBSET BOOLEAN] :
         Knows(Q) /\ Promised(call, outcomes, Members, AllCommitted, Q)
  BY <1>2 DEF LInv
<1>17. PICK a \in SUBSET BOOLEAN : a = FreeAnswers(c, Members)
  BY DEF FreeAnswers
<1>18. PICK P \in [Threads -> SUBSET BOOLEAN] : P = [Q EXCEPT ![t] = a]
  BY <1>16, <1>17
<1>19. P[t] = a /\ \A u \in Threads \ {t} : P[u] = Q[u]
  BY <1>16, <1>18
<1>20. ASSUME NEW u \in Threads
       PROVE  ThreadKnows(u, P[u])'
  <2>1. CASE u = t
    <3>1. FreeAnswers(call[u], Members)' \subseteq a
      BY <1>5, <1>13, <1>17, <2>1 DEF FreeAnswers
    <3>2. HelpIsKnown(u, a)'
      BY <1>5, <2>1 DEF HelpIsKnown, Publishing
    <3>3. \A n \in Nodes : t \notin waits'[n]
      <4>1. \A n \in Nodes : t \notin waits[n]
        BY <1>2 DEF IInv, RetiredIsClosed
      <4> QED
        BY <1>4, <4>1
    <3>4. c.op # "insert" /\ key[next[Head]] > c.arg => MayFail(a)
      <4>1. Head \in Linked /\ key[Head] < c.arg /\ key[next[Head]] \in Int
        <5>1. Head \in Linked
          BY DEF Linked
        <5>2. key[Head] < c.arg
          BY <1>6, KeysAssumption DEF IInv, SentinelsAreFixed
        <5> QED
          BY <5>1, <5>2, LinkedIsNode
      <4>2. key[next[Head]] > c.arg => c.arg \notin Members
        BY <1>6, <4>1, BetweenIsOut
      <4>3. c.op # "insert" /\ c.arg \notin Members => MayFail(FreeAnswers(c, Members))
        BY <1>6, MissMayAnswer
      <4> QED
        BY <1>17, <4>2, <4>3
    <3>5. MissIsKnown(u, a)'
      BY <1>4, <1>5, <2>1, <3>3, <3>4 DEF MissIsKnown
    <3>6. ThreadKnows(u, a)'
      BY <3>1, <3>2, <3>5 DEF ThreadKnows
    <3> QED
      BY <1>19, <2>1, <3>6
  <2>2. CASE u # t
    <3>1. PICK q : q = Q[u] /\ ThreadKnows(u, q) /\ q = P[u]
      BY <1>16, <1>19, <2>2 DEF Knows
    <3>2. UNCHANGED <<key, next, state, heap, waits>> /\ pc'[u] = pc[u] /\ call'[u] = call[u]
          /\ curr'[u] = curr[u] /\ newNode'[u] = newNode[u]
      BY <1>4, <1>5, <2>2 DEF OthersStay
    <3>3. ThreadKnows(u, q)'
      BY <1>13, <3>1, <3>2 DEF ThreadKnows, HelpIsKnown, MissIsKnown, FreeAnswers, Publishing
    <3> QED
      BY <3>1, <3>3
  <2> QED
    BY <2>1, <2>2
<1>21. Knows(P)'
  BY <1>20 DEF Knows
<1>22. Promised(call', outcomes, Members, AllCommitted, P)
  <2>1. CallsOf(call) /\ CallsOf(call')
    <3>1. call \in [Threads -> DS!Calls \union {DS!None}]
      BY DEF IInv, TypeOK
    <3>2. call' \in [Threads -> DS!Calls \union {DS!None}]
      BY <1>4, <3>1
    <3> QED
      BY <3>1, <3>2 DEF CallsOf
  <2>2. PICK d : d = call'
    OBVIOUS
  <2>3. d[t] # DS!None /\ CallsOf(d) /\ \A u \in Threads : u # t => d[u] = call[u] /\ P[u] \subseteq Q[u]
    BY <1>5, <1>6, <1>19, <2>1, <2>2 DEF OthersStay
  <2>4. PICK S : S = Members /\ S \in SUBSET Keys
    BY <1>1, MembersAreKeys
  <2>5. P[t] \subseteq FreeAnswers(d[t], S)
    BY <1>5, <1>17, <1>19, <2>2, <2>4
  <2>6. PICK cc, oo, M : cc = call /\ oo = outcomes /\ M = AllCommitted
    OBVIOUS
  <2>7. CallsOf(cc) /\ oo \in SUBSET DS!Configurations /\ Promised(cc, oo, S, M, Q)
        /\ cc[t] = DS!None /\ t \notin M /\ \A u \in Threads : u # t => d[u] = cc[u] /\ P[u] \subseteq Q[u]
    BY <1>3, <1>11, <1>15, <1>16, <2>1, <2>3, <2>4, <2>6
  <2>8. OneCalls(cc, oo, S, M, Q, t, d, P)
    BY <2>3, <2>4, <2>5, <2>7 DEF OneCalls
  <2>9. Promised(d, oo, S, M, P)
    BY <2>8, NewCallIsPromised
  <2> QED
    BY <2>2, <2>4, <2>6, <2>9
<1>23. Promised(call, outcomes, Members, AllCommitted, P)'
  BY <1>4, <1>13, <1>15, <1>22 DEF Promised
<1>24. LInv'
  BY <1>12, <1>21, <1>23 DEF LInv
<1>25. DS!Invoke(t, c)
  BY <1>3, <1>4 DEF DS!Invoke
<1> QED
  BY <1>24, <1>25

(* The answer t gives leaves configurations. *)
LEMMA AnswerType ==
  ASSUME IInv, DInv, NEW t \in Threads, NEW r
  PROVE  DS!AfterAnswer(t, r) \subseteq DS!Configurations
<1>1. CallsOf(call) /\ outcomes \in SUBSET DS!Configurations
  BY DEF IInv, TypeOK, CallsOf, DInv
<1>2. DS!Reach \subseteq DS!Configurations
  BY <1>1, ReachCloses DEF DS!Reach
<1> SUFFICES ASSUME NEW g \in DS!Reach
             PROVE  [set |-> g.set, res |-> DS!Restrict(g.res, DOMAIN g.res \ {t})]
                      \in DS!Configurations
  BY DEF DS!AfterAnswer
<1>3. PICK D \in SUBSET Threads : g.res \in [D -> BOOLEAN] /\ g.set \in SUBSET Keys
  BY <1>2 DEF DS!Configurations
<1>4. DS!Restrict(g.res, DOMAIN g.res \ {t}) \in [D \ {t} -> BOOLEAN]
  BY <1>3 DEF DS!Restrict
<1>5. D \ {t} \in SUBSET Threads
  OBVIOUS
<1>6. DS!Restrict(g.res, DOMAIN g.res \ {t}) \in UNION {[T -> BOOLEAN] : T \in SUBSET Threads}
  BY <1>4, <1>5
<1> HIDE DEF DS!Restrict
<1> QED
  BY <1>3, <1>6 DEF DS!Configurations

(* The nodes that become blank when t answers. *)
Gone(t) == {n \in Nodes : heap[n] = "unlinked" /\ waits[n] \subseteq {t}}

(* An answer blanks no node that anyone else has, or that is on the list. *)
LEMMA ReturnSpares ==
  ASSUME IInv, NEW t \in Threads, NEW r, pc[t] # "idle", Return(t, r)
  PROVE  /\ OthersStay(t) /\ pc'[t] = "idle" /\ call'[t] = DS!None /\ newNode'[t] = Nil /\ ~result'[t]
         /\ \A n \in Nodes : waits'[n] = waits[n] \ {t}
         /\ \A n \in Nodes : heap'[n] = heap[n] \/ (heap[n] = "unlinked" /\ heap'[n] = "free")
         /\ \A u \in Threads \ {t} : pc[u] # "idle" => \A n : MayHold(u, n) =>
              key'[n] = key[n] /\ next'[n] = next[n] /\ state'[n] = state[n]
         /\ \A n \in Linked : key'[n] = key[n] /\ next'[n] = next[n] /\ state'[n] = state[n]
<1>1. /\ call' = [call EXCEPT ![t] = DS!None] /\ pc' = [pc EXCEPT ![t] = "idle"]
      /\ curr' = [curr EXCEPT ![t] = Nil] /\ newNode' = [newNode EXCEPT ![t] = Nil]
      /\ result' = [result EXCEPT ![t] = FALSE] /\ Blank(Gone(t))
      /\ waits' = [m \in Nodes \union PNodes |->
                    IF QuiesceOnFree /\ m \in PNodes THEN waits[m] ELSE waits[m] \ {t}]
  BY DEF Return, Gone
<1>2. OthersStay(t) /\ pc'[t] = "idle" /\ call'[t] = DS!None /\ newNode'[t] = Nil /\ ~result'[t]
  BY <1>1 DEF OthersStay, IInv, TypeOK
<1>3. \A n \in Nodes : waits'[n] = waits[n] \ {t}
  <2>1. \A n \in Nodes : n \notin PNodes
    BY NodesAssumption
  <2> QED
    BY <1>1, <2>1
<1>4. \A n \in Nodes : heap'[n] = IF n \in Gone(t) THEN "free" ELSE heap[n]
  BY <1>1 DEF Blank, Blanked, IInv, TypeOK
<1>5. \A n \in AllNodes \ Gone(t) : key'[n] = key[n] /\ next'[n] = next[n] /\ state'[n] = state[n]
  BY <1>1 DEF Blank, Blanked, IInv, TypeOK
<1>6. \A n \in Gone(t) : n \in Nodes /\ heap[n] = "unlinked" /\ waits[n] \subseteq {t}
  BY DEF Gone
<1>7. \A n \in Linked : n \in AllNodes \ Gone(t)
  BY <1>6, NodesAssumption DEF Linked, AllNodes
<1>8. ASSUME NEW u \in Threads \ {t}, NEW n, MayHold(u, n)
      PROVE  n \in AllNodes \ Gone(t)
  BY <1>6, <1>7, <1>8, NodesAssumption DEF MayHold, AllNodes
<1> QED
  BY <1>2, <1>3, <1>4, <1>5, <1>6, <1>7, <1>8

(* An answer that the histories allow. *)
LEMMA ReturnLInv ==
  ASSUME IInv, LInv, NEW t \in Threads, pc[t] # "idle", NEW r \in BOOLEAN, Return(t, r),
         UNCHANGED phase,
         Inserted(t) \/ Removed(t) => Committed(t) /\ r = TRUE,
         ~Inserted(t) /\ ~Removed(t) => \A q : ThreadKnows(t, q) => r \in q
  PROVE  LInv' /\ outcomes' # {}
<1>1. DInv
  BY DEF LInv
<1>2. phase = "running" /\ call[t] # DS!None /\ outcomes \in SUBSET DS!Configurations
  BY <1>1, CallIsKnown
<1>3. /\ OthersStay(t) /\ pc'[t] = "idle" /\ call'[t] = DS!None /\ newNode'[t] = Nil /\ ~result'[t]
      /\ \A n \in Nodes : waits'[n] = waits[n] \ {t}
      /\ \A n \in Nodes : heap'[n] = heap[n] \/ (heap[n] = "unlinked" /\ heap'[n] = "free")
  BY ReturnSpares
<1>4. \A u \in Threads \ {t} : pc[u] # "idle" => \A n : MayHold(u, n) =>
              key'[n] = key[n] /\ next'[n] = next[n] /\ state'[n] = state[n]
  BY ReturnSpares
<1>5. \A n \in Nodes : heap[n] = "linked" => key'[n] = key[n] /\ state'[n] = state[n]
  BY ReturnSpares DEF Linked
<1>6. outcomes' = DS!AfterAnswer(t, r) /\ call' = [call EXCEPT ![t] = DS!None]
  BY DEF Return
<1>7. CallIsRight(t)' /\ ~Inserted(t)' /\ ~Removed(t)'
  BY <1>3 DEF CallIsRight, Inserted, Removed
<1>8. ActorsAreAlone'
  BY <1>1, <1>3, <1>7, ActorsStayAlone
<1>9. ASSUME NEW n \in Nodes
      PROVE  NodeIsRight(n)'
  <2>1. NodeIsRight(n)
    BY <1>1 DEF DInv
  <2>2. heap'[n] = "linked" => heap[n] = "linked" /\ key'[n] = key[n] /\ state'[n] = state[n]
    BY <1>3, <1>5
  <2>3. ~(Inserted(t) /\ newNode[t] = n /\ state[n] = INTEND_TO_INSERT)
    BY DEF Committed, Inserted, Removed
  <2>4. ~(Removed(t) /\ pc[t] \in Burying /\ curr[t] = n /\ state[n] = INTEND_TO_DELETE)
    BY DEF Committed, Inserted, Removed, INTEND_TO_DELETE, DELETED
  <2> QED
    BY <1>3, <2>1, <2>2, <2>3, <2>4, NodeStaysRight
<1>10. ASSUME NEW u \in Threads \ {t}
       PROVE  /\ Inserted(u) => key'[newNode[u]] = key[newNode[u]] /\ state'[newNode[u]] = state[newNode[u]]
              /\ Removed(u) /\ pc[u] \in Burying => state'[curr[u]] = state[curr[u]]
  <2>1. Inserted(u) => pc[u] # "idle" /\ MayHold(u, newNode[u])
    BY <1>1, ActorsRun
  <2>2. Removed(u) /\ pc[u] \in Burying => pc[u] # "idle" /\ MayHold(u, curr[u])
    BY BuryingNode
  <2> QED
    BY <1>4, <2>1, <2>2
<1>11. DInv'
  <2>1. phase' # "recovering" /\ outcomes' \subseteq DS!Configurations
    BY <1>1, <1>2, <1>6, AnswerType
  <2> QED
    BY <1>1, <1>3, <1>7, <1>8, <1>9, <1>10, <2>1, StepIsRight
<1>12. Members' = Members
  <2>1. ASSUME NEW n \in Nodes
        PROVE  (IsMember(n)' <=> IsMember(n)) /\ (IsMember(n) => key'[n] = key[n])
    BY <1>3, <1>5 DEF IsMember, INSERTED, INTEND_TO_DELETE
  <2> QED
    BY <2>1, MembersStay
<1>13. AllCommitted' = AllCommitted \ {t}
  <2>1. \A u \in Threads \ {t} : Committed(u)' <=> Committed(u)
    BY <1>3, <1>10, OthersCommit
  <2>2. ~(Committed(t)')
    BY <1>7 DEF Committed
  <2> QED
    BY <2>1, <2>2 DEF AllCommitted
<1>14. PICK Q \in [Threads -> SUBSET BOOLEAN] :
         Knows(Q) /\ Promised(call, outcomes, Members, AllCommitted, Q)
  BY <1>2 DEF LInv
<1>15. ASSUME NEW u \in Threads
       PROVE  ThreadKnows(u, Q[u])'
  <2>1. PICK q : q = Q[u] /\ ThreadKnows(u, q)
    BY <1>14 DEF Knows
  <2>2. CASE u = t \/ pc[u] = "idle"
    <3>1. pc'[u] = "idle"
      BY <1>3, <2>2 DEF OthersStay
    <3> QED
      BY <3>1 DEF ThreadKnows, HelpIsKnown, MissIsKnown, Publishing
  <2>3. CASE u # t /\ pc[u] # "idle"
    <3>1. MayHold(u, curr[u])
      BY <2>3 DEF IInv, ThreadInv, HoldsWhatItMay
    <3>2. key'[curr[u]] = key[curr[u]] /\ state'[curr[u]] = state[curr[u]]
      BY <1>4, <2>3, <3>1
    <3>3. ASSUME NEW n \in Nodes, u \in waits'[n]
          PROVE  /\ u \in waits[n]
                 /\ key'[n] = key[n] /\ next'[n] = next[n] /\ key'[next[n]] = key[next[n]]
      <4>1. u \in waits[n]
        BY <1>3, <3>3
      <4>2. MayHold(u, n) /\ MayHold(u, next[n])
        BY <4>1, WaitedFor
      <4> QED
        BY <1>4, <2>3, <4>1, <4>2
    <3>4. /\ call'[u] = call[u] /\ curr'[u] = curr[u] /\ newNode'[u] = newNode[u] /\ pc'[u] = pc[u]
      BY <1>3, <2>3 DEF OthersStay
    <3>5. StaysTrue(u, q)
      BY <3>2, <3>3, <3>4 DEF StaysTrue, Publishing
    <3>6. FreeAnswers(call[u], Members') \subseteq q
      BY <1>12, <2>1, <2>3 DEF ThreadKnows
    <3>7. ThreadKnows(u, q)'
      BY <1>1, <2>1, <2>3, <3>5, <3>6, StillKnows
    <3> QED
      BY <2>1, <3>7
  <2> QED
    BY <2>2, <2>3
<1>16. Knows(Q)'
  BY <1>15 DEF Knows
<1>17. PICK c, o, S, M, d, p : /\ c = call /\ o = outcomes /\ S = Members /\ M = AllCommitted
                               /\ d = call' /\ p = outcomes'
  OBVIOUS
<1>18. OneAnswers(c, o, S, M, Q, t, r, d, p)
  <2>1. CallsOf(c) /\ CallsOf(d)
    <3>1. call \in [Threads -> DS!Calls \union {DS!None}]
      BY DEF IInv, TypeOK
    <3>2. call' \in [Threads -> DS!Calls \union {DS!None}]
      BY <1>6, <3>1
    <3> QED
      BY <1>17, <3>1, <3>2 DEF CallsOf
  <2>2. S \in SUBSET Keys /\ o \in SUBSET DS!Configurations /\ Promised(c, o, S, M, Q)
    BY <1>1, <1>2, <1>14, <1>17, MembersAreKeys
  <2>3. M \subseteq {u \in Threads : c[u] # DS!None}
    <3>1. \A u \in Threads : Committed(u) => pc[u] # "idle"
      BY <1>1, ActorsRun DEF Committed
    <3>2. \A u \in Threads : pc[u] # "idle" => call[u] # DS!None
      BY <1>1, CallIsKnown
    <3> QED
      BY <1>17, <3>1, <3>2 DEF AllCommitted
  <2>4. d[t] = DS!None /\ c[t] # DS!None /\ \A u \in Threads : u # t => d[u] = c[u]
    BY <1>2, <1>3, <1>17 DEF OthersStay
  <2>5. p = Answering(c, o, t, r)
    BY <1>6, <1>17 DEF DS!AfterAnswer, DS!Reach, Answering
  <2>6. t \in M => r = TRUE
    BY <1>17 DEF AllCommitted, Committed
  <2>7. t \notin M => r \in Q[t]
    <3>1. t \notin M => ~Inserted(t) /\ ~Removed(t)
      BY <1>17 DEF AllCommitted
    <3>2. ThreadKnows(t, Q[t])
      BY <1>14 DEF Knows
    <3> QED
      BY <3>1, <3>2
  <2> QED
    BY <2>1, <2>2, <2>3, <2>4, <2>5, <2>6, <2>7 DEF OneAnswers
<1>19. Promised(d, p, S, M \ {t}, Q) /\ p # {}
  BY <1>18, OneAnswerIsKept
<1>20. Promised(call, outcomes, Members, AllCommitted, Q)' /\ outcomes' # {}
  BY <1>12, <1>13, <1>17, <1>19
<1> QED
  BY <1>11, <1>14, <1>16, <1>20 DEF LInv

(* Another thread came first: the insertion begins again. *)
LEMMA LinkFailsWorks ==
  ASSUME IInv, DInv, NEW t \in Threads, LinkNode(t), ~Expects(pred[t], curr[t], predState[t])
  PROVE  Works(t)
<1>1. /\ pc[t] = "link" /\ pc' = [pc EXCEPT ![t] = "retry"] /\ waits' = waits /\ curr' = curr
      /\ UNCHANGED Seen
  BY DEF LinkNode, Goto, Seen, recovering, search
<1>2. OthersStay(t) /\ pc'[t] = "retry"
  BY <1>1 DEF OthersStay, Seen, IInv, TypeOK
<1>3. call[t].op = "insert" /\ ~Removed(t)
  BY <1>1, OperationOf DEF Private, Removed
<1>4. pc'[t] \in LabelsOf(call[t].op) /\ pc[t] \notin Publishing /\ pc'[t] \notin Publishing
  BY <1>1, <1>2, <1>3 DEF LabelsOf, Private, Publishing
<1>5. pc[t] # "idle" /\ pc'[t] # "done"
  BY <1>1, <1>2
<1> QED
  BY <1>1, <1>2, <1>3, <1>4, <1>5 DEF Works, Seen

-----------------------------------------------------------------------------
(* Every answer is one that the histories allow. *)

(* An answer that changes nothing now is known to t. *)
LEMMA FreeAnswerIsKnown ==
  ASSUME NEW t, pc[t] # "idle", NEW q, ThreadKnows(t, q), NEW r \in BOOLEAN,
         r = DS!AnswerOf(call[t], Members), DS!SetAfter(call[t], Members) = Members
  PROVE  r \in q
BY DEF ThreadKnows, FreeAnswers

(* Who meets its key sees whether it is in the set. *)
LEMMA FoundNode ==
  ASSUME IInv, DInv, NEW t \in Threads, pc[t] # "idle", Found(t), state[curr[t]] # DELETED
  PROVE  /\ curr[t] \in Nodes /\ heap[curr[t]] = "linked"
         /\ call[t].arg \in Members <=> state[curr[t]] \in {INSERTED, INTEND_TO_DELETE}
<1>1. MayHold(t, curr[t])
  BY DEF IInv, ThreadInv, HoldsWhatItMay
<1>2. call[t].arg \in Keys
  BY CallIsKnown
<1>3. curr[t] # Head /\ curr[t] # Tail
  BY <1>2, KeysAssumption DEF Found, IInv, SentinelsAreFixed
<1>4. curr[t] \in Nodes /\ heap[curr[t]] = "linked"
  BY <1>1, <1>3, WaitedFor DEF MayHold, Linked
<1> QED
  BY <1>4, MemberOrNot DEF Found

(* Who gets past its key, or meets it deleted or not yet in, may answer FALSE. *)
LEMMA NotFound ==
  ASSUME IInv, DInv, NEW t \in Threads, pc[t] # "idle", call[t].op # "insert",
         key[curr[t]] >= call[t].arg,
         ~(Found(t) /\ state[curr[t]] \in {INSERTED, INTEND_TO_DELETE}),
         NEW q, ThreadKnows(t, q)
  PROVE  MayFail(q)
<1>1. call[t].op \in {"remove", "contains"} /\ call[t].arg \in Keys
  BY CallIsKnown
<1>2. MayHold(t, curr[t]) /\ key[curr[t]] \in Int /\ call[t].arg \in Int
  BY <1>1, Holding, KeysAssumption DEF IInv, TypeOK, ThreadInv, HoldsWhatItMay
<1>3. CASE ~Found(t)
  <2>1. key[curr[t]] > call[t].arg
    BY <1>2, <1>3 DEF Found
  <2> QED
    BY <2>1 DEF ThreadKnows, MissIsKnown
<1>4. CASE Found(t) /\ state[curr[t]] # DELETED
  <2>1. call[t].arg \notin Members
    BY <1>4, FoundNode
  <2>2. MayFail(FreeAnswers(call[t], Members))
    BY <1>1, <2>1, MissMayAnswer
  <2> QED
    BY <2>2 DEF ThreadKnows, MayFail
<1>5. CASE Found(t) /\ state[curr[t]] = DELETED
  <2>1. curr[t] # Head /\ curr[t] # Tail
    BY <1>1, <1>5, KeysAssumption DEF Found, IInv, SentinelsAreFixed
  <2>2. CASE curr[t] \in Nodes /\ heap[curr[t]] = "linked"
    BY <1>5, <2>2, DeletedTells DEF Found
  <2>3. CASE curr[t] \in Nodes /\ t \in waits[curr[t]]
    BY <1>5, <2>3 DEF Found, ThreadKnows, MissIsKnown
  <2> QED
    BY <1>2, <2>1, <2>2, <2>3 DEF MayHold, Linked
<1> QED
  BY <1>3, <1>4, <1>5

(* remove, once it has trimmed. *)
LEMMA DoneLInv ==
  ASSUME IInv, LInv, NEW t \in Threads, Done(t)
  PROVE  LInv' /\ outcomes' # {}
<1>1. DInv /\ pc[t] = "done" /\ Return(t, TRUE) /\ phase' = phase
  BY DEF LInv, Done, recovering
<1>2. Removed(t) /\ pc[t] \notin Burying /\ pc[t] # "idle"
  BY <1>1 DEF DInv, CallIsRight, Burying
<1>3. Committed(t)
  BY <1>2 DEF Committed
<1> QED
  BY <1>1, <1>2, <1>3, ReturnLInv

(* insert, when the key is there. *)
LEMMA InsertFoundLInv ==
  ASSUME IInv, LInv, NEW t \in Threads, InsertFound(t)
  PROVE  LInv' /\ outcomes' # {}
<1>1. /\ DInv /\ Return(t, FALSE) /\ phase' = phase /\ pc[t] = "find" /\ call[t].op = "insert"
      /\ Found(t) /\ state[curr[t]] \notin {DELETED, INTEND_TO_INSERT}
  BY DEF LInv, InsertFound, FindStops, recovering
<1>2. ~Inserted(t) /\ ~Removed(t)
  BY <1>1, ActorsRun DEF Publishing, Removed
<1>3. call[t].arg \in Members
  <2>1. curr[t] \in Nodes
    BY <1>1, FoundNode
  <2>2. state[curr[t]] \in States
    BY <2>1 DEF IInv, TypeOK, AllNodes
  <2> QED
    BY <1>1, <2>2, FoundNode DEF States
<1>4. ASSUME NEW q, ThreadKnows(t, q)
      PROVE  FALSE \in q
  <2>1. DS!AnswerOf(call[t], Members) = FALSE
    BY <1>1, <1>3 DEF DS!AnswerOf
  <2>2. DS!SetAfter(call[t], Members) = Members
    BY <1>1, <1>3 DEF DS!SetAfter
  <2> QED
    BY <1>1, <1>4, <2>1, <2>2, FreeAnswerIsKnown
<1> QED
  BY <1>1, <1>2, <1>4, ReturnLInv

(* insert, once the node is in: its own, or one that it helped to get in. *)
LEMMA PublishedLInv ==
  ASSUME IInv, LInv, NEW t \in Threads, Published(t)
  PROVE  LInv' /\ outcomes' # {}
<1>1. /\ DInv /\ Return(t, result[t]) /\ phase' = phase /\ pc[t] = "publish"
      /\ state[Target(t)] # INTEND_TO_INSERT /\ pc[t] # "idle" /\ pc[t] \in Publishing
  BY DEF LInv, Published, recovering, Publishing
<1>2. CallIsRight(t) /\ call[t].op = "insert"
  BY <1>1, OperationOf DEF DInv
<1>3. result[t] <=> newNode[t] # Nil
  BY <1>1, <1>2 DEF CallIsRight
<1>4. result[t] \in BOOLEAN
  BY DEF IInv, TypeOK
<1>5. CASE result[t]
  <2>1. Inserted(t) /\ Committed(t) /\ result[t] = TRUE
    BY <1>1, <1>2, <1>3, <1>4, <1>5 DEF Inserted, Committed, Target
  <2> QED
    BY <1>1, <1>4, <2>1, ReturnLInv
<1>6. CASE ~result[t]
  <2>1. ~Inserted(t) /\ ~Removed(t) /\ newNode[t] = Nil /\ result[t] = FALSE
    BY <1>3, <1>4, <1>6 DEF Inserted, Removed
  <2>2. \A q : ThreadKnows(t, q) => FALSE \in q
    BY <1>1, <2>1 DEF ThreadKnows, HelpIsKnown, MayFail, Target
  <2>3. Return(t, FALSE)
    BY <1>1, <2>1
  <2> QED
    BY <1>1, <2>1, <2>2, <2>3, ReturnLInv
<1> QED
  BY <1>5, <1>6

(* remove, when the key is not there, or somebody else removed it. *)
LEMMA RemoveFailsLInv ==
  ASSUME IInv, LInv, NEW t \in Threads, RemoveMiss(t) \/ BuriedByOther(t)
  PROVE  LInv' /\ outcomes' # {}
<1>1. DInv /\ Return(t, FALSE) /\ phase' = phase
  BY DEF LInv, RemoveMiss, BuriedByOther, recovering
<1>2. /\ call[t].op = "remove" /\ pc[t] # "idle" /\ ~Removed(t) /\ ~Inserted(t)
      /\ key[curr[t]] >= call[t].arg
      /\ ~(Found(t) /\ state[curr[t]] \in {INSERTED, INTEND_TO_DELETE})
  <2>1. CASE RemoveMiss(t)
    <3>1. /\ pc[t] = "find" /\ call[t].op = "remove" /\ key[curr[t]] >= call[t].arg
          /\ ~Found(t) \/ state[curr[t]] = INTEND_TO_INSERT
      BY <2>1 DEF RemoveMiss, FindStops
    <3>2. ~Removed(t) /\ ~Inserted(t)
      BY <1>1, <3>1, ActorsRun DEF Burying, Inserted
    <3> QED
      BY <3>1, <3>2 DEF INTEND_TO_INSERT, INSERTED, INTEND_TO_DELETE
  <2>2. CASE BuriedByOther(t)
    <3>1. pc[t] = "bury" /\ state[curr[t]] # INTEND_TO_DELETE /\ ~result[t]
      BY <2>2 DEF BuriedByOther
    <3>2. pc[t] \in Burying /\ pc[t] \in Removing
      BY <3>1 DEF Burying, Removing
    <3>3. curr[t] \in Nodes /\ key[curr[t]] = call[t].arg /\ state[curr[t]] = DELETED
      BY <3>1, <3>2, BuryingNode
    <3>4. call[t].op = "remove" /\ call[t].arg \in Keys
      BY <1>1, <3>1, <3>2, OperationOf, CallIsKnown
    <3>5. ~Removed(t) /\ ~Inserted(t)
      BY <3>1 DEF Inserted, Removed
    <3>6. key[curr[t]] >= call[t].arg
      <4>1. call[t].arg \in Int
        BY <3>4, KeysAssumption
      <4>2. call[t].arg >= call[t].arg
        BY <4>1
      <4> QED
        BY <3>3, <4>2
    <3> QED
      BY <3>1, <3>3, <3>4, <3>5, <3>6 DEF DELETED, INSERTED, INTEND_TO_DELETE
  <2> QED
    BY <2>1, <2>2
<1>3. \A q : ThreadKnows(t, q) => FALSE \in q
  BY <1>1, <1>2, NotFound DEF MayFail
<1> QED
  BY <1>1, <1>2, <1>3, ReturnLInv

(* contains answers. *)
LEMMA ContainsAnswersLInv ==
  ASSUME IInv, LInv, NEW t \in Threads, ContainsAnswers(t)
  PROVE  LInv' /\ outcomes' # {}
<1>1. /\ DInv /\ pc[t] = "walk" /\ key[curr[t]] >= call[t].arg /\ phase' = phase
      /\ Return(t, Found(t) /\ state[curr[t]] \in {INSERTED, INTEND_TO_DELETE})
  BY DEF LInv, ContainsAnswers, recovering
<1>2. call[t].op = "contains" /\ pc[t] # "idle"
  BY <1>1, OperationOf
<1>3. ~Inserted(t) /\ ~Removed(t)
  BY <1>2 DEF Inserted, Removed
<1>4. CASE Found(t) /\ state[curr[t]] \in {INSERTED, INTEND_TO_DELETE}
  <2>1. Return(t, TRUE)
    <3>1. (Found(t) /\ state[curr[t]] \in {INSERTED, INTEND_TO_DELETE}) = TRUE
      BY <1>4
    <3> QED
      BY <1>1, <3>1
  <2>2. call[t].arg \in Members
    BY <1>1, <1>2, <1>4, FoundNode DEF INSERTED, INTEND_TO_DELETE, DELETED
  <2>3. DS!AnswerOf(call[t], Members) = TRUE
    BY <1>2, <2>2 DEF DS!AnswerOf
  <2>4. DS!SetAfter(call[t], Members) = Members
    BY <1>2 DEF DS!SetAfter
  <2>5. \A q : ThreadKnows(t, q) => TRUE \in q
    BY <1>2, <2>3, <2>4, FreeAnswerIsKnown
  <2> QED
    BY <1>1, <1>2, <1>3, <2>1, <2>5, ReturnLInv
<1>5. CASE ~(Found(t) /\ state[curr[t]] \in {INSERTED, INTEND_TO_DELETE})
  <2>1. Return(t, FALSE)
    <3>1. (Found(t) /\ state[curr[t]] \in {INSERTED, INTEND_TO_DELETE}) = FALSE
      BY <1>5
    <3> QED
      BY <1>1, <3>1
  <2>2. \A q : ThreadKnows(t, q) => FALSE \in q
    BY <1>1, <1>2, <1>5, NotFound DEF MayFail
  <2> QED
    BY <1>1, <1>2, <1>3, <2>1, <2>2, ReturnLInv
<1> QED
  BY <1>4, <1>5

-----------------------------------------------------------------------------
(* A crash. The operations under way that NVM has already seen take effect,   *)
(* the others do not.                                                        *)

(* The set S after the insertions and the removals of the threads in X, none  *)
(* of which removes a key that another inserts.                              *)
InsertedBy(c, X) == {c[t].arg : t \in {u \in X : c[u].op = "insert"}}
RemovedBy(c, X) == {c[t].arg : t \in {u \in X : c[u].op = "remove"}}
AfterAll(c, S, X) == (S \union InsertedBy(c, X)) \ RemovedBy(c, X)

(* The histories allow AfterAll, with answers for those in M and in X. *)
AllowsAll(c, o, S, M, X) ==
  \E h \in DS!ReachFrom(c, o) : h.set = AfterAll(c, S, X) /\ DOMAIN h.res = M \union X

(* One more operation. *)
LEMMA AfterOneMore ==
  ASSUME NEW c, NEW S, NEW X, NEW t \in X, c[t].op \in {"insert", "remove"},
         \A u, v \in X : c[u].op = "insert" /\ c[v].op = "remove" => c[u].arg # c[v].arg
  PROVE  DS!SetAfter(c[t], AfterAll(c, S, X \ {t})) = AfterAll(c, S, X)
<1>1. CASE c[t].op = "insert"
  <2>1. InsertedBy(c, X) = InsertedBy(c, X \ {t}) \union {c[t].arg}
    BY <1>1 DEF InsertedBy
  <2>2. RemovedBy(c, X) = RemovedBy(c, X \ {t})
    BY <1>1 DEF RemovedBy
  <2>3. c[t].arg \notin RemovedBy(c, X)
    BY <1>1 DEF RemovedBy
  <2>4. DS!SetAfter(c[t], AfterAll(c, S, X \ {t})) = AfterAll(c, S, X \ {t}) \union {c[t].arg}
    BY <1>1 DEF DS!SetAfter
  <2> QED
    BY <2>1, <2>2, <2>3, <2>4 DEF AfterAll
<1>2. CASE c[t].op = "remove"
  <2>1. RemovedBy(c, X) = RemovedBy(c, X \ {t}) \union {c[t].arg}
    BY <1>2 DEF RemovedBy
  <2>2. InsertedBy(c, X) = InsertedBy(c, X \ {t})
    BY <1>2 DEF InsertedBy
  <2>3. DS!SetAfter(c[t], AfterAll(c, S, X \ {t})) = AfterAll(c, S, X \ {t}) \ {c[t].arg}
    BY <1>2 DEF DS!SetAfter
  <2> QED
    BY <2>1, <2>2, <2>3 DEF AfterAll
<1> QED
  BY <1>1, <1>2

(* All operations in W may take effect before the crash. *)
LEMMA AllTakeEffect ==
  ASSUME NEW c, CallsOf(c), NEW o \in SUBSET DS!Configurations,
         NEW g \in DS!ReachFrom(c, o), NEW W \in SUBSET Threads, W \intersect DOMAIN g.res = {},
         \A t \in W : c[t] # DS!None /\ c[t].op \in {"insert", "remove"},
         \A t, u \in W : c[t].op = "insert" /\ c[u].op = "remove" => c[t].arg # c[u].arg
  PROVE  AllowsAll(c, o, g.set, DOMAIN g.res, W)
<1> SUFFICES ASSUME NEW S, S = g.set, NEW M, M = DOMAIN g.res
             PROVE  AllowsAll(c, o, S, M, W)
  OBVIOUS
<1> DEFINE I == {n \in Nat : \A X \in SUBSET W : Cardinality(X) = n => AllowsAll(c, o, S, M, X)}
<1>1. \A X \in SUBSET W : IsFiniteSet(X) /\ Cardinality(X) \in Nat
  BY ThreadsAssumption, FS_Subset, FS_CardinalityType
<1>2. 0 \in I
  <2> SUFFICES ASSUME NEW X \in SUBSET W, Cardinality(X) = 0
               PROVE  AllowsAll(c, o, S, M, X)
    OBVIOUS
  <2>1. X = {}
    BY <1>1, FS_EmptySet
  <2>2. AfterAll(c, S, {}) = S
    BY DEF AfterAll, InsertedBy, RemovedBy
  <2> QED
    BY <2>1, <2>2 DEF AllowsAll
<1>3. ASSUME NEW n \in Nat, n \in I
      PROVE  n + 1 \in I
  <2> SUFFICES ASSUME NEW X \in SUBSET W, Cardinality(X) = n + 1
               PROVE  AllowsAll(c, o, S, M, X)
    OBVIOUS
  <2>1. PICK t \in X : TRUE
    <3> HIDE DEF I
    <3> QED
      BY FS_EmptySet
  <2>2. PICK Y \in SUBSET W : Y = X \ {t}
    OBVIOUS
  <2>3. Cardinality(Y) = n
    <3>1. IsFiniteSet(X) /\ t \in X
      BY <1>1, <2>1
    <3>2. Cardinality(X) = n + 1
      OBVIOUS
    <3> HIDE DEF I
    <3>3. Cardinality(X \ {t}) = Cardinality(X) - 1
      BY <3>1, FS_RemoveElement, ZenonT(30)
    <3> QED
      BY <2>2, <3>2, <3>3
  <2>4. PICK h \in DS!ReachFrom(c, o) : h.set = AfterAll(c, S, Y) /\ DOMAIN h.res = M \union Y
    BY <1>3, <2>3 DEF AllowsAll
  <2>5. t \in DS!Running(c, h)
    BY <2>1, <2>2, <2>4 DEF DS!Running
  <2>6. PICK k : k = DS!TakeEffect(c, h, t)
    OBVIOUS
  <2>7. k \in DS!ReachFrom(c, o)
    BY <2>5, <2>6, ReachCloses
  <2>8. k.set = DS!SetAfter(c[t], AfterAll(c, S, Y)) /\ DOMAIN k.res = (M \union Y) \union {t}
    BY <2>4, <2>6 DEF DS!TakeEffect
  <2>9. k.set = AfterAll(c, S, X)
    BY <2>1, <2>2, <2>8, AfterOneMore
  <2>10. DOMAIN k.res = M \union X
    BY <2>1, <2>2, <2>8
  <2> QED
    BY <2>7, <2>9, <2>10 DEF AllowsAll
<1> HIDE DEF I
<1>4. Nat \subseteq I
  BY <1>2, <1>3, SetInduction
<1> QED
  BY <1>1, <1>4 DEF I

(* The insertions that NVM has, and the removals, before threads see them.    *)
Births == {t \in Threads : /\ Inserted(t) /\ state[newNode[t]] = INTEND_TO_INSERT
                           /\ IsValid(nvm[pptr[newNode[t]]])}
Deaths == {t \in Threads : /\ Removed(t) /\ pc[t] \in Burying /\ state[curr[t]] # DELETED
                           /\ ~IsValid(nvm[pptr[curr[t]]])}

(* What NVM tells of a node on the list. *)
LEMMA LinkedInNVM ==
  ASSUME IInv, AInv, PInv, NEW n \in Nodes, heap[n] = "linked"
  PROVE  /\ pptr[n] \in PNodes /\ state[n] \in States
         /\ state[n] = INSERTED => IsValid(nvm[pptr[n]])
         /\ state[n] = DELETED => ~IsValid(nvm[pptr[n]])
         /\ state[n] # INTEND_TO_INSERT \/ IsValid(nvm[pptr[n]]) => nvm[pptr[n]].key = key[n]
<1>1. Attached(n)
  BY DEF Attached, Live
<1>2. NodePersists(n) /\ pptr[n] \in PNodes /\ state[n] \in States
  BY <1>1 DEF PInv, NodesPersist, AInv, OwnersHavePNodes, IInv, TypeOK, AllNodes
<1>3. PICK line : line = nvm[pptr[n]]
  OBVIOUS
<1>4. line.validEnd \in BOOLEAN /\ line.deleted \in BOOLEAN /\ pValidity[n] \in BOOLEAN
  BY <1>2, <1>3 DEF IInv, TypeOK
<1>5. state[n] # INTEND_TO_INSERT => Written(line, n)
  BY <1>2, <1>3 DEF NodePersists
<1>6. state[n] = INTEND_TO_INSERT /\ IsValid(line) => Written(line, n)
  <2> SUFFICES ASSUME state[n] = INTEND_TO_INSERT, IsValid(line)
               PROVE  Written(line, n)
    OBVIOUS
  <2>1. line.deleted = ~pValidity[n]
    BY <1>2, <1>3 DEF NodePersists
  <2>2. line.validEnd # line.deleted
    BY DEF IsValid
  <2>3. line.validEnd = pValidity[n]
    BY <1>4, <2>1, <2>2
  <2> QED
    BY <1>2, <1>3, <2>3 DEF NodePersists
<1>7. state[n] = INSERTED => IsValid(line)
  <2> SUFFICES ASSUME state[n] = INSERTED PROVE IsValid(line)
    OBVIOUS
  <2>1. line.deleted = ~pValidity[n]
    BY <1>2, <1>3 DEF NodePersists
  <2>2. Written(line, n)
    BY <1>5 DEF INSERTED, INTEND_TO_INSERT
  <2> QED
    BY <1>4, <2>1, <2>2 DEF Written, IsValid
<1>8. state[n] = DELETED => ~IsValid(line)
  BY <1>2, <1>3, <1>5 DEF NodePersists, DELETED, INTEND_TO_INSERT, Written, IsValid
<1> QED
  BY <1>2, <1>3, <1>5, <1>6, <1>7, <1>8 DEF Written

(* What NVM holds is what the set would be after those operations. *)
LEMMA PersistedAfterAll ==
  ASSUME IInv, AInv, PInv, DInv, phase = "running"
  PROVE  Persisted = AfterAll(call, Members, Births \union Deaths)
<1>1. todo = {}
  BY DEF IInv, RecoveryIsAlone
<1>2. ASSUME NEW t \in Births
      PROVE  /\ newNode[t] \in Nodes /\ heap[newNode[t]] = "linked" /\ call[t].op = "insert"
             /\ key[newNode[t]] = call[t].arg /\ t \in Threads
             /\ state[newNode[t]] = INTEND_TO_INSERT /\ IsValid(nvm[pptr[newNode[t]]])
  <2>1. Inserted(t) /\ state[newNode[t]] = INTEND_TO_INSERT /\ t \in Threads
        /\ IsValid(nvm[pptr[newNode[t]]])
    BY DEF Births
  <2>2. newNode[t] \in Nodes /\ MayHold(t, newNode[t]) /\ key[newNode[t]] = call[t].arg
        /\ call[t].op = "insert"
    BY <2>1, ActorsRun
  <2>3. t \notin waits[newNode[t]]
    BY <2>1, <2>2, WaitedFor DEF INTEND_TO_INSERT, DELETED
  <2>4. heap[newNode[t]] = "linked"
    BY <2>2, <2>3, NodesAssumption DEF MayHold, Linked
  <2> QED
    BY <2>1, <2>2, <2>4
<1>3. ASSUME NEW t \in Deaths
      PROVE  /\ curr[t] \in Nodes /\ heap[curr[t]] = "linked" /\ call[t].op = "remove"
             /\ key[curr[t]] = call[t].arg /\ t \in Threads
             /\ state[curr[t]] = INTEND_TO_DELETE /\ ~IsValid(nvm[pptr[curr[t]]])
  <2>1. Removed(t) /\ pc[t] \in Burying /\ state[curr[t]] # DELETED /\ t \in Threads
        /\ ~IsValid(nvm[pptr[curr[t]]])
    BY DEF Deaths
  <2> QED
    BY <2>1, BuryingNode DEF Removed
<1>4. \A t \in Births, u \in Deaths : newNode[t] # curr[u]
  BY <1>2, <1>3 DEF INTEND_TO_INSERT, INTEND_TO_DELETE
<1>5. ASSUME NEW m \in Nodes, NEW n \in Nodes, heap[m] = "linked", heap[n] = "linked", key[m] = key[n]
      PROVE  m = n
  BY <1>5 DEF IInv, ListIsSorted, Linked
<1>6. PICK W : W = Births \union Deaths
  OBVIOUS
<1>7. InsertedBy(call, W) = {key[newNode[t]] : t \in Births}
  <2>1. {u \in W : call[u].op = "insert"} = Births
    BY <1>2, <1>3, <1>6
  <2> QED
    BY <1>2, <2>1 DEF InsertedBy
<1>8. RemovedBy(call, W) = {key[curr[t]] : t \in Deaths}
  <2>1. {u \in W : call[u].op = "remove"} = Deaths
    BY <1>2, <1>3, <1>6
  <2> QED
    BY <1>3, <2>1 DEF RemovedBy
<1>9. ASSUME NEW k \in Persisted
      PROVE  (k \in Members \/ k \in InsertedBy(call, W)) /\ k \notin RemovedBy(call, W)
  <2>1. PICK p \in PNodes : IsValid(nvm[p]) /\ nvm[p].key = k
    BY DEF Persisted
  <2>2. PICK n \in Nodes : heap[n] = "linked" /\ pptr[n] = p /\ Written(nvm[p], n)
                           /\ state[n] # DELETED
    <3>1. nvm[p].validEnd # nvm[p].deleted
      BY <2>1 DEF IsValid
    <3> QED
      BY <1>1, <3>1, ValidHasOwner
  <2>3. key[n] = k /\ state[n] \in States /\ NodeIsRight(n)
    BY <2>1, <2>2 DEF Written, IInv, TypeOK, AllNodes, DInv
  <2>4. k \in Members \/ k \in InsertedBy(call, W)
    <3>1. CASE state[n] # INTEND_TO_INSERT
      BY <2>2, <2>3, <3>1 DEF Members, States
    <3>2. CASE state[n] = INTEND_TO_INSERT
      <4>1. PICK t \in Threads : Inserted(t) /\ newNode[t] = n
        BY <2>2, <2>3, <3>2 DEF NodeIsRight
      <4>2. t \in Births
        BY <2>1, <2>2, <3>2, <4>1 DEF Births
      <4> QED
        BY <1>7, <2>3, <4>1, <4>2
    <3> QED
      BY <3>1, <3>2
  <2>5. k \notin RemovedBy(call, W)
    <3> SUFFICES ASSUME NEW t \in Deaths, key[curr[t]] = k PROVE FALSE
      BY <1>8
    <3>1. curr[t] = n
      BY <1>3, <1>5, <2>2, <2>3
    <3> QED
      BY <1>3, <2>1, <2>2, <3>1
  <2> QED
    BY <2>4, <2>5
<1>10. ASSUME NEW k, k \in Members \/ k \in InsertedBy(call, W), k \notin RemovedBy(call, W)
       PROVE  k \in Persisted
  <2>1. CASE k \in InsertedBy(call, W)
    <3>1. PICK t \in Births : k = key[newNode[t]]
      BY <1>7, <2>1
    <3>2. PICK n \in Nodes : n = newNode[t] /\ heap[n] = "linked" /\ IsValid(nvm[pptr[n]])
      BY <1>2
    <3>3. pptr[n] \in PNodes /\ nvm[pptr[n]].key = k
      BY <3>1, <3>2, LinkedInNVM
    <3> QED
      BY <3>2, <3>3 DEF Persisted
  <2>2. CASE k \in Members
    <3>1. PICK n \in Nodes : heap[n] = "linked" /\ state[n] \in {INSERTED, INTEND_TO_DELETE} /\ key[n] = k
      BY <2>2 DEF Members
    <3>2. pptr[n] \in PNodes /\ nvm[pptr[n]].key = k
      BY <3>1, LinkedInNVM DEF INSERTED, INTEND_TO_DELETE, INTEND_TO_INSERT
    <3>3. IsValid(nvm[pptr[n]])
      <4>1. CASE state[n] = INSERTED
        BY <3>1, <4>1, LinkedInNVM
      <4>2. CASE state[n] = INTEND_TO_DELETE
        <5>1. PICK u \in Threads : Removed(u) /\ pc[u] \in Burying /\ curr[u] = n
          BY <3>1, <4>2 DEF DInv, NodeIsRight
        <5>2. u \notin Deaths
          BY <1>8, <1>10, <3>1, <5>1
        <5> QED
          BY <4>2, <5>1, <5>2 DEF Deaths, INTEND_TO_DELETE, DELETED
      <4> QED
        BY <3>1, <4>1, <4>2
    <3> QED
      BY <3>2, <3>3 DEF Persisted
  <2> QED
    BY <1>10, <2>1, <2>2
<1>11. Persisted = (Members \union InsertedBy(call, W)) \ RemovedBy(call, W)
  BY <1>9, <1>10
<1> QED
  BY <1>6, <1>11 DEF AfterAll

(* Those operations may have taken effect. *)
LEMMA PersistedIsReached ==
  ASSUME IInv, AInv, PInv, LInv, phase = "running"
  PROVE  \E h \in DS!Reach : h.set = Persisted
<1>1. DInv /\ CallsOf(call) /\ outcomes \in SUBSET DS!Configurations
  BY DEF LInv, DInv, IInv, TypeOK, CallsOf
<1>2. PICK Q \in [Threads -> SUBSET BOOLEAN] :
        Promised(call, outcomes, Members, AllCommitted, Q)
  BY DEF LInv
<1>3. PICK W : W = Births \union Deaths
  OBVIOUS
<1>4. PICK R : R = [t \in AllCommitted |-> TRUE]
  OBVIOUS
<1>5. R \in Answers /\ DOMAIN R = AllCommitted /\ \A t \in AllCommitted : R[t] = TRUE
  <2>1. AllCommitted \in SUBSET Threads
    BY DEF AllCommitted
  <2>2. R \in [AllCommitted -> BOOLEAN]
    BY <1>4
  <2> QED
    BY <1>4, <2>1, <2>2 DEF Answers
<1>6. \A t \in AllCommitted : call[t] # DS!None
  <2>1. \A t \in AllCommitted : t \in Threads /\ pc[t] # "idle"
    BY <1>1, ActorsRun DEF AllCommitted, Committed
  <2> QED
    BY <1>1, <2>1, CallIsKnown
<1>7. PICK g \in DS!ReachFrom(call, outcomes) : g.set = Members /\ DOMAIN g.res = AllCommitted
  <2>1. Answered(call, AllCommitted, Q, R)
    BY <1>5, <1>6 DEF Answered
  <2>2. [set |-> Members, res |-> R] \in DS!ReachFrom(call, outcomes)
    BY <1>2, <1>5, <2>1 DEF Promised
  <2> QED
    BY <1>5, <2>2
<1>8. ASSUME NEW t \in W
      PROVE  /\ t \in Threads /\ t \notin AllCommitted /\ call[t] # DS!None
             /\ call[t].op \in {"insert", "remove"}
  <2>1. /\ t \in Threads /\ (Inserted(t) \/ Removed(t))
        /\ call[t].op = "insert" => state[newNode[t]] = INTEND_TO_INSERT
        /\ call[t].op = "remove" => pc[t] \in Burying /\ state[curr[t]] # DELETED
    BY <1>3 DEF Births, Deaths, Inserted, Removed
  <2>2. pc[t] # "idle" /\ call[t].op \in {"insert", "remove"}
    BY <1>1, <2>1, ActorsRun
  <2>3. ~Committed(t)
    BY <2>1 DEF Committed, Inserted, Removed
  <2> QED
    BY <1>1, <2>1, <2>2, <2>3, CallIsKnown DEF AllCommitted
<1>9. ASSUME NEW t \in W, NEW u \in W, call[t].op = "insert", call[u].op = "remove"
      PROVE  call[t].arg # call[u].arg
  <2>1. t \in Births /\ u \in Deaths
    BY <1>3, <1>9 DEF Births, Deaths, Inserted, Removed
  <2>2. /\ newNode[t] \in Nodes /\ MayHold(t, newNode[t]) /\ key[newNode[t]] = call[t].arg
        /\ state[newNode[t]] = INTEND_TO_INSERT /\ t \in Threads
    BY <1>1, <2>1, ActorsRun DEF Births
  <2>3. newNode[t] \in Linked
    <3>1. t \notin waits[newNode[t]]
      BY <2>2, WaitedFor DEF INTEND_TO_INSERT, DELETED
    <3> QED
      BY <2>2, <3>1, NodesAssumption DEF MayHold, AllNodes
  <2>4. /\ curr[u] \in Linked /\ key[curr[u]] = call[u].arg
        /\ state[curr[u]] = INTEND_TO_DELETE
    BY <2>1, BuryingNode DEF Deaths, Linked
  <2>5. newNode[t] # curr[u]
    BY <2>2, <2>4 DEF INTEND_TO_INSERT, INTEND_TO_DELETE
  <2> QED
    BY <2>2, <2>3, <2>4, <2>5 DEF IInv, ListIsSorted
<1>10. W \in SUBSET Threads /\ W \intersect DOMAIN g.res = {}
  BY <1>7, <1>8
<1>11. AllowsAll(call, outcomes, g.set, DOMAIN g.res, W)
  BY <1>1, <1>8, <1>9, <1>10, AllTakeEffect
<1>12. Persisted = AfterAll(call, Members, W)
  BY <1>1, <1>3, PersistedAfterAll
<1> QED
  BY <1>7, <1>11, <1>12 DEF AllowsAll, DS!Reach

(* A crash leaves a set that the histories allow. *)
LEMMA CrashLInv ==
  ASSUME IInv, AInv, PInv, LInv, Crash
  PROVE  LInv'
<1>1. DInv /\ CallsOf(call) /\ outcomes \in SUBSET DS!Configurations
  BY DEF LInv, DInv, IInv, TypeOK, CallsOf
<1>2. \E h \in DS!Reach : h.set = Persisted
  <2>1. CASE phase = "running"
    BY <2>1, PersistedIsReached
  <2>2. CASE phase # "running"
    <3>1. [set |-> Persisted, res |-> DS!NoAnswer] \in outcomes
      BY <1>1, <2>2 DEF DInv, RecoveryIsRight, IInv, TypeOK
    <3>2. [set |-> Persisted, res |-> DS!NoAnswer].set = Persisted
      OBVIOUS
    <3> QED
      BY <1>1, <3>1, <3>2, ReachCloses DEF DS!Reach
  <2> QED
    BY <2>1, <2>2
<1>3. /\ phase' = "recovering" /\ outcomes' = DS!AfterCrash /\ nvm' = nvm
      /\ next' = [n \in AllNodes |-> IF n = Head THEN Tail ELSE Nil]
      /\ \A t \in Threads : /\ pc'[t] = "idle" /\ call'[t] = DS!None /\ ~result'[t]
      /\ \A n \in Nodes : heap'[n] = "free"
  BY DEF Crash
<1>4. \A t \in Threads : CallIsRight(t)' /\ ~Inserted(t)' /\ ~Removed(t)'
  BY <1>3 DEF CallIsRight, Inserted, Removed
<1>5. ActorsAreAlone'
  BY <1>4 DEF ActorsAreAlone
<1>6. \A n \in Nodes : NodeIsRight(n)'
  BY <1>3 DEF NodeIsRight
<1>7. RecoveryIsRight'
  <2>1. Persisted' = Persisted
    BY <1>3 DEF Persisted
  <2>2. [set |-> Persisted, res |-> DS!NoAnswer] \in DS!AfterCrash
    BY <1>2 DEF DS!AfterCrash
  <2>3. next'[Tail] = Nil
    BY <1>3, NodesAssumption DEF AllNodes
  <2> QED
    BY <1>3, <2>1, <2>2, <2>3 DEF RecoveryIsRight, DS!NoAnswer
<1>8. outcomes' \subseteq DS!Configurations
  <2>1. DS!Reach \subseteq DS!Configurations
    BY <1>1, ReachCloses DEF DS!Reach
  <2>2. DS!NoAnswer \in UNION {[T -> BOOLEAN] : T \in SUBSET Threads}
    <3>1. DS!NoAnswer \in [{} -> BOOLEAN] /\ {} \in SUBSET Threads
      BY DEF DS!NoAnswer
    <3> QED
      BY <3>1
  <2>3. \A g \in DS!Reach : g.set \in SUBSET Keys
    BY <2>1 DEF DS!Configurations
  <2>4. \A g \in DS!Reach : [set |-> g.set, res |-> DS!NoAnswer] \in DS!Configurations
    BY <2>2, <2>3 DEF DS!Configurations
  <2> QED
    BY <1>3, <2>4 DEF DS!AfterCrash
<1>9. DInv'
  BY <1>4, <1>5, <1>6, <1>7, <1>8 DEF DInv
<1> QED
  BY <1>3, <1>9 DEF LInv

-----------------------------------------------------------------------------
(* Write-backs and recovery. *)

(* A step that touches neither the list nor a thread. *)
LEMMA AsideLInv ==
  ASSUME LInv,
         UNCHANGED <<key, next, state, heap, waits, call, pc, curr, newNode, result, phase, outcomes>>,
         phase = "recovering" => Persisted' = Persisted
  PROVE  LInv'
<1>1. DInv
  BY DEF LInv
<1>2. \A t \in Threads : (Inserted(t)' <=> Inserted(t)) /\ (Removed(t)' <=> Removed(t))
  BY DEF Inserted, Removed
<1>3. \A t \in Threads : CallIsRight(t)'
  <2> SUFFICES ASSUME NEW t \in Threads PROVE CallIsRight(t)'
    OBVIOUS
  <2>1. CallIsRight(t)
    BY <1>1 DEF DInv
  <2>2. /\ pc'[t] = pc[t] /\ call'[t] = call[t] /\ newNode'[t] = newNode[t] /\ result'[t] = result[t]
        /\ key'[newNode[t]] = key[newNode[t]]
    OBVIOUS
  <2> QED
    BY <1>2, <2>1, <2>2 DEF CallIsRight, LabelsOf, Publishing, Private, Removing, Burying
<1>4. ActorsAreAlone'
  BY <1>1, <1>2 DEF DInv, ActorsAreAlone, Burying
<1>5. \A n \in Nodes : NodeIsRight(n)'
  BY <1>1, <1>2 DEF DInv, NodeIsRight, Burying, INTEND_TO_INSERT, INTEND_TO_DELETE
<1>6. RecoveryIsRight'
  BY <1>1 DEF DInv, RecoveryIsRight, DS!NoAnswer
<1>7. DInv'
  BY <1>1, <1>3, <1>4, <1>5, <1>6 DEF DInv
<1>8. Members' = Members
  BY DEF Members, INSERTED, INTEND_TO_DELETE
<1>9. AllCommitted' = AllCommitted
  BY <1>2 DEF AllCommitted, Committed, Burying, INTEND_TO_INSERT, DELETED
<1>10. ASSUME NEW Q, Knows(Q)
       PROVE  Knows(Q)'
  <2>1. ASSUME NEW t \in Threads
        PROVE  ThreadKnows(t, Q[t])'
    <3>1. PICK q : q = Q[t] /\ ThreadKnows(t, q)
      BY <1>10 DEF Knows
    <3>2. HelpIsKnown(t, q)' /\ MissIsKnown(t, q)'
      BY <3>1 DEF ThreadKnows, HelpIsKnown, MissIsKnown, Publishing
    <3>3. ThreadKnows(t, q)'
      BY <1>8, <3>1, <3>2 DEF ThreadKnows, FreeAnswers
    <3> QED
      BY <3>1, <3>3
  <2> QED
    BY <2>1 DEF Knows
<1>11. CASE phase = "running"
  BY <1>7, <1>8, <1>9, <1>10, <1>11, QuietLInv
<1>12. CASE phase # "running"
  BY <1>7, <1>12 DEF LInv
<1> QED
  BY <1>11, <1>12

(* A line that recovery has been at, or need not be at, is a member with a     *)
(* key just when its copy is.                                                *)
LEMMA RecoveredLine ==
  ASSUME IInv, AInv, PInv, phase = "recovering", NEW p \in PNodes, p \notin todo
  PROVE  /\ IsValid(Line(p)) <=> IsValid(nvm[p])
         /\ IsValid(nvm[p]) => Line(p).key = nvm[p].key
<1>1. ASSUME NEW line, NEW other, {line, other} = {Line(p), nvm[p]}, IsValid(line)
      PROVE  IsValid(other) /\ other.key = line.key
  <2>1. line.validEnd # line.deleted /\ line \in {Line(p), nvm[p]} /\ other \in {Line(p), nvm[p]}
    BY <1>1 DEF IsValid
  <2>2. PICK n \in Nodes : heap[n] = "linked" /\ pptr[n] = p /\ Written(line, n)
    BY <2>1, ValidHasOwner
  <2>3. state[n] = INSERTED
    BY <2>2, RecoveringAlone DEF IInv, RecoveryIsAlone
  <2>4. NodePersists(n)
    BY <2>2 DEF PInv, NodesPersist, Attached, Live
  <2>5. /\ Written(Line(p), n) /\ Written(nvm[p], n)
        /\ Line(p).deleted = ~pValidity[n] /\ nvm[p].deleted = ~pValidity[n]
    BY <2>2, <2>3, <2>4 DEF NodePersists, INSERTED, INTEND_TO_INSERT
  <2>6. pValidity[n] \in BOOLEAN
    BY DEF IInv, TypeOK
  <2> QED
    BY <2>1, <2>5, <2>6 DEF Written, IsValid
<1> QED
  BY <1>1

(* A write-back changes nothing that a history could tell. *)
LEMMA EvictLInv ==
  ASSUME IInv, AInv, PInv, LInv, NEW p \in PNodes, Evict(p)
  PROVE  LInv'
<1>1. /\ UNCHANGED <<volatile, persistent, memory, locals, recovering, outcomes>>
      /\ nvm' = [nvm EXCEPT ![p] = Line(p)] /\ nvm[p] # Line(p)
  BY DEF Evict, BARRIER
<1>2. p \notin todo
  BY <1>1 DEF PInv, TodoIsAsInNVM
<1>3. nvm'[p] = Line(p) /\ \A q \in PNodes \ {p} : nvm'[q] = nvm[q]
  BY <1>1 DEF IInv, TypeOK
<1>4. phase = "recovering" => Persisted' = Persisted
  <2> SUFFICES ASSUME phase = "recovering" PROVE Persisted' = Persisted
    OBVIOUS
  <2>1. ASSUME NEW q \in PNodes
        PROVE  /\ IsValid(nvm'[q]) <=> IsValid(nvm[q])
               /\ IsValid(nvm[q]) => nvm'[q].key = nvm[q].key
    BY <1>2, <1>3, RecoveredLine
  <2> QED
    BY <2>1 DEF Persisted, IsValid
<1> QED
  BY <1>1, <1>4, AsideLInv DEF volatile, memory, locals, search, recovering

(* recovery passes over a PNode. *)
LEMMA RecoverDeadLInv ==
  ASSUME LInv, NEW p \in PNodes, RecoverDead(p)
  PROVE  LInv'
<1>1. UNCHANGED <<volatile, nvm, memory, locals, phase, outcomes>>
  BY DEF RecoverDead
<1>2. Persisted' = Persisted
  BY <1>1 DEF Persisted
<1> QED
  BY <1>1, <1>2, AsideLInv DEF volatile, memory, locals, search

(* recovery inserts a member. *)
LEMMA QuickInsertLInv ==
  ASSUME IInv, AInv, PInv, LInv, NEW p \in PNodes, QuickInsert(p)
  PROVE  LInv'
<1>1. /\ phase = "recovering" /\ p \in todo /\ IsValid(Line(p))
      /\ UNCHANGED <<nvm, call, pc, curr, newNode, result, phase, outcomes>>
  BY DEF QuickInsert, locals, search
<1>2. PICK x \in Nodes, m \in Linked :
        /\ heap[x] = "free"
        /\ key' = [key EXCEPT ![x] = pkey[p]]
        /\ next' = [next EXCEPT ![x] = next[m], ![m] = x]
        /\ state' = [state EXCEPT ![x] = INSERTED]
        /\ heap' = [heap EXCEPT ![x] = "linked"]
  BY DEF QuickInsert
<1>3. DInv /\ \A u \in Threads : pc[u] = "idle"
  BY <1>1, RecoveringAlone DEF LInv
<1>4. \A t \in Threads : call[t] = DS!None /\ ~result[t]
  BY <1>3 DEF DInv, CallIsRight
<1>5. \A t \in Threads : CallIsRight(t)' /\ ~Inserted(t)' /\ ~Removed(t)'
  BY <1>1, <1>3, <1>4 DEF CallIsRight, Inserted, Removed
<1>6. ActorsAreAlone'
  BY <1>5 DEF ActorsAreAlone
<1>7. [set |-> Persisted, res |-> DS!NoAnswer] \in outcomes /\ Persisted \in SUBSET Keys
  <2>1. [set |-> Persisted, res |-> DS!NoAnswer] \in outcomes
    BY <1>1, <1>3 DEF DInv, RecoveryIsRight
  <2>2. [set |-> Persisted, res |-> DS!NoAnswer] \in DS!Configurations
    BY <1>3, <2>1 DEF DInv
  <2> QED
    BY <2>1, <2>2 DEF DS!Configurations
<1>8. pkey[p] \in Keys
  <2>1. Line(p) = nvm[p]
    BY <1>1 DEF PInv, TodoIsAsInNVM
  <2>2. nvm[p].key \in Persisted /\ Line(p).key = pkey[p]
    BY <1>1, <2>1 DEF Persisted, Line
  <2> QED
    BY <1>7, <2>1, <2>2
<1>9. ASSUME NEW n \in Nodes
      PROVE  NodeIsRight(n)'
  <2>1. CASE n = x
    <3>1. key'[n] = pkey[p] /\ state'[n] = INSERTED
      BY <1>2, <2>1 DEF IInv, TypeOK, AllNodes
    <3> QED
      BY <1>8, <3>1 DEF NodeIsRight, INSERTED, INTEND_TO_INSERT, INTEND_TO_DELETE
  <2>2. CASE n # x
    <3>1. heap'[n] = heap[n] /\ key'[n] = key[n] /\ state'[n] = state[n]
      BY <1>2, <2>2 DEF IInv, TypeOK, AllNodes
    <3>2. NodeIsRight(n) /\ (heap[n] = "linked" => state[n] = INSERTED)
      BY <1>1, <1>3 DEF DInv, IInv, RecoveryIsAlone
    <3> QED
      BY <3>1, <3>2 DEF NodeIsRight, INSERTED, INTEND_TO_INSERT, INTEND_TO_DELETE
  <2> QED
    BY <2>1, <2>2
<1>10. RecoveryIsRight'
  <2>1. Persisted' = Persisted
    BY <1>1 DEF Persisted
  <2>2. next'[Tail] = next[Tail] /\ next[Tail] = Nil
    <3>1. Tail # x /\ Tail # m
      BY NodesAssumption DEF Linked, AllNodes
    <3>2. next'[Tail] = next[Tail]
      BY <1>2, <3>1 DEF IInv, TypeOK, AllNodes
    <3> QED
      BY <1>1, <1>3, <3>2 DEF DInv, RecoveryIsRight
  <2> QED
    BY <1>1, <1>7, <2>1, <2>2 DEF RecoveryIsRight, DS!NoAnswer
<1>11. DInv'
  BY <1>1, <1>3, <1>5, <1>6, <1>9, <1>10 DEF DInv
<1> QED
  BY <1>1, <1>11 DEF LInv

(* The links of the list, the last one to the tail included. *)
Listed == Linked \union {Tail}
Links == {gh \in Listed \X Listed : gh[2] = next[gh[1]]}

(* Reachable follows the links as often as there are nodes, and once more. *)
LEMMA WalkRounds ==
  ASSUME IInv, next[Tail] = Nil
  PROVE  \E f : /\ Rounds(f, Cardinality(Nodes) + 1, Listed, Links, {Head})
                /\ Reachable = f[Cardinality(Nodes) + 1]
<1> DEFINE N == Cardinality(Nodes) + 1
           o == {Head}
           G(x) == x \union ({next[n] : n \in x} \ {Nil})
           Rec(f) == f = [k \in 0..N |-> IF k = 0 THEN o ELSE G(f[k-1])]
<1>1. N \in Nat
  BY NodesAssumption, FS_CardinalityType
<1>2. ASSUME NEW x \in SUBSET Listed
      PROVE  G(x) = OneRound(x, Listed, Links)
  <2>1. \A g \in Linked : next[g] \in Listed
    BY DEF IInv, ListIsSorted, Listed
  <2>2. Nil \notin Listed
    BY NodesAssumption DEF Listed, Linked, AllNodes
  <2>3. \A g \in Listed : next[g] # Nil => next[g] \in Listed
    BY <2>1 DEF Listed
  <2>4. \A h \in G(x) : h \in OneRound(x, Listed, Links)
    BY <2>3 DEF OneRound, Links
  <2>5. \A h \in OneRound(x, Listed, Links) : h \in G(x)
    BY <2>2 DEF OneRound, Links
  <2> QED
    BY <2>4, <2>5
<1>3. o \in SUBSET Listed
  BY DEF Listed, Linked
<1>4. PICK g : Rounds(g, N, Listed, Links, o)
  <2> HIDE DEF N, o
  <2> QED
    BY <1>1, <1>3, RoundsExist
<1>5. Rec(g)
  <2>1. g \in [0..N -> SUBSET Listed] /\ \A k \in 1..N : g[k] = OneRound(g[k-1], Listed, Links)
    BY <1>4 DEF Rounds
  <2>2. \A k \in 1..N : g[k-1] \in SUBSET Listed
    BY <1>1, <2>1
  <2> HIDE DEF G, N
  <2>3. \A k \in 1..N : g[k] = G(g[k-1])
    BY <1>2, <2>1, <2>2
  <2>4. \A k \in 0..N : g[k] = IF k = 0 THEN o ELSE G(g[k-1])
    BY <1>1, <1>4, <2>3 DEF Rounds
  <2> QED
    BY <2>1, <2>4
<1>6. PICK f : Rec(f) /\ Reachable = f[N]
  <2>1. Rec(CHOOSE f : Rec(f))
    BY <1>5
  <2>2. Reachable = (CHOOSE f : Rec(f))[N]
    BY DEF Reachable
  <2> QED
    BY <2>1, <2>2
<1>7. f = [k \in 0..N |-> f[k]] /\ f[0] = o /\ \A k \in 1..N : f[k] = G(f[k-1])
  <2> HIDE DEF G, N, o
  <2> QED
    BY SMTT(30), <1>1, <1>6
<1>8. \A k \in 1..N : f[k-1] \in SUBSET Listed => f[k] = OneRound(f[k-1], Listed, Links)
  <2> HIDE DEF G
  <2> QED
    BY <1>2, <1>7
<1> HIDE DEF N, o, G
<1>9. Rounds(f, N, Listed, Links, o)
  BY <1>1, <1>3, <1>7, <1>8, RoundsOfRecursion
<1> QED
  BY <1>6, <1>9 DEF N, o

(* Keys grow along the links: a node has as many nodes before it as there are *)
(* smaller keys.                                                             *)
LEMMA LinksAscend ==
  ASSUME IInv, next[Tail] = Nil
  PROVE  LET r == [n \in Listed |-> Cardinality({m \in Linked : key[m] < key[n]})] IN
         /\ r \in [Listed -> 0..(Cardinality(Nodes) + 1)]
         /\ \A g, h \in Listed : <<g, h>> \in Links => r[g] < r[h]
<1> DEFINE N == Cardinality(Nodes) + 1
           B(n) == {m \in Linked : key[m] < key[n]}
           C(n) == Cardinality(B(n))
<1>1. Listed \subseteq AllNodes /\ \A n \in Listed : key[n] \in Int
  BY DEF Listed, Linked, AllNodes, IInv, TypeOK
<1>2. IsFiniteSet(Linked) /\ Cardinality(Linked) \in 0..N
  <2>1. IsFiniteSet(Nodes \union {Head}) /\ Cardinality(Nodes \union {Head}) = N /\ N \in Nat
    BY NodesAssumption, FS_AddElement, FS_CardinalityType
  <2>2. Linked \subseteq Nodes \union {Head}
    BY DEF Linked
  <2> HIDE DEF N
  <2> QED
    BY <2>1, <2>2, FS_Subset, FS_CardinalityType
<1>3. ASSUME NEW n \in Listed
      PROVE  IsFiniteSet(B(n)) /\ C(n) \in 0..N
  <2>1. B(n) \in SUBSET Linked
    OBVIOUS
  <2>2. N \in Nat
    BY NodesAssumption, FS_CardinalityType
  <2> HIDE DEF B, N
  <2>3. IsFiniteSet(B(n)) /\ C(n) <= Cardinality(Linked) /\ C(n) \in Nat
    BY <1>2, <2>1, FS_Subset, FS_CardinalityType
  <2> QED
    BY <1>2, <2>2, <2>3
<1>4. ASSUME NEW g \in Listed, NEW h \in Listed, <<g, h>> \in Links
      PROVE  C(g) < C(h)
  <2>1. h = next[g]
    BY <1>4 DEF Links
  <2>2. g \in Linked
    BY <2>1, NodesAssumption DEF Listed, Linked, AllNodes
  <2>3. key[g] < key[h]
    BY <2>1, <2>2 DEF IInv, ListIsSorted
  <2>4. B(g) \union {g} \subseteq B(h) /\ g \notin B(g)
    <3>1. key[g] \in Int /\ key[h] \in Int /\ \A m \in Linked : key[m] \in Int
      BY <1>1 DEF Listed
    <3>2. g \notin B(g)
      BY <3>1
    <3>3. \A m \in B(g) : m \in B(h)
      BY <2>3, <3>1
    <3>4. g \in B(h)
      BY <2>2, <2>3
    <3> QED
      BY <3>2, <3>3, <3>4
  <2> HIDE DEF B
  <2>5. Cardinality(B(g) \union {g}) = C(g) + 1
    BY <1>3, <2>4, FS_AddElement
  <2>6. Cardinality(B(g) \union {g}) <= C(h)
    BY <1>3, <2>4, FS_Subset
  <2>7. C(g) \in Nat /\ C(h) \in Nat
    BY <1>3
  <2> QED
    BY <2>5, <2>6, <2>7
<1>5. [n \in Listed |-> C(n)] \in [Listed -> 0..N]
  BY <1>3
<1> QED
  BY <1>4, <1>5

(* The walk meets every node of the list. *)
LEMMA WalkMeetsAll ==
  ASSUME IInv, next[Tail] = Nil,
         \A n \in Linked : key[n] < MaxKey /\ (n # Head => MinKey < key[n])
  PROVE  Linked \subseteq Reachable /\ Reachable \subseteq Listed
<1> DEFINE N == Cardinality(Nodes) + 1
           r == [n \in Listed |-> Cardinality({m \in Linked : key[m] < key[n]})]
<1>1. N \in Nat
  BY NodesAssumption, FS_CardinalityType
<1>2. PICK f : Rounds(f, N, Listed, Links, {Head}) /\ Reachable = f[N]
  BY WalkRounds
<1>3. r \in [Listed -> 0..N] /\ \A g, h \in Listed : <<g, h>> \in Links => r[g] < r[h]
  BY LinksAscend
<1> HIDE DEF N, r
<1>4. {Head} \subseteq Reachable /\ Reachable \subseteq Listed
  BY <1>1, <1>2, RoundsGrow
<1>5. \A g \in Reachable : \A h \in Listed : <<g, h>> \in Links => h \in Reachable
  BY <1>1, <1>2, <1>3, RoundsClose
<1>6. \A n \in Listed : key[n] \in Int
  BY DEF Listed, Linked, AllNodes, IInv, TypeOK
<1>7. ASSUME NEW m \in Linked, m \notin Reachable
      PROVE  FALSE
  <2> DEFINE E == {n \in Reachable : n \in Linked /\ key[n] < key[m]}
             T == {key[m] - key[n] : n \in E}
  <2>1. Head \in E
    <3>1. m # Head
      BY <1>4, <1>7
    <3>2. key[Head] < key[m]
      BY <3>1 DEF IInv, SentinelsAreFixed
    <3> QED
      BY <1>4, <3>2 DEF Linked
  <2>2. T \in SUBSET Nat
    BY <1>6 DEF Listed
  <2>3. PICK d \in T : \A k \in T : d <= k
    <3>1. T # {}
      BY <2>1
    <3> HIDE DEF T
    <3> QED
      BY <2>2, <3>1, LeastNumber
  <2>4. PICK n \in E : d = key[m] - key[n]
    BY <2>3
  <2>5. next[n] \in Listed /\ n \in Listed /\ key[n] < key[next[n]]
    BY DEF Listed, IInv, ListIsSorted
  <2>6. next[n] \in Reachable
    BY <1>5, <2>5 DEF Links
  <2>7. key[next[n]] <= key[m]
    <3>1. ~(key[m] < key[next[n]])
      BY DEF IInv, ListIsSorted
    <3>2. key[m] \in Int /\ key[next[n]] \in Int
      BY <1>6, <2>5 DEF Listed
    <3> QED
      BY <3>1, <3>2
  <2>8. next[n] # Tail
    <3>1. key[Tail] = MaxKey /\ key[m] < MaxKey /\ key[m] \in Int
      BY <1>6 DEF IInv, SentinelsAreFixed, Listed
    <3> QED
      BY <2>7, <3>1, KeysAssumption
  <2>9. next[n] \in Linked
    BY <2>5, <2>8 DEF Listed
  <2>10. key[next[n]] # key[m]
    BY <1>7, <2>6, <2>9 DEF IInv, ListIsSorted
  <2>11. key[next[n]] < key[m] /\ key[next[n]] \in Int /\ key[m] \in Int /\ key[n] \in Int
    BY <1>6, <2>5, <2>7, <2>10 DEF Listed
  <2>12. key[m] - key[next[n]] \in T
    BY <2>6, <2>9, <2>11
  <2>13. d <= key[m] - key[next[n]]
    BY <2>3, <2>12
  <2> QED
    BY <2>4, <2>5, <2>11, <2>13
<1> QED
  BY <1>4, <1>7
(* Recovery has put on the list what NVM holds. *)
LEMMA RecoveredNodes ==
  ASSUME IInv, AInv, PInv, phase = "recovering", todo = {}
  PROVE  /\ \A n \in Nodes : heap[n] = "linked" => state[n] = INSERTED /\ key[n] \in Persisted
         /\ \A k \in Persisted : \E n \in Nodes : heap[n] = "linked" /\ key[n] = k
<1>1. ASSUME NEW n \in Nodes, heap[n] = "linked"
      PROVE  state[n] = INSERTED /\ key[n] \in Persisted
  <2>1. state[n] = INSERTED
    BY <1>1 DEF IInv, RecoveryIsAlone
  <2>2. pptr[n] \in PNodes /\ IsValid(nvm[pptr[n]]) /\ nvm[pptr[n]].key = key[n]
    BY <1>1, <2>1, LinkedInNVM DEF INSERTED, INTEND_TO_INSERT
  <2> QED
    BY <2>1, <2>2 DEF Persisted
<1>2. ASSUME NEW k \in Persisted
      PROVE  \E n \in Nodes : heap[n] = "linked" /\ key[n] = k
  <2>1. PICK p \in PNodes : IsValid(nvm[p]) /\ nvm[p].key = k
    BY DEF Persisted
  <2>2. nvm[p].validEnd # nvm[p].deleted
    BY <2>1 DEF IsValid
  <2>3. PICK n \in Nodes : heap[n] = "linked" /\ Written(nvm[p], n)
    BY <2>2, ValidHasOwner
  <2> QED
    BY <2>1, <2>3 DEF Written
<1> QED
  BY <1>1, <1>2

(* What recovery leaves on the list is what NVM holds. *)
LEMMA RecoveredContents ==
  ASSUME IInv, AInv, PInv, DInv, phase = "recovering", todo = {}
  PROVE  Contents = Persisted
<1>1. next[Tail] = Nil
  BY DEF DInv, RecoveryIsRight
<1>2. ASSUME NEW n \in Nodes, heap[n] = "linked"
      PROVE  state[n] = INSERTED /\ key[n] \in Keys /\ key[n] \in Persisted
  <2>1. state[n] = INSERTED /\ key[n] \in Persisted
    BY <1>2, RecoveredNodes
  <2> QED
    BY <1>2, <2>1 DEF DInv, NodeIsRight
<1>3. \A k \in Persisted : \E n \in Nodes : heap[n] = "linked" /\ key[n] = k
  BY RecoveredNodes
<1>4. \A n \in Linked : key[n] < MaxKey /\ (n # Head => MinKey < key[n])
  BY <1>2, KeysAssumption DEF Linked, IInv, SentinelsAreFixed
<1>5. Linked \subseteq Reachable /\ Reachable \subseteq Listed
  BY <1>1, <1>4, WalkMeetsAll
<1>6. Reachable \ {Head, Tail} = {n \in Nodes : heap[n] = "linked"}
  BY <1>5, NodesAssumption DEF Linked, Listed, AllNodes
<1>7. Contents = {key[n] : n \in {m \in Nodes : heap[m] = "linked"}}
  BY <1>2, <1>6 DEF Contents
<1> QED
  BY <1>2, <1>3, <1>7

(* When nobody runs an operation and the histories allow what NVM holds, they *)
(* allow what is on the list.                                                *)
LEMMA NobodyRuns ==
  ASSUME DInv, CallsOf(call), phase = "running",
         \A t \in Threads : pc[t] = "idle" /\ call[t] = DS!None /\ ~result[t],
         Members \in SUBSET Keys, [set |-> Members, res |-> DS!NoAnswer] \in outcomes
  PROVE  LInv
<1> DEFINE Q == [t \in Threads |-> {}]
<1>1. Q \in [Threads -> SUBSET BOOLEAN] /\ Knows(Q)
  <2>1. \A t \in Threads : Q[t] \in SUBSET BOOLEAN /\ ThreadKnows(t, Q[t])
    BY IdleKnows
  <2> QED
    BY <2>1 DEF Knows
<1>2. AllCommitted = {}
  BY DEF AllCommitted, Committed, Inserted, Removed
<1>3. outcomes \in SUBSET DS!Configurations
  BY DEF DInv
<1> HIDE DEF Q
<1>4. Promised(call, outcomes, Members, AllCommitted, Q)
  BY <1>2, <1>3, PromiseToNobody
<1> QED
  BY <1>1, <1>4 DEF LInv

(* Before the first call the histories allow the empty set. *)
LEMMA InitLInv == Init => LInv
<1> SUFFICES ASSUME Init PROVE LInv
  OBVIOUS
<1>1. /\ \A t \in Threads : pc[t] = "idle" /\ call[t] = DS!None /\ ~result[t]
      /\ \A n \in Nodes : heap[n] = "free"
      /\ phase = "running" /\ outcomes = {[set |-> {}, res |-> DS!NoAnswer]}
  BY DEF Init
<1>2. CallsOf(call)
  BY InitIInv DEF IInv, TypeOK, CallsOf
<1>3. Members = {}
  BY <1>1 DEF Members
<1>4. outcomes \subseteq DS!Configurations
  <2>1. DS!NoAnswer \in UNION {[T -> BOOLEAN] : T \in SUBSET Threads}
    <3>1. DS!NoAnswer \in [{} -> BOOLEAN] /\ {} \in SUBSET Threads
      BY DEF DS!NoAnswer
    <3> QED
      BY <3>1
  <2> QED
    BY <1>1, <2>1 DEF DS!Configurations
<1>5. DInv
  <2>1. \A t \in Threads : CallIsRight(t) /\ ~Inserted(t) /\ ~Removed(t)
    BY <1>1 DEF CallIsRight, Inserted, Removed
  <2>2. ActorsAreAlone
    BY <2>1 DEF ActorsAreAlone
  <2>3. RecoveryIsRight /\ \A n \in Nodes : NodeIsRight(n)
    BY <1>1 DEF RecoveryIsRight, NodeIsRight
  <2> QED
    BY <1>4, <2>1, <2>2, <2>3 DEF DInv
<1> QED
  BY <1>1, <1>2, <1>3, <1>5, NobodyRuns

(* Recovery ends with a set that the histories allow. *)
LEMMA RecoverDoneLInv ==
  ASSUME IInv, AInv, PInv, LInv, RecoverDone
  PROVE  LInv' /\ DS!Recovered(Contents) /\ Contents \in SUBSET Keys
<1>1. DInv
  BY DEF LInv
<1>2. /\ phase = "recovering" /\ todo = {} /\ phase' = "running"
      /\ outcomes' = DS!AfterRecovery(Contents)
      /\ UNCHANGED <<key, heap, state, nvm, pc, call, curr, newNode, result>>
  BY DEF RecoverDone, locals, volatile, memory, search
<1>3. Contents = Persisted
  BY <1>1, <1>2, RecoveredContents
<1>4. [set |-> Persisted, res |-> DS!NoAnswer] \in outcomes'
  <2>1. [set |-> Persisted, res |-> DS!NoAnswer] \in outcomes
    BY <1>1, <1>2 DEF DInv, RecoveryIsRight
  <2> QED
    BY <1>2, <1>3, <2>1 DEF DS!AfterRecovery
<1>5. \A t \in Threads : pc[t] = "idle" /\ call[t] = DS!None /\ ~result[t]
  <2>1. \A t \in Threads : pc[t] = "idle"
    BY <1>2, RecoveringAlone
  <2> QED
    BY <1>1, <2>1 DEF DInv, CallIsRight
<1>6. call \in [Threads -> DS!Calls \union {DS!None}]
  BY DEF IInv, TypeOK
<1>7. \A n \in Nodes : heap[n] = "linked" => state[n] = INSERTED /\ key[n] \in Persisted
  BY <1>2, RecoveredNodes
<1>8. \A k \in Persisted : \E n \in Nodes : heap[n] = "linked" /\ key[n] = k
  BY <1>2, RecoveredNodes
<1>9. Members = Persisted
  BY <1>7, <1>8 DEF Members
<1>10. Members' = Persisted
  <2>1. Members' = Members
    BY <1>2 DEF Members, INSERTED, INTEND_TO_DELETE
  <2> QED
    BY <1>9, <2>1
<1>11. Persisted \in SUBSET Keys
  <2>1. [set |-> Persisted, res |-> DS!NoAnswer] \in DS!Configurations
    BY <1>1, <1>2 DEF DInv, RecoveryIsRight
  <2> QED
    BY <2>1 DEF DS!Configurations
<1>12. DInv'
  <2>1. \A t \in Threads : CallIsRight(t)' /\ ~Inserted(t)' /\ ~Removed(t)'
    BY <1>2, <1>5 DEF CallIsRight, Inserted, Removed
  <2>2. ActorsAreAlone'
    BY <2>1 DEF ActorsAreAlone
  <2>3. \A n \in Nodes : NodeIsRight(n)'
    BY <1>2, <1>7, <1>11 DEF NodeIsRight, INSERTED, INTEND_TO_INSERT, INTEND_TO_DELETE
  <2>4. outcomes' \subseteq DS!Configurations
    BY <1>1, <1>2 DEF DInv, DS!AfterRecovery
  <2> QED
    BY <1>2, <2>1, <2>2, <2>3, <2>4 DEF DInv, RecoveryIsRight
<1>13. LInv'
  <2>1. /\ CallsOf(call)'
        /\ \A t \in Threads : pc'[t] = "idle" /\ call'[t] = DS!None /\ ~result'[t]
    BY <1>2, <1>5, <1>6 DEF CallsOf
  <2>2. /\ Members' \in SUBSET Keys /\ [set |-> Members', res |-> DS!NoAnswer] \in outcomes'
    BY <1>4, <1>10, <1>11
  <2> DEFINE Q == [t \in Threads |-> {}]
  <2>3. Q \in [Threads -> SUBSET BOOLEAN] /\ Knows(Q)'
    <3>1. ASSUME NEW t \in Threads
          PROVE  Q[t] \in SUBSET BOOLEAN /\ ThreadKnows(t, Q[t])'
      BY <2>1 DEF ThreadKnows, HelpIsKnown, MissIsKnown, Publishing
    <3> QED
      BY <3>1 DEF Knows
  <2>4. AllCommitted' = {}
    BY <2>1 DEF AllCommitted, Committed, Inserted, Removed
  <2>5. outcomes' \in SUBSET DS!Configurations /\ CallsOf(call')
    BY <1>12, <2>1 DEF DInv, CallsOf
  <2> HIDE DEF Q
  <2>6. PICK c, o, S : c = call' /\ o = outcomes' /\ S = Members'
    OBVIOUS
  <2>7. Promised(c, o, S, {}, Q)
    BY <2>1, <2>2, <2>5, <2>6, PromiseToNobody
  <2>8. Promised(call, outcomes, Members, AllCommitted, Q)'
    BY <2>4, <2>6, <2>7
  <2> QED
    BY <1>12, <2>3, <2>8 DEF LInv
<1>14. DS!Recovered(Contents)
  <2>1. call = [t \in Threads |-> DS!None]
    BY <1>5, <1>6
  <2> QED
    BY <1>2, <1>4, <2>1 DEF DS!Recovered
<1> QED
  BY <1>3, <1>11, <1>13, <1>14

-----------------------------------------------------------------------------
(* The steps of the list are steps of the durable set. *)

(* An answer. *)
LEMMA Responds ==
  ASSUME IInv, DInv, NEW t \in Threads, pc[t] # "idle", NEW r \in BOOLEAN, Return(t, r),
         outcomes' # {}
  PROVE  DS!Next
<1>1. call[t] # DS!None
  BY CallIsKnown
<1>2. call' = [call EXCEPT ![t] = DS!None] /\ outcomes' = DS!AfterAnswer(t, r)
  BY DEF Return
<1>3. DS!Respond(t, r)
  BY <1>1, <1>2 DEF DS!Respond
<1> QED
  BY <1>3 DEF DS!Next

(* A step that the durable set does not see. *)
NoEvent == UNCHANGED <<call, outcomes>>

(* The answers. *)
LEMMA AnswersAreLinearizable ==
  ASSUME IInv, LInv, NEW t \in Threads,
         \/ Done(t) \/ InsertFound(t) \/ Published(t)
         \/ RemoveMiss(t) \/ BuriedByOther(t) \/ ContainsAnswers(t)
  PROVE  LInv' /\ DS!Next
<1>1. LInv' /\ outcomes' # {}
  BY DoneLInv, InsertFoundLInv, PublishedLInv, RemoveFailsLInv, ContainsAnswersLInv
<1>2. result[t] \in BOOLEAN
  BY DEF IInv, TypeOK
<1>3. pc[t] # "idle" /\ \E r \in BOOLEAN : Return(t, r)
  <2>1. CASE Done(t) \/ InsertFound(t) \/ RemoveMiss(t) \/ BuriedByOther(t)
    BY <2>1 DEF Done, InsertFound, RemoveMiss, FindStops, BuriedByOther
  <2>2. CASE Published(t)
    BY <1>2, <2>2 DEF Published
  <2>3. CASE ContainsAnswers(t)
    BY <2>3 DEF ContainsAnswers
  <2> QED
    BY <2>1, <2>2, <2>3
<1> QED
  BY <1>1, <1>3, Responds DEF LInv

(* What changes the set, or what threads are told of it. *)
LEMMA EffectsAreLinearizable ==
  ASSUME IInv, LInv, NEW t \in Threads,
         \/ Trim(t) /\ Expects(pred[t], curr[t], predState[t])
         \/ LinkNode(t) /\ Expects(pred[t], curr[t], predState[t])
         \/ AllocNode(t) \/ Retry(t)
         \/ PublishCAS(t) /\ Expects(Target(t), succ[t], INTEND_TO_INSERT)
         \/ ClaimCAS(t) /\ Expects(curr[t], succ[t], INSERTED)
         \/ BuryCAS(t) /\ Expects(Target(t), succ[t], INTEND_TO_DELETE)
  PROVE  LInv' /\ NoEvent
<1>1. LInv'
  BY TrimLInv, LinkNodeLInv, AllocNodeLInv, RetryLInv, PublishCASLInv, ClaimCASLInv, BuryCASLInv
<1>2. NoEvent
  BY DEF Trim, LinkNode, AllocNode, Retry, PublishCAS, ClaimCAS, BuryCAS, NoEvent
<1> QED
  BY <1>1, <1>2

(* What a thread does inside an operation. *)
LEMMA StepIsLinearizable ==
  ASSUME IInv, LInv, NEW t \in Threads, Step(t)
  PROVE  LInv' /\ (DS!Next \/ NoEvent)
<1>1. DInv
  BY DEF LInv
<1>2. ASSUME Works(t)
      PROVE  LInv' /\ NoEvent
  <2>1. LInv'
    BY <1>2, WorksLInv
  <2> QED
    BY <1>2, <2>1 DEF Works, NoEvent
<1>3. CASE \/ FindPass(t) \/ FindDeleted(t) \/ ContainsStep(t)
           \/ InsertHelps(t) \/ InsertMiss(t) \/ RemoveFound(t)
           \/ FreeTrimmed(t)
           \/ CreateStart(t) \/ CreateEnd(t) \/ FlushCreate(t) \/ Publish(t)
           \/ Claim(t) \/ Claimed(t)
           \/ Destroy(t) \/ FlushDestroy(t) \/ Bury(t) \/ BuriedByThis(t)
  BY <1>1, <1>2, <1>3, WorkingSteps
<1>4. CASE Trim(t)
  BY <1>1, <1>2, <1>4, WorkingSteps, EffectsAreLinearizable
<1>5. CASE LinkNode(t)
  BY <1>1, <1>2, <1>5, LinkFailsWorks, EffectsAreLinearizable
<1>6. CASE PublishCAS(t) \/ ClaimCAS(t) \/ BuryCAS(t)
  BY <1>1, <1>2, <1>6, WorkingSteps, EffectsAreLinearizable
<1>7. CASE AllocNode(t) \/ Retry(t)
  BY <1>7, EffectsAreLinearizable
<1>8. CASE \/ Done(t) \/ InsertFound(t) \/ Published(t)
           \/ RemoveMiss(t) \/ BuriedByOther(t) \/ ContainsAnswers(t)
  BY <1>8, AnswersAreLinearizable
<1> QED
  BY <1>3, <1>4, <1>5, <1>6, <1>7, <1>8 DEF Step

(* Every step. *)
LEMMA NextIsLinearizable ==
  ASSUME SOFTInv, LInv, [Next]_vars
  PROVE  LInv' /\ [DS!Next]_<<call, outcomes>>
<1>0. IInv /\ AInv /\ PInv
  BY DEF SOFTInv
<1>1. ASSUME NEW t \in Threads, Step(t)
      PROVE  LInv' /\ (DS!Next \/ NoEvent)
  BY <1>0, <1>1, StepIsLinearizable
<1>2. ASSUME NEW t \in Threads, NEW c \in DS!Calls, Invoke(t, c)
      PROVE  LInv' /\ DS!Next
  BY <1>0, <1>2, InvokeLInv DEF DS!Next
<1>3. ASSUME NEW p \in PNodes, Evict(p)
      PROVE  LInv' /\ NoEvent
  BY <1>0, <1>3, EvictLInv DEF Evict, locals, NoEvent
<1>4. CASE Crash
  BY <1>0, <1>4, CrashLInv DEF Crash, DS!Next, DS!Crash
<1>5. CASE Recover
  <2>1. ASSUME NEW p \in PNodes, RecoverDead(p) \/ QuickInsert(p)
        PROVE  LInv' /\ NoEvent
    BY <1>0, <2>1, RecoverDeadLInv, QuickInsertLInv DEF RecoverDead, QuickInsert, locals, NoEvent
  <2>2. CASE RecoverDone
    BY <1>0, <2>2, RecoverDoneLInv DEF DS!Next
  <2> QED
    BY <1>5, <2>1, <2>2 DEF Recover, NoEvent
<1>6. CASE UNCHANGED vars
  <2>1. UNCHANGED <<volatile, nvm, memory, locals, recovering, outcomes>>
    BY <1>6 DEF vars
  <2>2. Persisted' = Persisted
    BY <2>1 DEF Persisted
  <2>3. LInv'
    BY <2>1, <2>2, AsideLInv DEF volatile, memory, locals, search, recovering
  <2> QED
    BY <2>1, <2>3 DEF locals
<1> QED
  BY <1>1, <1>2, <1>3, <1>4, <1>5, <1>6 DEF Next, NoEvent

(* LInv holds in every state of every behaviour. *)
LEMMA LinearizationInvariance == Spec => [](SOFTInv /\ LInv)
<1>1. SOFTInv /\ LInv /\ [Next]_vars => LInv'
  BY NextIsLinearizable
<1> QED
  BY <1>1, InitLInv, SOFTInvariance, PTL DEF Spec

(* insert, remove and contains of the SOFT list, with crashes at any moment,  *)
(* evictions, helping, reuse of PNodes and recovery(), implement the durable  *)
(* set: each answer, and what recovery finds, is that of a sequential set     *)
(* whose operations took effect between call and answer, the completed ones   *)
(* before the crash.                                                         *)
THEOREM ListIsDurablyLinearizable == Spec => DurablyLinearizable
<1>1. Init => DS!Init
  BY DEF Init, DS!Init
<1>2. SOFTInv /\ LInv /\ [Next]_vars => [DS!Next]_<<call, outcomes>>
  BY NextIsLinearizable
<1> QED
  BY <1>1, <1>2, LinearizationInvariance, PTL DEF Spec, DurablyLinearizable, DS!Spec
=============================================================================
