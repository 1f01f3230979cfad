---------------------------- MODULE SOFTListInv ----------------------------
(***************************************************************************)
(* The inductive invariants behind SOFTList's properties: IInv for the     *)
(* list of volatile nodes, AInv for the PNodes that belong to them, PInv   *)
(* for what NVM holds of each PNode. They do not depend on QuiesceOnFree:  *)
(* SOFT never frees a volatile node, and ssmem's rule is enough for the    *)
(* PNodes.                                                                 *)
(***************************************************************************)
EXTENDS SOFTList

-----------------------------------------------------------------------------
(* The nodes u may have a reference to: those on the list, and those that    *)
(* were unlinked while its operation ran.                                    *)
MayHold(u, n) == n \in Linked \union {Tail} \/ (n \in Nodes /\ u \in waits[n])

SentinelsAreFixed ==
  /\ key[Head] = MinKey /\ key[Tail] = MaxKey
  /\ state[Head] = INSERTED /\ state[Tail] = INSERTED

(* A node that is waited for is off the list, deleted for good, and leads     *)
(* only to nodes that its holders may hold as well.                          *)
RetiredIsClosed ==
  \A n \in Nodes : \A u \in waits[n] :
    /\ heap[n] = "unlinked" /\ state[n] = DELETED
    /\ pc[u] # "idle"
    /\ MayHold(u, next[n])

(* The program counters of an insert whose new node is not linked yet, those  *)
(* at which Target may be the new node, and those of a remove that found one.*)
Private == {"link", "retry"}
Publishing == {"create", "createEnd", "flushCreate", "publish", "publishCAS"}
Removing == {"claim", "claimCAS", "destroy", "flushDestroy", "bury", "buryCAS"}

(* Where t's references come from. *)
HoldsWhatItMay(t) ==
  /\ MayHold(t, pred[t]) /\ MayHold(t, curr[t])
  /\ newNode[t] # Nil /\ pc[t] \in Publishing => MayHold(t, newNode[t])

(* The new node is nobody else's until it is linked. *)
NewNodeIsPrivate(t) ==
  /\ pc[t] \in Private =>
       /\ newNode[t] \in Nodes /\ heap[newNode[t]] = "owned"
       /\ next[newNode[t]] = curr[t] /\ state[newNode[t]] = INTEND_TO_INSERT
       /\ key[newNode[t]] = call[t].arg
  /\ pc[t] \notin Private \union Publishing => newNode[t] = Nil

(* What t's search has established. *)
SearchIsRight(t) ==
  /\ key[pred[t]] < call[t].arg /\ predState[t] # DELETED
  /\ pc[t] \in {"alloc", "link"} => call[t].arg < key[curr[t]]
  /\ pc[t] \in Removing => key[curr[t]] = call[t].arg
  /\ pc[t] \in Publishing /\ newNode[t] = Nil => key[curr[t]] = call[t].arg

(* What t has read of curr's state stays true enough. *)
StateIsKnown(t) ==
  /\ pc[t] \in {"trim", "free"} => curr[t] \in Nodes /\ state[curr[t]] = DELETED
  /\ pc[t] = "free" => heap[curr[t]] = "unlinked"
  /\ pc[t] \in Removing => state[curr[t]] # INTEND_TO_INSERT
  /\ pc[t] \in Removing \ {"claim", "claimCAS"} => state[curr[t]] # INSERTED

ThreadInv(t) ==
  IF pc[t] = "idle"
  THEN newNode[t] = Nil
  ELSE /\ HoldsWhatItMay(t)
       /\ NewNodeIsPrivate(t)
       /\ SearchIsRight(t)
       /\ StateIsKnown(t)

(* No two threads own one node, no two free one node. *)
ThreadsAreApart ==
  \A t, u \in Threads :
    /\ pc[t] \in Private /\ pc[u] \in Private /\ newNode[t] = newNode[u] => t = u
    /\ pc[t] = "free" /\ pc[u] = "free" /\ curr[t] = curr[u] => t = u

RecoveryIsAlone ==
  /\ phase = "recovering" =>
       /\ \A t \in Threads : pc[t] = "idle"
       /\ \A n \in Nodes : heap[n] = "free" \/ (heap[n] = "linked" /\ state[n] = INSERTED)
  /\ phase = "running" => todo = {}

IInv ==
  /\ TypeOK
  /\ ListIsSorted
  /\ SentinelsAreFixed
  /\ RetiredIsClosed
  /\ \A t \in Threads : ThreadInv(t)
  /\ ThreadsAreApart
  /\ RecoveryIsAlone

-----------------------------------------------------------------------------
(* Whose a PNode is. *)

(* A thread is about to free the PNode of n. *)
Freeing(n) == \E u \in Threads : pc[u] = "free" /\ curr[u] = n

(* n has a PNode that is not freed yet. *)
Live(n) == heap[n] \in {"owned", "linked"} \/ Freeing(n)

(* u may still write the PNode of the node it works on. *)
Serving == {"create", "createEnd", "flushCreate", "claim", "claimCAS", "destroy", "flushDestroy"}

Attached(n) == Live(n) \/ \E u \in Threads : pc[u] \in Serving /\ Target(u) = n

OwnersHavePNodes ==
  \A n \in Nodes : Attached(n) =>
    /\ pptr[n] \in PNodes
    /\ pheap[pptr[n]] = IF Live(n) THEN "used" ELSE "free"

(* No PNode is written on behalf of two nodes. *)
PNodesAreApart ==
  \A m, n \in Nodes : Attached(m) /\ Attached(n) /\ pptr[m] = pptr[n] => m = n

UsedPNodesHaveOwners ==
  \A p \in PNodes : pheap[p] = "used" => \E n \in Nodes : Live(n) /\ pptr[n] = p

(* A PNode that was freed is kept for the threads that still serve its node,  *)
(* because the PNode of a node that is about to lose it is kept for all that *)
(* hold the node.                                                            *)
ServedPNodesAreKept ==
  \A u \in Threads : pc[u] \in Serving /\ ~Live(Target(u)) => u \in waits[pptr[Target(u)]]

FreedPNodesAreCovered ==
  ~QuiesceOnFree => \A n \in Nodes : Freeing(n) => waits[n] \subseteq waits[pptr[n]]

TodoIsFree == \A p \in todo : pheap[p] = "free"

AInv ==
  /\ OwnersHavePNodes
  /\ PNodesAreApart
  /\ UsedPNodesHaveOwners
  /\ ServedPNodesAreKept
  /\ FreedPNodesAreCovered
  /\ TodoIsFree

-----------------------------------------------------------------------------
(* What NVM holds of each PNode, and why recovery may trust it. *)

(* A line is a member with n's key, but for deleted. *)
Written(line, n) ==
  line.validStart = pValidity[n] /\ line.validEnd = pValidity[n] /\ line.key = key[n]

(* The validities of the line and of its copy follow the state of the node.  *)
NodePersists(n) ==
  LET line == Line(pptr[n])
      copy == nvm[pptr[n]]
      v == pValidity[n]
  IN  /\ heap[n] = "owned" =>
           line.validStart = ~v /\ line.validEnd = ~v /\ copy.validEnd = ~v
      /\ state[n] = INTEND_TO_INSERT =>
           /\ line.validEnd = v => Written(line, n)
           /\ copy.validEnd = v => Written(copy, n) /\ Written(line, n)
      /\ state[n] # INTEND_TO_INSERT => Written(line, n) /\ Written(copy, n)
      /\ state[n] \in {INTEND_TO_INSERT, INSERTED} => line.deleted = ~v /\ copy.deleted = ~v
      /\ copy.deleted = v => line.deleted = v
      /\ state[n] = DELETED => copy.deleted = v

(* A free PNode is dead, whenever it is written back. *)
PNodeIsDead(p) ==
  /\ validStart[p] = validEnd[p] /\ validEnd[p] = deleted[p]
  /\ nvm[p].validEnd = deleted[p] /\ nvm[p].deleted = deleted[p]

(* validStart is stored first: a line that is half written is no member once  *)
(* RecoverDead has made validStart what validEnd is.                         *)
InOrder(line) == line.validEnd # line.deleted => line.validStart = line.validEnd

(* What a thread has seen to. *)
ThreadPersists(t) ==
  LET n == Target(t)
      line == Line(pptr[n])
      copy == nvm[pptr[n]]
  IN  /\ pc[t] = "createEnd" => line.validStart = pValidity[n]
      /\ pc[t] = "flushCreate" => Written(line, n)
      /\ pc[t] \in {"publish", "publishCAS"} /\ state[n] = INTEND_TO_INSERT => Written(copy, n)
      /\ pc[t] = "flushDestroy" => line.deleted = pValidity[n]
      /\ pc[t] \in {"bury", "buryCAS"} /\ state[n] = INTEND_TO_DELETE =>
           copy.deleted = pValidity[n]

NodesPersist == \A n \in Nodes : Attached(n) => NodePersists(n)

ThreadsPersist == \A t \in Threads : ThreadPersists(t)

FreePNodesAreDead == \A p \in PNodes : pheap[p] = "free" /\ p \notin todo => PNodeIsDead(p)

TodoIsAsInNVM == \A p \in todo : Line(p) = nvm[p]

CopyIsSound(p) == InOrder(nvm[p]) /\ (IsValid(nvm[p]) => nvm[p].key # MinKey)

PInv ==
  /\ NodesPersist
  /\ ThreadsPersist
  /\ FreePNodesAreDead
  /\ TodoIsAsInNVM
  /\ \A p \in PNodes : CopyIsSound(p)
  /\ PersistedKeysAreUnique

SOFTInv == IInv /\ AInv /\ PInv
-----------------------------------------------------------------------------
(* Durable linearizability: DInv ties the nodes on the list to the operations *)
(* that put them there or claimed them, LInv ties the keys that contains      *)
(* would find to the histories.                                              *)

(* The keys in the set, as threads see it, and as a crash would leave it.    *)
Members ==
  {key[n] : n \in {m \in Nodes : heap[m] = "linked" /\ state[m] \in {INSERTED, INTEND_TO_DELETE}}}

Persisted == {nvm[p].key : p \in {q \in PNodes : IsValid(nvm[q])}}

(* t has linked its node; t has claimed the node it removes. *)
Inserted(t) == call[t].op = "insert" /\ result[t]
Removed(t) == call[t].op = "remove" /\ result[t]

Burying == {"destroy", "flushDestroy", "bury", "buryCAS"}

(* Threads have seen the effect of t's operation, whoever brought it about.  *)
Committed(t) ==
  \/ Inserted(t) /\ state[newNode[t]] # INTEND_TO_INSERT
  \/ Removed(t) /\ (pc[t] \in Burying => state[curr[t]] = DELETED)

AllCommitted == {t \in Threads : Committed(t)}

(* Where an operation can be. *)
LabelsOf(op) ==
  CASE op = "insert" -> {"find", "trim", "free", "alloc"} \union Private \union Publishing
    [] op = "remove" -> {"find", "trim", "free", "done"} \union Removing
    [] op = "contains" -> {"walk"}

(* When the result of an operation is up, and what it is about. *)
CallIsRight(t) ==
  IF pc[t] = "idle" THEN call[t] = DS!None /\ ~result[t]
  ELSE /\ pc[t] \in LabelsOf(call[t].op)
       /\ call[t].op = "contains" => ~result[t]
       /\ call[t].op = "insert" => (result[t] <=> pc[t] \in Publishing /\ newNode[t] # Nil)
       /\ Inserted(t) => key[newNode[t]] = call[t].arg
       /\ Removed(t) => pc[t] \in Burying \union {"trim", "free", "done"}
       /\ pc[t] = "done" => Removed(t)

(* No two operations stand for one insertion, none for one deletion. *)
ActorsAreAlone ==
  \A t, u \in Threads :
    /\ Inserted(t) /\ Inserted(u) /\ newNode[t] = newNode[u] => t = u
    /\ Removed(t) /\ Removed(u) /\ pc[t] \in Burying /\ pc[u] \in Burying /\ curr[t] = curr[u] => t = u

(* Whose operation a node that is neither in nor out belongs to. *)
NodeIsRight(n) ==
  heap[n] = "linked" =>
    /\ key[n] \in Keys
    /\ state[n] = INTEND_TO_INSERT => \E u \in Threads : Inserted(u) /\ newNode[u] = n
    /\ state[n] = INTEND_TO_DELETE =>
         \E u \in Threads : Removed(u) /\ pc[u] \in Burying /\ curr[u] = n

(* The crash left a set that the histories allow. *)
RecoveryIsRight ==
  phase = "recovering" =>
    /\ [set |-> Persisted, res |-> DS!NoAnswer] \in outcomes
    /\ next[Tail] = Nil

DInv ==
  /\ \A t \in Threads : CallIsRight(t)
  /\ ActorsAreAlone
  /\ \A n \in Nodes : NodeIsRight(n)
  /\ RecoveryIsRight
  /\ outcomes \subseteq DS!Configurations

(* What an operation would answer if it took effect on S and changed nothing. *)
FreeAnswers(c, S) == {r \in BOOLEAN : r = DS!AnswerOf(c, S) /\ DS!SetAfter(c, S) = S}

(* The histories allow the set S together with any answers of any running     *)
(* operations, if those in M have answered, with TRUE, and the answer of each *)
(* other t is in Q[t].                                                       *)
Answers == UNION {[D -> BOOLEAN] : D \in SUBSET Threads}

Answered(c, M, Q, R) ==
  /\ M \subseteq DOMAIN R
  /\ \A t \in DOMAIN R : c[t] # DS!None /\ IF t \in M THEN R[t] = TRUE ELSE R[t] \in Q[t]

Promised(c, o, S, M, Q) ==
  \A R \in Answers :
    Answered(c, M, Q, R) => [set |-> S, res |-> R] \in DS!ReachFrom(c, o)

(* FALSE may be the answer. *)
MayFail(q) == FALSE \in q

(* An insert that helps may answer FALSE once the node it helps is in.       *)
HelpIsKnown(t, q) ==
  pc[t] \in Publishing /\ newNode[t] = Nil => state[curr[t]] = INTEND_TO_INSERT \/ MayFail(q)

(* Once a walk has passed where its key would be, FALSE is in q. A node off   *)
(* the list with a smaller key leads on to where the key was missing, or to  *)
(* one that is not past it.                                                  *)
MissIsKnown(t, q) ==
  pc[t] # "idle" /\ call[t].op # "insert" =>
    /\ \A n \in Nodes : t \in waits[n] =>
         /\ key[n] = call[t].arg => MayFail(q)
         /\ key[n] < call[t].arg => MayFail(q) \/ key[next[n]] <= call[t].arg
    /\ key[curr[t]] > call[t].arg => MayFail(q)

ThreadKnows(t, q) ==
  /\ pc[t] # "idle" => FreeAnswers(call[t], Members) \subseteq q
  /\ HelpIsKnown(t, q)
  /\ MissIsKnown(t, q)

Knows(Q) == \A t \in Threads : ThreadKnows(t, Q[t])

LInv ==
  /\ DInv
  /\ phase = "running" =>
       \E Q \in [Threads -> SUBSET BOOLEAN] :
         Knows(Q) /\ Promised(call, outcomes, Members, AllCommitted, Q)
=============================================================================
