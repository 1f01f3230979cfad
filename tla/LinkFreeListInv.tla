-------------------------- MODULE LinkFreeListInv --------------------------
(***************************************************************************)
(* The inductive invariants behind LinkFreeList's properties: why a thread *)
(* that holds a node can trust it. Structure says what the shared list and *)
(* the nodes taken off it look like; Threads says what each program        *)
(* counter knows of the nodes the thread holds.                            *)
(***************************************************************************)
EXTENDS LinkFreeList

(* The nodes u may have a reference to: those on the list, and those that    *)
(* were unlinked while its operation ran.                                    *)
MayHold(u, n) == n \in Linked \union {Tail} \/ (n \in Nodes /\ u \in waits[n])

SentinelsAreFixed ==
  /\ key[Head] = MinKey /\ key[Tail] = MaxKey
  /\ ~marked[Head] /\ ~marked[Tail]

(* A node that is waited for is off the list, frozen, and leads only to nodes *)
(* that its holders may hold as well.                                        *)
RetiredIsClosed ==
  \A n \in Nodes : \A u \in waits[n] :
    /\ heap[n] \in {"unlinked", "free"}
    /\ marked[n]
    /\ pc[u] # "idle"
    /\ MayHold(u, next[n])

(* The program counters of an insert whose new node is not linked yet, and    *)
(* those at which Target may be the new node.                                *)
Private == {"init", "link", "markUnlinked", "undo"}
Publishing == {"makeValid", "flushInsert", "setInsert"}

(* Where t's references come from. *)
HoldsWhatItMay(t) ==
  /\ MayHold(t, pred[t]) /\ MayHold(t, curr[t])
  /\ pc[t] = "advance" => curr[t] # Tail
  /\ newNode[t] # Nil /\ pc[t] \in Publishing => MayHold(t, newNode[t])

(* The new node is nobody else's until it is linked. *)
NewNodeIsPrivate(t) ==
  /\ pc[t] \in Private => newNode[t] \in Nodes /\ heap[newNode[t]] = "owned"
  /\ pc[t] \notin Private \union Publishing => newNode[t] = Nil
  /\ pc[t] = "alloc" \/ newNode[t] # Nil => call[t].op = "insert"

(* What t's search has established. *)
SearchIsRight(t) ==
  /\ key[pred[t]] < call[t].arg
  /\ pc[t] \in {"alloc", "init", "link"} => call[t].arg < key[curr[t]]
  /\ pc[t] \in {"readSucc", "mark"} => key[curr[t]] = call[t].arg
  /\ pc[t] \in Publishing /\ newNode[t] = Nil => key[curr[t]] = call[t].arg

LinkIsReady(t) ==
  pc[t] = "link" =>
    /\ next[newNode[t]] = curr[t] /\ ~marked[newNode[t]]
    /\ key[newNode[t]] = call[t].arg

(* FLUSH_DELETE and trim work on marked nodes. *)
TrimsMarkedNodes(t) ==
  /\ pc[t] \in {"flushDelete", "setDelete", "trim", "free"} =>
       curr[t] \in Nodes /\ marked[curr[t]]
  /\ pc[t] = "free" => heap[curr[t]] = "unlinked"

ThreadInv(t) ==
  IF pc[t] = "idle"
  THEN newNode[t] = Nil /\ pred[t] = Nil /\ curr[t] = Nil
  ELSE /\ HoldsWhatItMay(t)
       /\ NewNodeIsPrivate(t)
       /\ SearchIsRight(t)
       /\ LinkIsReady(t)
       /\ TrimsMarkedNodes(t)

(* No two threads own one node, no two free one node. *)
ThreadsAreApart ==
  \A t, u \in Threads :
    /\ pc[t] \in Private /\ pc[u] \in Private /\ newNode[t] = newNode[u] => t = u
    /\ pc[t] = "free" /\ pc[u] = "free" /\ curr[t] = curr[u] => t = u

RecoveryIsAlone ==
  /\ phase = "recovering" => \A t \in Threads : pc[t] = "idle"
  /\ phase = "running" => todo = {}
  /\ burying # Nil => burying \in todo
  /\ \A n \in todo : heap[n] = "free" /\ waits[n] = {}

IInv ==
  /\ TypeOK
  /\ ListIsSorted
  /\ SentinelsAreFixed
  /\ RetiredIsClosed
  /\ \A t \in Threads : ThreadInv(t)
  /\ ThreadsAreApart
  /\ RecoveryIsAlone

-----------------------------------------------------------------------------
(* What NVM holds of each node, and why the flags and recovery may trust it. *)

(* The deletion of n would survive a crash. *)
DeletionIsPersisted(n) == nvm[n].valid /\ nvm[n].link = "marked"

(* A node that an insert owns stays invalid until others can help to make it  *)
(* valid; a node off the list is valid and dead, whenever it is written back. *)
VolatileIsRight(n) ==
  /\ heap[n] = "owned" => ~valid[n]
  /\ heap[n] = "linked" /\ marked[n] => valid[n]
  /\ heap[n] \in {"free", "unlinked"} /\ n \notin todo =>
       valid[n] /\ Link(n) # "ref"

FlagsAreTrue(n) ==
  heap[n] = "linked" \/ waits[n] # {} =>
    /\ insertFlag[n] => valid[n] /\ nvm[n].valid
    /\ deleteFlag[n] => marked[n] /\ DeletionIsPersisted(n)

(* Only a node on the list, or one recovery has yet to put there, is a member *)
(* in NVM, with the key it has in memory.                                    *)
MemberIsOnList(n) ==
  PersistedMember(n) =>
    /\ heap[n] = "linked" \/ n \in todo
    /\ nvm[n].key = key[n] /\ key[n] # MinKey
    /\ ~nvm[n].deleteFlag

(* Until recovery comes to a node, the node is what NVM says; those it has    *)
(* inserted are the members of NVM.                                          *)
RecoveredFromNVM(n) ==
  /\ n \in todo /\ n # burying => Line(n) = nvm[n]
  /\ n = burying => marked[n] /\ ~PersistedMember(n)
  /\ phase = "recovering" /\ heap[n] = "linked" =>
       Line(n) = nvm[n] /\ PersistedMember(n)

(* What a thread has seen to. *)
ThreadPersists(t) ==
  /\ pc[t] \in {"flushInsert", "setInsert"} => valid[Target(t)]
  /\ pc[t] = "setInsert" => nvm[Target(t)].valid
  /\ pc[t] = "mark" => valid[curr[t]]
  /\ pc[t] \in {"setDelete", "trim", "free"} => DeletionIsPersisted(curr[t])
  /\ pc[t] = "link" => ~insertFlag[newNode[t]] /\ ~deleteFlag[newNode[t]]
  /\ pc[t] = "undo" => marked[newNode[t]]

NodePersists(n) ==
  VolatileIsRight(n) /\ FlagsAreTrue(n) /\ MemberIsOnList(n) /\ RecoveredFromNVM(n)

PInv ==
  /\ \A n \in Nodes : NodePersists(n)
  /\ \A t \in Threads : ThreadPersists(t)
  /\ PersistedKeysAreUnique

-----------------------------------------------------------------------------
(* Durable linearizability: DInv ties the nodes on the list to the operations *)
(* that put them there or marked them, LInv ties NVM to the histories.       *)

(* The keys a crash would leave. *)
Persisted == {nvm[n].key : n \in {m \in Nodes : PersistedMember(m)}}

(* An insertion that is on the list, and that a crash would undo. *)
Unborn(n) ==
  /\ heap[n] = "linked" /\ ~PersistedMember(n)
  /\ ~(marked[n] /\ DeletionIsPersisted(n))

(* A deletion of which a crash would leave nothing. *)
Pending(n) == heap[n] = "linked" /\ marked[n] /\ ~DeletionIsPersisted(n)

(* t has linked its node; t has marked the node it removes. *)
Inserted(t) == call[t].op = "insert" /\ result[t]
Removed(t) == call[t].op = "remove" /\ result[t]

(* NVM has had the effect of t's operation, whoever wrote it back. *)
Committed(t) ==
  \/ Inserted(t) /\ ~Unborn(newNode[t])
  \/ Removed(t) /\ (pc[t] = "flushDelete" => DeletionIsPersisted(curr[t]))

AllCommitted == {t \in Threads : Committed(t)}

(* Where an operation can be. *)
LabelsOf(op) ==
  CASE op = "insert" -> {"find", "advance", "flushDelete", "setDelete", "trim", "free", "alloc",
                         "init", "link", "makeValid", "flushInsert", "setInsert",
                         "markUnlinked", "undo", "restart"}
    [] op = "remove" -> {"find", "advance", "flushDelete", "setDelete", "trim", "free", "done",
                         "makeValid", "restart", "readSucc", "mark"}
    [] op = "contains" -> {"walk", "flushDelete", "setDelete", "makeValid", "flushInsert", "setInsert"}

(* When the result of an operation is up, and what it is about. *)
CallIsRight(t) ==
  IF pc[t] = "idle" THEN call[t] = DS!None /\ ~result[t]
  ELSE /\ pc[t] \in LabelsOf(call[t].op)
       /\ call[t].op = "contains" => (result[t] <=> pc[t] \in Publishing)
       /\ call[t].op = "insert" =>
            (result[t] <=> pc[t] \in Publishing /\ newNode[t] # Nil)
       /\ call[t].op = "remove" =>
            /\ result[t] => pc[t] \in {"flushDelete", "setDelete", "trim", "free", "done"}
            /\ pc[t] = "done" => result[t]
       /\ Inserted(t) => key[newNode[t]] = call[t].arg
       /\ Removed(t) /\ pc[t] = "flushDelete" => key[curr[t]] = call[t].arg
       /\ call[t].op = "contains" /\ pc[t] \in {"flushDelete", "setDelete"} =>
            key[curr[t]] = call[t].arg
       /\ Removed(t) /\ pc[t] = "flushDelete" /\ heap[curr[t]] # "linked" => DeletionIsPersisted(curr[t])
       /\ pc[t] = "setInsert" => ~Unborn(Target(t))

(* No two operations stand for one insertion, none for one deletion. *)
ActorsAreAlone ==
  \A t, u \in Threads :
    /\ Inserted(t) /\ Inserted(u) /\ newNode[t] = newNode[u] => t = u
    /\ Removed(t) /\ Removed(u) /\ pc[t] = "flushDelete" /\ pc[u] = "flushDelete" /\ curr[t] = curr[u] => t = u

(* Whose operation has not returned while a crash would undo it, and what NVM *)
(* says of a node anyone still waits for.                                    *)
NodeIsRight(n) ==
  /\ Unborn(n) => \E u \in Threads : Inserted(u) /\ newNode[u] = n /\ pc[u] \in {"makeValid", "flushInsert"}
  /\ Pending(n) => \E v \in Threads : Removed(v) /\ pc[v] = "flushDelete" /\ curr[v] = n
  /\ heap[n] = "linked" /\ insertFlag[n] => ~Unborn(n)
  /\ heap[n] = "linked" /\ PersistedMember(n) => valid[n]
  /\ heap[n] = "linked" => key[n] \in Keys
  /\ PersistedMember(n) => nvm[n].key \in Keys
  /\ waits[n] # {} => DeletionIsPersisted(n)

(* The crash left a set that the histories allow. *)
RecoveryIsRight ==
  phase = "recovering" =>
    /\ [set |-> Persisted, res |-> DS!NoAnswer] \in outcomes
    /\ next[Tail] = Nil

DInv ==
  /\ \A t \in Threads : CallIsRight(t)
  /\ ActorsAreAlone
  /\ \A n \in Nodes : NodeIsRight(n)
  /\ RecoveryIsRight
  /\ outcomes \subseteq DS!Configurations

(* What an operation would answer if it took effect on S and changed nothing. *)
FreeAnswers(c, S) == {r \in BOOLEAN : r = DS!AnswerOf(c, S) /\ DS!SetAfter(c, S) = S}

(* The histories allow the set S together with any answers of any running     *)
(* operations, if those in M have answered, with TRUE, and the answer of each *)
(* other t is in Q[t].                                                       *)
Answers == UNION {[D -> BOOLEAN] : D \in SUBSET Threads}

Answered(c, M, Q, R) ==
  /\ M \subseteq DOMAIN R
  /\ \A t \in DOMAIN R : c[t] # DS!None /\ IF t \in M THEN R[t] = TRUE ELSE R[t] \in Q[t]

Promised(c, o, S, M, Q) ==
  \A R \in Answers :
    Answered(c, M, Q, R) => [set |-> S, res |-> R] \in DS!ReachFrom(c, o)

(* At insert and contains on the node they found, TRUE or FALSE is in q,      *)
(* unless the node is yet to reach NVM: then the flush to come brings it.    *)
FoundIsKnown(t, q) ==
  pc[t] \in Publishing /\ call[t].op # "remove" /\ newNode[t] = Nil =>
    Unborn(curr[t]) \/ (call[t].op = "contains") \in q

(* Once a walk has passed where its key would be, FALSE is in q. A node off   *)
(* the list with a smaller key leads on to where the key was missing, or to  *)
(* one that is not past it.                                                  *)
MissIsKnown(t, q) ==
  pc[t] # "idle" /\ call[t].op # "insert" =>
    /\ \A n \in Nodes : t \in waits[n] =>
         /\ key[n] = call[t].arg => FALSE \in q
         /\ key[n] < call[t].arg => FALSE \in q \/ key[next[n]] <= call[t].arg
    /\ pc[t] \in {"walk", "find", "flushDelete", "setDelete", "trim", "free", "advance"} /\ key[curr[t]] > call[t].arg => FALSE \in q
    /\ pc[t] \in {"free", "advance"} /\ key[curr[t]] = call[t].arg => FALSE \in q
    /\ call[t].op = "contains" /\ pc[t] \in {"flushDelete", "setDelete"} =>
         FALSE \in q \/ (heap[curr[t]] = "linked" /\ ~DeletionIsPersisted(curr[t]))

Knows(Q) ==
  \A t \in Threads :
    /\ pc[t] # "idle" => FreeAnswers(call[t], Persisted) \subseteq Q[t]
    /\ FoundIsKnown(t, Q[t])
    /\ MissIsKnown(t, Q[t])

LInv ==
  /\ DInv
  /\ phase = "running" =>
       \E Q \in [Threads -> SUBSET BOOLEAN] :
         Knows(Q) /\ Promised(call, outcomes, Persisted, AllCommitted, Q)
=============================================================================
