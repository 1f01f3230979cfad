---------------------------- MODULE SOFTSkipList ----------------------------
(***************************************************************************)
(* The SOFT skip list: SOFT/SOFTSkipList.h. One node is what the SOFT list *)
(* splits in two: the bits that recovery reads and a tower of links. Level *)
(* 0 is the set, and the state of a node is kept in its own level 0 link;  *)
(* on the levels above a link is INSERTED or DELETED.                      *)
(*                                                                         *)
(* A step is one access to shared memory, with these mergers:              *)
(*  - an invocation, and a search that begins again, include the first     *)
(*    read of head; a response includes the last access; the search that   *)
(*    cuts a removed node off begins with the step that makes it DELETED;  *)
(*  - the loops of Node::stateCAS and of markNodes are their last round,   *)
(*    which changes the state or finds it changed;                         *)
(*  - a second read of a DELETED link comes with the first: it is frozen;  *)
(*  - lines 330 to 335 are one step: in between the link of a node that is *)
(*    not raised to that level can only be marked, and both then return;   *)
(*  - the allocation, from the thread's own allocator, and the stores into  *)
(*    a node that is not linked yet, which come with the search that failed; *)
(*  - a store to validEnd or deleted and its BARRIER: recovery alone reads   *)
(*    the bits, so the line is written back, by the flush or an eviction     *)
(*    before it, with nothing to tell the moment of the store from it.       *)
(*                                                                         *)
(* There is no recovery for this structure in the repository. What NVM     *)
(* keeps of a node is what SOFTList's recovery() would make of it. A freed *)
(* node comes back as a new one once no thread and no level leads to it.   *)
(***************************************************************************)
EXTENDS Integers, FiniteSets

CONSTANTS
  Threads, Keys, Nodes, Head, Tail, Nil, MinKey, MaxKey,  (* as in SOFTList *)
  MAX_LEVEL,
  Heights  (* the heights get_random_level chooses from, in the code all *)

Levels == 0..(MAX_LEVEL - 1)

ASSUME KeysAssumption ==
  /\ Keys \subseteq Int
  /\ MinKey \in Int /\ MaxKey \in Int /\ MinKey < MaxKey
  /\ \A k \in Keys : MinKey < k /\ k < MaxKey

ASSUME NodesAssumption ==
  /\ IsFiniteSet(Nodes)
  /\ Head # Tail
  /\ Head \notin Nodes /\ Tail \notin Nodes /\ Nil \notin Nodes \union {Head, Tail}

ASSUME LevelsAssumption == MAX_LEVEL \in Nat \ {0} /\ Heights \subseteq 1..MAX_LEVEL

INSERTED == 0
INTEND_TO_DELETE == 1
INTEND_TO_INSERT == 2
DELETED == 3

VARIABLES
  mem,      (* the fields of each node *)
  nvm,      (* the key with which a node would be recovered, or Nil *)
  free,     (* the nodes ssmem has *)
  local,    (* the local variables of each thread *)
  call, outcomes  (* as in DurableSet *)

vars == <<mem, nvm, free, local, call, outcomes>>

DS == INSTANCE DurableSet

-----------------------------------------------------------------------------
(* Nodes and links *)

To(n, s) == [to |-> n, state |-> s]

Ref(n, i) == mem[n].link[i].to
State(n, i) == mem[n].link[i].state
Key(n) == mem[n].key

isOut(s) == s \in {DELETED, INTEND_TO_INSERT}

isValid(m) == m.validStart = m.validEnd /\ m.validEnd # m.deleted

(* with what the step has stored *)
BARRIER(n) == nvm' = [nvm EXCEPT ![n] = IF isValid(mem'[n]) THEN mem'[n].key ELSE Nil]

(* compare_exchange_strong on n->next[i]: reference and state at once *)
CAS(n, i, before, after) ==
  /\ mem[n].link[i] = before
  /\ mem' = [mem EXCEPT ![n].link[i] = after]

CASFails(n, i, before) ==
  /\ mem[n].link[i] # before
  /\ UNCHANGED mem

(* Node::stateCAS *)
stateCAS(n, from, to) ==
  mem' = [mem EXCEPT ![n].link[0].state = IF @ = from THEN to ELSE @]

-----------------------------------------------------------------------------
(* Threads *)

Idle ==
  [pc |-> "idle", lvl |-> 0, pred |-> Nil, predState |-> INSERTED, from |-> Nil,
   curr |-> Nil, preds |-> [i \in Levels |-> Nil], succs |-> [i \in Levels |-> Nil],
   node |-> Nil, up |-> 0, result |-> FALSE]

At(t, label) == local[t].pc = label

Become(t, l) == local' = [local EXCEPT ![t] = l]

Goto(t, label) == Become(t, [local[t] EXCEPT !.pc = label])

Return(t, r) ==
  /\ call' = [call EXCEPT ![t] = DS!None]
  /\ outcomes' = DS!AfterAnswer(t, r)
  /\ Become(t, Idle)

StartSearch ==
  [Idle EXCEPT !.pc = "walk", !.lvl = MAX_LEVEL - 1, !.pred = Head,
               !.curr = Ref(Head, MAX_LEVEL - 1)]

Invoke(t, c) ==
  /\ At(t, "idle")
  /\ call' = [call EXCEPT ![t] = c]
  /\ Become(t, StartSearch)
  /\ UNCHANGED <<mem, nvm, free, outcomes>>

(* preds[i] and succs[i], as far as insert reads them later. Local variables *)
(* that are not read again are Nil in the model.                             *)
Record(t) ==
  LET l == local[t] IN
  IF call[t].op = "insert" /\ (l.node = Nil \/ l.lvl \in l.up..(mem[l.node].topLevel - 1))
  THEN [l EXCEPT !.preds[l.lvl] = l.pred, !.succs[l.lvl] = l.curr]
  ELSE l

Forget(l, levels) ==
  [l EXCEPT !.preds = [i \in Levels |-> IF i \in levels THEN Nil ELSE @[i]],
            !.succs = [i \in Levels |-> IF i \in levels THEN Nil ELSE @[i]]]

SearchEnds(l, label) ==
  [l EXCEPT !.pc = label, !.lvl = 0, !.pred = Nil, !.from = Nil, !.curr = Nil]

-----------------------------------------------------------------------------
(* findNoCleanup, findSuccsNoCleanup and the loop of contains. The first     *)
(* read of a link ("walk") decides, the second ("step") gives the way on.    *)

Here(t) == State(local[t].curr, local[t].lvl)

(* contains walks on over nodes that are not inserted yet, the others stop.  *)
WalkStops(t) ==
  /\ At(t, "walk")
  /\ Here(t) # DELETED /\ Key(local[t].curr) >= call[t].arg
  /\ call[t].op = "contains" => ~isOut(Here(t))

(* pred and its state, as far as they are read later *)
Pass(t) ==
  LET l == local[t]
      inserts == call[t].op = "insert"
  IN  [l EXCEPT !.pc = "step",
                !.pred = IF inserts \/ l.lvl > 0 THEN l.curr ELSE Nil,
                !.predState = IF inserts THEN Here(t) ELSE INSERTED]

WalkOn(t) ==
  LET l == local[t] IN
  /\ At(t, "walk") /\ ~WalkStops(t)
  /\ Become(t, IF Here(t) = DELETED THEN [l EXCEPT !.curr = Ref(@, l.lvl)] ELSE Pass(t))
  /\ UNCHANGED <<mem, nvm, free, call, outcomes>>

WalkStep(t) ==
  /\ At(t, "step")
  /\ Become(t, [local[t] EXCEPT !.pc = "walk", !.curr = Ref(@, local[t].lvl)])
  /\ UNCHANGED <<mem, nvm, free, call, outcomes>>

WalkFinds(t) == WalkStops(t) /\ Key(local[t].curr) = call[t].arg

(* The next level starts with a read of pred. Line 149 asks a reference for  *)
(* its state that line 148 has just cleared of it, and gets INSERTED.        *)
WalkDown(t) ==
  /\ WalkStops(t) /\ local[t].lvl > 0
  /\ ~(WalkFinds(t) /\ call[t].op = "contains")
  /\ Become(t, [Record(t) EXCEPT !.pc = "step", !.lvl = @ - 1, !.curr = local[t].pred,
                   !.pred = IF call[t].op = "insert" \/ local[t].lvl > 1 THEN @ ELSE Nil,
                   !.predState = INSERTED])
  /\ UNCHANGED <<mem, nvm, free, call, outcomes>>

(* Fault: a node whose removal has begun counts as removed. *)
WalkAnswersByMark(t) ==
  /\ WalkStops(t) /\ call[t].op = "contains"
  /\ WalkFinds(t) \/ local[t].lvl = 0
  /\ Return(t, WalkFinds(t) /\ Here(t) = INSERTED)
  /\ UNCHANGED <<mem, nvm, free>>

(* contains, also from an upper level *)
WalkAnswers(t) ==
  /\ WalkStops(t) /\ call[t].op = "contains"
  /\ WalkFinds(t) \/ local[t].lvl = 0
  /\ Return(t, WalkFinds(t))
  /\ UNCHANGED <<mem, nvm, free>>

(* Another insertion of the key is under way: help it. *)
InsertHelps(t) ==
  /\ WalkFinds(t) /\ local[t].lvl = 0 /\ call[t].op = "insert"
  /\ Here(t) = INTEND_TO_INSERT
  /\ Become(t, [Idle EXCEPT !.pc = "help", !.node = local[t].curr])
  /\ UNCHANGED <<mem, nvm, free, call, outcomes>>

InsertFound(t) ==
  /\ WalkFinds(t) /\ local[t].lvl = 0 /\ call[t].op = "insert"
  /\ Here(t) # INTEND_TO_INSERT
  /\ Return(t, FALSE)
  /\ UNCHANGED <<mem, nvm, free>>

RemoveMiss(t) ==
  /\ WalkStops(t) /\ local[t].lvl = 0 /\ call[t].op = "remove"
  /\ WalkFinds(t) => isOut(Here(t))
  /\ Return(t, FALSE)
  /\ UNCHANGED <<mem, nvm, free>>

(* Fault: level 0 is marked first. *)
RemoveFoundFromBelow(t) ==
  /\ WalkFinds(t) /\ local[t].lvl = 0 /\ call[t].op = "remove"
  /\ ~isOut(Here(t))
  /\ Become(t, [Idle EXCEPT !.pc = "mark", !.node = local[t].curr])
  /\ UNCHANGED <<mem, nvm, free, call, outcomes>>

RemoveFound(t) ==
  /\ WalkFinds(t) /\ local[t].lvl = 0 /\ call[t].op = "remove"
  /\ ~isOut(Here(t))
  /\ Become(t, [Idle EXCEPT !.pc = "mark", !.node = local[t].curr,
                            !.lvl = mem[local[t].curr].topLevel - 1])
  /\ UNCHANGED <<mem, nvm, free, call, outcomes>>

-----------------------------------------------------------------------------
(* find: cut out the DELETED nodes of every level. It is called by insert,   *)
(* when a short cut could not be linked, and by remove.                      *)

FindFrom(l, pred, lvl) ==
  [l EXCEPT !.pc = "find", !.lvl = lvl, !.pred = pred, !.predState = State(pred, lvl),
            !.from = Ref(pred, lvl), !.curr = Ref(pred, lvl)]

StartFind(l) == FindFrom(l, Head, MAX_LEVEL - 1)

FindLevel(t) ==
  LET l == local[t] IN
  /\ At(t, "findLevel")
  /\ Become(t, IF State(l.pred, l.lvl) = DELETED THEN StartFind(l)
               ELSE FindFrom(l, l.pred, l.lvl))
  /\ UNCHANGED <<mem, nvm, free, call, outcomes>>

FindOn(t) ==
  LET l == local[t] IN
  /\ At(t, "find")
  /\ Here(t) = DELETED \/ Key(l.curr) < call[t].arg
  /\ Become(t, IF Here(t) = DELETED
               THEN [l EXCEPT !.curr = Ref(@, l.lvl)]
               ELSE [l EXCEPT !.pred = l.curr, !.predState = Here(t),
                              !.from = Ref(l.curr, l.lvl), !.curr = Ref(@, l.lvl)])
  /\ UNCHANGED <<mem, nvm, free, call, outcomes>>

FindDown(t) ==
  LET l == [Record(t) EXCEPT !.predState = INSERTED] IN
  IF l.lvl > 0 THEN [l EXCEPT !.pc = "findLevel", !.lvl = @ - 1, !.from = Nil, !.curr = Nil]
  ELSE SearchEnds(l, IF call[t].op = "insert" THEN "raise" ELSE "free")

FindStop(t) ==
  LET l == local[t] IN
  /\ At(t, "find")
  /\ Here(t) # DELETED /\ Key(l.curr) >= call[t].arg
  /\ Become(t, IF l.from = l.curr THEN FindDown(t) ELSE [l EXCEPT !.pc = "cut"])
  /\ UNCHANGED <<mem, nvm, free, call, outcomes>>

(* Fault: the state of pred is not carried through the cut. *)
CutRevives(t) ==
  LET l == local[t] IN
  /\ At(t, "cut")
  /\ Ref(l.pred, l.lvl) = l.from
  /\ mem' = [mem EXCEPT ![l.pred].link[l.lvl] = To(l.curr, INSERTED)]
  /\ Become(t, FindDown(t))
  /\ UNCHANGED <<nvm, free, call, outcomes>>

Cut(t) ==
  LET l == local[t]
      before == To(l.from, l.predState)
  IN
  /\ At(t, "cut")
  /\ \/ CAS(l.pred, l.lvl, before, To(l.curr, l.predState)) /\ Become(t, FindDown(t))
     \/ CASFails(l.pred, l.lvl, before) /\ Become(t, StartFind(l))
  /\ UNCHANGED <<nvm, free, call, outcomes>>

-----------------------------------------------------------------------------
(* Memory *)

Roots ==
  {Head} \union
  UNION {LET l == local[t] IN
         {l.pred, l.from, l.curr, l.node} \union
         UNION {{l.preds[i], l.succs[i]} : i \in Levels} : t \in Threads}

Referenced ==
  LET f[j \in 0..Cardinality(Nodes)] ==
        IF j = 0 THEN Roots
        ELSE f[j-1] \union
             UNION {{Ref(n, i) : i \in 0..(mem[n].topLevel - 1)} : n \in f[j-1] \ {Nil}}
  IN  f[Cardinality(Nodes)]

Allocatable(n) == n \in free /\ n \notin Referenced

(* The bits of a node are only compared with one another: a free node is kept *)
(* up to the complement of all of them.                                      *)
Freed(m) ==
  [m EXCEPT !.validStart = FALSE, !.validEnd = @ # m.validStart,
            !.deleted = @ # m.validStart, !.pValidity = @ # m.validStart]

-----------------------------------------------------------------------------
(* insert *)

(* Node::alloc and create, then the links *)
NewNode(t, n, top) ==
  [mem[n] EXCEPT !.validStart = ~@, !.pValidity = ~mem[n].validStart, !.topLevel = top,
     !.key = call[t].arg,
     !.link = [i \in Levels |->
        IF i >= top THEN @[i]
        ELSE To(Record(t).succs[i], IF i = 0 THEN INTEND_TO_INSERT ELSE INSERTED)]]

InsertMiss(t) ==
  /\ WalkStops(t) /\ local[t].lvl = 0 /\ call[t].op = "insert"
  /\ ~WalkFinds(t)
  /\ \E n \in Nodes, top \in Heights :
       /\ Allocatable(n)
       /\ free' = free \ {n}
       /\ mem' = [mem EXCEPT ![n] = NewNode(t, n, top)]
       /\ Become(t, [Forget(SearchEnds(Record(t), "link"), top..MAX_LEVEL) EXCEPT !.node = n])
  /\ UNCHANGED <<nvm, call, outcomes>>

(* The state of pred goes into its link with the new reference. *)
LinkNode(t) ==
  LET l == local[t]
      before == To(l.succs[0], l.predState)
  IN
  /\ At(t, "link")
  /\ \/ /\ CAS(l.preds[0], 0, before, To(l.node, l.predState))
        /\ Become(t, [Forget(l, {0}) EXCEPT !.pc = "help", !.predState = INSERTED,
                                            !.result = TRUE])
     \/ /\ CASFails(l.preds[0], 0, before)
        /\ Become(t, [Forget(l, Levels) EXCEPT !.pc = "undo", !.predState = INSERTED])
  /\ UNCHANGED <<nvm, free, call, outcomes>>

UndoInsert(t) ==
  LET n == local[t].node IN
  /\ At(t, "undo")
  /\ mem' = [mem EXCEPT ![n] = Freed([@ EXCEPT !.validStart = ~mem[n].pValidity])]
  /\ free' = free \union {n}
  /\ Become(t, StartSearch)
  /\ UNCHANGED <<nvm, call, outcomes>>

(* Fault: the bit is set, the BARRIER forgotten. *)
HelpWithoutFlush(t) ==
  LET n == local[t].node IN
  /\ At(t, "help")
  /\ mem' = [mem EXCEPT ![n].validEnd = mem[n].pValidity]
  /\ Goto(t, "publish")
  /\ UNCHANGED <<nvm, free, call, outcomes>>

(* Node::help, by the thread that linked the node or by one that found it *)
Help(t) ==
  LET n == local[t].node IN
  /\ At(t, "help")
  /\ mem' = [mem EXCEPT ![n].validEnd = mem[n].pValidity]
  /\ BARRIER(n)
  /\ Goto(t, "publish")
  /\ UNCHANGED <<free, call, outcomes>>

(* insert has linked the node and has levels left to link *)
Raises(t) ==
  LET l == local[t] IN l.result /\ l.up + 1 < mem[l.node].topLevel

Publish(t) ==
  LET l == local[t] IN
  /\ At(t, "publish")
  /\ stateCAS(l.node, INTEND_TO_INSERT, INSERTED)
  /\ \/ /\ Raises(t)
        /\ Become(t, [l EXCEPT !.pc = "raise", !.up = 1])
        /\ UNCHANGED <<call, outcomes>>
     \/ ~Raises(t) /\ Return(t, l.result)
  /\ UNCHANGED <<nvm, free>>

(* Prepare the link of level up, unless a remover has marked it. *)
RaiseLink(t) ==
  LET l == local[t] IN
  /\ At(t, "raise")
  /\ State(l.node, l.up) # DELETED
  /\ mem' = [mem EXCEPT ![l.node].link[l.up] = To(l.succs[l.up], INSERTED)]
  /\ Goto(t, "linkUpper")
  /\ UNCHANGED <<nvm, free, call, outcomes>>

RaiseStops(t) ==
  /\ At(t, "raise")
  /\ State(local[t].node, local[t].up) = DELETED
  /\ Return(t, TRUE)
  /\ UNCHANGED <<mem, nvm, free>>

(* Fault: the short cut is stored over whatever pred leads to by now. *)
LinkUpperOverwrites(t) ==
  LET l == local[t] IN
  /\ At(t, "linkUpper")
  /\ State(l.preds[l.up], l.up) # DELETED
  /\ mem' = [mem EXCEPT ![l.preds[l.up]].link[l.up] = To(l.node, INSERTED)]
  /\ Return(t, TRUE)
  /\ UNCHANGED <<nvm, free>>

LinkUpper(t) ==
  LET l == local[t] IN
  /\ At(t, "linkUpper")
  /\ CAS(l.preds[l.up], l.up, To(l.succs[l.up], INSERTED), To(l.node, INSERTED))
  /\ \/ /\ Raises(t)
        /\ Become(t, [Forget(l, {l.up}) EXCEPT !.pc = "raise", !.up = @ + 1])
        /\ UNCHANGED <<call, outcomes>>
     \/ ~Raises(t) /\ Return(t, TRUE)
  /\ UNCHANGED <<nvm, free>>

LinkUpperFails(t) ==
  LET l == local[t] IN
  /\ At(t, "linkUpper")
  /\ CASFails(l.preds[l.up], l.up, To(l.succs[l.up], INSERTED))
  /\ Become(t, StartFind(l))
  /\ UNCHANGED <<nvm, free, call, outcomes>>

-----------------------------------------------------------------------------
(* remove *)

(* markNodes: the levels from the top down to 1 *)
Mark(t) ==
  LET l == local[t] IN
  /\ At(t, "mark") /\ l.lvl > 0
  /\ mem' = [mem EXCEPT ![l.node].link[l.lvl].state = DELETED]
  /\ Become(t, [l EXCEPT !.lvl = @ - 1])
  /\ UNCHANGED <<nvm, free, call, outcomes>>

(* markNodes: level 0, whose first remover has won *)
Claim(t) ==
  LET l == local[t] IN
  /\ At(t, "mark") /\ l.lvl = 0
  /\ stateCAS(l.node, INSERTED, INTEND_TO_DELETE)
  /\ Become(t, [l EXCEPT !.pc = "destroy", !.result = State(l.node, 0) = INSERTED])
  /\ UNCHANGED <<nvm, free, call, outcomes>>

(* Fault: the BARRIER is forgotten. *)
DestroyWithoutFlush(t) ==
  LET n == local[t].node IN
  /\ At(t, "destroy")
  /\ mem' = [mem EXCEPT ![n].deleted = mem[n].pValidity]
  /\ Goto(t, "bury")
  /\ UNCHANGED <<nvm, free, call, outcomes>>

(* Node::destroy, by every remover *)
Destroy(t) ==
  LET n == local[t].node IN
  /\ At(t, "destroy")
  /\ mem' = [mem EXCEPT ![n].deleted = mem[n].pValidity]
  /\ BARRIER(n)
  /\ Goto(t, "bury")
  /\ UNCHANGED <<free, call, outcomes>>

Bury(t) ==
  LET l == local[t] IN
  /\ At(t, "bury")
  /\ stateCAS(l.node, INTEND_TO_DELETE, DELETED)
  /\ \/ l.result /\ Become(t, StartFind(l)) /\ UNCHANGED <<call, outcomes>>
     \/ ~l.result /\ Return(t, FALSE)
  /\ UNCHANGED <<nvm, free>>

FreeRemoved(t) ==
  LET n == local[t].node IN
  /\ At(t, "free")
  /\ mem' = [mem EXCEPT ![n] = Freed(@)]
  /\ free' = free \union {n}
  /\ Return(t, TRUE)
  /\ UNCHANGED nvm

-----------------------------------------------------------------------------
(* Memory from ssmem is zeroed. *)
Zeroed ==
  [validStart |-> FALSE, validEnd |-> FALSE, deleted |-> FALSE, pValidity |-> FALSE,
   topLevel |-> 0, key |-> 0, link |-> [i \in Levels |-> To(Nil, INSERTED)]]

Init ==
  /\ mem = [n \in Nodes \union {Head, Tail} |->
       CASE n = Head -> [Zeroed EXCEPT !.key = MinKey, !.topLevel = MAX_LEVEL,
                                       !.link = [i \in Levels |-> To(Tail, INSERTED)]]
         [] n = Tail -> [Zeroed EXCEPT !.key = MaxKey, !.topLevel = MAX_LEVEL]
         [] OTHER -> Zeroed]
  /\ nvm = [n \in Nodes |-> Nil]
  /\ free = Nodes
  /\ local = [t \in Threads |-> Idle]
  /\ call = [t \in Threads |-> DS!None]
  /\ outcomes = {[set |-> {}, res |-> DS!NoAnswer]}

Step(t) ==
  \/ WalkOn(t) \/ WalkStep(t) \/ WalkDown(t) \/ WalkAnswers(t)
  \/ InsertHelps(t) \/ InsertFound(t) \/ RemoveMiss(t) \/ RemoveFound(t)
  \/ FindLevel(t) \/ FindOn(t) \/ FindStop(t) \/ Cut(t)
  \/ InsertMiss(t) \/ LinkNode(t) \/ UndoInsert(t)
  \/ Help(t) \/ Publish(t)
  \/ RaiseLink(t) \/ RaiseStops(t) \/ LinkUpper(t) \/ LinkUpperFails(t)
  \/ Mark(t) \/ Claim(t) \/ Destroy(t) \/ Bury(t) \/ FreeRemoved(t)

Next ==
  \E t \in Threads : \/ \E c \in DS!Calls : Invoke(t, c)
                     \/ Step(t)

Spec == Init /\ [][Next]_vars
-----------------------------------------------------------------------------
States == {INSERTED, INTEND_TO_DELETE, INTEND_TO_INSERT, DELETED}

(* Every history of calls and answers is one of a set: although level 0 is   *)
(* compared with a state that may have been made up (line 149), and contains *)
(* answers from the upper levels.                                            *)
Linearizable == DS!Spec

(* Whatever moment a crash comes at, the members in NVM are a set that the   *)
(* history allows: who has answered by an insertion or a removal, his own or *)
(* another's, has it in NVM, and nothing else is there.                      *)
NVMIsAllowed ==
  \E g \in DS!Reach : g.set = {nvm[n] : n \in Nodes} \ {Nil}

(* NVM never holds two members with one key: the old node of a key is dead   *)
(* in NVM before a new one is made.                                          *)
PersistedKeysAreUnique ==
  \A m, n \in Nodes : nvm[m] # Nil /\ nvm[m] = nvm[n] => m = n

(* The nodes a walk along level i meets. *)
Linked(i) ==
  LET f[j \in 0..(Cardinality(Nodes) + 1)] ==
        IF j = 0 THEN {Head} ELSE f[j-1] \union ({Ref(n, i) : n \in f[j-1]} \ {Nil})
  IN  f[Cardinality(Nodes) + 1]

(* A node that is not DELETED on an upper level is an inserted member of the *)
(* set: what lets contains answer from there, and what line 149 assumes of a *)
(* node that the search comes down on.                                       *)
TowersStandOnTheList ==
  \A i \in Levels \ {0} : \A n \in Linked(i) :
    \/ State(n, i) = DELETED
    \/ State(n, i) = INSERTED /\ n \in Linked(0) /\ State(n, 0) = INSERTED

(* The state of a linked node moves one step of its life at a time, whoever  *)
(* helps, cuts or links next to it, and a DELETED link is frozen.            *)
StatesOnlyAdvance ==
  [][\A i \in Levels : \A n \in Linked(i) :
       /\ <<State(n, i), State(n, i)'>> \in
            {<<s, s>> : s \in States} \union
            {<<INTEND_TO_INSERT, INSERTED>>, <<INSERTED, INTEND_TO_DELETE>>,
             <<INTEND_TO_DELETE, DELETED>>}
            \union (IF i = 0 THEN {} ELSE {<<INSERTED, DELETED>>})
       /\ State(n, i) = DELETED => Ref(n, i)' = Ref(n, i)]_vars

(* No compare-and-swap, of an insertion, a short cut or a cut, on whatever   *)
(* level, with references found before others changed that level, drops a    *)
(* node that is not DELETED there.                                           *)
LiveNodesStayLinked ==
  [][\A i \in Levels : \A n \in Linked(i) :
       State(n, i) # DELETED => State(n, i)' = DELETED \/ n \in Linked(i)']_vars
=============================================================================
