-------------------------- MODULE LinkFreeSkipList --------------------------
(***************************************************************************)
(* The link-free skip list: LinkFree/LinkFreeSkipList.h. A node is a tower *)
(* of links; level 0 is the set, the levels above are short cuts.          *)
(*                                                                         *)
(* A step is one access to shared memory, with these mergers:              *)
(*  - an invocation, and a search that begins again, include the first     *)
(*    read of head; a response includes the last access;                   *)
(*  - makeValid, and a flag with the flush it guards, as in LinkFreeList;  *)
(*  - FLUSH_DELETE of a node met by a search, and further reads of its     *)
(*    link, come with the read that found the mark: link and line of a     *)
(*    marked node no longer change;                                        *)
(*  - the retry loop of markNode is its last round, which sees the mark or *)
(*    sets it, and line 237 belongs to line 242: in between the link of a  *)
(*    node that its insert has not raised to that level can only be marked,*)
(*    and both then return;                                                *)
(*  - the stores of allocNode, and of the links, into a node that is not   *)
(*    valid yet: until it is linked it is no member whatever they are.     *)
(*                                                                         *)
(* There is no recovery for skip lists in the repository. What NVM keeps   *)
(* of a node is what LinkFreeList's recover() would make of it.            *)
(***************************************************************************)
EXTENDS Integers, FiniteSets

CONSTANTS
  Threads, Keys, Nodes, Head, Tail, Nil, MinKey, MaxKey, (* as in LinkFreeList *)
  MAX_LEVEL,
  Heights, (* the heights get_random_level chooses from, in the code all *)
  Reuses  (* TRUE: freed nodes come back from ssmem; FALSE: new memory always *)

Levels == 0..(MAX_LEVEL - 1)

ASSUME KeysAssumption ==
  /\ Keys \subseteq Int
  /\ MinKey \in Int /\ MaxKey \in Int /\ MinKey < MaxKey
  /\ \A k \in Keys : MinKey < k /\ k < MaxKey

ASSUME NodesAssumption ==
  /\ IsFiniteSet(Nodes)
  /\ Head # Tail
  /\ Head \notin Nodes /\ Tail \notin Nodes /\ Nil \notin Nodes \union {Head, Tail}

ASSUME LevelsAssumption ==
  MAX_LEVEL \in Nat \ {0} /\ Heights \subseteq 1..MAX_LEVEL /\ Reuses \in BOOLEAN

VARIABLES
  mem,      (* the fields of each node *)
  nvm,      (* the key with which a node would be recovered, or Nil *)
  free,     (* the nodes ssmem has *)
  waits,    (* the threads a freed node may not be reused before *)
  local,    (* the local variables of each thread *)
  call, outcomes  (* as in DurableSet *)

vars == <<mem, nvm, free, waits, local, call, outcomes>>

DS == INSTANCE DurableSet

-----------------------------------------------------------------------------
(* Nodes and links *)

To(n) == [to |-> n, marked |-> FALSE]

Marked(n, i) == mem[n].link[i].marked
Ref(n, i) == mem[n].link[i].to
Key(n) == mem[n].key

(* compare_exchange_strong(before, after) on n->next[i] *)
CAS(n, i, before, after) ==
  /\ mem[n].link[i] = To(before)
  /\ mem' = [mem EXCEPT ![n].link[i] = To(after)]

CASFails(n, i, before) ==
  /\ mem[n].link[i] # To(before)
  /\ UNCHANGED mem

Line(n) == IF mem[n].valid /\ ~Marked(n, 0) /\ Ref(n, 0) # Nil THEN Key(n) ELSE Nil

FLUSH(n) == nvm' = [nvm EXCEPT ![n] = Line(n)]

FLUSH_INSERT(n) ==
  /\ IF mem[n].insertFlag THEN UNCHANGED nvm ELSE FLUSH(n)
  /\ mem' = [mem EXCEPT ![n].insertFlag = TRUE]

(* Fault: the flag is raised, the flush forgotten. *)
FLUSH_DELETE_FlagOnly(n) ==
  /\ UNCHANGED nvm
  /\ mem' = [mem EXCEPT ![n].deleteFlag = TRUE]

FLUSH_DELETE(n) ==
  /\ IF mem[n].deleteFlag THEN UNCHANGED nvm ELSE FLUSH(n)
  /\ mem' = [mem EXCEPT ![n].deleteFlag = TRUE]

(* A line may be written back at any time. *)
Evict(n) ==
  /\ nvm[n] # Line(n)
  /\ FLUSH(n)
  /\ UNCHANGED <<mem, free, waits, local, call, outcomes>>

-----------------------------------------------------------------------------
(* Threads *)

Idle ==
  [pc |-> "idle", lvl |-> 0, pred |-> Nil, from |-> Nil, curr |-> Nil,
   preds |-> [i \in Levels |-> Nil], succs |-> [i \in Levels |-> Nil],
   node |-> Nil, up |-> 0, result |-> FALSE]

At(t, label) == local[t].pc = label

Become(t, l) == local' = [local EXCEPT ![t] = l]

Busy == {u \in Threads : ~At(u, "idle")}

Return(t, r) ==
  /\ call' = [call EXCEPT ![t] = DS!None]
  /\ outcomes' = DS!AfterAnswer(t, r)
  /\ Become(t, Idle)
  /\ waits' = [n \in Nodes |-> waits[n] \ {t}]

StartSearch ==
  [Idle EXCEPT !.pc = "walk", !.lvl = MAX_LEVEL - 1, !.pred = Head,
               !.curr = Ref(Head, MAX_LEVEL - 1)]

Invoke(t, c) ==
  /\ At(t, "idle")
  /\ call' = [call EXCEPT ![t] = c]
  /\ Become(t, StartSearch)
  /\ UNCHANGED <<mem, nvm, free, waits, outcomes>>

(* preds[i] and succs[i], as far as insert reads them later. Local variables *)
(* that are not read again are Nil in the model.                             *)
Record(t) ==
  LET l == local[t] IN
  IF call[t].op = "insert" /\ (l.node = Nil \/ l.lvl \in l.up..(mem[l.node].topLevel - 1))
  THEN [l EXCEPT !.preds[l.lvl] = l.pred, !.succs[l.lvl] = l.curr]
  ELSE l

Forget(l, levels) ==
  [l EXCEPT !.preds = [i \in Levels |-> IF i \in levels THEN Nil ELSE @[i]],
            !.succs = [i \in Levels |-> IF i \in levels THEN Nil ELSE @[i]]]

SearchEnds(l, label) ==
  [l EXCEPT !.pc = label, !.lvl = 0, !.pred = Nil, !.from = Nil, !.curr = Nil]

-----------------------------------------------------------------------------
(* findNoCleanup, findSuccsNoCleanup and the loop of contains: walk past     *)
(* marked nodes, leave each level at the first unmarked key that is not less.*)

(* Where contains answers for a deleted node. *)
AtDeleted(t) ==
  LET l == local[t] IN
  /\ call[t].op = "contains" /\ l.lvl = 0
  /\ Marked(l.curr, 0) /\ Key(l.curr) = call[t].arg

WalkOn(t) ==
  LET l == local[t] IN
  /\ At(t, "walk")
  /\ Marked(l.curr, l.lvl) \/ Key(l.curr) < call[t].arg
  /\ ~AtDeleted(t)
  /\ Become(t, IF Marked(l.curr, l.lvl)
               THEN [l EXCEPT !.curr = Ref(@, l.lvl)]
               ELSE [l EXCEPT !.pc = "step", !.pred = l.curr])
  /\ UNCHANGED <<mem, nvm, free, waits, call, outcomes>>

WalkStep(t) ==
  /\ At(t, "step")
  /\ Become(t, [local[t] EXCEPT !.pc = "walk", !.curr = Ref(@, local[t].lvl)])
  /\ UNCHANGED <<mem, nvm, free, waits, call, outcomes>>

WalkStops(t) ==
  LET l == local[t] IN
  /\ At(t, "walk")
  /\ ~Marked(l.curr, l.lvl) /\ Key(l.curr) >= call[t].arg

WalkFinds(t) ==
  LET l == local[t] IN
  /\ WalkStops(t)
  /\ Key(l.curr) = call[t].arg
  /\ l.lvl = 0 \/ call[t].op = "contains"

(* The next level starts with a read of pred. *)
WalkDown(t) ==
  /\ WalkStops(t) /\ ~WalkFinds(t)
  /\ local[t].lvl > 0
  /\ Become(t, [Record(t) EXCEPT !.pc = "step", !.lvl = @ - 1, !.curr = local[t].pred])
  /\ UNCHANGED <<mem, nvm, free, waits, call, outcomes>>

WalkHit(t) ==
  /\ WalkFinds(t)
  /\ Become(t, [Idle EXCEPT !.pc = "makeValid", !.node = local[t].curr,
                            !.result = call[t].op = "contains"])
  /\ UNCHANGED <<mem, nvm, free, waits, call, outcomes>>

WalkMissInsert(t) ==
  /\ WalkStops(t) /\ ~WalkFinds(t)
  /\ local[t].lvl = 0 /\ call[t].op = "insert"
  /\ Become(t, SearchEnds(Record(t), "alloc"))
  /\ UNCHANGED <<mem, nvm, free, waits, call, outcomes>>

WalkMiss(t) ==
  /\ WalkStops(t) /\ ~WalkFinds(t)
  /\ local[t].lvl = 0 /\ call[t].op # "insert"
  /\ Return(t, FALSE)
  /\ UNCHANGED <<mem, nvm, free>>

ContainsDeleted(t) ==
  /\ At(t, "walk") /\ AtDeleted(t)
  /\ FLUSH_DELETE(local[t].curr)
  /\ Return(t, FALSE)
  /\ UNCHANGED free

-----------------------------------------------------------------------------
(* find: cut out the marked nodes of every level. It is called by insert,    *)
(* when a short cut could not be linked, and by remove.                      *)

StartFind(l) ==
  [l EXCEPT !.pc = "findLevel", !.lvl = MAX_LEVEL - 1, !.pred = Head, !.from = Nil,
            !.curr = Nil]

FindLevel(t) ==
  LET l == local[t] IN
  /\ At(t, "findLevel")
  /\ Become(t, IF Marked(l.pred, l.lvl)
               THEN StartFind(l)
               ELSE [l EXCEPT !.pc = "find", !.from = Ref(l.pred, l.lvl),
                              !.curr = Ref(l.pred, l.lvl)])
  /\ UNCHANGED <<mem, nvm, free, waits, call, outcomes>>

FindMarked(t) ==
  LET l == local[t] IN
  /\ At(t, "find")
  /\ Marked(l.curr, l.lvl)
  /\ IF l.lvl = 0 THEN FLUSH_DELETE(l.curr) ELSE UNCHANGED <<mem, nvm>>
  /\ Become(t, [l EXCEPT !.curr = Ref(@, l.lvl)])
  /\ UNCHANGED <<free, waits, call, outcomes>>

FindPass(t) ==
  LET l == local[t] IN
  /\ At(t, "find")
  /\ ~Marked(l.curr, l.lvl) /\ Key(l.curr) < call[t].arg
  /\ Become(t, [l EXCEPT !.pred = l.curr, !.from = Ref(l.curr, l.lvl),
                         !.curr = Ref(@, l.lvl)])
  /\ UNCHANGED <<mem, nvm, free, waits, call, outcomes>>

FindDown(t) ==
  LET l == Record(t) IN
  IF l.lvl > 0 THEN [l EXCEPT !.pc = "findLevel", !.lvl = @ - 1, !.from = Nil, !.curr = Nil]
  ELSE SearchEnds(l, IF call[t].op = "insert" THEN "raise" ELSE "free")

FindStop(t) ==
  LET l == local[t] IN
  /\ At(t, "find")
  /\ ~Marked(l.curr, l.lvl) /\ Key(l.curr) >= call[t].arg
  /\ Become(t, IF l.from = l.curr THEN FindDown(t) ELSE [l EXCEPT !.pc = "cut"])
  /\ UNCHANGED <<mem, nvm, free, waits, call, outcomes>>

Cut(t) ==
  LET l == local[t] IN
  /\ At(t, "cut")
  /\ \/ CAS(l.pred, l.lvl, l.from, l.curr) /\ Become(t, FindDown(t))
     \/ CASFails(l.pred, l.lvl, l.from) /\ Become(t, StartFind(l))
  /\ UNCHANGED <<nvm, free, waits, call, outcomes>>

-----------------------------------------------------------------------------
(* Memory. ssmem hands a freed node out when every operation that ran at its *)
(* ssmem_free has ended. Without reuse a node stands for a new one once no   *)
(* thread and no level leads to it.                                          *)

Roots ==
  {Head} \union
  UNION {LET l == local[t] IN
         {l.pred, l.from, l.curr, l.node} \union
         UNION {{l.preds[i], l.succs[i]} : i \in Levels} : t \in Threads}

Referenced ==
  LET f[j \in 0..Cardinality(Nodes)] ==
        IF j = 0 THEN Roots
        ELSE f[j-1] \union
             UNION {{Ref(n, i) : i \in 0..(mem[n].topLevel - 1)} : n \in f[j-1] \ {Nil}}
  IN  f[Cardinality(Nodes)]

Allocatable(n) ==
  /\ n \in free
  /\ IF Reuses THEN waits[n] = {} ELSE n \notin Referenced /\ nvm[n] = Nil

ssmem_free(n) ==
  /\ free' = free \union {n}
  /\ waits' = IF Reuses THEN [waits EXCEPT ![n] = Busy] ELSE waits

-----------------------------------------------------------------------------
(* makeValid and FLUSH_INSERT, on the node found or linked *)

MakeValid(t) ==
  LET l == local[t] IN
  /\ At(t, "makeValid")
  /\ mem' = [mem EXCEPT ![l.node].valid = TRUE]
  /\ Become(t, IF call[t].op = "remove"
               THEN [l EXCEPT !.pc = "mark", !.lvl = mem[l.node].topLevel - 1]
               ELSE [l EXCEPT !.pc = "flushInsert"])
  /\ UNCHANGED <<nvm, free, waits, call, outcomes>>

(* insert has linked the node and has levels left to link *)
Raises(t) ==
  LET l == local[t] IN
  call[t].op = "insert" /\ l.result /\ l.up + 1 < mem[l.node].topLevel

(* Fault: an insertion is answered before it is flushed. *)
FlushInsertLater(t) ==
  LET l == local[t] IN
  /\ At(t, "flushInsert")
  /\ Return(t, l.result)
  /\ UNCHANGED <<mem, nvm, free>>

FlushInsert(t) ==
  LET l == local[t] IN
  /\ At(t, "flushInsert")
  /\ FLUSH_INSERT(l.node)
  /\ \/ /\ Raises(t)
        /\ Become(t, [l EXCEPT !.pc = "raise", !.up = 1])
        /\ UNCHANGED <<waits, call, outcomes>>
     \/ ~Raises(t) /\ Return(t, l.result)
  /\ UNCHANGED free

-----------------------------------------------------------------------------
(* insert *)

NewNode(t, n, top) ==
  [valid |-> ~mem[n].valid, insertFlag |-> FALSE, deleteFlag |-> FALSE,
   topLevel |-> top, key |-> call[t].arg,
   link |-> [i \in Levels |-> IF i < top THEN To(local[t].succs[i]) ELSE mem[n].link[i]]]

AllocNode(t) ==
  /\ At(t, "alloc")
  /\ \E n \in Nodes, top \in Heights :
       /\ Allocatable(n)
       /\ free' = free \ {n}
       /\ mem' = [mem EXCEPT ![n] = NewNode(t, n, top)]
       /\ Become(t, [Forget(local[t], top..MAX_LEVEL) EXCEPT !.pc = "link", !.node = n])
  /\ UNCHANGED <<nvm, waits, call, outcomes>>

(* Fault: the insert goes on with the upper levels of a node it could not link. *)
LinkNodeAnyway(t) ==
  LET l == local[t] IN
  /\ At(t, "link")
  /\ \/ CAS(l.preds[0], 0, l.succs[0], l.node)
     \/ CASFails(l.preds[0], 0, l.succs[0])
  /\ Become(t, [l EXCEPT !.pc = "makeValid", !.result = TRUE])
  /\ UNCHANGED <<nvm, free, waits, call, outcomes>>

LinkNode(t) ==
  LET l == local[t] IN
  /\ At(t, "link")
  /\ \/ /\ CAS(l.preds[0], 0, l.succs[0], l.node)
        /\ Become(t, [Forget(l, {0}) EXCEPT !.pc = "makeValid", !.result = TRUE])
     \/ /\ CASFails(l.preds[0], 0, l.succs[0])
        /\ Become(t, [Forget(l, Levels) EXCEPT !.pc = "markUnlinked"])
  /\ UNCHANGED <<nvm, free, waits, call, outcomes>>

MarkUnlinked(t) ==
  LET l == local[t] IN
  /\ At(t, "markUnlinked")
  /\ mem' = [mem EXCEPT ![l.node].link[0] = [to |-> Nil, marked |-> TRUE]]
  /\ Become(t, [l EXCEPT !.pc = "undo"])
  /\ UNCHANGED <<nvm, free, waits, call, outcomes>>

UndoInsert(t) ==
  LET l == local[t] IN
  /\ At(t, "undo")
  /\ mem' = [mem EXCEPT ![l.node].valid = TRUE]
  /\ ssmem_free(l.node)
  /\ Become(t, StartSearch)
  /\ UNCHANGED <<nvm, call, outcomes>>

(* Prepare the link of level up, unless a remover has marked it. *)
RaiseLink(t) ==
  LET l == local[t] IN
  /\ At(t, "raise")
  /\ ~Marked(l.node, l.up)
  /\ mem' = [mem EXCEPT ![l.node].link[l.up] = To(l.succs[l.up])]
  /\ Become(t, [l EXCEPT !.pc = "linkUpper"])
  /\ UNCHANGED <<nvm, free, waits, call, outcomes>>

RaiseStops(t) ==
  /\ At(t, "raise")
  /\ Marked(local[t].node, local[t].up)
  /\ Return(t, TRUE)
  /\ UNCHANGED <<mem, nvm, free>>

(* Fault: the short cut is stored over whatever pred leads to by now. *)
LinkUpperOverwrites(t) ==
  LET l == local[t] IN
  /\ At(t, "linkUpper")
  /\ ~Marked(l.preds[l.up], l.up)
  /\ mem' = [mem EXCEPT ![l.preds[l.up]].link[l.up] = To(l.node)]
  /\ Return(t, TRUE)
  /\ UNCHANGED <<nvm, free>>

LinkUpper(t) ==
  LET l == local[t] IN
  /\ At(t, "linkUpper")
  /\ CAS(l.preds[l.up], l.up, l.succs[l.up], l.node)
  /\ \/ /\ Raises(t)
        /\ Become(t, [Forget(l, {l.up}) EXCEPT !.pc = "raise", !.up = @ + 1])
        /\ UNCHANGED <<waits, call, outcomes>>
     \/ ~Raises(t) /\ Return(t, TRUE)
  /\ UNCHANGED <<nvm, free>>

LinkUpperFails(t) ==
  LET l == local[t] IN
  /\ At(t, "linkUpper")
  /\ CASFails(l.preds[l.up], l.up, l.succs[l.up])
  /\ Become(t, StartFind(l))
  /\ UNCHANGED <<nvm, free, waits, call, outcomes>>

-----------------------------------------------------------------------------
(* remove: mark from the top, level 0 last *)

(* Fault: the levels are marked from the bottom up. *)
MarkUpwards(t) ==
  LET l == local[t] IN
  LET i == mem[l.node].topLevel - 1 - l.lvl IN
  /\ At(t, "mark")
  /\ mem' = [mem EXCEPT ![l.node].link[i].marked = TRUE]
  /\ Become(t, [l EXCEPT !.result = IF i = 0 THEN ~Marked(l.node, 0) ELSE @,
                         !.lvl = IF @ > 0 THEN @ - 1 ELSE 0,
                         !.pc = IF l.lvl > 0 THEN "mark" ELSE "flushDelete"])
  /\ UNCHANGED <<nvm, free, waits, call, outcomes>>

Mark(t) ==
  LET l == local[t] IN
  /\ At(t, "mark")
  /\ mem' = [mem EXCEPT ![l.node].link[l.lvl].marked = TRUE]
  /\ Become(t, [l EXCEPT !.result = ~Marked(l.node, l.lvl),
                         !.lvl = IF @ > 0 THEN @ - 1 ELSE 0,
                         !.pc = IF l.lvl > 0 THEN "mark" ELSE "flushDelete"])
  /\ UNCHANGED <<nvm, free, waits, call, outcomes>>

FlushDelete(t) ==
  LET l == local[t] IN
  /\ At(t, "flushDelete")
  /\ FLUSH_DELETE(l.node)
  /\ \/ /\ l.result
        /\ Become(t, StartFind(l))
        /\ UNCHANGED <<waits, call, outcomes>>
     \/ ~l.result /\ Return(t, FALSE)
  /\ UNCHANGED free

FreeRemoved(t) ==
  LET l == local[t] IN
  /\ At(t, "free")
  /\ ssmem_free(l.node)
  /\ Become(t, [Idle EXCEPT !.pc = "done"])
  /\ UNCHANGED <<mem, nvm, call, outcomes>>

Done(t) ==
  /\ At(t, "done")
  /\ Return(t, TRUE)
  /\ UNCHANGED <<mem, nvm, free>>

-----------------------------------------------------------------------------
Zeroed ==
  [valid |-> TRUE, insertFlag |-> FALSE, deleteFlag |-> FALSE, topLevel |-> 0,
   key |-> 0, link |-> [i \in Levels |-> To(Nil)]]

Init ==
  /\ mem = [n \in Nodes \union {Head, Tail} |->
       CASE n = Head -> [Zeroed EXCEPT !.key = MinKey, !.topLevel = MAX_LEVEL,
                                       !.link = [i \in Levels |-> To(Tail)]]
         [] n = Tail -> [Zeroed EXCEPT !.key = MaxKey, !.topLevel = MAX_LEVEL]
         [] OTHER -> Zeroed]
  /\ nvm = [n \in Nodes |-> Nil]
  /\ free = Nodes
  /\ waits = [n \in Nodes |-> {}]
  /\ local = [t \in Threads |-> Idle]
  /\ call = [t \in Threads |-> DS!None]
  /\ outcomes = {[set |-> {}, res |-> DS!NoAnswer]}

Step(t) ==
  \/ WalkOn(t) \/ WalkStep(t) \/ WalkDown(t) \/ WalkHit(t)
  \/ WalkMissInsert(t) \/ WalkMiss(t) \/ ContainsDeleted(t)
  \/ FindLevel(t) \/ FindMarked(t) \/ FindPass(t) \/ FindStop(t) \/ Cut(t)
  \/ MakeValid(t) \/ FlushInsert(t)
  \/ AllocNode(t) \/ LinkNode(t) \/ MarkUnlinked(t) \/ UndoInsert(t)
  \/ RaiseLink(t) \/ RaiseStops(t) \/ LinkUpper(t) \/ LinkUpperFails(t)
  \/ Mark(t) \/ FlushDelete(t) \/ FreeRemoved(t) \/ Done(t)

Next ==
  \/ \E t \in Threads : \/ \E c \in DS!Calls : Invoke(t, c)
                        \/ Step(t)
  \/ \E n \in Nodes : Evict(n)

Spec == Init /\ [][Next]_vars

-----------------------------------------------------------------------------
(* Every history of calls and answers is one of a set: the short cuts, built *)
(* and taken down while other threads use them, never change an answer.      *)
Linearizable == DS!Spec

(* The nodes a walk along level i meets. *)
Linked(i) ==
  LET f[j \in 0..(Cardinality(Nodes) + 1)] ==
        IF j = 0 THEN {Head} ELSE f[j-1] \union ({Ref(n, i) : n \in f[j-1]} \ {Nil})
  IN  f[Cardinality(Nodes) + 1]

(* No compare-and-swap, of an insertion, a short cut or a cut, on whatever   *)
(* level, with references found before others changed that level, drops a    *)
(* node that is not marked there.                                            *)
UnmarkedStayLinked ==
  [][\A i \in Levels : \A n \in Linked(i) :
       ~Marked(n, i) => Marked(n, i)' \/ n \in Linked(i)']_vars

(* A node met unmarked on an upper level is a member of the set: what lets   *)
(* contains answer from an upper level, and searches go down from there.     *)
TowersStandOnTheList ==
  \A i \in Levels : \A n \in Linked(i) :
    ~Marked(n, i) => n \in Linked(0) /\ ~Marked(n, 0)

(* A key that is in the set whatever the running operations do is in NVM:    *)
(* nobody has answered by an insertion that a crash can undo.                *)
InsertionsArePersisted ==
  \A k \in Keys : (\A g \in DS!Reach : k \in g.set) => \E n \in Nodes : nvm[n] = k

(* "to make sure the deletion is in the NVRAM before skipping" (find): a key *)
(* that is not in the set whatever the running operations do is not in NVM:  *)
(* nobody has answered by a removal that a crash can undo.                   *)
DeletionsArePersisted ==
  \A k \in Keys : (\A g \in DS!Reach : k \notin g.set) => \A n \in Nodes : nvm[n] # k

(* NVM never holds two members with one key.                                 *)
PersistedKeysAreUnique ==
  \A m, n \in Nodes : nvm[m] # Nil /\ nvm[m] = nvm[n] => m = n

=============================================================================
