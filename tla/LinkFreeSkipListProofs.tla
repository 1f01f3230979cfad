----------------------- MODULE LinkFreeSkipListProofs -----------------------
(***************************************************************************)
(* The proofs about the link-free skip list, for any number of threads,    *)
(* keys, nodes and levels. They assume ~Reuses: that insert is given a     *)
(* node only when no thread and no level leads to it.                      *)
(*                                                                         *)
(* The invariant and the proof are laid out like those of the SOFT skip    *)
(* list: three histories, U, L and C, that no variable holds, and for each *)
(* step what becomes of them. Here a node has marks for its levels, and    *)
(* flags and a line in NVM instead of states: the invariant says that the  *)
(* nodes in NVM are on the chain of level 0, and therefore that a node is  *)
(* not cut out of level 0 before its mark is in NVM.                       *)
(***************************************************************************)
EXTENDS LinkFreeSkipList, Recursion

-----------------------------------------------------------------------------
(* The invariant. It speaks of histories that the state has forgotten: U are  *)
(* the nodes in use, L[i] those of them that were ever linked on level i, and *)
(* C[i] those that a walk along level i meets.                               *)

Towers == Nodes \union {Head, Tail}

Links == [to : Towers \union {Nil}, marked : BOOLEAN]

NodeFields ==
  [valid : BOOLEAN, insertFlag : BOOLEAN, deleteFlag : BOOLEAN,
   topLevel : 0..MAX_LEVEL, key : Int, link : [Levels -> Links]]

Labels ==
  {"idle", "walk", "step", "alloc", "link", "markUnlinked", "undo", "makeValid", "flushInsert",
   "raise", "linkUpper", "findLevel", "find", "cut", "mark", "flushDelete", "free", "done"}

(* What the local variables of a thread may be. *)
Locals ==
  [pc : Labels, lvl : Levels, pred : Towers \union {Nil}, from : Towers \union {Nil},
   curr : Towers \union {Nil},
   preds : [Levels -> Towers \union {Nil}], succs : [Levels -> Towers \union {Nil}],
   node : Towers \union {Nil}, up : Levels, result : BOOLEAN]

(* The types of the variables; waits is not used without reuse. A thread is  *)
(* idle when it has no call.                                                 *)
TypeInv ==
  /\ mem \in [Towers -> NodeFields]
  /\ nvm \in [Nodes -> Int \union {Nil}]
  /\ free \in SUBSET Nodes
  /\ local \in [Threads -> Locals]
  /\ call \in [Threads -> DS!Calls \union {DS!None}]
  /\ \A t \in Threads : At(t, "idle") <=> call[t] = DS!None

(* How the histories relate: a node is linked from below, and what a walk    *)
(* meets was linked.                                                         *)
HistoryInv(U, L, C) ==
  /\ U \in SUBSET Nodes
  /\ L \in [Levels -> SUBSET U]
  /\ C \in [Levels -> SUBSET Towers]
  /\ \A i \in Levels : C[i] \subseteq L[i] \union {Head, Tail}
  /\ \A i, j \in Levels : i <= j => L[j] \subseteq L[i]
  /\ \A i \in Levels : \A n \in L[i] : i < mem[n].topLevel

(* head and tail stay what the constructor made them. *)
SentinelsAreFixed ==
  /\ Key(Head) = MinKey /\ Key(Tail) = MaxKey
  /\ mem[Head].topLevel = MAX_LEVEL
  /\ \A i \in Levels : ~Marked(Head, i) /\ ~Marked(Tail, i)
  /\ \A i \in Levels : Ref(Tail, i) = Nil

(* A level leads to nodes that were linked there, but for the node of an     *)
(* insertion that could not link it and has marked it.                       *)
LevelsAreClosed(U, L) ==
  \A n \in U \union {Head} : \A i \in Levels :
    i < mem[n].topLevel =>
      Ref(n, i) \in L[i] \union {Tail} \/ (n \in U \ L[0] /\ Ref(n, i) = Nil)

(* The links of a level, and the keys, as functions: what a chain is made    *)
(* of.                                                                       *)
Nexts(i) == [n \in Towers |-> Ref(n, i)]
KeyOf == [n \in Towers |-> Key(n)]

(* A linked node that a walk of the level does not meet is marked there. *)
LiveNodesAreLinked(L, C) ==
  \A i \in Levels : \A n \in L[i] : ~Marked(n, i) => n \in C[i]

(* A linked node is marked from the top. *)
TowerIsRight(L, n) ==
  /\ Key(n) \in Keys
  /\ 0 < mem[n].topLevel
  /\ n \in L[0] =>
       \A i, j \in Levels : i <= j /\ j < mem[n].topLevel /\ Marked(n, i) => Marked(n, j)

(* The flags of a node, and of a node that is no longer on level 0. *)
FlagsAreRight(L, n) ==
  /\ mem[n].valid => n \in L[0]
  /\ n \in L[0] /\ Marked(n, 0) => mem[n].valid
  /\ mem[n].deleteFlag => n \in L[0] /\ Marked(n, 0) /\ nvm[n] = Nil

(* NVM has nodes that a walk of level 0 meets, with the keys they have now.  *)
(* A node that is not in use cannot be written back as a member; a free node *)
(* is off the list, and if a thread or level may still lead to it, it is     *)
(* marked.                                                                   *)
NVMIsRight(U, L, C) ==
  /\ \A n \in Nodes : nvm[n] # Nil => n \in C[0] /\ nvm[n] = Key(n)
  /\ \A n \in Nodes \ U : mem[n].valid => Marked(n, 0) \/ Ref(n, 0) = Nil
  /\ \A n \in free : mem[n].valid /\ (n \in U => n \in L[0] /\ Marked(n, 0))

(* The insert that has made a node and not returned yet, and how many levels *)
(* of the node it has linked. l and c are the local variables and the call.  *)
Private == {"link", "markUnlinked", "undo"}
Owner(l, c) == l.pc \in Private \/ (c.op = "insert" /\ l.result)

Height(l) == IF l.pc \in Private THEN 0 ELSE IF l.up = 0 THEN 1 ELSE l.up

(* No two insertions own one node. *)
OwnersAreApart ==
  \A t, u \in Threads :
    Owner(local[t], call[t]) /\ Owner(local[u], call[u]) /\ local[t].node = local[u].node => t = u

(* The references that insert has kept for a level. *)
Kept(L, l, i) == l.preds[i] \in L[i] \union {Head} /\ l.succs[i] \in L[i] \union {Tail}

Finding == {"findLevel", "find", "cut"}
Raising == {"raise", "linkUpper"} \union Finding

(* An insertion has linked its node on the levels below Height, and on these *)
(* alone. The references for the levels above are of those levels.           *)
OwnerInv(U, L, l, c) ==
  LET n == l.node IN
  Owner(l, c) =>
    /\ c.op = "insert"
    /\ n \in U /\ Key(n) = c.arg
    /\ \A i \in Levels : n \in L[i] <=> i < Height(l)
    /\ l.pc \in Private \union {"makeValid", "flushInsert"} \union Raising
    /\ l.pc \notin Raising => l.up = 0
    /\ l.pc \in Raising => 0 < l.up /\ l.up < mem[n].topLevel
    /\ l.pc = "link" =>
         /\ \A i \in Levels : i < mem[n].topLevel => Ref(n, i) = l.succs[i] /\ ~Marked(n, i)
         /\ Key(l.preds[0]) < c.arg /\ c.arg < Key(l.succs[0])
    /\ l.pc = "undo" => Marked(n, 0)
    /\ l.pc = "linkUpper" => Ref(n, l.up) = l.succs[l.up]
    /\ l.pc \notin {"markUnlinked", "undo"} =>
         \A i \in Levels : Height(l) <= i /\ i < mem[n].topLevel => Kept(L, l, i)

(* A walk is on nodes that were linked on its level. *)
WalkInv(L, l, c) ==
  /\ l.pc \in {"idle", "walk", "step", "alloc", "done"} => l.node = Nil /\ l.up = 0 /\ ~l.result
  /\ l.pc \in {"walk", "step"} =>
    /\ l.curr \in L[l.lvl] \union {IF l.pc = "walk" THEN Tail ELSE Head}
    /\ l.pred \in L[l.lvl] \union {Head}
    /\ Key(l.pred) < c.arg
    /\ c.op = "insert" => \A i \in Levels : l.lvl < i => Kept(L, l, i)
  /\ l.pc = "alloc" =>
    /\ c.op = "insert"
    /\ \A i \in Levels : Kept(L, l, i)
    /\ Key(l.preds[0]) < c.arg /\ c.arg < Key(l.succs[0])

(* The nodes from l.from to l.curr are marked, and frozen. Those of level 0  *)
(* are dead in NVM.                                                          *)
RunIsDead(L, l) ==
  \E D \in SUBSET L[l.lvl] :
    /\ l.from \in D \union {l.curr}
    /\ \A d \in D : /\ Marked(d, l.lvl) /\ Ref(d, l.lvl) \in D \union {l.curr}
                    /\ l.lvl = 0 => mem[d].deleteFlag

(* find has reached curr from pred over marked nodes. *)
FindInv(L, l, c) ==
  l.pc \in Finding =>
    /\ l.pred \in L[l.lvl] \union {Head}
    /\ c.op \in {"insert", "remove"}
    /\ c.op = "insert" => l.result
    /\ l.pc # "findLevel" => l.curr \in L[l.lvl] \union {Tail} /\ RunIsDead(L, l)

(* A node that is helped was linked on level 0. *)
HelpInv(L, l, c) ==
  /\ l.pc \in {"makeValid", "flushInsert"} => l.node \in L[0] /\ l.up = 0
  /\ l.pc = "makeValid" /\ c.op = "remove" => ~l.result
  /\ l.pc = "flushInsert" => c.op # "remove"
  /\ l.pc \in {"raise", "linkUpper"} => Owner(l, c)

(* A remover has marked its node from the top down to its level. *)
RemoveInv(L, l, c) ==
  LET n == l.node IN
  /\ l.pc \in {"mark", "flushDelete", "free"} => c.op = "remove"
  /\ l.pc \in {"mark", "flushDelete", "free"} \/ (l.pc \in Finding /\ c.op = "remove") =>
       /\ n \in L[0] /\ mem[n].valid
       /\ l.pc = "mark" =>
            /\ l.lvl < mem[n].topLevel
            /\ \A i \in Levels : l.lvl < i /\ i < mem[n].topLevel => Marked(n, i)
       /\ l.pc # "mark" => Marked(n, 0)

(* What holds of a thread with the local variables l and the call c. *)
ThreadInv(U, L, l, c) ==
  OwnerInv(U, L, l, c) /\ WalkInv(L, l, c) /\ FindInv(L, l, c) /\ HelpInv(L, l, c) /\ RemoveInv(L, l, c)

(* The memory part of the invariant. *)
MemoryInv(U, L, C) ==
  /\ SentinelsAreFixed
  /\ LevelsAreClosed(U, L)
  /\ LiveNodesAreLinked(L, C)
  /\ \A n \in U : TowerIsRight(L, n) /\ FlagsAreRight(L, n)
  /\ NVMIsRight(U, L, C)

(* Each level is one chain from head to tail, level 0 in the order of the    *)
(* keys.                                                                     *)
ChainsInv(C) ==
  /\ \A i \in Levels : \E r : IsChain(C[i], r, Nexts(i), Head, Tail)
  /\ IsChain(C[0], KeyOf, Nexts(0), Head, Tail)

(* The invariant for given histories. *)
Inv(U, L, C) ==
  /\ TypeInv
  /\ HistoryInv(U, L, C)
  /\ MemoryInv(U, L, C)
  /\ ChainsInv(C)
  /\ OwnersAreApart
  /\ \A t \in Threads : ThreadInv(U, L, local[t], call[t])

(* In each state there are histories that explain it. *)
IInv == \E U, L, C : Inv(U, L, C)

-----------------------------------------------------------------------------
(* What the constants and the types give. *)

(* Levels are numbers below MAX_LEVEL, 0 and the topmost among them. *)
LEMMA LevelFacts ==
  /\ Levels \subseteq Nat
  /\ 0 \in Levels /\ MAX_LEVEL - 1 \in Levels
  /\ MAX_LEVEL \in Nat
  /\ \A i \in Levels : i < MAX_LEVEL /\ (i > 0 => i - 1 \in Levels)
BY LevelsAssumption DEF Levels

(* The order of the levels goes on to the height of a node. *)
LEMMA LevelOrder == \A i, j \in Levels : \A k \in Nat : i <= j /\ j < k => i < k
BY LevelFacts

(* head, tail, the nodes and NULL are apart. *)
LEMMA NameFacts ==
  /\ Head # Tail /\ Head # Nil /\ Tail # Nil
  /\ Head \in Towers /\ Tail \in Towers /\ Nodes \subseteq Towers
  /\ \A n \in Nodes : n # Head /\ n # Tail /\ n # Nil
BY NodesAssumption DEF Towers

(* The types of the fields of a node. *)
LEMMA Fields ==
  ASSUME TypeInv, NEW n \in Towers
  PROVE  /\ mem[n] \in NodeFields
         /\ Key(n) \in Int /\ mem[n].topLevel \in 0..MAX_LEVEL
         /\ mem[n].link \in [Levels -> Links]
         /\ mem[n].valid \in BOOLEAN /\ mem[n].insertFlag \in BOOLEAN
         /\ mem[n].deleteFlag \in BOOLEAN
         /\ \A i \in Levels :
              /\ mem[n].link[i] \in Links
              /\ Ref(n, i) \in Towers \union {Nil} /\ Marked(n, i) \in BOOLEAN
BY DEF TypeInv, NodeFields, Links, Key, Ref, Marked

(* The types of the local variables. *)
LEMMA LocalFields ==
  ASSUME NEW l \in Locals
  PROVE  /\ l.pc \in Labels /\ l.lvl \in Levels /\ l.up \in Levels /\ l.result \in BOOLEAN
         /\ l.pred \in Towers \union {Nil} /\ l.from \in Towers \union {Nil}
         /\ l.curr \in Towers \union {Nil} /\ l.node \in Towers \union {Nil}
         /\ l.preds \in [Levels -> Towers \union {Nil}]
         /\ l.succs \in [Levels -> Towers \union {Nil}]
BY DEF Locals

(* A running call has a key. *)
LEMMA Running ==
  ASSUME TypeInv, NEW t \in Threads, ~At(t, "idle")
  PROVE  /\ call[t] \in DS!Calls
         /\ call[t].op \in {"insert", "remove", "contains"}
         /\ call[t].arg \in Keys /\ call[t].arg \in Int
         /\ MinKey < call[t].arg /\ call[t].arg < MaxKey
BY KeysAssumption DEF TypeInv, DS!Calls, DS!Operations

(* The fields of what a thread becomes. *)
LEMMA IdleIsLocal ==
  /\ Idle \in Locals
  /\ Idle.pc = "idle" /\ Idle.lvl = 0 /\ Idle.up = 0 /\ Idle.result = FALSE
  /\ Idle.node = Nil
<1>1. 0 \in Levels
  BY LevelFacts
<1> QED
  BY <1>1 DEF Idle, Locals, Labels

(* Members of a level. *)
LEMMA OnLevel ==
  ASSUME NEW U, NEW L, NEW C, Inv(U, L, C), NEW i \in Levels, NEW n \in L[i] \union {Head}
  PROVE  /\ n \in Towers /\ n # Tail /\ n # Nil
         /\ n \in U \union {Head}
         /\ i < mem[n].topLevel
         /\ Ref(n, i) \in L[i] \union {Tail}
         /\ \A j \in Levels : j <= i => n \in L[j] \union {Head}
         /\ n # Head => n \in Nodes
<1>1. L[i] \subseteq U /\ U \subseteq Nodes /\ \A j \in Levels : j <= i => L[i] \subseteq L[j]
  BY DEF Inv, HistoryInv
<1>2. n \in U \union {Head} /\ n \in Towers /\ n # Tail /\ n # Nil
  BY <1>1, NameFacts
<1>3. i < mem[n].topLevel
  BY LevelFacts DEF Inv, HistoryInv, MemoryInv, SentinelsAreFixed
<1>4. n = Head \/ n \in L[0]
  <2>1. 0 \in Levels /\ 0 <= i
    BY LevelFacts
  <2> QED
    BY <2>1 DEF Inv, HistoryInv
<1>5. Ref(n, i) \in L[i] \union {Tail}
  <2>1. ~(n \in U \ L[0])
    BY <1>1, <1>4, NameFacts
  <2> QED
    BY <1>2, <1>3, <2>1 DEF Inv, MemoryInv, LevelsAreClosed
<1> QED
  BY <1>1, <1>2, <1>3, <1>5, NameFacts

(* The nodes of a level are nodes. *)
LEMMA LevelIsTower ==
  ASSUME NEW U, NEW L, NEW C, Inv(U, L, C), NEW i \in Levels
  PROVE  L[i] \subseteq Towers /\ L[i] \subseteq Nodes /\ L[i] \subseteq U
BY NameFacts DEF Inv, HistoryInv

(* A node with a key of the callers is no sentinel. *)
LEMMA SentinelKeys ==
  ASSUME NEW U, NEW L, NEW C, Inv(U, L, C)
  PROVE  Key(Head) = MinKey /\ Key(Tail) = MaxKey
BY DEF Inv, MemoryInv, SentinelsAreFixed

-----------------------------------------------------------------------------
(* Steps that change no memory. *)

(* A step that changes the variables of one thread alone, to what ThreadInv  *)
(* allows, preserves the invariant.                                          *)
LEMMA LocalMove ==
  ASSUME NEW U, NEW L, NEW C, Inv(U, L, C), NEW t \in Threads,
         NEW l \in Locals, NEW c \in DS!Calls \union {DS!None}, l.pc = "idle" <=> c = DS!None,
         ThreadInv(U, L, l, c),
         Owner(l, c) => Owner(local[t], call[t]) /\ l.node = local[t].node,
         Become(t, l), call' = [call EXCEPT ![t] = c], UNCHANGED <<mem, nvm, free>>
  PROVE  Inv(U, L, C)'
<1>1. /\ local \in [Threads -> Locals] /\ call \in [Threads -> DS!Calls \union {DS!None}]
      /\ \A u \in Threads : local[u].pc = "idle" <=> call[u] = DS!None
  BY DEF Inv, TypeInv, At
<1>2. /\ local'[t] = l /\ call'[t] = c
      /\ \A u \in Threads \ {t} : local'[u] = local[u] /\ call'[u] = call[u]
      /\ local' \in [Threads -> Locals] /\ call' \in [Threads -> DS!Calls \union {DS!None}]
  BY <1>1 DEF Become
<1>3. TypeInv'
  <2>1. mem \in [Towers -> NodeFields] /\ nvm \in [Nodes -> Int \union {Nil}] /\ free \in SUBSET Nodes
    BY DEF Inv, TypeInv
  <2>2. \A u \in Threads : local'[u].pc = "idle" <=> call'[u] = DS!None
    BY <1>1, <1>2
  <2> QED
    BY <1>2, <2>1, <2>2 DEF TypeInv, At
<1>4. HistoryInv(U, L, C)'
  BY DEF Inv, HistoryInv
<1>5. MemoryInv(U, L, C)'
  <2>1. SentinelsAreFixed' /\ LevelsAreClosed(U, L)' /\ LiveNodesAreLinked(L, C)'
    BY DEF Inv, MemoryInv, SentinelsAreFixed, LevelsAreClosed, LiveNodesAreLinked, Key, Ref, Marked
  <2>2. \A n \in U : TowerIsRight(L, n)' /\ FlagsAreRight(L, n)'
    BY DEF Inv, MemoryInv, TowerIsRight, FlagsAreRight, Key, Ref, Marked
  <2>3. NVMIsRight(U, L, C)'
    BY DEF Inv, MemoryInv, NVMIsRight, Key, Ref, Marked
  <2> QED
    BY <2>1, <2>2, <2>3 DEF MemoryInv
<1>6. ChainsInv(C)'
  BY DEF Inv, ChainsInv, Nexts, KeyOf, Ref, Key
<1>7. OwnersAreApart'
  <2> SUFFICES ASSUME NEW u \in Threads, NEW v \in Threads,
                      Owner(local'[u], call'[u]), Owner(local'[v], call'[v]),
                      local'[u].node = local'[v].node
               PROVE  u = v
    BY DEF OwnersAreApart
  <2>1. \A w \in Threads : Owner(local'[w], call'[w]) =>
          Owner(local[w], call[w]) /\ local'[w].node = local[w].node
    BY <1>2
  <2> QED
    BY <2>1 DEF Inv, OwnersAreApart
<1>8. ASSUME NEW u \in Threads PROVE ThreadInv(U, L, local[u], call[u])'
  <2>1. ThreadInv(U, L, local'[u], call'[u])
    BY SMTT(30), <1>2 DEF Inv
  <2>2. OwnerInv(U, L, local[u], call[u])'
    BY <2>1 DEF ThreadInv, OwnerInv, Key, Ref, Marked
  <2>3. WalkInv(L, local[u], call[u])'
    BY SMTT(30), <2>1 DEF ThreadInv, WalkInv, Key
  <2>4. FindInv(L, local[u], call[u])'
    BY <2>1 DEF ThreadInv, FindInv, RunIsDead, Ref, Marked
  <2>5. HelpInv(L, local[u], call[u])' /\ RemoveInv(L, local[u], call[u])'
    BY <2>1 DEF ThreadInv, HelpInv, RemoveInv, Marked
  <2> QED
    BY <2>2, <2>3, <2>4, <2>5 DEF ThreadInv
<1> QED
  BY <1>3, <1>4, <1>5, <1>6, <1>7, <1>8 DEF Inv

-----------------------------------------------------------------------------
(* What a thread may become, whatever it did to get there. *)

(* Of a thread that walks WalkInv is all there is to know. *)
LEMMA QuietThread ==
  ASSUME NEW U, NEW L, NEW l, NEW c, l.pc \in {"idle", "walk", "step", "alloc", "done"}, WalkInv(L, l, c)
  PROVE  ThreadInv(U, L, l, c) /\ ~Owner(l, c)
BY DEF ThreadInv, OwnerInv, Owner, WalkInv, FindInv, HelpInv, RemoveInv, Finding, Private

(* An idle thread. *)
LEMMA IdleThread ==
  ASSUME NEW U, NEW L
  PROVE  ThreadInv(U, L, Idle, DS!None) /\ ~Owner(Idle, DS!None)
<1>1. WalkInv(L, Idle, DS!None)
  BY DEF WalkInv, Idle
<1> QED
  BY <1>1, IdleIsLocal, QuietThread

(* A search begins at head, on the topmost level. *)
LEMMA StartOfSearch ==
  ASSUME NEW U, NEW L, NEW C, Inv(U, L, C), NEW c \in DS!Calls
  PROVE  /\ StartSearch \in Locals /\ StartSearch.pc = "walk"
         /\ ThreadInv(U, L, StartSearch, c) /\ ~Owner(StartSearch, c)
<1> DEFINE top == MAX_LEVEL - 1
           l == StartSearch
<1>1. top \in Levels /\ \A i \in Levels : ~(top < i)
  BY LevelFacts DEF Levels
<1>2. Ref(Head, top) \in L[top] \union {Tail} /\ L[top] \subseteq Towers
  BY <1>1, OnLevel, LevelIsTower
<1>3. /\ l.pc = "walk" /\ l.lvl = top /\ l.pred = Head /\ l.curr = Ref(Head, top)
      /\ l.node = Nil /\ l.up = 0 /\ l.result = FALSE
  BY DEF StartSearch, Idle
<1>4. l \in Locals
  <2>1. Ref(Head, top) \in Towers \union {Nil} /\ Head \in Towers \union {Nil} /\ "walk" \in Labels
    BY <1>2, NameFacts DEF Labels
  <2> HIDE DEF top
  <2> QED
    BY <1>1, <2>1, IdleIsLocal DEF StartSearch, Locals, top
<1>5. c.arg \in Keys /\ c.arg \in Int /\ Key(Head) < c.arg
  BY KeysAssumption, SentinelKeys DEF DS!Calls
<1>6. WalkInv(L, l, c)
  BY <1>1, <1>2, <1>3, <1>5 DEF WalkInv
<1> QED
  BY <1>3, <1>4, <1>6, QuietThread

(* What find holds when it begins a level, or a node of it: the run behind    *)
(* pred is empty.                                                            *)
FindFrom(l, p) == [l EXCEPT !.pc = "find", !.pred = p, !.from = Ref(p, l.lvl), !.curr = Ref(p, l.lvl)]

(* What find has when it begins a level behind p. *)
LEMMA FindFacts ==
  ASSUME NEW U, NEW L, NEW C, Inv(U, L, C), NEW l \in Locals,
         NEW p \in L[l.lvl] \union {Head}
  PROVE  LET f == FindFrom(l, p) IN
         /\ f \in Locals
         /\ f.pc = "find" /\ f.lvl = l.lvl /\ f.pred = p /\ f.from = Ref(p, l.lvl) /\ f.curr = Ref(p, l.lvl)
         /\ f.preds = l.preds /\ f.succs = l.succs /\ f.node = l.node /\ f.up = l.up
         /\ f.result = l.result
<1>1. l.lvl \in Levels
  BY LocalFields
<1>2. p \in Towers /\ Ref(p, l.lvl) \in L[l.lvl] \union {Tail} /\ L[l.lvl] \subseteq Towers
  BY <1>1, OnLevel, LevelIsTower
<1> QED
  BY <1>1, <1>2, NameFacts DEF FindFrom, Locals, Labels

(* What find begins with. *)
LEMMA StartFindFacts ==
  ASSUME NEW l \in Locals
  PROVE  LET f == StartFind(l) IN
         /\ f \in Locals
         /\ f.pc = "findLevel" /\ f.lvl \in Levels /\ f.pred = Head
         /\ f.preds = l.preds /\ f.succs = l.succs /\ f.node = l.node /\ f.up = l.up
         /\ f.result = l.result
BY LevelFacts, NameFacts DEF StartFind, Locals, Labels

(* What find needs when it begins is what its callers have, and what it has. *)
LEMMA FindThread ==
  ASSUME NEW U, NEW L, NEW l, NEW c, NEW f,
         ThreadInv(U, L, l, c), l.pc \in {"linkUpper", "flushDelete"} \union Finding,
         f.pc \in {"find", "findLevel"}, f.pred \in L[f.lvl] \union {Head},
         f.pc = "find" => f.from = f.curr /\ f.curr \in L[f.lvl] \union {Tail},
         f.preds = l.preds, f.succs = l.succs, f.node = l.node, f.up = l.up, f.result = l.result
  PROVE  ThreadInv(U, L, f, c) /\ (Owner(f, c) <=> Owner(l, c))
<1>1. c.op \in {"insert", "remove"} /\ (c.op = "insert" => l.result)
  BY DEF ThreadInv, FindInv, HelpInv, RemoveInv, Owner, Finding, Private
<1>2. f.pc = "find" => RunIsDead(L, f)
  <2>1. {} \in SUBSET L[f.lvl] /\ (f.pc = "find" => f.from \in {} \union {f.curr})
    OBVIOUS
  <2> QED
    BY <2>1 DEF RunIsDead
<1>3. Owner(f, c) <=> Owner(l, c)
  BY DEF Owner, Private, Finding
<1>4. OwnerInv(U, L, f, c)
  <2>1. Owner(l, c) => Height(f) = Height(l)
    BY DEF Owner, Height, Finding, Private
  <2> QED
    BY <1>3, <2>1 DEF ThreadInv, OwnerInv, Kept, Raising, Finding, RemoveInv, Private
<1>5. WalkInv(L, f, c) /\ HelpInv(L, f, c)
  BY DEF WalkInv, HelpInv
<1>6. FindInv(L, f, c)
  BY <1>1, <1>2 DEF FindInv, Finding
<1>7. RemoveInv(L, f, c)
  BY DEF ThreadInv, RemoveInv, Finding, HelpInv, Owner, Private
<1> QED
  BY <1>3, <1>4, <1>5, <1>6, <1>7 DEF ThreadInv

(* find goes down one level, or ends. *)
LEMMA FindGoesDown ==
  ASSUME NEW U, NEW L, NEW C, Inv(U, L, C), NEW t \in Threads, local[t].pc \in {"find", "cut"}
  PROVE  /\ FindDown(t) \in Locals /\ FindDown(t).pc # "idle"
         /\ ThreadInv(U, L, FindDown(t), call[t])
         /\ Owner(FindDown(t), call[t]) <=> Owner(local[t], call[t])
         /\ FindDown(t).node = local[t].node
<1> DEFINE l == local[t]
           c == call[t]
           k == l.lvl
           r == Record(t)
           d == FindDown(t)
<1>1. l \in Locals /\ TypeInv /\ ThreadInv(U, L, l, c) /\ k \in Levels
  <2>1. l \in Locals
    BY DEF Inv, TypeInv
  <2> QED
    BY <2>1, LocalFields DEF Inv
<1>2. /\ l.pred \in L[k] \union {Head} /\ c.op \in {"insert", "remove"}
      /\ c.op = "insert" => l.result
      /\ l.curr \in L[k] \union {Tail}
  BY SMTT(30), <1>1 DEF ThreadInv, FindInv, Finding
<1>3. /\ r \in Locals
      /\ r.pc = l.pc /\ r.lvl = k /\ r.pred = l.pred /\ r.node = l.node /\ r.up = l.up
      /\ r.result = l.result /\ r.from = l.from /\ r.curr = l.curr
      /\ \A i \in Levels : \/ r.preds[i] = l.preds[i] /\ r.succs[i] = l.succs[i]
                           \/ i = k /\ r.preds[i] = l.pred /\ r.succs[i] = l.curr
  <2>1. [l EXCEPT !.preds[l.lvl] = l.pred, !.succs[l.lvl] = l.curr] \in Locals
    BY <1>1 DEF Locals
  <2> QED
    BY <1>1, <2>1 DEF Record, Locals
<1>4. /\ d \in Locals
      /\ d.node = l.node /\ d.up = l.up /\ d.result = l.result
      /\ d.preds = r.preds /\ d.succs = r.succs
      /\ IF k > 0 THEN d.pc = "findLevel" /\ d.lvl = k - 1 /\ d.pred = l.pred
         ELSE d.pc = IF c.op = "insert" THEN "raise" ELSE "free"
  <2>1. 0 \in Levels /\ (k > 0 => k - 1 \in Levels)
    <3> HIDE DEF k
    <3> QED
      BY <1>1, LevelFacts
  <2> QED
    BY ZenonT(60), <1>3, <2>1 DEF FindDown, SearchEnds, Locals, Labels
<1>5. Owner(d, c) <=> Owner(l, c)
  BY <1>1, <1>2, <1>4 DEF Owner, Private, Finding
<1> HIDE DEF d, r
<1>6. \A i \in Levels : Kept(L, l, i) => Kept(L, d, i)
  BY <1>2, <1>3, <1>4 DEF Kept
<1>7. OwnerInv(U, L, d, c)
  <2>1. Height(d) = Height(l)
    BY <1>1, <1>4 DEF Height, Private
  <2> QED
    BY <1>1, <1>2, <1>4, <1>5, <1>6, <2>1 DEF ThreadInv, OwnerInv, Raising, Finding, Private
<1>8. WalkInv(L, d, c)
  BY <1>4 DEF WalkInv
<1>9. FindInv(L, d, c)
  <2> SUFFICES ASSUME k > 0 PROVE d.pred \in L[k-1] \union {Head}
    BY <1>2, <1>4 DEF FindInv, Finding
  <2>1. k - 1 \in Levels /\ k - 1 <= k
    <3> HIDE DEF k
    <3> QED
      BY <1>1, LevelFacts
  <2>2. \A j \in Levels : j <= k => l.pred \in L[j] \union {Head}
    <3> HIDE DEF k
    <3> QED
      BY <1>1, <1>2, OnLevel
  <2> QED
    BY <1>4, <2>1, <2>2
<1>10. HelpInv(L, d, c) /\ RemoveInv(L, d, c)
  BY <1>1, <1>2, <1>4, <1>5 DEF ThreadInv, HelpInv, RemoveInv, Owner, Finding, Private
<1> QED
  BY <1>4, <1>5, <1>7, <1>8, <1>9, <1>10 DEF ThreadInv, d

-----------------------------------------------------------------------------
(* The steps that change no memory preserve the invariant. *)

(* What the invariant says of a running thread. *)
LEMMA ThreadFacts ==
  ASSUME NEW U, NEW L, NEW C, Inv(U, L, C), NEW t \in Threads
  PROVE  /\ TypeInv
         /\ local[t] \in Locals /\ call[t] \in DS!Calls \union {DS!None}
         /\ local[t].pc = "idle" <=> call[t] = DS!None
         /\ ThreadInv(U, L, local[t], call[t])
BY DEF Inv, TypeInv, At

(* An operation that changes no memory returns. *)
LEMMA AnswerMove ==
  ASSUME NEW U, NEW L, NEW C, Inv(U, L, C), NEW t \in Threads, NEW r, Return(t, r),
         UNCHANGED <<mem, nvm, free>>
  PROVE  Inv(U, L, C)'
BY IdleThread, IdleIsLocal, LocalMove DEF Return

(* A thread goes on with its call. *)
LEMMA ThreadMove ==
  ASSUME NEW U, NEW L, NEW C, Inv(U, L, C), NEW t \in Threads, local[t].pc # "idle",
         NEW l \in Locals, l.pc # "idle", ThreadInv(U, L, l, call[t]),
         Owner(l, call[t]) => Owner(local[t], call[t]) /\ l.node = local[t].node,
         Become(t, l), UNCHANGED <<mem, nvm, free, call>>
  PROVE  Inv(U, L, C)'
<1>1. call[t] \in DS!Calls \union {DS!None} /\ call[t] # DS!None
  BY ThreadFacts
<1>2. call' = [call EXCEPT ![t] = call[t]]
  BY DEF Inv, TypeInv
<1> QED
  BY <1>1, <1>2, LocalMove

(* An operation is invoked. *)
LEMMA InvokeMove ==
  ASSUME NEW U, NEW L, NEW C, Inv(U, L, C), NEW t \in Threads, NEW c \in DS!Calls, Invoke(t, c)
  PROVE  Inv(U, L, C)'
<1>1. c # DS!None
  BY DEF DS!Calls, DS!None, DS!Operations
<1> QED
  BY <1>1, StartOfSearch, LocalMove DEF Invoke

(* Where a walk stands. *)
LEMMA WalkFacts ==
  ASSUME NEW U, NEW L, NEW C, Inv(U, L, C), NEW t \in Threads, local[t].pc \in {"walk", "step"}
  PROVE  LET l == local[t] IN
         /\ l \in Locals /\ l.lvl \in Levels /\ WalkInv(L, l, call[t])
         /\ l.node = Nil /\ l.up = 0 /\ ~l.result /\ ~Owner(l, call[t])
         /\ l.curr \in L[l.lvl] \union {IF l.pc = "walk" THEN Tail ELSE Head}
         /\ l.curr \in Towers /\ Marked(l.curr, l.lvl) \in BOOLEAN
         /\ l.curr # Tail => Ref(l.curr, l.lvl) \in L[l.lvl] \union {Tail}
         /\ L[l.lvl] \subseteq Towers
         /\ ~Marked(Tail, l.lvl)
         /\ call[t].op \in {"insert", "remove", "contains"}
         /\ call[t].arg \in Keys /\ call[t].arg \in Int
         /\ MinKey < call[t].arg /\ call[t].arg < MaxKey
<1> DEFINE l == local[t]
           k == l.lvl
<1>1. TypeInv /\ l \in Locals /\ ThreadInv(U, L, l, call[t])
  BY ThreadFacts
<1>2. k \in Levels /\ WalkInv(L, l, call[t])
  BY <1>1, LocalFields DEF ThreadInv
<1>3. /\ l.node = Nil /\ l.up = 0 /\ ~l.result
      /\ l.curr \in L[k] \union {IF l.pc = "walk" THEN Tail ELSE Head}
  BY <1>2 DEF WalkInv
<1>4. ~Owner(l, call[t])
  BY <1>3 DEF Owner, Private
<1>5. L[k] \subseteq Towers /\ l.curr \in Towers /\ Marked(l.curr, k) \in BOOLEAN
  BY <1>1, <1>2, <1>3, LevelIsTower, NameFacts, Fields
<1>6. l.curr # Tail => Ref(l.curr, k) \in L[k] \union {Tail}
  BY <1>2, <1>3, OnLevel
<1>7. ~Marked(Tail, k)
  BY <1>2 DEF Inv, MemoryInv, SentinelsAreFixed
<1> QED
  BY <1>1, <1>2, <1>3, <1>4, <1>5, <1>6, <1>7, Running DEF At

(* A walk goes on over a node. *)
LEMMA WalkOnMove ==
  ASSUME NEW U, NEW L, NEW C, Inv(U, L, C), NEW t \in Threads, WalkOn(t)
  PROVE  Inv(U, L, C)'
<1> DEFINE l == local[t]
           c == call[t]
           k == l.lvl
<1>1. l.pc = "walk"
  BY DEF WalkOn, At
<1>2. /\ l \in Locals /\ k \in Levels /\ WalkInv(L, l, c) /\ c \in DS!Calls \union {DS!None}
      /\ l.node = Nil /\ l.up = 0 /\ ~l.result
      /\ l.curr \in L[k] \union {Tail} /\ l.curr \in Towers /\ L[k] \subseteq Towers
      /\ l.curr # Tail => Ref(l.curr, k) \in L[k] \union {Tail}
      /\ ~Marked(Tail, k) /\ Marked(l.curr, k) \in BOOLEAN
      /\ c.op \in {"insert", "remove", "contains"} /\ c.arg \in Int /\ c.arg < MaxKey
  BY <1>1, WalkFacts, ThreadFacts
<1>3. Key(Tail) = MaxKey /\ MaxKey \in Int /\ Key(l.curr) \in Int
  BY <1>2, SentinelKeys, KeysAssumption, ThreadFacts, Fields
<1>4. CASE Marked(l.curr, l.lvl)
  <2> DEFINE m == [l EXCEPT !.curr = Ref(l.curr, l.lvl)]
  <2>1. l.curr # Tail
    BY <1>2, <1>4
  <2>2. m \in Locals
    BY <1>2, <2>1, NameFacts DEF Locals
  <2>3. m.pc = "walk" /\ WalkInv(L, m, c)
    BY <1>1, <1>2, <2>1 DEF WalkInv, Locals, Kept
  <2>4. Become(t, m)
    BY <1>4 DEF WalkOn
  <2> HIDE DEF m
  <2> QED
    BY <1>1, <2>2, <2>3, <2>4, QuietThread, ThreadMove DEF WalkOn
<1>5. CASE ~Marked(l.curr, l.lvl)
  <2> DEFINE m == [l EXCEPT !.pc = "step", !.pred = l.curr]
  <2>1. l.curr # Tail /\ Key(l.curr) < c.arg
    BY <1>2, <1>3, <1>5 DEF WalkOn
  <2>2. m \in Locals
    BY ZenonT(60), <1>2 DEF Locals, Labels
  <2>3. m.pc = "step" /\ WalkInv(L, m, c)
    BY <1>1, <1>2, <2>1 DEF WalkInv, Locals, Kept
  <2>4. Become(t, m)
    BY <1>5 DEF WalkOn
  <2> HIDE DEF m
  <2> QED
    BY <1>1, <2>2, <2>3, <2>4, QuietThread, ThreadMove DEF WalkOn
<1> QED
  BY <1>4, <1>5

(* A walk reads the way on from a node. *)
LEMMA WalkStepMove ==
  ASSUME NEW U, NEW L, NEW C, Inv(U, L, C), NEW t \in Threads, WalkStep(t)
  PROVE  Inv(U, L, C)'
<1> DEFINE l == local[t]
           c == call[t]
           m == [l EXCEPT !.pc = "walk", !.curr = Ref(l.curr, l.lvl)]
<1>1. l.pc = "step" /\ Become(t, m)
  BY DEF WalkStep, At
<1>2. /\ l \in Locals /\ l.lvl \in Levels /\ WalkInv(L, l, c)
      /\ l.node = Nil /\ l.up = 0 /\ ~l.result
      /\ Ref(l.curr, l.lvl) \in L[l.lvl] \union {Tail}
      /\ L[l.lvl] \subseteq Towers
  <2>1. l.curr \in L[l.lvl] \union {Head} /\ L[l.lvl] \subseteq Towers
    BY <1>1, WalkFacts
  <2>2. l.lvl \in Levels
    BY <1>1, WalkFacts
  <2>3. l.curr # Tail
    BY <2>1, <2>2, OnLevel
  <2> QED
    BY <1>1, <2>1, <2>3, WalkFacts
<1>3. m \in Locals /\ m.pc = "walk"
  BY ZenonT(60), <1>2, NameFacts DEF Locals, Labels
<1>4. WalkInv(L, m, c)
  BY <1>1, <1>2 DEF WalkInv, Locals, Kept
<1> HIDE DEF m
<1> QED
  BY <1>1, <1>3, <1>4, QuietThread, ThreadMove DEF WalkStep

(* A walk goes down one level, behind the node it has stopped at. *)
LEMMA WalkDownMove ==
  ASSUME NEW U, NEW L, NEW C, Inv(U, L, C), NEW t \in Threads, WalkDown(t)
  PROVE  Inv(U, L, C)'
<1> DEFINE l == local[t]
           c == call[t]
           k == l.lvl
           r == Record(t)
           m == [r EXCEPT !.pc = "step", !.lvl = k - 1, !.curr = l.pred]
<1>1. l.pc = "walk" /\ k > 0
  BY DEF WalkDown, WalkStops, At
<1>2. /\ l \in Locals /\ k \in Levels /\ WalkInv(L, l, c)
      /\ l.node = Nil /\ l.up = 0 /\ ~l.result
      /\ l.curr \in L[k] \union {Tail} /\ l.curr \in Towers /\ L[k] \subseteq Towers
  BY <1>1, WalkFacts
<1>3. l.pred \in L[k] \union {Head} /\ l.pred \in Towers
  BY <1>1, <1>2, NameFacts DEF WalkInv
<1>4. /\ r \in Locals
      /\ r.pc = l.pc /\ r.lvl = k /\ r.pred = l.pred /\ r.node = l.node /\ r.up = l.up
      /\ r.result = l.result
      /\ \A i \in Levels : i # k => r.preds[i] = l.preds[i] /\ r.succs[i] = l.succs[i]
      /\ c.op = "insert" => r.preds[k] = l.pred /\ r.succs[k] = l.curr
  <2>1. [l EXCEPT !.preds[l.lvl] = l.pred, !.succs[l.lvl] = l.curr] \in Locals
    BY <1>2, <1>3 DEF Locals
  <2> QED
    BY <1>2, <2>1 DEF Record, Locals
<1>5. Become(t, m)
  BY <1>4 DEF WalkDown
<1> HIDE DEF r
<1>6. k - 1 \in Levels /\ k - 1 < k /\ \A j \in Levels : k - 1 < j => j = k \/ k < j
  <2>1. k \in Levels /\ k > 0
    BY <1>1, <1>2
  <2> HIDE DEF k
  <2>2. k \in Nat /\ k - 1 \in Levels /\ Levels \subseteq Nat
    BY <2>1, LevelFacts
  <2> QED
    BY <2>2
<1>7. l.pred \in L[k-1] \union {Head}
  <2> HIDE DEF k
  <2>1. k \in Nat
    BY <1>2, LevelFacts
  <2> QED
    BY <1>2, <1>3, <1>6, <2>1, OnLevel
<1>8. m \in Locals /\ m.pc = "step"
  BY <1>3, <1>4, <1>6 DEF Locals, Labels
<1>9. WalkInv(L, m, c)
  <2>1. /\ m.pc = "step" /\ m.lvl = k - 1 /\ m.pred = l.pred /\ m.curr = l.pred /\ m.preds = r.preds
        /\ m.succs = r.succs /\ m.node = Nil /\ m.up = 0 /\ m.result = l.result
    BY <1>2, <1>4 DEF Locals
  <2>2. Key(l.pred) < c.arg /\ (c.op = "insert" => \A i \in Levels : k < i => Kept(L, l, i))
    BY <1>1, <1>2 DEF WalkInv
  <2> HIDE DEF m
  <2>3. c.op = "insert" => \A i \in Levels : k - 1 < i => Kept(L, m, i)
    <3> SUFFICES ASSUME c.op = "insert", NEW i \in Levels, k - 1 < i PROVE Kept(L, m, i)
      OBVIOUS
    <3>1. CASE i = k
      BY <1>2, <1>3, <1>4, <2>1, <3>1 DEF Kept
    <3>2. CASE k < i
      <4>1. i # k
        <5> HIDE DEF k
        <5> QED
          BY <1>2, <3>2, LevelFacts
      <4> QED
        BY <1>4, <2>1, <2>2, <3>2, <4>1 DEF Kept
    <3> QED
      BY <1>6, <3>1, <3>2
  <2> QED
    BY <1>2, <1>7, <2>1, <2>2, <2>3 DEF WalkInv
<1> HIDE DEF m
<1> QED
  BY <1>1, <1>5, <1>8, <1>9, QuietThread, ThreadMove DEF WalkDown

(* A search that ends with a node of the key. *)
LEMMA FoundNode ==
  ASSUME NEW U, NEW L, NEW C, Inv(U, L, C), NEW t \in Threads, WalkFinds(t)
  PROVE  local[t].curr \in L[0] /\ local[t].curr \in Towers /\ local[t].pc = "walk"
<1> DEFINE k == local[t].lvl
<1>1. local[t].pc = "walk" /\ Key(local[t].curr) = call[t].arg
  BY DEF WalkFinds, WalkStops, At
<1>2. local[t].curr \in L[k] \union {Tail} /\ local[t].curr \in Towers /\ k \in Levels
  BY <1>1, WalkFacts
<1>3. Key(Tail) = MaxKey /\ call[t].arg < MaxKey /\ call[t].arg \in Int
  BY <1>1, SentinelKeys, WalkFacts
<1>4. local[t].curr \in L[k]
  BY <1>1, <1>2, <1>3, KeysAssumption
<1> HIDE DEF k
<1>5. 0 \in Levels /\ 0 <= k
  BY <1>2, LevelFacts
<1>6. L[k] \subseteq L[0]
  BY <1>2, <1>5 DEF Inv, HistoryInv
<1> QED
  BY <1>1, <1>2, <1>4, <1>6

(* A search finds its key. *)
LEMMA WalkHitMove ==
  ASSUME NEW U, NEW L, NEW C, Inv(U, L, C), NEW t \in Threads, WalkHit(t)
  PROVE  Inv(U, L, C)'
<1> DEFINE n == local[t].curr
           b == call[t].op = "contains"
           m == [Idle EXCEPT !.pc = "makeValid", !.node = n, !.result = b]
<1>1. n \in L[0] /\ local[t].pc = "walk" /\ Become(t, m) /\ n \in Towers
  BY FoundNode DEF WalkHit
<1>2. b \in BOOLEAN /\ (b => call[t].op = "contains") 
  OBVIOUS
<1> HIDE DEF b
<1>3. /\ m \in Locals /\ m.pc = "makeValid" /\ m.node = n /\ m.up = 0 /\ m.result = b
  BY ZenonT(60), <1>1, <1>2, IdleIsLocal DEF Locals, Labels
<1> HIDE DEF m
<1>4. ~Owner(m, call[t])
  BY <1>2, <1>3 DEF Owner, Private
<1>5. ThreadInv(U, L, m, call[t])
  BY <1>1, <1>2, <1>3, <1>4 DEF ThreadInv, OwnerInv, WalkInv, FindInv, HelpInv, RemoveInv, Finding
<1> QED
  BY <1>1, <1>3, <1>4, <1>5, ThreadMove DEF WalkHit

(* What a search leaves that ends without its key. *)
LEMMA SearchEndsFacts ==
  ASSUME NEW r \in Locals, NEW label \in Labels
  PROVE  LET m == SearchEnds(r, label) IN
         /\ m \in Locals /\ m.pc = label /\ m.node = r.node /\ m.up = r.up /\ m.result = r.result
         /\ m.preds = r.preds /\ m.succs = r.succs
BY LevelFacts DEF SearchEnds, Locals

(* insert does not find its key, and goes on to make a node. *)
LEMMA WalkMissInsertMove ==
  ASSUME NEW U, NEW L, NEW C, Inv(U, L, C), NEW t \in Threads, WalkMissInsert(t)
  PROVE  Inv(U, L, C)'
<1> DEFINE l == local[t]
           c == call[t]
           r == Record(t)
           m == SearchEnds(r, "alloc")
<1>1. /\ l.pc = "walk" /\ l.lvl = 0 /\ c.op = "insert" /\ Become(t, m)
      /\ Key(l.curr) >= c.arg /\ Key(l.curr) # c.arg
  BY DEF WalkMissInsert, WalkStops, WalkFinds, At
<1>2. /\ l \in Locals /\ 0 \in Levels /\ WalkInv(L, l, c)
      /\ l.node = Nil /\ l.up = 0 /\ ~l.result /\ c.arg \in Int
      /\ l.curr \in L[0] \union {Tail} /\ l.curr \in Towers
  BY <1>1, WalkFacts
<1>3. /\ l.pred \in L[0] \union {Head} /\ l.pred \in Towers /\ Key(l.pred) < c.arg
      /\ \A i \in Levels : 0 < i => Kept(L, l, i)
  BY <1>1, <1>2, LevelIsTower, NameFacts DEF WalkInv
<1>4. /\ r \in Locals
      /\ r.node = l.node /\ r.up = l.up /\ r.result = l.result
      /\ \A i \in Levels : i # 0 => r.preds[i] = l.preds[i] /\ r.succs[i] = l.succs[i]
      /\ r.preds[0] = l.pred /\ r.succs[0] = l.curr
  <2>1. [l EXCEPT !.preds[l.lvl] = l.pred, !.succs[l.lvl] = l.curr] \in Locals
    BY <1>1, <1>2, <1>3 DEF Locals
  <2> QED
    BY <1>1, <1>2, <2>1 DEF Record, Locals
<1> HIDE DEF r
<1>5. /\ m \in Locals /\ m.pc = "alloc" /\ m.node = r.node /\ m.up = r.up /\ m.result = r.result
      /\ m.preds = r.preds /\ m.succs = r.succs
  BY <1>2, <1>4, SearchEndsFacts DEF Labels
<1> HIDE DEF m
<1>6. \A i \in Levels : Kept(L, m, i)
  <2> SUFFICES ASSUME NEW i \in Levels PROVE Kept(L, m, i)
    OBVIOUS
  <2>1. CASE i = 0
    BY <1>2, <1>3, <1>4, <1>5, <2>1 DEF Kept
  <2>2. CASE 0 < i
    BY <1>3, <1>4, <1>5, <2>2 DEF Kept
  <2> QED
    BY <2>1, <2>2, LevelFacts
<1>7. Key(m.preds[0]) < c.arg /\ c.arg < Key(m.succs[0])
  <2>1. Key(l.curr) \in Int
    BY <1>2, ThreadFacts, Fields
  <2> QED
    BY <1>1, <1>2, <1>3, <1>4, <1>5, <2>1
<1>8. WalkInv(L, m, c)
  BY <1>1, <1>2, <1>4, <1>5, <1>6, <1>7 DEF WalkInv
<1> QED
  BY <1>1, <1>5, <1>8, QuietThread, ThreadMove DEF WalkMissInsert

(* The three steps that only answer. *)
LEMMA AnswersMove ==
  ASSUME NEW U, NEW L, NEW C, Inv(U, L, C), NEW t \in Threads,
         WalkMiss(t) \/ RaiseStops(t) \/ Done(t)
  PROVE  Inv(U, L, C)'
BY AnswerMove DEF WalkMiss, RaiseStops, Done

-----------------------------------------------------------------------------
(* find *)

(* What the invariant says of a thread inside find. *)
LEMMA FinderFacts ==
  ASSUME NEW U, NEW L, NEW C, Inv(U, L, C), NEW t \in Threads, local[t].pc \in Finding
  PROVE  LET l == local[t] IN
         /\ l \in Locals /\ l.lvl \in Levels /\ FindInv(L, l, call[t])
         /\ l.pc # "idle"
         /\ l.pred \in L[l.lvl] \union {Head} /\ l.pred \in Towers
         /\ L[l.lvl] \subseteq Towers
         /\ Marked(l.pred, l.lvl) \in BOOLEAN
         /\ ~Marked(Tail, l.lvl)
         /\ call[t].op \in {"insert", "remove"} /\ (call[t].op = "insert" => l.result)
         /\ call[t].arg \in Int /\ call[t].arg < MaxKey
         /\ l.pc # "findLevel" => l.curr \in L[l.lvl] \union {Tail} /\ l.curr \in Towers
<1> DEFINE l == local[t]
<1>1. TypeInv /\ l \in Locals /\ ThreadInv(U, L, l, call[t])
  BY ThreadFacts
<1>2. l.lvl \in Levels /\ FindInv(L, l, call[t]) /\ l.pc # "idle"
  BY <1>1, LocalFields DEF ThreadInv, Finding
<1>3. L[l.lvl] \subseteq Towers
  BY <1>2, LevelIsTower
<1>4. /\ l.pred \in L[l.lvl] \union {Head}
      /\ call[t].op \in {"insert", "remove"} /\ (call[t].op = "insert" => l.result)
      /\ l.pc # "findLevel" => l.curr \in L[l.lvl] \union {Tail}
  BY <1>2 DEF FindInv
<1>5. l.pred \in Towers /\ Marked(l.pred, l.lvl) \in BOOLEAN
  BY <1>1, <1>2, <1>3, <1>4, NameFacts, Fields
<1>6. ~Marked(Tail, l.lvl)
  BY <1>2 DEF Inv, MemoryInv, SentinelsAreFixed
<1> QED
  BY <1>1, <1>2, <1>3, <1>4, <1>5, <1>6, NameFacts, Running DEF At

(* A thread begins a level of find. *)
LEMMA FindFromMove ==
  ASSUME NEW U, NEW L, NEW C, Inv(U, L, C), NEW t \in Threads,
         local[t].pc \in Finding,
         NEW p \in L[local[t].lvl] \union {Head},
         Become(t, FindFrom(local[t], p)), UNCHANGED <<mem, nvm, free, call>>
  PROVE  Inv(U, L, C)'
<1>1. local[t] \in Locals /\ ThreadInv(U, L, local[t], call[t]) /\ local[t].pc # "idle"
  BY ThreadFacts DEF Finding
<1>2. PICK f : f = FindFrom(local[t], p)
  OBVIOUS
<1>3. /\ f \in Locals
      /\ f.pc = "find" /\ f.lvl = local[t].lvl /\ f.pred = p /\ f.from = f.curr
      /\ f.curr = Ref(p, local[t].lvl)
      /\ f.preds = local[t].preds /\ f.succs = local[t].succs /\ f.node = local[t].node
      /\ f.up = local[t].up /\ f.result = local[t].result
  BY <1>1, <1>2, FindFacts
<1>4. f.curr \in L[f.lvl] \union {Tail}
  BY <1>1, <1>3, LocalFields, OnLevel
<1>5. ThreadInv(U, L, f, call[t]) /\ (Owner(f, call[t]) <=> Owner(local[t], call[t]))
  BY <1>1, <1>3, <1>4, FindThread
<1> QED
  BY <1>1, <1>2, <1>3, <1>5, ThreadMove

(* What a thread has that calls find. *)
LEMMA StartFindThread ==
  ASSUME NEW U, NEW L, NEW l \in Locals, NEW c, ThreadInv(U, L, l, c),
         l.pc \in {"linkUpper", "flushDelete"} \union Finding
  PROVE  LET f == StartFind(l) IN
         /\ f \in Locals /\ f.pc # "idle" /\ ThreadInv(U, L, f, c)
         /\ Owner(f, c) <=> Owner(l, c)
         /\ f.node = l.node
<1>1. PICK f : f = StartFind(l)
  OBVIOUS
<1>2. /\ f \in Locals
      /\ f.pc = "findLevel" /\ f.lvl \in Levels /\ f.pred = Head
      /\ f.preds = l.preds /\ f.succs = l.succs /\ f.node = l.node /\ f.up = l.up
      /\ f.result = l.result
  BY <1>1, StartFindFacts
<1>3. ThreadInv(U, L, f, c) /\ (Owner(f, c) <=> Owner(l, c))
  BY <1>2, FindThread
<1> QED
  BY <1>1, <1>2, <1>3

(* find begins at the top. *)
LEMMA StartFindMove ==
  ASSUME NEW U, NEW L, NEW C, Inv(U, L, C), NEW t \in Threads,
         local[t].pc \in {"linkUpper"} \union Finding,
         Become(t, StartFind(local[t])), UNCHANGED <<mem, nvm, free, call>>
  PROVE  Inv(U, L, C)'
<1>1. local[t] \in Locals /\ ThreadInv(U, L, local[t], call[t]) /\ local[t].pc # "idle"
  BY ThreadFacts DEF Finding
<1> QED
  BY <1>1, StartFindThread, ThreadMove

(* find begins a level behind pred, or at the top if pred is marked by now. *)
LEMMA FindLevelMove ==
  ASSUME NEW U, NEW L, NEW C, Inv(U, L, C), NEW t \in Threads, FindLevel(t)
  PROVE  Inv(U, L, C)'
<1> DEFINE l == local[t]
<1>1. l \in Locals /\ l.pc \in Finding /\ l.lvl \in Levels /\ l.pred \in L[l.lvl] \union {Head}
  BY FinderFacts DEF FindLevel, At, Finding
<1>2. CASE Marked(l.pred, l.lvl)
  BY <1>1, <1>2, StartFindMove DEF FindLevel
<1>3. CASE ~Marked(l.pred, l.lvl)
  <2>1. [l EXCEPT !.pc = "find", !.from = Ref(l.pred, l.lvl), !.curr = Ref(l.pred, l.lvl)]
          = FindFrom(l, l.pred)
    BY <1>1 DEF FindFrom, Locals
  <2> QED
    BY <1>1, <1>3, <2>1, FindFromMove DEF FindLevel
<1> QED
  BY <1>2, <1>3

(* A short cut could not be linked: find looks for its neighbours. *)
LEMMA LinkUpperFailsMove ==
  ASSUME NEW U, NEW L, NEW C, Inv(U, L, C), NEW t \in Threads, LinkUpperFails(t)
  PROVE  Inv(U, L, C)'
BY StartFindMove DEF LinkUpperFails, CASFails, At

(* A cut fails, and find begins again. *)
LEMMA CutFailsMove ==
  ASSUME NEW U, NEW L, NEW C, Inv(U, L, C), NEW t \in Threads, Cut(t), UNCHANGED mem,
         Become(t, StartFind(local[t]))
  PROVE  Inv(U, L, C)'
BY StartFindMove DEF Cut, At, Finding

(* find goes on over a node that is not marked: it becomes pred. *)
LEMMA FindPassMove ==
  ASSUME NEW U, NEW L, NEW C, Inv(U, L, C), NEW t \in Threads, FindPass(t)
  PROVE  Inv(U, L, C)'
<1> DEFINE l == local[t]
           c == call[t]
           k == l.lvl
<1>1. l.pc = "find" /\ l.pc \in Finding /\ Key(l.curr) < c.arg
  BY DEF FindPass, At, Finding
<1>2. /\ l \in Locals /\ l.curr \in L[k] \union {Tail} /\ l.curr \in Towers
      /\ c.arg \in Int /\ c.arg < MaxKey
  BY <1>1, FinderFacts
<1>3. Key(Tail) = MaxKey /\ MaxKey \in Int /\ Key(l.curr) \in Int
  BY <1>2, SentinelKeys, KeysAssumption, ThreadFacts, Fields
<1>4. l.curr \in L[k]
  BY <1>1, <1>2, <1>3
<1>5. [l EXCEPT !.pred = l.curr, !.from = Ref(l.curr, l.lvl), !.curr = Ref(l.curr, l.lvl)]
        = FindFrom(l, l.curr)
  BY <1>1, <1>2 DEF FindFrom, Locals
<1> QED
  BY <1>1, <1>4, <1>5, FindFromMove DEF FindPass

(* Over a marked node the run grows: the thread of the run before d and of   *)
(* the run with d.                                                           *)
LEMMA RunGrows ==
  ASSUME NEW U, NEW L, NEW C, Inv(U, L, C), NEW l \in Locals, NEW c,
         l.pc = "find", ThreadInv(U, L, l, c),
         Marked(l.curr, l.lvl), l.lvl = 0 => mem[l.curr].deleteFlag,
         NEW m, m = [l EXCEPT !.curr = Ref(l.curr, l.lvl)]
  PROVE  /\ m \in Locals /\ m.pc # "idle" /\ m.node = l.node
         /\ ThreadInv(U, L, m, c) /\ (Owner(m, c) <=> Owner(l, c))
<1> DEFINE k == l.lvl
<1>1. FindInv(L, l, c) /\ k \in Levels
  BY LocalFields DEF ThreadInv
<1>2. l.curr \in L[k] /\ l.pred \in L[k] \union {Head}
  BY <1>1 DEF FindInv, Finding, Inv, MemoryInv, SentinelsAreFixed
<1>3. Ref(l.curr, k) \in L[k] \union {Tail} /\ Ref(l.curr, k) \in Towers
  BY <1>1, <1>2, OnLevel, LevelIsTower, NameFacts
<1>4. /\ m \in Locals /\ m.pc = l.pc /\ m.lvl = k /\ m.pred = l.pred /\ m.from = l.from
      /\ m.curr = Ref(l.curr, k) /\ m.node = l.node /\ m.result = l.result /\ m.up = l.up
      /\ m.preds = l.preds /\ m.succs = l.succs
  BY <1>3 DEF Locals
<1>5. RunIsDead(L, m)
  <2>1. PICK D \in SUBSET L[k] :
          /\ l.from \in D \union {l.curr}
          /\ \A d \in D : /\ Marked(d, k) /\ Ref(d, k) \in D \union {l.curr}
                          /\ k = 0 => mem[d].deleteFlag
    BY <1>1 DEF FindInv, RunIsDead, Finding
  <2> DEFINE E == D \union {l.curr}
  <2>2. E \in SUBSET L[k] /\ l.from \in E
    BY <1>2, <2>1
  <2>3. \A d \in E : /\ Marked(d, k) /\ Ref(d, k) \in E \union {m.curr}
                     /\ k = 0 => mem[d].deleteFlag
    BY <1>4, <2>1
  <2> HIDE DEF E
  <2> QED
    BY <1>4, <2>2, <2>3 DEF RunIsDead
<1>6. FindInv(L, m, c)
  BY <1>1, <1>2, <1>3, <1>4, <1>5 DEF FindInv, Finding
<1>7. Owner(m, c) <=> Owner(l, c)
  BY <1>4 DEF Owner, Private
<1>8. OwnerInv(U, L, m, c)
  BY <1>4, <1>7 DEF ThreadInv, OwnerInv, Height, Kept, Raising, Finding, Private
<1>9. WalkInv(L, m, c) /\ HelpInv(L, m, c) /\ RemoveInv(L, m, c)
  BY <1>4 DEF ThreadInv, WalkInv, HelpInv, RemoveInv, Finding
<1> QED
  BY <1>4, <1>6, <1>7, <1>8, <1>9 DEF ThreadInv

(* find goes on over a marked node of an upper level, which joins the run    *)
(* behind pred.                                                              *)
LEMMA FindMarkedMove ==
  ASSUME NEW U, NEW L, NEW C, Inv(U, L, C), NEW t \in Threads, FindMarked(t), local[t].lvl # 0
  PROVE  Inv(U, L, C)'
<1>1. local[t] \in Locals /\ ThreadInv(U, L, local[t], call[t]) /\ local[t].pc = "find"
  BY ThreadFacts DEF FindMarked, At
<1>2. PICK m : m = [local[t] EXCEPT !.curr = Ref(local[t].curr, local[t].lvl)]
  OBVIOUS
<1>3. Marked(local[t].curr, local[t].lvl) /\ Become(t, m) /\ UNCHANGED <<mem, nvm, free, call>>
  BY <1>2 DEF FindMarked
<1>4. /\ m \in Locals /\ m.pc # "idle" /\ m.node = local[t].node
      /\ ThreadInv(U, L, m, call[t]) /\ (Owner(m, call[t]) <=> Owner(local[t], call[t]))
  BY <1>1, <1>2, <1>3, RunGrows
<1> QED
  BY <1>1, <1>3, <1>4, ThreadMove

(* find stops at a node, and cuts the run out if there is one. *)
LEMMA FindStopMove ==
  ASSUME NEW U, NEW L, NEW C, Inv(U, L, C), NEW t \in Threads, FindStop(t)
  PROVE  Inv(U, L, C)'
<1> DEFINE l == local[t]
           c == call[t]
<1>1. l.pc = "find" /\ l.pc \in Finding
  BY DEF FindStop, At, Finding
<1>2. l \in Locals /\ ThreadInv(U, L, l, c)
  BY ThreadFacts
<1>3. CASE l.from = l.curr
  BY <1>1, <1>3, FindGoesDown, ThreadMove DEF FindStop
<1>4. CASE l.from # l.curr
  <2> DEFINE m == [l EXCEPT !.pc = "cut"]
  <2>1. /\ m \in Locals /\ m.pc = "cut" /\ m.lvl = l.lvl /\ m.pred = l.pred /\ m.from = l.from
        /\ m.curr = l.curr /\ m.node = l.node /\ m.result = l.result /\ m.up = l.up
        /\ m.preds = l.preds /\ m.succs = l.succs
    BY <1>2 DEF Locals, Labels
  <2>2. Become(t, m)
    BY <1>4 DEF FindStop
  <2> HIDE DEF m
  <2>3. FindInv(L, m, c)
    BY <1>1, <1>2, <2>1 DEF ThreadInv, FindInv, RunIsDead, Finding
  <2>4. Owner(m, c) <=> Owner(l, c)
    BY <1>1, <2>1 DEF Owner, Private
  <2>5. OwnerInv(U, L, m, c) /\ WalkInv(L, m, c) /\ HelpInv(L, m, c) /\ RemoveInv(L, m, c)
    <3>1. OwnerInv(U, L, m, c)
      BY SMTT(30), <1>1, <1>2, <2>1, <2>4 DEF ThreadInv, OwnerInv, Height, Kept, Raising, Finding, Private
    <3> QED
      BY <1>1, <1>2, <2>1, <3>1 DEF ThreadInv, WalkInv, HelpInv, RemoveInv, Finding
  <2> QED
    BY <1>1, <2>1, <2>2, <2>3, <2>4, <2>5, ThreadMove DEF FindStop, ThreadInv
<1> QED
  BY <1>3, <1>4

(* Forgetting references leaves the other fields. *)
LEMMA ForgetFacts ==
  ASSUME NEW l \in Locals, NEW S
  PROVE  LET f == Forget(l, S) IN
         /\ f \in Locals
         /\ f.pc = l.pc /\ f.lvl = l.lvl /\ f.pred = l.pred /\ f.from = l.from /\ f.curr = l.curr
         /\ f.node = l.node /\ f.up = l.up /\ f.result = l.result 
         /\ \A i \in Levels : i \notin S => f.preds[i] = l.preds[i] /\ f.succs[i] = l.succs[i]
<1>1. /\ l.preds \in [Levels -> Towers \union {Nil}] /\ l.succs \in [Levels -> Towers \union {Nil}]
  BY LocalFields
<1>2. /\ [i \in Levels |-> IF i \in S THEN Nil ELSE l.preds[i]] \in [Levels -> Towers \union {Nil}]
      /\ [i \in Levels |-> IF i \in S THEN Nil ELSE l.succs[i]] \in [Levels -> Towers \union {Nil}]
  BY <1>1
<1>3. \A x, y \in [Levels -> Towers \union {Nil}] : [l EXCEPT !.preds = x, !.succs = y] \in Locals
  BY DEF Locals
<1>4. Forget(l, S) \in Locals
  BY <1>2, <1>3 DEF Forget
<1> QED
  BY <1>1, <1>4 DEF Forget, Locals

(* The node of insert could not be linked. *)
LEMMA LinkFailsMove ==
  ASSUME NEW U, NEW L, NEW C, Inv(U, L, C), NEW t \in Threads, LinkNode(t), UNCHANGED mem,
         Become(t, [Forget(local[t], Levels) EXCEPT !.pc = "markUnlinked"])
  PROVE  Inv(U, L, C)'
<1> DEFINE l == local[t]
           c == call[t]
           m == [Forget(l, Levels) EXCEPT !.pc = "markUnlinked"]
<1>1. l.pc = "link" /\ l \in Locals /\ ThreadInv(U, L, l, c)
  BY ThreadFacts DEF LinkNode, At
<1>2. m \in Locals /\ m.pc = "markUnlinked" /\ m.node = l.node /\ m.up = l.up /\ m.result = l.result
  <2>1. /\ Forget(l, Levels) \in Locals /\ Forget(l, Levels).node = l.node
        /\ Forget(l, Levels).up = l.up /\ Forget(l, Levels).result = l.result
    BY <1>1, ForgetFacts
  <2>3. \A f \in Locals : LET g == [f EXCEPT !.pc = "markUnlinked"] IN
          g \in Locals /\ g.pc = "markUnlinked" /\ g.node = f.node /\ g.up = f.up /\ g.result = f.result
    BY DEF Locals, Labels
  <2> QED
    BY <2>1, <2>3
<1>6. Become(t, m)
  OBVIOUS
<1> HIDE DEF m
<1>3. Owner(l, c) /\ Height(l) = 0 /\ Height(m) = 0
  BY <1>1, <1>2 DEF Owner, Height, Private
<1>4. OwnerInv(U, L, m, c)
  BY <1>1, <1>2, <1>3 DEF ThreadInv, OwnerInv, Raising, Finding, Private
<1>5. ThreadInv(U, L, m, c)
  BY <1>2, <1>4 DEF ThreadInv, WalkInv, FindInv, HelpInv, RemoveInv, Finding
<1> QED
  BY <1>1, <1>2, <1>3, <1>5, <1>6, ThreadMove DEF LinkNode

-----------------------------------------------------------------------------
(* The steps that change memory. What a step leaves to the threads that do not *)
(* take it, n0 being the node of an insertion that takes it, if it is one:    *)
(* U and L become V and M.                                                   *)
Evolves(n0, U, L, V, M) ==
  /\ U \ {n0} \subseteq V
  /\ \A i \in Levels : L[i] \subseteq M[i] /\ M[i] \subseteq L[i] \union {n0}
  /\ \A n \in U \union {Head, Tail} : Key(n)' = Key(n) /\ mem'[n].topLevel = mem[n].topLevel
  /\ \A i \in Levels : \A n \in L[i] :
       Marked(n, i) => Marked(n, i)' /\ Ref(n, i)' = Ref(n, i)
  /\ \A n \in U :
       /\ \A i \in Levels : i < mem[n].topLevel /\ Marked(n, i) => Marked(n, i)'
       /\ mem[n].valid => mem'[n].valid
       /\ mem[n].deleteFlag => mem'[n].deleteFlag
       /\ n # n0 => \A i \in Levels : n \notin L[i] => Ref(n, i)' = Ref(n, i)
       /\ n # n0 /\ n \notin L[0] => \A i \in Levels : Marked(n, i)' => Marked(n, i)

(* What holds of a thread survives the steps of the others, if the memory    *)
(* evolves so.                                                               *)
LEMMA OtherThreads ==
  ASSUME NEW U, NEW L, NEW C, Inv(U, L, C), NEW n0, NEW V, NEW M, Evolves(n0, U, L, V, M),
         NEW l \in Locals, NEW c, ThreadInv(U, L, l, c), Owner(l, c) => l.node # n0
  PROVE  ThreadInv(V, M, l, c)'
<1>1. /\ \A i \in Levels : L[i] \subseteq U /\ U \subseteq Nodes
      /\ 0 \in Levels /\ l.lvl \in Levels /\ l.up \in Levels
  BY LevelIsTower, LevelFacts, LocalFields DEF Inv, HistoryInv
<1>2. /\ U \ {n0} \subseteq V
      /\ \A i \in Levels : L[i] \subseteq M[i] /\ M[i] \subseteq L[i] \union {n0}
      /\ \A n \in U \union {Head, Tail} : Key(n)' = Key(n) /\ mem'[n].topLevel = mem[n].topLevel
      /\ \A i \in Levels : \A n \in L[i] :
           Marked(n, i) => Marked(n, i)' /\ Ref(n, i)' = Ref(n, i)
      /\ \A n \in U :
           /\ \A i \in Levels : i < mem[n].topLevel /\ Marked(n, i) => Marked(n, i)'
           /\ mem[n].valid => mem'[n].valid
           /\ mem[n].deleteFlag => mem'[n].deleteFlag
           /\ n # n0 => \A i \in Levels : n \notin L[i] => Ref(n, i)' = Ref(n, i)
           /\ n # n0 /\ n \notin L[0] => \A i \in Levels : Marked(n, i)' => Marked(n, i)
  BY DEF Evolves
<1>3. \A i \in Levels : Kept(L, l, i) => Kept(M, l, i)
  BY <1>2 DEF Kept
<1>4. OwnerInv(V, M, l, c)'
  <2> SUFFICES ASSUME Owner(l, c) PROVE OwnerInv(V, M, l, c)'
    BY DEF OwnerInv
  <2> DEFINE n == l.node
  <2>1. /\ c.op = "insert"
        /\ n \in U /\ Key(n) = c.arg
        /\ \A i \in Levels : n \in L[i] <=> i < Height(l)
        /\ l.pc \in Private \union {"makeValid", "flushInsert"} \union Raising
        /\ l.pc \notin Raising => l.up = 0
        /\ l.pc \in Raising => 0 < l.up /\ l.up < mem[n].topLevel
        /\ l.pc = "link" =>
             /\ \A i \in Levels : i < mem[n].topLevel => Ref(n, i) = l.succs[i] /\ ~Marked(n, i)
             /\ Key(l.preds[0]) < c.arg /\ c.arg < Key(l.succs[0])
        /\ l.pc = "undo" => Marked(n, 0)
        /\ l.pc = "linkUpper" => Ref(n, l.up) = l.succs[l.up]
        /\ l.pc \notin {"markUnlinked", "undo"} =>
             \A i \in Levels : Height(l) <= i /\ i < mem[n].topLevel => Kept(L, l, i)
    BY DEF ThreadInv, OwnerInv
  <2>2. n # n0 /\ n \in V /\ Key(n)' = Key(n) /\ mem'[n].topLevel = mem[n].topLevel
        /\ \A i \in Levels : n \in M[i] <=> n \in L[i]
    BY <1>1, <1>2, <2>1
  <2>3. 0 < mem[n].topLevel
    BY <2>1 DEF Inv, MemoryInv, TowerIsRight
  <2>4. l.pc = "linkUpper" => Height(l) = l.up /\ n \notin L[l.up]
    <3> SUFFICES ASSUME l.pc = "linkUpper" PROVE Height(l) = l.up /\ n \notin L[l.up]
      OBVIOUS
    <3>1. Height(l) = l.up
      BY <2>1 DEF Height, Raising, Private
    <3>2. ~(l.up < l.up)
      <4>1. \A u \in Levels : ~(u < u)
        BY LevelFacts
      <4> QED
        BY <1>1, <4>1
    <3> QED
      BY <1>1, <2>1, <3>1, <3>2
  <2>5. l.pc = "link" =>
          /\ \A i \in Levels : i < mem'[n].topLevel => Ref(n, i)' = l.succs[i] /\ ~Marked(n, i)'
          /\ Key(l.preds[0])' < c.arg /\ c.arg < Key(l.succs[0])'
    <3> SUFFICES ASSUME l.pc = "link"
                 PROVE  /\ \A i \in Levels : i < mem'[n].topLevel => Ref(n, i)' = l.succs[i] /\ ~Marked(n, i)'
                        /\ Key(l.preds[0])' < c.arg /\ c.arg < Key(l.succs[0])'
      OBVIOUS
    <3>0. Height(l) = 0
      BY DEF Height, Private
    <3>1. \A i \in Levels : n \notin L[i]
      <4>1. \A i \in Levels : ~(i < 0)
        BY LevelFacts
      <4> QED
        BY <2>1, <3>0, <4>1
    <3>2. Kept(L, l, 0)
      BY <1>1, <2>1, <2>3, <3>0
    <3>3. l.preds[0] \in U \union {Head} /\ l.succs[0] \in U \union {Tail}
      BY <1>1, <3>2 DEF Kept
    <3>4. Key(l.preds[0])' = Key(l.preds[0]) /\ Key(l.succs[0])' = Key(l.succs[0])
      BY <1>2, <3>3
    <3>5. \A i \in Levels : Ref(n, i)' = Ref(n, i) /\ (Marked(n, i)' => Marked(n, i))
      BY <1>1, <1>2, <2>1, <2>2, <3>1
    <3> QED
      BY <2>1, <2>2, <3>4, <3>5
  <2>6. l.pc = "linkUpper" => Ref(n, l.up)' = l.succs[l.up]
    BY <1>1, <1>2, <2>1, <2>2, <2>4
  <2>7. l.pc \notin {"markUnlinked", "undo"} =>
          \A i \in Levels : Height(l) <= i /\ i < mem'[n].topLevel => Kept(M, l, i)
    BY <1>3, <2>1, <2>2
  <2>8. l.pc = "undo" => Marked(n, 0)'
    BY <1>1, <1>2, <2>1, <2>3
  <2> QED
    BY <2>1, <2>2, <2>5, <2>6, <2>7, <2>8 DEF OwnerInv
<1>5. WalkInv(M, l, c)'
  <2>1. WalkInv(L, l, c)
    BY DEF ThreadInv
  <2>2. l.pc \in {"walk", "step"} => Key(l.pred)' = Key(l.pred)
    BY <1>1, <1>2, <2>1 DEF WalkInv
  <2>3. l.pc = "alloc" => Key(l.preds[0])' = Key(l.preds[0]) /\ Key(l.succs[0])' = Key(l.succs[0])
    BY <1>1, <1>2, <2>1 DEF WalkInv, Kept
  <2> QED
    BY <1>1, <1>2, <1>3, <2>1, <2>2, <2>3 DEF WalkInv
<1>6. FindInv(M, l, c)'
  <2>1. FindInv(L, l, c)
    BY DEF ThreadInv
  <2>2. ASSUME RunIsDead(L, l) PROVE RunIsDead(M, l)'
    <3>1. PICK D \in SUBSET L[l.lvl] :
            /\ l.from \in D \union {l.curr}
            /\ \A d \in D : /\ Marked(d, l.lvl) /\ Ref(d, l.lvl) \in D \union {l.curr}
                            /\ l.lvl = 0 => mem[d].deleteFlag
      BY <2>2 DEF RunIsDead
    <3>2. \A d \in D : /\ Marked(d, l.lvl)' /\ Ref(d, l.lvl)' \in D \union {l.curr}
                       /\ l.lvl = 0 => mem'[d].deleteFlag
      BY <1>1, <1>2, <3>1
    <3>3. D \in SUBSET M[l.lvl]
      BY <1>1, <1>2, <3>1
    <3>4. l.from \in D \union {l.curr}
      BY <3>1
    <3> QED
      BY <3>2, <3>3, <3>4 DEF RunIsDead
  <2> QED
    BY <1>1, <1>2, <2>1, <2>2 DEF FindInv
<1>7. HelpInv(M, l, c)'
  BY <1>1, <1>2 DEF ThreadInv, HelpInv
<1>8. RemoveInv(M, l, c)'
  <2>1. RemoveInv(L, l, c)
    BY DEF ThreadInv
  <2> DEFINE n == l.node
  <2>2. /\ l.pc \in {"mark", "flushDelete", "free"} => c.op = "remove"
        /\ l.pc \in {"mark", "flushDelete", "free"} \/ (l.pc \in Finding /\ c.op = "remove") =>
             /\ n \in L[0] /\ mem[n].valid
             /\ l.pc = "mark" =>
                  /\ l.lvl < mem[n].topLevel
                  /\ \A i \in Levels : l.lvl < i /\ i < mem[n].topLevel => Marked(n, i)
             /\ l.pc # "mark" => Marked(n, 0)
    BY <2>1 DEF RemoveInv
  <2>3. n \in L[0] => n \in U /\ n \in M[0]
    BY <1>1, <1>2
  <2> HIDE DEF n
  <2>4. l.pc \in {"mark", "flushDelete", "free"} \/ (l.pc \in Finding /\ c.op = "remove") =>
          /\ n \in M[0] /\ mem'[n].valid
          /\ l.pc = "mark" =>
               /\ l.lvl < mem'[n].topLevel
               /\ \A i \in Levels : l.lvl < i /\ i < mem'[n].topLevel => Marked(n, i)'
          /\ l.pc # "mark" => Marked(n, 0)'
    <3> SUFFICES ASSUME l.pc \in {"mark", "flushDelete", "free"} \/ (l.pc \in Finding /\ c.op = "remove")
                 PROVE /\ n \in M[0] /\ mem'[n].valid
                       /\ l.pc = "mark" =>
                            /\ l.lvl < mem'[n].topLevel
                            /\ \A i \in Levels : l.lvl < i /\ i < mem'[n].topLevel => Marked(n, i)'
                       /\ l.pc # "mark" => Marked(n, 0)'
      OBVIOUS
    <3>1. n \in L[0] /\ n \in U /\ n \in M[0] /\ mem[n].valid
      BY <2>2, <2>3
    <3>2. mem'[n].valid
      BY <1>2, <3>1
    <3>3. l.pc = "mark" =>
               /\ l.lvl < mem'[n].topLevel
               /\ \A i \in Levels : l.lvl < i /\ i < mem'[n].topLevel => Marked(n, i)'
      BY <1>2, <2>2, <3>1
    <3>4. l.pc # "mark" => Marked(n, 0)'
      BY <1>1, <1>2, <2>2, <3>1
    <3> QED
      BY <3>1, <3>2, <3>3, <3>4
  <2> QED
    BY <2>2, <2>4 DEF RemoveInv, n
<1> QED
  BY <1>4, <1>5, <1>6, <1>7, <1>8 DEF ThreadInv

(* A step that changes memory preserves the invariant if the memory part is  *)
(* preserved, the change is one that the other threads can take, and the     *)
(* thread itself is left right.                                              *)
LEMMA MemoryMove ==
  ASSUME NEW U, NEW L, NEW C, Inv(U, L, C), NEW t \in Threads,
         NEW l \in Locals, NEW c \in DS!Calls \union {DS!None}, l.pc = "idle" <=> c = DS!None,
         Become(t, l), call' = [call EXCEPT ![t] = c],
         mem' \in [Towers -> NodeFields], nvm' \in [Nodes -> Int \union {Nil}], free' \in SUBSET Nodes,
         NEW V, NEW M, NEW B, HistoryInv(V, M, B)', MemoryInv(V, M, B)', ChainsInv(B)',
         NEW n0, Evolves(n0, U, L, V, M),
         n0 \in U => Owner(local[t], call[t]) /\ n0 = local[t].node,
         Owner(l, c) /\ l.node \in U => Owner(local[t], call[t]) /\ l.node = local[t].node,
         ThreadInv(V, M, l, c)'
  PROVE  Inv(V, M, B)'
<1>1. /\ local \in [Threads -> Locals] /\ call \in [Threads -> DS!Calls \union {DS!None}]
      /\ \A u \in Threads : local[u].pc = "idle" <=> call[u] = DS!None
  BY DEF Inv, TypeInv, At
<1>2. /\ local'[t] = l /\ call'[t] = c
      /\ \A u \in Threads \ {t} : local'[u] = local[u] /\ call'[u] = call[u]
      /\ local' \in [Threads -> Locals] /\ call' \in [Threads -> DS!Calls \union {DS!None}]
  BY <1>1 DEF Become
<1>3. TypeInv'
  <2>1. \A u \in Threads : local'[u].pc = "idle" <=> call'[u] = DS!None
    BY <1>1, <1>2
  <2> QED
    BY <1>2, <2>1 DEF TypeInv, At
<1>4. \A u \in Threads : Owner(local[u], call[u]) => local[u].node \in U
  BY DEF Inv, ThreadInv, OwnerInv
<1>5. OwnersAreApart'
  <2> SUFFICES ASSUME NEW u \in Threads, NEW v \in Threads,
                      Owner(local'[u], call'[u]), Owner(local'[v], call'[v]),
                      local'[u].node = local'[v].node
               PROVE  u = v
    BY DEF OwnersAreApart
  <2>1. \A w \in Threads : w # t =>
          Owner(local[w], call[w]) <=> Owner(local'[w], call'[w])
    BY <1>2
  <2>2. \A w \in Threads : w # t /\ Owner(local'[w], call'[w]) =>
          Owner(local[w], call[w]) /\ local'[w].node = local[w].node /\ local[w].node \in U
    BY <1>2, <1>4, <2>1
  <2>3. Owner(local'[t], call'[t]) /\ local'[t].node \in U =>
          Owner(local[t], call[t]) /\ local'[t].node = local[t].node
    BY <1>2
  <2> QED
    BY <2>2, <2>3 DEF Inv, OwnersAreApart
<1>6. ASSUME NEW u \in Threads PROVE ThreadInv(V, M, local[u], call[u])'
  <2>1. PICK k \in Locals, d \in DS!Calls \union {DS!None} : k = local'[u] /\ d = call'[u]
    BY <1>2
  <2>2. ThreadInv(V, M, k, d)'
    <3>1. CASE u = t
      BY <1>2, <2>1, <3>1
    <3>2. CASE u # t
      <4>1. k = local[u] /\ d = call[u]
        BY <1>2, <2>1, <3>2
      <4>2. ThreadInv(U, L, k, d)
        BY <4>1 DEF Inv
      <4>3. Owner(k, d) => k.node # n0
        BY SMTT(30), <1>4, <3>2, <4>1 DEF Inv, OwnersAreApart
      <4> QED
        BY <4>2, <4>3, OtherThreads
    <3> QED
      BY <3>1, <3>2
  <2>3. OwnerInv(V, M, local[u], call[u])'
    BY <2>1, <2>2 DEF ThreadInv, OwnerInv, Key, Ref, Marked
  <2>4. WalkInv(M, local[u], call[u])'
    BY <2>1, <2>2 DEF ThreadInv, WalkInv, Key
  <2>5. FindInv(M, local[u], call[u])'
    <3>1. ASSUME RunIsDead(M, k)' PROVE RunIsDead(M, local[u])'
      <4>1. PICK D \in SUBSET M[k.lvl] :
              /\ k.from \in D \union {k.curr}
              /\ \A d1 \in D : /\ Marked(d1, k.lvl)' /\ Ref(d1, k.lvl)' \in D \union {k.curr}
                               /\ k.lvl = 0 => mem'[d1].deleteFlag
        BY <3>1 DEF RunIsDead
      <4>2. /\ D \in SUBSET M[local'[u].lvl]
            /\ local'[u].from \in D \union {local'[u].curr}
            /\ \A d1 \in D : /\ Marked(d1, local[u].lvl)'
                             /\ Ref(d1, local[u].lvl)' \in D \union {local'[u].curr}
                             /\ local'[u].lvl = 0 => mem'[d1].deleteFlag
        BY <2>1, <4>1 DEF Ref, Marked
      <4> QED
        BY <4>2 DEF RunIsDead, Marked, Ref
    <3> QED
      BY <2>1, <2>2, <3>1 DEF ThreadInv, FindInv
  <2>6. HelpInv(M, local[u], call[u])' /\ RemoveInv(M, local[u], call[u])'
    BY <2>1, <2>2 DEF ThreadInv, HelpInv, RemoveInv, Marked
  <2> QED
    BY <2>3, <2>4, <2>5, <2>6 DEF ThreadInv
<1> QED
  BY <1>3, <1>5, <1>6 DEF Inv

-----------------------------------------------------------------------------
(* A store into one link. *)
Stored(n, i, w) == mem' = [mem EXCEPT ![n].link[i] = w]
MarkIsStored(n, i) == mem' = [mem EXCEPT ![n].link[i].marked = TRUE]

(* What the links and the other fields are after a store into one link. *)
LEMMA LinkStored ==
  ASSUME TypeInv, NEW n \in Towers, NEW i \in Levels, NEW w \in Links,
         Stored(n, i, w)
  PROVE  /\ mem' \in [Towers -> NodeFields]
         /\ \A m \in Towers :
              /\ Key(m)' = Key(m) /\ mem'[m].topLevel = mem[m].topLevel
              /\ mem'[m].valid = mem[m].valid /\ mem'[m].deleteFlag = mem[m].deleteFlag
              /\ \A j \in Levels : IF m = n /\ j = i
                                   THEN Ref(m, j)' = w.to /\ Marked(m, j)' = w.marked
                                   ELSE Ref(m, j)' = Ref(m, j) /\ Marked(m, j)' = Marked(m, j)
<1>1. mem \in [Towers -> NodeFields] /\ mem[n] \in NodeFields
  BY DEF TypeInv
<1>2. mem[n].link \in [Levels -> Links]
  BY <1>1 DEF NodeFields
<1>3. [mem[n].link EXCEPT ![i] = w] \in [Levels -> Links]
  BY <1>2
<1>4. \A f \in [Levels -> Links] : [mem[n] EXCEPT !.link = f] \in NodeFields
  BY <1>1 DEF NodeFields
<1>5. mem' = [mem EXCEPT ![n] = [mem[n] EXCEPT !.link = [mem[n].link EXCEPT ![i] = w]]]
  BY DEF Stored
<1>6. mem' \in [Towers -> NodeFields]
  BY <1>1, <1>3, <1>4, <1>5
<1>7. mem'[n] = [mem[n] EXCEPT !.link = [mem[n].link EXCEPT ![i] = w]]
      /\ \A m \in Towers : m # n => mem'[m] = mem[m]
  BY <1>1, <1>5
<1>8. /\ mem'[n].key = mem[n].key /\ mem'[n].topLevel = mem[n].topLevel
      /\ mem'[n].valid = mem[n].valid /\ mem'[n].deleteFlag = mem[n].deleteFlag
      /\ mem'[n].link = [mem[n].link EXCEPT ![i] = w]
  BY <1>1, <1>7 DEF NodeFields
<1>9. \A j \in Levels : mem'[n].link[j] = IF j = i THEN w ELSE mem[n].link[j]
  BY <1>2, <1>8
<1> QED
  BY <1>6, <1>7, <1>8, <1>9 DEF Key, Ref, Marked

(* The store of a mark is a store of a link with the reference it has. *)
LEMMA MarkStored ==
  ASSUME TypeInv, NEW n \in Towers, NEW i \in Levels, MarkIsStored(n, i)
  PROVE  \E w \in Links : w.to = Ref(n, i) /\ w.marked = TRUE /\ Stored(n, i, w)
<1>1. mem \in [Towers -> NodeFields] /\ mem[n] \in NodeFields
  BY DEF TypeInv
<1>2. mem[n].link \in [Levels -> Links] /\ mem[n].link[i] \in Links
  BY <1>1 DEF NodeFields
<1>3. PICK w : w = [mem[n].link[i] EXCEPT !.marked = TRUE]
  OBVIOUS
<1>4. w \in Links /\ w.to = mem[n].link[i].to /\ w.marked = TRUE
  BY <1>2, <1>3 DEF Links
<1>5. Stored(n, i, w)
  BY <1>1, <1>2, <1>3 DEF Stored, MarkIsStored
<1> QED
  BY <1>4, <1>5 DEF Ref

(* A store that leads a link elsewhere, with the state it has. *)
LEMMA RefStored ==
  ASSUME NEW U, NEW L, NEW C, Inv(U, L, C),
         NEW n \in U \union {Head}, NEW i \in Levels, i < mem[n].topLevel,
         NEW w \in Links, w.marked = Marked(n, i), Stored(n, i, w),
         UNCHANGED <<nvm, free>>,
         NEW M, NEW B, HistoryInv(U, M, B), w.to \in M[i] \union {Tail},
         \A j \in Levels : L[j] \subseteq M[j],
         \A m \in M[0] \ L[0] : \A j \in Levels : j < mem[m].topLevel => ~Marked(m, j) /\ Ref(m, j) # Nil,
         \A m \in Nodes : nvm[m] # Nil => m \in B[0],
         \A j \in Levels : \A m \in M[j] : ~Marked(m, j) => m \in B[j]
  PROVE  mem' \in [Towers -> NodeFields] /\ HistoryInv(U, M, B)' /\ MemoryInv(U, M, B)'
<1>1. U \subseteq Towers /\ n \in Towers /\ n # Tail /\ 0 \in Levels
  BY NameFacts, LevelFacts DEF Inv, HistoryInv
<1>2. /\ mem' \in [Towers -> NodeFields]
      /\ \A m \in Towers :
           /\ Key(m)' = Key(m) /\ mem'[m].topLevel = mem[m].topLevel
           /\ mem'[m].valid = mem[m].valid /\ mem'[m].deleteFlag = mem[m].deleteFlag
           /\ \A j \in Levels : Marked(m, j)' = Marked(m, j)
           /\ \A j \in Levels : ~(m = n /\ j = i) => Ref(m, j)' = Ref(m, j)
      /\ Ref(n, i)' = w.to
  <2>1. TypeInv
    BY DEF Inv
  <2>2. /\ mem' \in [Towers -> NodeFields]
        /\ \A m \in Towers :
             /\ Key(m)' = Key(m) /\ mem'[m].topLevel = mem[m].topLevel
             /\ mem'[m].valid = mem[m].valid /\ mem'[m].deleteFlag = mem[m].deleteFlag
             /\ \A j \in Levels : IF m = n /\ j = i
                                  THEN Ref(m, j)' = w.to /\ Marked(m, j)' = w.marked
                                  ELSE Ref(m, j)' = Ref(m, j) /\ Marked(m, j)' = Marked(m, j)
    BY <1>1, <2>1, LinkStored
  <2> QED
    BY <1>1, <2>2
<1>3. /\ SentinelsAreFixed /\ LevelsAreClosed(U, L)
      /\ \A m \in U : TowerIsRight(L, m) /\ FlagsAreRight(L, m)
      /\ NVMIsRight(U, L, C)
  BY DEF Inv, MemoryInv
<1>4. /\ M \in [Levels -> SUBSET U]
      /\ \A j \in Levels : \A m \in M[j] : j < mem[m].topLevel
      /\ HistoryInv(U, M, B)'
  BY <1>1, <1>2 DEF HistoryInv
<1>5. SentinelsAreFixed'
  BY <1>1, <1>2, <1>3, NameFacts DEF SentinelsAreFixed
<1>6. LevelsAreClosed(U, M)'
  <2> SUFFICES ASSUME NEW m \in U \union {Head}, NEW j \in Levels, j < mem[m].topLevel
               PROVE  Ref(m, j)' \in M[j] \union {Tail} \/ (m \in U \ M[0] /\ Ref(m, j)' = Nil)
    BY <1>1, <1>2, NameFacts DEF LevelsAreClosed
  <2>1. CASE m = n /\ j = i
    BY <1>2, <2>1
  <2>2. CASE ~(m = n /\ j = i)
    <3>1. Ref(m, j)' = Ref(m, j)
      BY <1>1, <1>2, <2>2, NameFacts
    <3>2. Ref(m, j) \in L[j] \union {Tail} \/ (m \in U \ L[0] /\ Ref(m, j) = Nil)
      BY <1>3 DEF LevelsAreClosed
    <3>3. m \in M[0] \ L[0] => Ref(m, j) # Nil
      OBVIOUS
    <3> QED
      BY <3>1, <3>2, <3>3
  <2> QED
    BY <2>1, <2>2
<1>7. LiveNodesAreLinked(M, B)'
  BY <1>1, <1>2, <1>4 DEF LiveNodesAreLinked
<1>8. ASSUME NEW m \in U PROVE TowerIsRight(M, m)' /\ FlagsAreRight(M, m)'
  <2>1. /\ TowerIsRight(L, m) /\ FlagsAreRight(L, m) /\ m \in Towers
        /\ L[0] \subseteq M[0]
    BY <1>1, <1>3
  <2>2. TowerIsRight(M, m)'
    <3>1. CASE m \in M[0] \ L[0]
      <4>1. \A j \in Levels, k \in Levels : j <= k /\ k < mem[m].topLevel => ~Marked(m, j)
        <5> SUFFICES ASSUME NEW j \in Levels, NEW k \in Levels, j <= k, k < mem[m].topLevel
                     PROVE  ~Marked(m, j)
          OBVIOUS
        <5>1. j < mem[m].topLevel
          BY <2>1, LevelFacts, Fields DEF Inv
        <5> QED
          BY <3>1, <5>1
      <4> QED
        BY <1>1, <1>2, <2>1, <4>1 DEF TowerIsRight
    <3>2. CASE m \notin M[0] \ L[0]
      BY <1>1, <1>2, <2>1, <3>2 DEF TowerIsRight
    <3> QED
      BY <3>1, <3>2
  <2>3. FlagsAreRight(M, m)'
    <3>1. m \in M[0] \ L[0] => ~Marked(m, 0)
      BY <1>1, <1>4
    <3>2. nvm' = nvm
      OBVIOUS
    <3> QED
      BY <1>1, <1>2, <2>1, <3>1, <3>2 DEF FlagsAreRight
  <2> QED
    BY <2>2, <2>3
<1>9. NVMIsRight(U, M, B)'
  <2>1. free \in SUBSET Nodes /\ nvm' = nvm /\ free' = free /\ \A m \in Nodes : m \in Towers
    BY NameFacts DEF Inv, TypeInv
  <2>2. \A m \in Nodes : nvm'[m] # Nil => m \in B[0] /\ nvm'[m] = Key(m)'
    BY <1>2, <1>3, <2>1 DEF NVMIsRight
  <2>3. \A m \in Nodes \ U : mem'[m].valid => Marked(m, 0)' \/ Ref(m, 0)' = Nil
    BY <1>1, <1>2, <1>3, <2>1, NameFacts DEF NVMIsRight
  <2>4. \A m \in free' : mem'[m].valid /\ (m \in U => m \in M[0] /\ Marked(m, 0)')
    BY <1>1, <1>2, <1>3, <2>1 DEF NVMIsRight
  <2> QED
    BY <2>2, <2>3, <2>4 DEF NVMIsRight
<1> QED
  BY <1>2, <1>4, <1>5, <1>6, <1>7, <1>8, <1>9 DEF MemoryInv

(* What such a store leaves to the other threads. *)
LEMMA RefEvolves ==
  ASSUME NEW U, NEW L, NEW C, Inv(U, L, C),
         NEW n \in U \union {Head}, NEW i \in Levels, NEW w \in Links,
         w.marked = Marked(n, i), Stored(n, i, w),
         NEW M, NEW n0, \A j \in Levels : L[j] \subseteq M[j] /\ M[j] \subseteq L[j] \union {n0},
         \/ n = Head
         \/ n \in L[i] /\ ~Marked(n, i)
         \/ n = n0 /\ n \notin L[i]
  PROVE  Evolves(n0, U, L, U, M)
<1>1. /\ U \subseteq Towers /\ n \in Towers /\ 0 \in Levels /\ Head \notin U
      /\ \A j \in Levels : L[j] \subseteq U
  BY NameFacts, LevelFacts, LevelIsTower DEF Inv, HistoryInv
<1>2. \A m \in Towers :
        /\ Key(m)' = Key(m) /\ mem'[m].topLevel = mem[m].topLevel
        /\ mem'[m].valid = mem[m].valid /\ mem'[m].deleteFlag = mem[m].deleteFlag
        /\ \A j \in Levels : Marked(m, j)' = Marked(m, j)
        /\ \A j \in Levels : ~(m = n /\ j = i) => Ref(m, j)' = Ref(m, j)
  <2>1. TypeInv
    BY DEF Inv
  <2>2. /\ mem' \in [Towers -> NodeFields]
        /\ \A m \in Towers :
             /\ Key(m)' = Key(m) /\ mem'[m].topLevel = mem[m].topLevel
             /\ mem'[m].valid = mem[m].valid /\ mem'[m].deleteFlag = mem[m].deleteFlag
             /\ \A j \in Levels : IF m = n /\ j = i
                                  THEN Ref(m, j)' = w.to /\ Marked(m, j)' = w.marked
                                  ELSE Ref(m, j)' = Ref(m, j) /\ Marked(m, j)' = Marked(m, j)
    BY <1>1, <2>1, LinkStored
  <2> QED
    BY <1>1, <2>2
<1> QED
  BY <1>1, <1>2, NameFacts DEF Evolves

-----------------------------------------------------------------------------
(* A store that marks a link. *)
LEMMA ChainsSame ==
  ASSUME NEW U, NEW L, NEW C, Inv(U, L, C), KeyOf' = KeyOf, \A i \in Levels : Nexts(i)' = Nexts(i)
  PROVE  ChainsInv(C)'
<1>1. ASSUME NEW i \in Levels PROVE \E r : IsChain(C[i], r, Nexts(i), Head, Tail)'
  <2>1. PICK r : IsChain(C[i], r, Nexts(i), Head, Tail)
    BY DEF Inv, ChainsInv
  <2>2. IsChain(C[i], r, Nexts(i)', Head, Tail)
    BY <2>1
  <2> QED
    BY <2>2
<1>2. IsChain(C[0], KeyOf', Nexts(0)', Head, Tail)
  BY LevelFacts DEF Inv, ChainsInv
<1> QED
  BY <1>1, <1>2 DEF ChainsInv

(* A node is marked from the top, once it is valid: no level changes, and no *)
(* thread is disturbed.                                                      *)
LEMMA MarkStep ==
  ASSUME NEW U, NEW L, NEW C, Inv(U, L, C),
         NEW n \in L[0], NEW i \in Levels, mem[n].valid,
         \A j \in Levels : i < j /\ j < mem[n].topLevel => Marked(n, j),
         MarkIsStored(n, i), UNCHANGED <<nvm, free>>
  PROVE  /\ mem' \in [Towers -> NodeFields]
         /\ HistoryInv(U, L, C)' /\ MemoryInv(U, L, C)' /\ ChainsInv(C)'
         /\ Evolves(Nil, U, L, U, L)
         /\ Marked(n, i)' /\ mem'[n].valid
         /\ \A j \in Levels : Marked(n, j) => Marked(n, j)'
         /\ \A m \in Towers : mem'[m].topLevel = mem[m].topLevel
<1>1. /\ U \subseteq Towers /\ n \in U /\ n \in Towers /\ 0 \in Levels /\ Head \notin U
      /\ \A j \in Levels : L[j] \subseteq U
      /\ \A j \in Levels : j \in Nat
      /\ n # Head /\ n # Tail /\ Nil \notin U
  BY NameFacts, LevelFacts, LevelIsTower DEF Inv, HistoryInv
<1>2. /\ mem' \in [Towers -> NodeFields]
      /\ \A m \in Towers :
           /\ Key(m)' = Key(m) /\ mem'[m].topLevel = mem[m].topLevel
           /\ mem'[m].valid = mem[m].valid /\ mem'[m].deleteFlag = mem[m].deleteFlag
           /\ \A j \in Levels : Ref(m, j)' = Ref(m, j)
           /\ \A j \in Levels : ~(m = n /\ j = i) => Marked(m, j)' = Marked(m, j)
      /\ Marked(n, i)' = TRUE
  <2>0. TypeInv
    BY DEF Inv
  <2>1. PICK w \in Links : w.to = Ref(n, i) /\ w.marked = TRUE /\ Stored(n, i, w)
    BY <1>1, <2>0, MarkStored
  <2>2. /\ mem' \in [Towers -> NodeFields]
        /\ \A m \in Towers :
             /\ Key(m)' = Key(m) /\ mem'[m].topLevel = mem[m].topLevel
             /\ mem'[m].valid = mem[m].valid /\ mem'[m].deleteFlag = mem[m].deleteFlag
             /\ \A j \in Levels : IF m = n /\ j = i
                                  THEN Ref(m, j)' = w.to /\ Marked(m, j)' = w.marked
                                  ELSE Ref(m, j)' = Ref(m, j) /\ Marked(m, j)' = Marked(m, j)
    BY <1>1, <2>0, <2>1, LinkStored
  <2> QED
    BY <1>1, <2>1, <2>2
<1>3. /\ SentinelsAreFixed /\ LevelsAreClosed(U, L) /\ LiveNodesAreLinked(L, C)
      /\ \A m \in U : TowerIsRight(L, m) /\ FlagsAreRight(L, m)
      /\ NVMIsRight(U, L, C)
  BY DEF Inv, MemoryInv
<1>4. HistoryInv(U, L, C)'
  BY <1>1, <1>2 DEF Inv, HistoryInv
<1>5. SentinelsAreFixed' /\ LevelsAreClosed(U, L)'
  BY <1>1, <1>2, <1>3, NameFacts DEF SentinelsAreFixed, LevelsAreClosed
<1>6. TowerIsRight(L, n) /\ FlagsAreRight(L, n)
  BY <1>1, <1>3
<1>7. \A m \in Towers : \A j \in Levels : Marked(m, j) => Marked(m, j)'
  BY <1>1, <1>2
<1>8. LiveNodesAreLinked(L, C)'
  BY <1>1, <1>3, <1>7 DEF LiveNodesAreLinked
<1>9. TowerIsRight(L, n)'
  <2>1. \A j, k \in Levels : j <= k /\ k < mem[n].topLevel /\ Marked(n, j)' => Marked(n, k)'
    <3> SUFFICES ASSUME NEW j \in Levels, NEW k \in Levels, j <= k, k < mem[n].topLevel,
                        Marked(n, j)'
                 PROVE  Marked(n, k)'
      OBVIOUS
    <3>1. CASE Marked(n, j)
      BY <1>1, <1>6, <1>7, <3>1 DEF TowerIsRight
    <3>2. CASE ~Marked(n, j)
      <4>1. j = i
        BY <1>1, <1>2, <3>2
      <4>2. k = i \/ i < k
        BY <1>1, <4>1
      <4> QED
        BY <1>1, <1>2, <1>7, <4>2
    <3> QED
      BY <3>1, <3>2
  <2> QED
    BY <1>1, <1>2, <1>6, <2>1 DEF TowerIsRight
<1>10. FlagsAreRight(L, n)'
  BY <1>1, <1>2, <1>6, <1>7 DEF FlagsAreRight
<1>11. ASSUME NEW m \in U PROVE TowerIsRight(L, m)' /\ FlagsAreRight(L, m)'
  <2>1. CASE m = n
    BY <1>9, <1>10, <2>1
  <2>2. CASE m # n
    BY <1>1, <1>2, <1>3, <2>2 DEF TowerIsRight, FlagsAreRight
  <2> QED
    BY <2>1, <2>2
<1>12. NVMIsRight(U, L, C)'
  <2>1. free \in SUBSET Nodes /\ nvm' = nvm /\ free' = free /\ \A m \in Nodes : m \in Towers
    BY NameFacts DEF Inv, TypeInv
  <2>2. \A m \in Nodes : nvm'[m] # Nil => m \in C[0] /\ nvm'[m] = Key(m)'
    BY <1>2, <1>3, <2>1 DEF NVMIsRight
  <2>3. \A m \in Nodes \ U : mem'[m].valid => Marked(m, 0)' \/ Ref(m, 0)' = Nil
    BY <1>1, <1>2, <1>3, <1>7, <2>1 DEF NVMIsRight
  <2>4. \A m \in free' : mem'[m].valid /\ (m \in U => m \in L[0] /\ Marked(m, 0)')
    BY <1>1, <1>2, <1>3, <1>7, <2>1 DEF NVMIsRight
  <2> QED
    BY <2>2, <2>3, <2>4 DEF NVMIsRight
<1>13. ChainsInv(C)'
  <2>1. \A j \in Levels : Nexts(j)' = Nexts(j)
    BY <1>2 DEF Nexts
  <2>2. KeyOf' = KeyOf
    BY <1>2 DEF KeyOf
  <2> QED
    BY <2>1, <2>2, ChainsSame
<1>14. Evolves(Nil, U, L, U, L)
  <2>1. \A m \in U : m \notin L[0] => m # n
    OBVIOUS
  <2> QED
    BY <1>1, <1>2, <1>7, <2>1, NameFacts DEF Evolves
<1> QED
  BY <1>1, <1>2, <1>4, <1>5, <1>7, <1>8, <1>11, <1>12, <1>13, <1>14 DEF MemoryInv

(* A thread marks a link.                                                    *)
LEMMA MarkStepMove ==
  ASSUME NEW U, NEW L, NEW C, Inv(U, L, C), NEW t \in Threads,
         NEW n \in L[0], NEW i \in Levels, mem[n].valid,
         \A j \in Levels : i < j /\ j < mem[n].topLevel => Marked(n, j),
         MarkIsStored(n, i), UNCHANGED <<nvm, free>>,
         NEW l \in Locals, NEW c \in DS!Calls \union {DS!None}, l.pc = "idle" <=> c = DS!None,
         Become(t, l), call' = [call EXCEPT ![t] = c],
         Owner(l, c) => Owner(local[t], call[t]) /\ l.node = local[t].node,
         ThreadInv(U, L, l, c)'
  PROVE  Inv(U, L, C)'
<1>1. /\ mem' \in [Towers -> NodeFields]
      /\ HistoryInv(U, L, C)' /\ MemoryInv(U, L, C)' /\ ChainsInv(C)'
      /\ Evolves(Nil, U, L, U, L)
  BY MarkStep
<1>2. nvm' \in [Nodes -> Int \union {Nil}] /\ free' \in SUBSET Nodes /\ Nil \notin U
  BY NameFacts DEF Inv, TypeInv, HistoryInv
<1> QED
  BY <1>1, <1>2, MemoryMove

(* What an idle thread is left to. *)
LEMMA IdleAfter ==
  ASSUME NEW V, NEW M
  PROVE  ThreadInv(V, M, Idle, DS!None)' /\ ~Owner(Idle, DS!None)
<1>1. WalkInv(M, Idle, DS!None)'
  BY DEF WalkInv, Idle
<1>2. ~Owner(Idle, DS!None)
  BY IdleThread
<1> QED
  BY <1>1, <1>2, IdleIsLocal DEF ThreadInv, OwnerInv, FindInv, HelpInv, RemoveInv, Finding

-----------------------------------------------------------------------------
(* Flags and flushes. *)

(* A store into the flags of a node. *)
FlagsAreStored(n, m) ==
  /\ mem' = [mem EXCEPT ![n] = m]
  /\ m.key = mem[n].key /\ m.topLevel = mem[n].topLevel /\ m.link = mem[n].link
  /\ mem[n].valid => m.valid
  /\ mem[n].deleteFlag => m.deleteFlag

(* NVM stays, but for a line that is written back. *)
NVMFollows(n) ==
  /\ nvm' \in [Nodes -> Int \union {Nil}]
  /\ \A x \in Nodes : nvm'[x] = nvm[x] \/ (x = n /\ nvm'[x] = Line(n))

(* What a line would be in NVM if it were written back now. *)
LEMMA LineIsRight ==
  ASSUME NEW U, NEW L, NEW C, Inv(U, L, C), NEW n \in Nodes
  PROVE  /\ Line(n) \in Int \union {Nil}
         /\ Line(n) # Nil => n \in C[0] /\ Line(n) = Key(n)
         /\ Marked(n, 0) => Line(n) = Nil
<1>1. n \in Towers /\ 0 \in Levels
  BY NameFacts, LevelFacts
<1>2. Key(n) \in Int
  BY <1>1, Fields DEF Inv
<1>3. ASSUME mem[n].valid, ~Marked(n, 0), Ref(n, 0) # Nil PROVE n \in C[0]
  <2>1. n \in U
    BY <1>3 DEF Inv, MemoryInv, NVMIsRight
  <2>2. n \in L[0]
    BY <1>3, <2>1 DEF Inv, MemoryInv, FlagsAreRight
  <2> QED
    BY <1>1, <1>3, <2>2 DEF Inv, MemoryInv, LiveNodesAreLinked
<1> QED
  BY <1>2, <1>3 DEF Line

(* A store into the flags of a linked node, with a write-back of its line,   *)
(* leaves the levels and the other threads as they were.                     *)
LEMMA FlagStep ==
  ASSUME NEW U, NEW L, NEW C, Inv(U, L, C), NEW n \in L[0], NEW m \in NodeFields,
         FlagsAreStored(n, m), NVMFollows(n), UNCHANGED free,
         m.deleteFlag => Marked(n, 0) /\ nvm'[n] = Nil
  PROVE  /\ mem' \in [Towers -> NodeFields]
         /\ HistoryInv(U, L, C)' /\ MemoryInv(U, L, C)' /\ ChainsInv(C)'
         /\ Evolves(Nil, U, L, U, L)
         /\ mem'[n] = m
         /\ \A x \in Towers : /\ Key(x)' = Key(x) /\ mem'[x].topLevel = mem[x].topLevel
                              /\ \A j \in Levels : Ref(x, j)' = Ref(x, j) /\ Marked(x, j)' = Marked(x, j)
<1>1. /\ U \subseteq Towers /\ n \in U /\ n \in Towers /\ 0 \in Levels /\ Head \notin U
      /\ \A j \in Levels : L[j] \subseteq U
      /\ n # Head /\ n # Tail /\ Nil \notin U
      /\ mem \in [Towers -> NodeFields]
  BY NameFacts, LevelFacts, LevelIsTower DEF Inv, HistoryInv, TypeInv
<1>2. /\ mem' \in [Towers -> NodeFields]
      /\ mem'[n] = m /\ \A x \in Towers : x # n => mem'[x] = mem[x]
      /\ m.key = mem[n].key /\ m.topLevel = mem[n].topLevel /\ m.link = mem[n].link
      /\ mem[n].valid => m.valid
      /\ mem[n].deleteFlag => m.deleteFlag
  BY <1>1 DEF FlagsAreStored
<1>3. \A x \in Towers :
        /\ Key(x)' = Key(x) /\ mem'[x].topLevel = mem[x].topLevel
        /\ mem[x].valid => mem'[x].valid
        /\ mem[x].deleteFlag => mem'[x].deleteFlag
        /\ \A j \in Levels : Ref(x, j)' = Ref(x, j) /\ Marked(x, j)' = Marked(x, j)
  BY <1>2 DEF Key, Ref, Marked
<1>4. /\ SentinelsAreFixed /\ LevelsAreClosed(U, L) /\ LiveNodesAreLinked(L, C)
      /\ \A x \in U : TowerIsRight(L, x) /\ FlagsAreRight(L, x)
      /\ NVMIsRight(U, L, C) /\ HistoryInv(U, L, C)
  BY DEF Inv, MemoryInv
<1>5. HistoryInv(U, L, C)'
  BY <1>1, <1>3, <1>4 DEF HistoryInv
<1>6. SentinelsAreFixed' /\ LevelsAreClosed(U, L)' /\ LiveNodesAreLinked(L, C)'
  BY <1>1, <1>3, <1>4, NameFacts DEF SentinelsAreFixed, LevelsAreClosed, LiveNodesAreLinked
<1>7. ASSUME NEW x \in U PROVE TowerIsRight(L, x)'
  BY <1>1, <1>3, <1>4 DEF TowerIsRight
<1>8. ASSUME NEW x \in U PROVE FlagsAreRight(L, x)'
  <2>1. CASE x = n
    BY <1>1, <1>2, <1>3, <1>4, <2>1 DEF FlagsAreRight
  <2>2. CASE x # n
    <3>1. mem'[x] = mem[x] /\ x \in Nodes /\ nvm'[x] = nvm[x]
      BY <1>1, <1>2, <1>4, <2>2 DEF NVMFollows, HistoryInv
    <3> QED
      BY <1>1, <1>3, <1>4, <3>1 DEF FlagsAreRight
  <2> QED
    BY <2>1, <2>2
<1>9. NVMIsRight(U, L, C)'
  <2>1. free \in SUBSET Nodes /\ free' = free /\ \A x \in Nodes : x \in Towers
    BY NameFacts DEF Inv, TypeInv
  <2>2. n \in Nodes
    BY <1>1, <1>4 DEF HistoryInv
  <2>3. \A x \in Nodes : nvm'[x] # Nil => x \in C[0] /\ nvm'[x] = Key(x)'
    <3> SUFFICES ASSUME NEW x \in Nodes, nvm'[x] # Nil PROVE x \in C[0] /\ nvm'[x] = Key(x)
      BY <1>3, <2>1
    <3>1. CASE nvm'[x] = nvm[x]
      BY <1>4, <3>1 DEF NVMIsRight
    <3>2. CASE x = n /\ nvm'[x] = Line(n)
      BY <2>2, <3>2, LineIsRight
    <3> QED
      BY <3>1, <3>2 DEF NVMFollows
  <2>4. \A x \in Nodes \ U : mem'[x].valid => Marked(x, 0)' \/ Ref(x, 0)' = Nil
    BY <1>1, <1>2, <1>3, <1>4, <2>1 DEF NVMIsRight
  <2>5. \A x \in free' : mem'[x].valid /\ (x \in U => x \in L[0] /\ Marked(x, 0)')
    BY <1>1, <1>3, <1>4, <2>1 DEF NVMIsRight
  <2> QED
    BY <2>3, <2>4, <2>5 DEF NVMIsRight
<1>10. ChainsInv(C)'
  <2>1. \A j \in Levels : Nexts(j)' = Nexts(j)
    BY <1>3 DEF Nexts
  <2>2. KeyOf' = KeyOf
    BY <1>3 DEF KeyOf
  <2> QED
    BY <2>1, <2>2, ChainsSame
<1>11. Evolves(Nil, U, L, U, L)
  BY <1>1, <1>3, NameFacts DEF Evolves
<1> QED
  BY <1>2, <1>3, <1>5, <1>6, <1>7, <1>8, <1>9, <1>10, <1>11 DEF MemoryInv

(* A step that does so preserves the invariant, if the thread itself is left *)
(* right.                                                                    *)
LEMMA FlagMove ==
  ASSUME NEW U, NEW L, NEW C, Inv(U, L, C), NEW t \in Threads,
         NEW n \in L[0], NEW m \in NodeFields,
         FlagsAreStored(n, m), NVMFollows(n), UNCHANGED free,
         m.deleteFlag => Marked(n, 0) /\ nvm'[n] = Nil,
         NEW l \in Locals, NEW c \in DS!Calls \union {DS!None}, l.pc = "idle" <=> c = DS!None,
         Become(t, l), call' = [call EXCEPT ![t] = c],
         Owner(l, c) => Owner(local[t], call[t]) /\ l.node = local[t].node,
         ThreadInv(U, L, l, c)'
  PROVE  Inv(U, L, C)'
<1>1. /\ mem' \in [Towers -> NodeFields]
      /\ HistoryInv(U, L, C)' /\ MemoryInv(U, L, C)' /\ ChainsInv(C)'
      /\ Evolves(Nil, U, L, U, L)
  BY FlagStep
<1>2. nvm' \in [Nodes -> Int \union {Nil}] /\ free' \in SUBSET Nodes /\ Nil \notin U
  BY NameFacts DEF Inv, TypeInv, HistoryInv, NVMFollows
<1> QED
  BY <1>1, <1>2, MemoryMove

(* The three flags. *)
LEMMA ValidStored ==
  ASSUME TypeInv, NEW n \in Nodes, mem' = [mem EXCEPT ![n].valid = TRUE]
  PROVE  \E m \in NodeFields : /\ FlagsAreStored(n, m)
                               /\ m.valid /\ m.deleteFlag = mem[n].deleteFlag
<1>1. mem \in [Towers -> NodeFields] /\ n \in Towers
  BY NameFacts DEF TypeInv
<1>2. PICK m : m = [mem[n] EXCEPT !.valid = TRUE]
  OBVIOUS
<1>3. mem' = [mem EXCEPT ![n] = m]
  BY <1>2
<1>4. /\ m \in NodeFields /\ m.key = mem[n].key /\ m.topLevel = mem[n].topLevel /\ m.link = mem[n].link
      /\ m.valid = TRUE /\ m.deleteFlag = mem[n].deleteFlag
  BY <1>1, <1>2 DEF NodeFields
<1> QED
  BY <1>3, <1>4 DEF FlagsAreStored

(* The line of one node is written back, or none. *)
LEMMA FlushedLine ==
  ASSUME NEW U, NEW L, NEW C, Inv(U, L, C), NEW n \in Nodes, FLUSH(n) \/ UNCHANGED nvm
  PROVE  NVMFollows(n) /\ (FLUSH(n) => nvm'[n] = Line(n))
<1>1. nvm \in [Nodes -> Int \union {Nil}] /\ Line(n) \in Int \union {Nil}
  BY LineIsRight DEF Inv, TypeInv
<1> QED
  BY <1>1 DEF FLUSH, NVMFollows

(* FLUSH_INSERT is a store into the flags and perhaps a write-back. *)
LEMMA InsertFlagStored ==
  ASSUME NEW U, NEW L, NEW C, Inv(U, L, C), NEW n \in Nodes, FLUSH_INSERT(n)
  PROVE  \E m \in NodeFields : /\ FlagsAreStored(n, m) /\ NVMFollows(n)
                               /\ m.deleteFlag = mem[n].deleteFlag
<1>1. mem \in [Towers -> NodeFields] /\ n \in Towers
  BY NameFacts DEF Inv, TypeInv
<1>2. PICK m : m = [mem[n] EXCEPT !.insertFlag = TRUE]
  OBVIOUS
<1>3. mem' = [mem EXCEPT ![n] = m] /\ NVMFollows(n)
  BY <1>2, FlushedLine DEF FLUSH_INSERT
<1>4. /\ m \in NodeFields /\ m.key = mem[n].key /\ m.topLevel = mem[n].topLevel /\ m.link = mem[n].link
      /\ m.valid = mem[n].valid /\ m.deleteFlag = mem[n].deleteFlag
  BY <1>1, <1>2 DEF NodeFields
<1> QED
  BY <1>3, <1>4 DEF FlagsAreStored

(* FLUSH_DELETE of a marked node: whether it writes back or finds the flag   *)
(* set, the node is not a member in NVM after it.                            *)
LEMMA DeleteFlagStored ==
  ASSUME NEW U, NEW L, NEW C, Inv(U, L, C), NEW n \in L[0], Marked(n, 0), FLUSH_DELETE(n)
  PROVE  \E m \in NodeFields : /\ FlagsAreStored(n, m) /\ NVMFollows(n)
                               /\ m.deleteFlag /\ nvm'[n] = Nil
<1>1. mem \in [Towers -> NodeFields] /\ n \in Towers /\ n \in U /\ n \in Nodes
  BY LevelIsTower, LevelFacts DEF Inv, TypeInv
<1>2. PICK m : m = [mem[n] EXCEPT !.deleteFlag = TRUE]
  OBVIOUS
<1>3. mem' = [mem EXCEPT ![n] = m] /\ NVMFollows(n)
  BY <1>1, <1>2, FlushedLine DEF FLUSH_DELETE
<1>4. /\ m \in NodeFields /\ m.key = mem[n].key /\ m.topLevel = mem[n].topLevel /\ m.link = mem[n].link
      /\ m.valid = mem[n].valid /\ m.deleteFlag = TRUE
  BY <1>1, <1>2 DEF NodeFields
<1>5. nvm'[n] = Nil
  <2>1. CASE mem[n].deleteFlag
    <3>1. nvm[n] = Nil /\ nvm' = nvm
      BY <1>1, <2>1 DEF Inv, MemoryInv, FlagsAreRight, FLUSH_DELETE
    <3> QED
      BY <3>1
  <2>2. CASE ~mem[n].deleteFlag
    <3>1. FLUSH(n)
      BY <2>2 DEF FLUSH_DELETE
    <3> QED
      BY <1>1, <3>1, FlushedLine, LineIsRight
  <2> QED
    BY <2>1, <2>2
<1> QED
  BY <1>3, <1>4, <1>5 DEF FlagsAreStored

(* A thread keeps its variables over a store that leaves it what it has.     *)
LEMMA SameThread ==
  ASSUME NEW U, NEW L, NEW C, Inv(U, L, C), NEW t \in Threads, Evolves(Nil, U, L, U, L)
  PROVE  \E l \in Locals : \E c : l = local[t] /\ c = call[t] /\ ThreadInv(U, L, l, c)'
<1>1. PICK l \in Locals : \E d : l = local[t] /\ d = call[t] /\ ThreadInv(U, L, l, d)
  BY ThreadFacts
<1>4. PICK c : l = local[t] /\ c = call[t] /\ ThreadInv(U, L, l, c)
  BY <1>1
<1>2. Nil \notin U
  BY NameFacts DEF Inv, HistoryInv
<1>3. Owner(l, c) => l.node # Nil
  BY <1>4, <1>2 DEF ThreadInv, OwnerInv
<1> QED
  BY <1>4, <1>3, OtherThreads

(* makeValid of a linked node, one's own or one found. *)
LEMMA MakeValidMove ==
  ASSUME NEW U, NEW L, NEW C, Inv(U, L, C), NEW t \in Threads, MakeValid(t)
  PROVE  Inv(U, L, C)'
<1> SUFFICES ASSUME NEW l, l = local[t], NEW c, c = call[t], NEW n, n = l.node
             PROVE  Inv(U, L, C)'
  OBVIOUS
<1>1. /\ l.pc = "makeValid" /\ mem' = [mem EXCEPT ![n].valid = TRUE] /\ UNCHANGED <<nvm, free, call>>
      /\ c.op = "remove" => Become(t, [l EXCEPT !.pc = "mark", !.lvl = mem[n].topLevel - 1])
      /\ c.op # "remove" => Become(t, [l EXCEPT !.pc = "flushInsert"])
  BY DEF MakeValid, At
<1>2. /\ l \in Locals /\ ThreadInv(U, L, l, c) /\ TypeInv
      /\ c \in DS!Calls \union {DS!None} /\ c # DS!None /\ call' = [call EXCEPT ![t] = c]
  BY <1>1, ThreadFacts DEF TypeInv
<1>3. n \in L[0] /\ l.up = 0 /\ (c.op = "remove" => ~l.result)
  BY <1>1, <1>2 DEF ThreadInv, HelpInv
<1>4. n \in U /\ n \in Nodes /\ n \in Towers
  BY <1>3, LevelIsTower, LevelFacts
<1>5. PICK m \in NodeFields : FlagsAreStored(n, m) /\ m.valid /\ m.deleteFlag = mem[n].deleteFlag
  BY <1>1, <1>2, <1>4, ValidStored
<1>6. NVMFollows(n) /\ (m.deleteFlag => Marked(n, 0) /\ nvm'[n] = Nil) /\ UNCHANGED free
  BY <1>1, <1>4, <1>5, FlushedLine DEF Inv, MemoryInv, FlagsAreRight
<1>7. /\ Evolves(Nil, U, L, U, L) /\ mem'[n] = m
      /\ Key(n)' = Key(n) /\ mem'[n].topLevel = mem[n].topLevel
  BY <1>3, <1>4, <1>5, <1>6, FlagStep
<1>8. ThreadInv(U, L, l, c)'
  <2>1. \E k \in Locals : \E d : k = local[t] /\ d = call[t] /\ ThreadInv(U, L, k, d)'
    BY <1>7, SameThread
  <2> QED
    BY <2>1
<1>9. CASE c.op = "remove"
  <2> SUFFICES ASSUME NEW k, k = [l EXCEPT !.pc = "mark", !.lvl = mem[n].topLevel - 1]
               PROVE  Inv(U, L, C)'
    OBVIOUS
  <2>1. mem[n].topLevel \in 0..MAX_LEVEL /\ 0 < mem[n].topLevel
    BY <1>2, <1>4, Fields DEF Inv, MemoryInv, TowerIsRight
  <2>2. PICK top \in Levels : top = mem[n].topLevel - 1
    BY <2>1, LevelsAssumption DEF Levels
  <2>3. top < mem[n].topLevel /\ \A i \in Levels : top < i => ~(i < mem[n].topLevel)
    BY <2>1, <2>2 DEF Levels
  <2>4. k \in Locals /\ k.pc = "mark" /\ k.node = n /\ k.lvl = top /\ k.result = l.result
    BY <1>2, <2>2 DEF Locals, Labels
  <2>5. ~Owner(k, c)
    BY <1>9, <2>4 DEF Owner, Private
  <2>6. RemoveInv(L, k, c)'
    BY <1>3, <1>5, <1>7, <1>9, <2>3, <2>4 DEF RemoveInv, Finding
  <2>7. ThreadInv(U, L, k, c)'
    BY <2>4, <2>5, <2>6 DEF ThreadInv, OwnerInv, WalkInv, FindInv, HelpInv, Finding
  <2>8. Become(t, k)
    BY <1>1, <1>9
  <2>9. n \in L[0] /\ FlagsAreStored(n, m) /\ (k.pc = "idle" <=> c = DS!None)
    BY <1>2, <1>3, <1>5, <2>4
  <2> QED
    BY <1>2, <1>6, <2>4, <2>5, <2>7, <2>8, <2>9, FlagMove
<1>10. CASE c.op # "remove"
  <2> SUFFICES ASSUME NEW k, k = [l EXCEPT !.pc = "flushInsert"]
               PROVE  Inv(U, L, C)'
    OBVIOUS
  <2>1. /\ k \in Locals /\ k.pc = "flushInsert" /\ k.node = n /\ k.result = l.result /\ k.up = l.up
        /\ k.preds = l.preds /\ k.succs = l.succs
    BY <1>2 DEF Locals, Labels
  <2>2. (Owner(k, c) <=> Owner(l, c)) /\ Height(k) = Height(l)
    BY <1>1, <2>1 DEF Owner, Height, Private
  <2>3. OwnerInv(U, L, k, c)'
    BY <1>1, <1>8, <2>1, <2>2 DEF ThreadInv, OwnerInv, Kept, Raising, Finding, Private
  <2>4. HelpInv(L, k, c)'
    BY <1>3, <1>10, <2>1 DEF HelpInv
  <2>5. ThreadInv(U, L, k, c)'
    BY <1>10, <2>1, <2>3, <2>4 DEF ThreadInv, WalkInv, FindInv, RemoveInv, Finding
  <2>6. Become(t, k)
    BY <1>1, <1>10
  <2>7. n \in L[0] /\ FlagsAreStored(n, m) /\ (k.pc = "idle" <=> c = DS!None)
        /\ (Owner(k, c) => Owner(local[t], call[t]) /\ k.node = local[t].node)
    BY <1>2, <1>3, <1>5, <2>1, <2>2
  <2> QED
    BY <1>2, <1>6, <2>1, <2>5, <2>6, <2>7, FlagMove
<1> QED
  BY <1>9, <1>10

(* The line of a valid node is written back; insert goes on with the upper   *)
(* levels.                                                                   *)
LEMMA FlushInsertMove ==
  ASSUME NEW U, NEW L, NEW C, Inv(U, L, C), NEW t \in Threads, FlushInsert(t)
  PROVE  Inv(U, L, C)'
<1> SUFFICES ASSUME NEW l, l = local[t], NEW c, c = call[t], NEW n, n = l.node
             PROVE  Inv(U, L, C)'
  OBVIOUS
<1>1. l.pc = "flushInsert" /\ FLUSH_INSERT(n) /\ UNCHANGED free
  BY DEF FlushInsert, At
<1>2. /\ l \in Locals /\ ThreadInv(U, L, l, c) /\ TypeInv
      /\ c \in DS!Calls \union {DS!None} /\ c # DS!None
  BY <1>1, ThreadFacts
<1>3. n \in L[0] /\ l.up = 0 /\ c.op # "remove"
  BY <1>1, <1>2 DEF ThreadInv, HelpInv
<1>4. n \in U /\ n \in Nodes /\ n \in Towers
  BY <1>3, LevelIsTower, LevelFacts
<1>5. PICK m \in NodeFields : FlagsAreStored(n, m) /\ NVMFollows(n) /\ m.deleteFlag = mem[n].deleteFlag
  BY <1>1, <1>4, InsertFlagStored
<1>6. m.deleteFlag => Marked(n, 0) /\ nvm'[n] = Nil
  <2>1. mem[n].deleteFlag => Marked(n, 0) /\ nvm[n] = Nil
    BY <1>4 DEF Inv, MemoryInv, FlagsAreRight
  <2>2. Marked(n, 0) => Line(n) = Nil
    BY <1>4, LineIsRight
  <2> QED
    BY <1>4, <1>5, <2>1, <2>2 DEF NVMFollows
<1>7. /\ Evolves(Nil, U, L, U, L)
      /\ Key(n)' = Key(n) /\ mem'[n].topLevel = mem[n].topLevel
  BY <1>1, <1>3, <1>4, <1>5, <1>6, FlagStep
<1>8. CASE Return(t, l.result)
  <2>1. Become(t, Idle) /\ call' = [call EXCEPT ![t] = DS!None]
    BY <1>8 DEF Return
  <2>2. ThreadInv(U, L, Idle, DS!None)' /\ ~Owner(Idle, DS!None) /\ Idle \in Locals /\ Idle.pc = "idle"
    BY IdleAfter, IdleIsLocal
  <2> QED
    BY <1>1, <1>3, <1>5, <1>6, <2>1, <2>2, FlagMove
<1>9. CASE Raises(t) /\ Become(t, [l EXCEPT !.pc = "raise", !.up = 1]) /\ UNCHANGED call
  <2> SUFFICES ASSUME NEW k, k = [l EXCEPT !.pc = "raise", !.up = 1]
               PROVE  Inv(U, L, C)'
    OBVIOUS
  <2>1. 1 \in Levels /\ 1 < mem[n].topLevel /\ l.result /\ c.op = "insert"
    <3>1. mem[n].topLevel \in 0..MAX_LEVEL
      BY <1>2, <1>4, Fields
    <3> QED
      BY <1>3, <1>9, <3>1, LevelsAssumption DEF Raises, Levels
  <2>2. /\ k \in Locals /\ k.pc = "raise" /\ k.up = 1 /\ k.node = n /\ k.result = l.result
        /\ k.preds = l.preds /\ k.succs = l.succs
    BY <1>2, <2>1 DEF Locals, Labels
  <2>3. Become(t, k)
    BY <1>9
  <2>4. Owner(l, c) /\ Owner(k, c) /\ Height(l) = 1 /\ Height(k) = 1
    BY <1>1, <1>3, <2>1, <2>2 DEF Owner, Height, Private
  <2>6. OwnerInv(U, L, k, c)'
    <3>1. /\ n \in U /\ Key(n) = c.arg
          /\ \A i \in Levels : n \in L[i] <=> i < 1
          /\ \A i \in Levels : 1 <= i /\ i < mem[n].topLevel => Kept(L, l, i)
      BY <1>1, <1>2, <2>4 DEF ThreadInv, OwnerInv
    <3>3. \A i \in Levels : Kept(L, l, i) => Kept(L, k, i)
      BY <2>2 DEF Kept
    <3> QED
      BY <1>7, <2>1, <2>2, <2>4, <3>1, <3>3 DEF OwnerInv, Raising
  <2>7. ThreadInv(U, L, k, c)'
    BY <2>2, <2>4, <2>6 DEF ThreadInv, WalkInv, FindInv, HelpInv, RemoveInv, Finding
  <2>8. call' = [call EXCEPT ![t] = c]
    BY <1>2, <1>9 DEF TypeInv
  <2>9. n \in L[0] /\ FlagsAreStored(n, m) /\ NVMFollows(n) /\ UNCHANGED free /\ (k.pc = "idle" <=> c = DS!None)
        /\ (Owner(k, c) => Owner(local[t], call[t]) /\ k.node = local[t].node)
    BY <1>1, <1>2, <1>3, <1>5, <2>2, <2>4
  <2> QED
    BY <1>2, <1>6, <2>2, <2>3, <2>7, <2>8, <2>9, FlagMove
<1> QED
  BY <1>8, <1>9 DEF FlushInsert

(* find writes the mark of a node of level 0 back before it goes on over it. *)
LEMMA FindDeletedMove ==
  ASSUME NEW U, NEW L, NEW C, Inv(U, L, C), NEW t \in Threads, FindMarked(t), local[t].lvl = 0
  PROVE  Inv(U, L, C)'
<1> SUFFICES ASSUME NEW l, l = local[t], NEW c, c = call[t], NEW n, n = l.curr,
                    NEW q, q = Ref(n, 0), NEW k, k = [l EXCEPT !.curr = q]
             PROVE  Inv(U, L, C)'
  OBVIOUS
<1>1. /\ l.pc = "find" /\ l.lvl = 0 /\ Marked(n, 0) /\ FLUSH_DELETE(n) /\ Become(t, k)
      /\ UNCHANGED <<free, call>>
  BY DEF FindMarked, At
<1>2. /\ l \in Locals /\ ThreadInv(U, L, l, c) /\ TypeInv /\ 0 \in Levels
      /\ c \in DS!Calls \union {DS!None} /\ c # DS!None /\ call' = [call EXCEPT ![t] = c]
  BY <1>1, ThreadFacts, LevelFacts DEF TypeInv
<1>3. n \in L[0] /\ l.pred \in L[0] \union {Head} /\ q \in L[0] \union {Tail} /\ q \in Towers
  <2>1. n \in L[0] \union {Tail} /\ ~Marked(Tail, 0) /\ l.pred \in L[0] \union {Head}
    BY <1>1, FinderFacts DEF Finding
  <2>2. n \in L[0]
    BY <1>1, <2>1
  <2> QED
    BY <1>2, <2>1, <2>2, OnLevel, LevelIsTower, NameFacts
<1>4. PICK m \in NodeFields : /\ FlagsAreStored(n, m) /\ NVMFollows(n)
                              /\ m.deleteFlag /\ nvm'[n] = Nil
  BY <1>1, <1>3, DeleteFlagStored
<1>5. /\ Evolves(Nil, U, L, U, L) /\ mem'[n] = m
      /\ \A j \in Levels : Ref(n, j)' = Ref(n, j) /\ Marked(n, j)' = Marked(n, j)
  <2>1. n \in Towers
    BY <1>2, <1>3, LevelIsTower
  <2> QED
    BY <1>1, <1>3, <1>4, <2>1, FlagStep
<1>6. ThreadInv(U, L, l, c)'
  <2>1. \E a \in Locals : \E d : a = local[t] /\ d = call[t] /\ ThreadInv(U, L, a, d)'
    BY <1>5, SameThread
  <2> QED
    BY <2>1
<1>7. /\ k \in Locals /\ k.pc = "find" /\ k.lvl = 0 /\ k.pred = l.pred /\ k.from = l.from
      /\ k.curr = q /\ k.node = l.node /\ k.result = l.result /\ k.up = l.up
      /\ k.preds = l.preds /\ k.succs = l.succs
  BY <1>1, <1>2, <1>3 DEF Locals
<1>8. RunIsDead(L, k)'
  <2>1. PICK D \in SUBSET L[0] :
          /\ l.from \in D \union {n}
          /\ \A d \in D : Marked(d, 0)' /\ Ref(d, 0)' \in D \union {n} /\ mem'[d].deleteFlag
    BY <1>1, <1>6 DEF ThreadInv, FindInv, RunIsDead, Finding
  <2> DEFINE E == D \union {n}
  <2>2. E \in SUBSET L[0] /\ l.from \in E \union {q}
    BY <1>3, <2>1
  <2>3. \A d \in E : Marked(d, 0)' /\ Ref(d, 0)' \in E \union {q} /\ mem'[d].deleteFlag
    BY <1>1, <1>2, <1>4, <1>5, <2>1
  <2> HIDE DEF E
  <2> QED
    BY <1>7, <2>2, <2>3 DEF RunIsDead
<1>9. FindInv(L, k, c)'
  BY <1>1, <1>3, <1>6, <1>7, <1>8 DEF ThreadInv, FindInv, Finding
<1>10. Owner(k, c) <=> Owner(l, c)
  BY <1>1, <1>7 DEF Owner, Private
<1>11. OwnerInv(U, L, k, c)'
  BY <1>1, <1>6, <1>7, <1>10 DEF ThreadInv, OwnerInv, Height, Kept, Raising, Finding, Private
<1>12. WalkInv(L, k, c)' /\ HelpInv(L, k, c)' /\ RemoveInv(L, k, c)'
  BY <1>1, <1>6, <1>7 DEF ThreadInv, WalkInv, HelpInv, RemoveInv, Finding
<1>13. ThreadInv(U, L, k, c)'
  BY <1>9, <1>11, <1>12 DEF ThreadInv
<1>14. /\ n \in L[0] /\ FlagsAreStored(n, m) /\ NVMFollows(n) /\ UNCHANGED free
       /\ (m.deleteFlag => Marked(n, 0) /\ nvm'[n] = Nil) /\ (k.pc = "idle" <=> c = DS!None)
       /\ (Owner(k, c) => Owner(local[t], call[t]) /\ k.node = local[t].node)
  BY <1>1, <1>2, <1>3, <1>4, <1>7, <1>10
<1> QED
  BY <1>1, <1>2, <1>7, <1>13, <1>14, FlagMove

(* contains writes the mark of its node back before it answers. *)
LEMMA ContainsDeletedMove ==
  ASSUME NEW U, NEW L, NEW C, Inv(U, L, C), NEW t \in Threads, ContainsDeleted(t)
  PROVE  Inv(U, L, C)'
<1> SUFFICES ASSUME NEW n, n = local[t].curr
             PROVE  Inv(U, L, C)'
  OBVIOUS
<1>1. /\ local[t].pc = "walk" /\ local[t].lvl = 0 /\ Marked(n, 0) /\ FLUSH_DELETE(n)
      /\ Become(t, Idle) /\ call' = [call EXCEPT ![t] = DS!None] /\ UNCHANGED free
  BY DEF ContainsDeleted, AtDeleted, At, Return
<1>2. n \in L[0]
  <2>1. n \in L[0] \union {Tail} /\ ~Marked(Tail, 0)
    BY <1>1, WalkFacts
  <2> QED
    BY <1>1, <2>1
<1>3. PICK m \in NodeFields : /\ FlagsAreStored(n, m) /\ NVMFollows(n)
                              /\ m.deleteFlag /\ nvm'[n] = Nil
  BY <1>1, <1>2, DeleteFlagStored
<1>4. ThreadInv(U, L, Idle, DS!None)' /\ ~Owner(Idle, DS!None) /\ Idle \in Locals /\ Idle.pc = "idle"
  BY IdleAfter, IdleIsLocal
<1> QED
  BY <1>1, <1>2, <1>3, <1>4, FlagMove

(* remove marks a level. *)
LEMMA MarkMove ==
  ASSUME NEW U, NEW L, NEW C, Inv(U, L, C), NEW t \in Threads, Mark(t)
  PROVE  Inv(U, L, C)'
<1> SUFFICES ASSUME NEW l, l = local[t], NEW c, c = call[t], NEW n, n = l.node, NEW i, i = l.lvl,
                    NEW b, b = ~Marked(n, i),
                    NEW k, k = [l EXCEPT !.result = b, !.lvl = IF i > 0 THEN i - 1 ELSE 0,
                                         !.pc = IF i > 0 THEN "mark" ELSE "flushDelete"]
             PROVE  Inv(U, L, C)'
  OBVIOUS
<1>1. l.pc = "mark" /\ MarkIsStored(n, i) /\ UNCHANGED <<nvm, free, call>>
  BY DEF Mark, At, MarkIsStored
<1>2. /\ l \in Locals /\ ThreadInv(U, L, l, c) /\ TypeInv /\ i \in Levels
      /\ c \in DS!Calls \union {DS!None} /\ c # DS!None /\ call' = [call EXCEPT ![t] = c]
  <2>1. l \in Locals /\ TypeInv
    BY SMTT(30), ThreadFacts
  <2> QED
    BY <1>1, <2>1, LocalFields, ThreadFacts DEF TypeInv
<1>3. Become(t, k)
  BY <1>2 DEF Mark, Locals
<1>4. /\ c.op = "remove" /\ n \in L[0] /\ mem[n].valid /\ i < mem[n].topLevel
      /\ \A j \in Levels : i < j /\ j < mem[n].topLevel => Marked(n, j)
  BY <1>1, <1>2 DEF ThreadInv, RemoveInv
<1>5. n \in Towers /\ n \in U
  BY <1>4, LevelIsTower, LevelFacts
<1>6. /\ Evolves(Nil, U, L, U, L) /\ Marked(n, i)' /\ mem'[n].valid
      /\ \A j \in Levels : Marked(n, j) => Marked(n, j)'
      /\ mem'[n].topLevel = mem[n].topLevel
  BY <1>1, <1>2, <1>4, <1>5, MarkStep
<1>7. /\ k \in Locals /\ k.node = n
      /\ IF i > 0 THEN k.pc = "mark" /\ k.lvl = i - 1 ELSE k.pc = "flushDelete"
  <2>1. b \in BOOLEAN
    OBVIOUS
  <2>2. 0 \in Levels /\ (i > 0 => i - 1 \in Levels)
    BY <1>2, LevelFacts
  <2>4. PICK x, y : x = (IF i > 0 THEN i - 1 ELSE 0) /\ y = (IF i > 0 THEN "mark" ELSE "flushDelete")
    OBVIOUS
  <2>5. x \in Levels /\ y \in Labels
    BY <2>2, <2>4 DEF Labels
  <2>6. k = [l EXCEPT !.result = b, !.lvl = x, !.pc = y]
    BY <2>4
  <2>7. k \in Locals /\ k.node = n /\ k.pc = y /\ k.lvl = x
    BY ZenonT(60), <1>2, <2>1, <2>5, <2>6 DEF Locals
  <2> QED
    BY <2>4, <2>7
<1>8. RemoveInv(L, k, c)'
  <2>1. CASE i > 0
    <3>1. k.lvl < i /\ \A j \in Levels : k.lvl < j => j = i \/ i < j
      BY <1>2, <1>7, <2>1, LevelFacts
    <3>2. k.lvl < mem'[n].topLevel
      <4>1. mem[n].topLevel \in 0..MAX_LEVEL
        BY <1>2, <1>5, Fields
      <4> QED
        BY <1>2, <1>4, <1>6, <1>7, <2>1, <4>1, LevelFacts
    <3>3. \A j \in Levels : k.lvl < j /\ j < mem'[n].topLevel => Marked(n, j)'
      BY <1>4, <1>6, <3>1
    <3> QED
      BY <1>4, <1>6, <1>7, <2>1, <3>2, <3>3 DEF RemoveInv, Finding
  <2>2. CASE ~(i > 0)
    <3>1. i = 0
      BY <1>2, <2>2, LevelFacts
    <3> QED
      BY <1>4, <1>6, <1>7, <3>1 DEF RemoveInv, Finding
  <2> QED
    BY <2>1, <2>2
<1>9. k.pc \in {"mark", "flushDelete"} /\ ~Owner(k, c)
  BY <1>4, <1>7 DEF Owner, Private
<1>10. ThreadInv(U, L, k, c)'
  BY <1>8, <1>9 DEF ThreadInv, OwnerInv, WalkInv, FindInv, HelpInv, Finding
<1>11. (k.pc = "idle" <=> c = DS!None) /\ k \in Locals
       /\ (Owner(k, c) => Owner(local[t], call[t]) /\ k.node = local[t].node)
  BY <1>2, <1>7, <1>9
<1>12. /\ n \in L[0] /\ i \in Levels /\ mem[n].valid /\ MarkIsStored(n, i) /\ UNCHANGED <<nvm, free>>
       /\ \A j \in Levels : i < j /\ j < mem[n].topLevel => Marked(n, j)
  BY <1>1, <1>2, <1>4
<1> QED
  BY <1>2, <1>3, <1>10, <1>11, <1>12, MarkStepMove

(* remove writes the mark of level 0 back; the one that set it calls find. *)
LEMMA FlushDeleteMove ==
  ASSUME NEW U, NEW L, NEW C, Inv(U, L, C), NEW t \in Threads, FlushDelete(t)
  PROVE  Inv(U, L, C)'
<1> SUFFICES ASSUME NEW l, l = local[t], NEW c, c = call[t], NEW n, n = l.node
             PROVE  Inv(U, L, C)'
  OBVIOUS
<1>1. l.pc = "flushDelete" /\ FLUSH_DELETE(n) /\ UNCHANGED free
  BY DEF FlushDelete, At
<1>2. /\ l \in Locals /\ ThreadInv(U, L, l, c) /\ TypeInv
      /\ c \in DS!Calls \union {DS!None} /\ c # DS!None
  BY <1>1, ThreadFacts
<1>3. n \in L[0] /\ Marked(n, 0)
  BY <1>1, <1>2 DEF ThreadInv, RemoveInv
<1>4. PICK m \in NodeFields : /\ FlagsAreStored(n, m) /\ NVMFollows(n)
                              /\ m.deleteFlag /\ nvm'[n] = Nil
  BY <1>1, <1>3, DeleteFlagStored
<1>5. Evolves(Nil, U, L, U, L)
  BY <1>1, <1>3, <1>4, FlagStep
<1>6. CASE Return(t, FALSE)
  <2>1. Become(t, Idle) /\ call' = [call EXCEPT ![t] = DS!None]
    BY <1>6 DEF Return
  <2>2. ThreadInv(U, L, Idle, DS!None)' /\ ~Owner(Idle, DS!None) /\ Idle \in Locals /\ Idle.pc = "idle"
    BY IdleAfter, IdleIsLocal
  <2> QED
    BY <1>1, <1>3, <1>4, <2>1, <2>2, FlagMove
<1>7. CASE Become(t, StartFind(l)) /\ UNCHANGED call
  <2> SUFFICES ASSUME NEW f, f = StartFind(l) PROVE Inv(U, L, C)'
    OBVIOUS
  <2>1. /\ f \in Locals /\ f.pc # "idle" /\ ThreadInv(U, L, f, c)
        /\ Owner(f, c) <=> Owner(l, c)
        /\ f.node = l.node
    BY <1>1, <1>2, StartFindThread
  <2>2. Owner(f, c) => f.node # Nil
    BY <2>1, NameFacts DEF ThreadInv, OwnerInv, Inv, HistoryInv
  <2>3. ThreadInv(U, L, f, c)'
    BY <1>5, <2>1, <2>2, OtherThreads
  <2>4. Become(t, f) /\ call' = [call EXCEPT ![t] = c]
    BY <1>2, <1>7 DEF TypeInv
  <2>5. /\ n \in L[0] /\ FlagsAreStored(n, m) /\ NVMFollows(n) /\ UNCHANGED free
        /\ (m.deleteFlag => Marked(n, 0) /\ nvm'[n] = Nil) /\ (f.pc = "idle" <=> c = DS!None)
        /\ (Owner(f, c) => Owner(local[t], call[t]) /\ f.node = local[t].node)
    BY <1>1, <1>2, <1>3, <1>4, <2>1
  <2> QED
    BY <1>2, <2>1, <2>3, <2>4, <2>5, FlagMove
<1> QED
  BY <1>6, <1>7 DEF FlushDelete

(* A line is written back. *)
LEMMA EvictMove ==
  ASSUME NEW U, NEW L, NEW C, Inv(U, L, C), NEW n \in Nodes, Evict(n)
  PROVE  Inv(U, L, C)'
<1>1. FLUSH(n) /\ UNCHANGED <<mem, free, local, call>>
  BY DEF Evict
<1>2. NVMFollows(n) /\ nvm'[n] = Line(n)
  BY <1>1, FlushedLine
<1>3. /\ nvm' \in [Nodes -> Int \union {Nil}] /\ \A x \in Nodes : x # n => nvm'[x] = nvm[x]
      /\ Line(n) # Nil => n \in C[0] /\ Line(n) = Key(n)
      /\ Marked(n, 0) => Line(n) = Nil
  BY <1>2, LineIsRight DEF NVMFollows
<1>4. TypeInv'
  BY <1>1, <1>3 DEF Inv, TypeInv, At
<1>5. HistoryInv(U, L, C)' /\ ChainsInv(C)' /\ OwnersAreApart'
  BY <1>1 DEF Inv, HistoryInv, ChainsInv, Nexts, KeyOf, Ref, Key, OwnersAreApart
<1>6. MemoryInv(U, L, C)'
  <2>1. SentinelsAreFixed' /\ LevelsAreClosed(U, L)' /\ LiveNodesAreLinked(L, C)'
    BY <1>1 DEF Inv, MemoryInv, SentinelsAreFixed, LevelsAreClosed, LiveNodesAreLinked, Key, Ref, Marked
  <2>2. ASSUME NEW m \in U PROVE TowerIsRight(L, m)' /\ FlagsAreRight(L, m)'
    <3>1. TowerIsRight(L, m) /\ FlagsAreRight(L, m) /\ m \in Nodes
      BY DEF Inv, MemoryInv, HistoryInv
    <3>2. TowerIsRight(L, m)'
      BY <1>1, <3>1 DEF TowerIsRight, Key, Marked
    <3>3. Marked(m, 0) /\ nvm[m] = Nil => nvm'[m] = Nil
      BY <1>2, <1>3, <3>1
    <3>4. FlagsAreRight(L, m)'
      BY <1>1, <3>1, <3>3 DEF FlagsAreRight, Marked
    <3> QED
      BY <3>2, <3>4
  <2>3. NVMIsRight(U, L, C)'
    <3>1. NVMIsRight(U, L, C)
      BY DEF Inv, MemoryInv
    <3>2. \A m \in Nodes : nvm'[m] # Nil => m \in C[0] /\ nvm'[m] = Key(m)
      BY <1>2, <1>3, <3>1 DEF NVMIsRight
    <3> QED
      BY <1>1, <3>1, <3>2 DEF NVMIsRight, Key, Ref, Marked
  <2> QED
    BY <2>1, <2>2, <2>3 DEF MemoryInv
<1>7. ASSUME NEW u \in Threads PROVE ThreadInv(U, L, local[u], call[u])'
  <2>1. ThreadInv(U, L, local'[u], call'[u])
    BY SMTT(30), <1>1 DEF Inv
  <2>2. OwnerInv(U, L, local[u], call[u])'
    BY <1>1, <2>1 DEF ThreadInv, OwnerInv, Key, Ref, Marked
  <2>3. WalkInv(L, local[u], call[u])'
    BY <1>1, <2>1 DEF ThreadInv, WalkInv, Key
  <2>4. FindInv(L, local[u], call[u])'
    BY <1>1, <2>1 DEF ThreadInv, FindInv, RunIsDead, Ref, Marked
  <2>5. HelpInv(L, local[u], call[u])' /\ RemoveInv(L, local[u], call[u])'
    BY <1>1, <2>1 DEF ThreadInv, HelpInv, RemoveInv, Marked
  <2> QED
    BY <2>2, <2>3, <2>4, <2>5 DEF ThreadInv
<1> QED
  BY <1>4, <1>5, <1>6, <1>7 DEF Inv

(* A node is freed. *)
LEMMA FreedMemory ==
  ASSUME NEW U, NEW L, NEW C, Inv(U, L, C), NEW n \in L[0], Marked(n, 0), mem[n].valid,
         free' = free \union {n}, UNCHANGED <<mem, nvm>>
  PROVE  /\ mem' \in [Towers -> NodeFields] /\ nvm' \in [Nodes -> Int \union {Nil}]
         /\ free' \in SUBSET Nodes
         /\ HistoryInv(U, L, C)' /\ MemoryInv(U, L, C)' /\ ChainsInv(C)'
         /\ Evolves(Nil, U, L, U, L)
<1>1. n \in Nodes /\ Nil \notin U /\ \A i \in Levels : L[i] \subseteq U
  BY LevelIsTower, LevelFacts, NameFacts DEF Inv, HistoryInv
<1>2. /\ mem' \in [Towers -> NodeFields] /\ nvm' \in [Nodes -> Int \union {Nil}]
      /\ free' \in SUBSET Nodes
  BY <1>1 DEF Inv, TypeInv
<1>3. HistoryInv(U, L, C)' /\ ChainsInv(C)'
  BY DEF Inv, HistoryInv, ChainsInv, Nexts, KeyOf, Ref, Key
<1>4. SentinelsAreFixed' /\ LevelsAreClosed(U, L)' /\ LiveNodesAreLinked(L, C)'
  BY DEF Inv, MemoryInv, SentinelsAreFixed, LevelsAreClosed, LiveNodesAreLinked, Key, Ref, Marked
<1>5. \A m \in U : TowerIsRight(L, m)' /\ FlagsAreRight(L, m)'
  BY DEF Inv, MemoryInv, TowerIsRight, FlagsAreRight, Key, Ref, Marked
<1>6. NVMIsRight(U, L, C)'
  <2>1. NVMIsRight(U, L, C)
    BY DEF Inv, MemoryInv
  <2> QED
    BY <2>1 DEF NVMIsRight, Key, Ref, Marked
<1>7. Evolves(Nil, U, L, U, L)
  BY <1>1 DEF Evolves, Key, Ref, Marked
<1> QED
  BY <1>2, <1>3, <1>4, <1>5, <1>6, <1>7 DEF MemoryInv

(* A removed node is freed: marked and not in NVM, though a thread may hold  *)
(* it.                                                                       *)
LEMMA FreeRemovedMove ==
  ASSUME ~Reuses, NEW U, NEW L, NEW C, Inv(U, L, C), NEW t \in Threads, FreeRemoved(t)
  PROVE  Inv(U, L, C)'
<1> SUFFICES ASSUME NEW l, l = local[t], NEW c, c = call[t], NEW n, n = l.node,
                    NEW d, d = [Idle EXCEPT !.pc = "done"]
             PROVE  Inv(U, L, C)'
  OBVIOUS
<1>1. /\ l.pc = "free" /\ free' = free \union {n} /\ Become(t, d) /\ UNCHANGED <<mem, nvm, call>>
  BY DEF FreeRemoved, At, ssmem_free
<1>2. /\ ThreadInv(U, L, l, c) /\ c \in DS!Calls \union {DS!None} /\ c # DS!None
      /\ call' = [call EXCEPT ![t] = c]
  BY <1>1, ThreadFacts DEF TypeInv
<1>3. n \in L[0] /\ Marked(n, 0) /\ mem[n].valid
  BY <1>1, <1>2 DEF ThreadInv, RemoveInv
<1>4. /\ mem' \in [Towers -> NodeFields] /\ nvm' \in [Nodes -> Int \union {Nil}]
      /\ free' \in SUBSET Nodes
      /\ HistoryInv(U, L, C)' /\ MemoryInv(U, L, C)' /\ ChainsInv(C)'
      /\ Evolves(Nil, U, L, U, L)
  BY <1>1, <1>3, FreedMemory
<1>5. d \in Locals /\ d.pc = "done" /\ d.node = Nil /\ d.up = 0 /\ d.result = FALSE
  BY IdleIsLocal DEF Locals, Labels
<1>6. ~Owner(d, c)
  BY <1>5 DEF Owner, Private
<1>7. ThreadInv(U, L, d, c)'
  BY <1>5, <1>6 DEF ThreadInv, OwnerInv, WalkInv, FindInv, HelpInv, RemoveInv, Finding
<1>8. Nil \notin U /\ (d.pc = "idle" <=> c = DS!None)
  BY <1>2, <1>5, NameFacts DEF Inv, HistoryInv
<1> QED
  BY <1>1, <1>2, <1>4, <1>5, <1>6, <1>7, <1>8, MemoryMove

(* A node that was never linked is given back. *)
LEMMA UndoneMemory ==
  ASSUME NEW U, NEW L, NEW C, Inv(U, L, C), NEW n \in U, n \notin L[0], Marked(n, 0),
         mem' = [mem EXCEPT ![n].valid = TRUE],
         free' = free \union {n}, UNCHANGED nvm
  PROVE  /\ mem' \in [Towers -> NodeFields] /\ nvm' \in [Nodes -> Int \union {Nil}]
         /\ free' \in SUBSET Nodes
         /\ HistoryInv(U \ {n}, L, C)' /\ MemoryInv(U \ {n}, L, C)' /\ ChainsInv(C)'
         /\ Evolves(n, U, L, U \ {n}, L)
<1> SUFFICES ASSUME NEW V, V = U \ {n}
             PROVE  /\ mem' \in [Towers -> NodeFields] /\ nvm' \in [Nodes -> Int \union {Nil}]
                    /\ free' \in SUBSET Nodes
                    /\ HistoryInv(V, L, C)' /\ MemoryInv(V, L, C)' /\ ChainsInv(C)'
                    /\ Evolves(n, U, L, V, L)
  OBVIOUS
<1>1. /\ U \subseteq Nodes /\ n \in Nodes /\ n \in Towers /\ n # Head /\ n # Tail /\ 0 \in Levels
      /\ \A i \in Levels : L[i] \subseteq U /\ n \notin L[i] /\ L[i] \subseteq V
      /\ TypeInv /\ mem \in [Towers -> NodeFields]
  <2>1. \A i \in Levels : 0 <= i
    BY LevelFacts
  <2> QED
    BY <2>1, LevelFacts, LevelIsTower, NameFacts DEF Inv, HistoryInv, TypeInv
<1>2. PICK m \in NodeFields : /\ FlagsAreStored(n, m) /\ m.valid /\ m.deleteFlag = mem[n].deleteFlag
  BY <1>1, ValidStored
<1>3. /\ mem' \in [Towers -> NodeFields]
      /\ mem'[n] = m /\ \A x \in Towers : x # n => mem'[x] = mem[x]
      /\ m.key = mem[n].key /\ m.topLevel = mem[n].topLevel /\ m.link = mem[n].link
      /\ m.valid
  BY <1>1, <1>2 DEF FlagsAreStored
<1>4. \A x \in Towers :
        /\ Key(x)' = Key(x) /\ mem'[x].topLevel = mem[x].topLevel
        /\ mem[x].valid => mem'[x].valid
        /\ mem'[x].deleteFlag = mem[x].deleteFlag
        /\ \A j \in Levels : Ref(x, j)' = Ref(x, j) /\ Marked(x, j)' = Marked(x, j)
  BY <1>2, <1>3 DEF Key, Ref, Marked
<1>5. /\ SentinelsAreFixed /\ LevelsAreClosed(U, L) /\ LiveNodesAreLinked(L, C)
      /\ \A x \in U : TowerIsRight(L, x) /\ FlagsAreRight(L, x)
      /\ NVMIsRight(U, L, C) /\ HistoryInv(U, L, C)
  BY DEF Inv, MemoryInv
<1>6. HistoryInv(V, L, C)'
  <2>1. L \in [Levels -> SUBSET V] /\ V \in SUBSET Nodes
    BY <1>1, <1>5 DEF HistoryInv
  <2>2. \A i \in Levels : \A x \in L[i] : i < mem'[x].topLevel
    BY <1>1, <1>4, <1>5, NameFacts DEF HistoryInv
  <2> QED
    BY <1>5, <2>1, <2>2 DEF HistoryInv
<1>7. SentinelsAreFixed' /\ LevelsAreClosed(V, L)' /\ LiveNodesAreLinked(L, C)'
  <2>1. SentinelsAreFixed' /\ LiveNodesAreLinked(L, C)'
    BY <1>1, <1>4, <1>5, NameFacts DEF SentinelsAreFixed, LiveNodesAreLinked
  <2>2. LevelsAreClosed(V, L)'
    BY <1>1, <1>4, <1>5, NameFacts DEF LevelsAreClosed
  <2> QED
    BY <2>1, <2>2
<1>8. ASSUME NEW x \in V PROVE TowerIsRight(L, x)' /\ FlagsAreRight(L, x)'
  <2>1. x \in U /\ x \in Towers /\ mem'[x] = mem[x]
    BY <1>1, <1>3, NameFacts
  <2> QED
    BY <1>1, <1>4, <1>5, <2>1 DEF TowerIsRight, FlagsAreRight
<1>9. NVMIsRight(V, L, C)'
  <2>1. \A x \in Nodes : nvm'[x] # Nil => x \in C[0] /\ nvm'[x] = Key(x)'
    BY <1>4, <1>5, NameFacts DEF NVMIsRight
  <2>2. \A x \in Nodes \ V : mem'[x].valid => Marked(x, 0)' \/ Ref(x, 0)' = Nil
    BY <1>1, <1>3, <1>4, <1>5, NameFacts DEF NVMIsRight
  <2>3. \A x \in free' : mem'[x].valid /\ (x \in V => x \in L[0] /\ Marked(x, 0)')
    <3>1. \A x \in free : x \in Towers
      BY <1>1, NameFacts DEF TypeInv
    <3> QED
      BY <1>1, <1>3, <1>4, <1>5, <3>1 DEF NVMIsRight
  <2> QED
    BY <2>1, <2>2, <2>3 DEF NVMIsRight
<1>10. ChainsInv(C)'
  <2>1. \A j \in Levels : Nexts(j)' = Nexts(j)
    BY <1>4 DEF Nexts
  <2>2. KeyOf' = KeyOf
    BY <1>4 DEF KeyOf
  <2> QED
    BY <2>1, <2>2, ChainsSame
<1>11. Evolves(n, U, L, V, L)
  BY <1>1, <1>4, NameFacts DEF Evolves
<1>12. nvm' \in [Nodes -> Int \union {Nil}] /\ free' \in SUBSET Nodes
  BY <1>1 DEF TypeInv
<1> QED
  BY <1>3, <1>6, <1>7, <1>8, <1>9, <1>10, <1>11, <1>12 DEF MemoryInv

(* A node that was never linked is freed: it is not in use any more. *)
LEMMA UndoInsertMove ==
  ASSUME ~Reuses, NEW U, NEW L, NEW C, Inv(U, L, C), NEW t \in Threads, UndoInsert(t)
  PROVE  \E V : Inv(V, L, C)'
<1> SUFFICES ASSUME NEW l, l = local[t], NEW c, c = call[t], NEW n, n = l.node,
                    NEW k, k = StartSearch, NEW V, V = U \ {n}
             PROVE  Inv(V, L, C)'
  OBVIOUS
<1>1. /\ l.pc = "undo" /\ l \in Locals /\ ThreadInv(U, L, l, c) /\ TypeInv /\ c \in DS!Calls
      /\ c # DS!None
      /\ mem' = [mem EXCEPT ![n].valid = TRUE] /\ free' = free \union {n} /\ UNCHANGED nvm
      /\ call' = [call EXCEPT ![t] = c]
  <2>1. l.pc = "undo" /\ TypeInv
    BY ThreadFacts DEF UndoInsert, At
  <2> QED
    BY <2>1, ThreadFacts DEF UndoInsert, At, ssmem_free, TypeInv
<1>2. Owner(l, c) /\ Height(l) = 0
  BY <1>1 DEF Owner, Height, Private
<1>3. n \in U /\ n \notin L[0] /\ Marked(n, 0)
  <2>1. n \in U /\ (\A i \in Levels : n \in L[i] <=> i < 0) /\ Marked(n, 0)
    BY <1>1, <1>2 DEF ThreadInv, OwnerInv
  <2> QED
    BY <2>1, LevelFacts
<1>4. /\ mem' \in [Towers -> NodeFields] /\ nvm' \in [Nodes -> Int \union {Nil}]
      /\ free' \in SUBSET Nodes
      /\ HistoryInv(V, L, C)' /\ MemoryInv(V, L, C)' /\ ChainsInv(C)'
      /\ Evolves(n, U, L, V, L)
  BY <1>1, <1>3, UndoneMemory
<1>5. k \in Locals /\ k.pc = "walk" /\ ThreadInv(U, L, k, c) /\ ~Owner(k, c)
  BY <1>1, StartOfSearch
<1>6. ThreadInv(V, L, k, c)'
  BY <1>4, <1>5, OtherThreads
<1>7. Become(t, k)
  BY DEF UndoInsert
<1> QED
  BY <1>1, <1>2, <1>4, <1>5, <1>6, <1>7, MemoryMove

-----------------------------------------------------------------------------
(* The links of a level after a store into one of them. *)
LEMMA LinkNexts ==
  ASSUME TypeInv, NEW n \in Towers, NEW k \in Levels, NEW w \in Links, Stored(n, k, w)
  PROVE  /\ KeyOf' = KeyOf
         /\ \A i \in Levels : i # k => Nexts(i)' = Nexts(i)
         /\ \E ny : /\ ny = Nexts(k)' /\ ny[n] = w.to
                    /\ \A m \in Towers : m # n => ny[m] = Nexts(k)[m]
<1>1. \A m \in Towers :
        /\ Key(m)' = Key(m)
        /\ \A j \in Levels : IF m = n /\ j = k
                             THEN Ref(m, j)' = w.to /\ Marked(m, j)' = w.marked
                             ELSE Ref(m, j)' = Ref(m, j) /\ Marked(m, j)' = Marked(m, j)
  BY LinkStored
<1>2. KeyOf' = KeyOf
  BY <1>1 DEF KeyOf
<1>3. ASSUME NEW i \in Levels, i # k PROVE Nexts(i)' = Nexts(i)
  BY <1>1, <1>3 DEF Nexts
<1>4. PICK ny : ny = [m \in Towers |-> Ref(m, k)']
  OBVIOUS
<1>5. ny = Nexts(k)'
  BY <1>4 DEF Nexts
<1>6. ny[n] = w.to /\ \A m \in Towers : m # n => ny[m] = Nexts(k)[m]
  BY <1>1, <1>4 DEF Nexts
<1> QED
  BY <1>2, <1>3, <1>5, <1>6

(* One level changes to another chain. *)
LEMMA ChainsStep ==
  ASSUME NEW U, NEW L, NEW C, Inv(U, L, C), KeyOf' = KeyOf, NEW k \in Levels,
         \A i \in Levels : i # k => Nexts(i)' = Nexts(i),
         NEW X, NEW r, NEW ny, ny = Nexts(k)', IsChain(X, r, ny, Head, Tail), k = 0 => r = KeyOf
  PROVE  ChainsInv([C EXCEPT ![k] = X])'
<1> DEFINE B == [C EXCEPT ![k] = X]
<1>0. B[k] = X /\ \A i \in Levels : i # k => B[i] = C[i]
  BY DEF Inv, HistoryInv
<1> HIDE DEF B
<1>1. ASSUME NEW i \in Levels PROVE \E s : IsChain(B[i], s, Nexts(i), Head, Tail)'
  <2>1. CASE i = k
    <3>1. IsChain(B[i], r, Nexts(i)', Head, Tail)
      BY <1>0, <2>1
    <3> QED
      BY <3>1
  <2>2. CASE i # k
    <3>1. PICK s : IsChain(C[i], s, Nexts(i), Head, Tail)
      BY DEF Inv, ChainsInv
    <3>2. IsChain(B[i], s, Nexts(i)', Head, Tail)
      BY <1>0, <2>2, <3>1
    <3> QED
      BY <3>2
  <2> QED
    BY <2>1, <2>2
<1>2. IsChain(B[0], KeyOf', Nexts(0)', Head, Tail)
  <2>1. CASE k = 0
    BY <1>0, <2>1
  <2>2. CASE k # 0
    BY <1>0, <2>2, LevelFacts DEF Inv, ChainsInv
  <2> QED
    BY <2>1, <2>2
<1>3. ChainsInv(B)'
  BY <1>1, <1>2 DEF ChainsInv
<1> QED
  BY <1>3 DEF B

(* The chain of a level, with the order of the keys on level 0. *)
LEMMA ChainOf ==
  ASSUME NEW U, NEW L, NEW C, Inv(U, L, C), NEW k \in Levels
  PROVE  /\ \E r : IsChain(C[k], r, Nexts(k), Head, Tail) /\ (k = 0 => r = KeyOf)
         /\ Head \in C[k] /\ Tail \in C[k] /\ C[k] \subseteq Towers
         /\ C[k] \subseteq L[k] \union {Head, Tail}
         /\ \A n \in L[k] \union {Head} : ~Marked(n, k) => n \in C[k]
         /\ \A n \in Towers : Nexts(k)[n] = Ref(n, k) /\ KeyOf[n] = Key(n)
<1>1. PICK r : IsChain(C[k], r, Nexts(k), Head, Tail) /\ (k = 0 => r = KeyOf)
  BY DEF Inv, ChainsInv
<1>2. Head \in C[k] /\ Tail \in C[k]
  BY <1>1 DEF IsChain
<1> QED
  BY <1>1, <1>2 DEF Inv, HistoryInv, MemoryInv, LiveNodesAreLinked, Nexts, KeyOf

(* find cuts out a run of marked nodes; what is not marked stays on the      *)
(* level. Those of level 0 are not members in NVM either, for find has       *)
(* flushed their marks.                                                      *)
LEMMA CutMove ==
  ASSUME NEW U, NEW L, NEW C, Inv(U, L, C), NEW t \in Threads, At(t, "cut"),
         CAS(local[t].pred, local[t].lvl, local[t].from, local[t].curr),
         Become(t, FindDown(t)), UNCHANGED <<nvm, free, call>>
  PROVE  \E B : Inv(U, L, B)'
<1> DEFINE l == local[t]
<1> SUFFICES ASSUME NEW c, c = call[t], NEW k, k = l.lvl, NEW p, p = l.pred,
                    NEW q, q = l.curr, NEW w, w = To(q), NEW d, d = FindDown(t)
             PROVE  \E B : Inv(U, L, B)'
  OBVIOUS
<1>1. /\ l.pc = "cut" /\ l \in Locals /\ k \in Levels /\ FindInv(L, l, c) /\ TypeInv
      /\ p \in L[k] \union {Head} /\ p \in Towers /\ q \in L[k] \union {Tail} /\ q \in Towers
      /\ L[k] \subseteq Towers
      /\ c \in DS!Calls \union {DS!None} /\ c # DS!None
  BY FinderFacts, ThreadFacts DEF At, Finding
<1>2. mem[p].link[k] = To(l.from) /\ Stored(p, k, w)
  BY DEF CAS, Stored
<1>3. Ref(p, k) = l.from /\ Marked(p, k) = FALSE
  BY <1>1, <1>2 DEF Ref, Marked, To
<1>4. w \in Links /\ w.to = q /\ w.marked = Marked(p, k)
  BY <1>1, <1>3 DEF Links, To
<1>5. PICK D \in SUBSET L[k] :
        /\ l.from \in D \union {q}
        /\ \A x \in D : /\ Marked(x, k) /\ Ref(x, k) \in D \union {q}
                        /\ k = 0 => mem[x].deleteFlag
  BY <1>1 DEF FindInv, RunIsDead, Finding
<1>6. p \notin D /\ Tail \notin D /\ p # Tail
  BY <1>1, <1>3, <1>5, OnLevel
<1>7. PICK r : IsChain(C[k], r, Nexts(k), Head, Tail) /\ (k = 0 => r = KeyOf)
  BY <1>1, ChainOf
<1>8. /\ p \in C[k] /\ C[k] \subseteq Towers /\ \A x \in Towers : Nexts(k)[x] = Ref(x, k)
  BY <1>1, <1>3, ChainOf
<1>9. /\ KeyOf' = KeyOf /\ \A i \in Levels : i # k => Nexts(i)' = Nexts(i)
      /\ \E ny : /\ ny = Nexts(k)' /\ ny[p] = w.to
                 /\ \A m \in Towers : m # p => ny[m] = Nexts(k)[m]
  BY <1>1, <1>2, <1>4, LinkNexts
<1>10. PICK ny : /\ ny = Nexts(k)' /\ ny[p] = q
                 /\ \A m \in Towers : m # p => ny[m] = Nexts(k)[m]
  BY <1>4, <1>9
<1>11. PICK X \in SUBSET C[k] : X \union D = C[k] \union D /\ IsChain(X, r, ny, Head, Tail)
  <2>1. /\ Nexts(k)[p] \in D \union {q} /\ \A x \in D : Nexts(k)[x] \in D \union {q}
        /\ \A x \in C[k] \ {p, Tail} : ny[x] = Nexts(k)[x]
    BY <1>1, <1>3, <1>5, <1>8, <1>10
  <2>2. \E X \in SUBSET C[k] : X \union D = C[k] \union D /\ IsChain(X, r, ny, Head, Tail)
    BY <1>6, <1>7, <1>8, <1>10, <2>1, ChainCut
  <2> QED
    BY <2>2
<1>12. PICK B : B = [C EXCEPT ![k] = X]
  OBVIOUS
<1>13. HistoryInv(U, L, C)
  BY DEF Inv
<1>14. B[k] = X /\ (\A i \in Levels : i # k => B[i] = C[i]) /\ HistoryInv(U, L, B)
  BY <1>1, <1>11, <1>12, <1>13 DEF HistoryInv
<1>15. ChainsInv(B)'
  BY <1>1, <1>7, <1>9, <1>10, <1>11, <1>12, ChainsStep
<1>16. \A j \in Levels : \A m \in L[j] : ~Marked(m, j) => m \in B[j]
  <2> SUFFICES ASSUME NEW j \in Levels, NEW m \in L[j], ~Marked(m, j) PROVE m \in B[j]
    OBVIOUS
  <2>1. m \in C[j]
    BY ChainOf
  <2>2. CASE j = k
    BY <1>5, <1>11, <1>14, <2>1, <2>2
  <2>3. CASE j # k
    BY <1>14, <2>1, <2>3
  <2> QED
    BY <2>2, <2>3
<1>17. p \in U \union {Head} /\ k < mem[p].topLevel
  BY <1>1, OnLevel
<1>25. \A m \in Nodes : nvm[m] # Nil => m \in B[0]
  <2> SUFFICES ASSUME NEW m \in Nodes, nvm[m] # Nil PROVE m \in B[0]
    OBVIOUS
  <2>1. m \in C[0] /\ 0 \in Levels
    BY LevelFacts DEF Inv, MemoryInv, NVMIsRight
  <2>2. CASE k = 0
    <3>1. m \notin D
      <4>1. m \in D => m \in U /\ mem[m].deleteFlag
        BY <1>1, <1>5, <2>2, LevelIsTower
      <4> QED
        BY <4>1 DEF Inv, MemoryInv, FlagsAreRight
    <3> QED
      BY <1>11, <1>14, <2>1, <2>2, <3>1
  <2>3. CASE k # 0
    BY <1>14, <2>1, <2>3
  <2> QED
    BY <2>2, <2>3
<1>18. mem' \in [Towers -> NodeFields] /\ HistoryInv(U, L, B)' /\ MemoryInv(U, L, B)'
  <2>1. w.to \in L[k] \union {Tail} /\ \A j \in Levels : L[j] \subseteq L[j]
    BY <1>1, <1>4
  <2>2. \A m \in L[0] \ L[0] : \A j \in Levels : j < mem[m].topLevel => ~Marked(m, j) /\ Ref(m, j) # Nil
    OBVIOUS
  <2> HIDE DEF l
  <2> QED
    BY <1>1, <1>2, <1>4, <1>14, <1>16, <1>17, <1>25, <2>1, <2>2, RefStored
<1>19. Nil \notin U /\ nvm' \in [Nodes -> Int \union {Nil}] /\ free' \in SUBSET Nodes
       /\ call' = [call EXCEPT ![t] = c]
  BY NameFacts DEF Inv, TypeInv, HistoryInv
<1>20. Evolves(Nil, U, L, U, L)
  BY <1>1, <1>2, <1>3, <1>4, <1>17, RefEvolves
<1>21. /\ d \in Locals /\ d.pc # "idle" /\ ThreadInv(U, L, d, c)
       /\ Owner(d, c) => Owner(l, c) /\ d.node = l.node
  BY <1>1, FindGoesDown
<1>22. Owner(d, c) => d.node # Nil
  BY <1>19, <1>21 DEF ThreadInv, OwnerInv
<1>23. ThreadInv(U, L, d, c)'
  BY <1>20, <1>21, <1>22, OtherThreads
<1>24. Inv(U, L, B)'
  BY <1>1, <1>15, <1>18, <1>19, <1>20, <1>21, <1>23, MemoryMove
<1> QED
  BY <1>24

(* The node that could not be linked is marked, and leads nowhere. *)
LEMMA UnlinkedMemory ==
  ASSUME NEW U, NEW L, NEW C, Inv(U, L, C), NEW n \in U, n \notin L[0],
         NEW w \in Links, w.to = Nil, w.marked = TRUE, Stored(n, 0, w), UNCHANGED <<nvm, free>>
  PROVE  /\ mem' \in [Towers -> NodeFields]
         /\ HistoryInv(U, L, C)' /\ MemoryInv(U, L, C)' /\ ChainsInv(C)'
         /\ Evolves(n, U, L, U, L) /\ Marked(n, 0)'
<1>1. /\ U \subseteq Towers /\ n \in Towers /\ n # Head /\ n # Tail /\ 0 \in Levels
      /\ \A i \in Levels : L[i] \subseteq U /\ n \notin L[i]
      /\ TypeInv
  <2>1. \A i \in Levels : 0 <= i
    BY LevelFacts
  <2> QED
    BY <2>1, LevelFacts, LevelIsTower, NameFacts DEF Inv, HistoryInv
<1>2. /\ mem' \in [Towers -> NodeFields]
      /\ \A m \in Towers :
           /\ Key(m)' = Key(m) /\ mem'[m].topLevel = mem[m].topLevel
           /\ mem'[m].valid = mem[m].valid /\ mem'[m].deleteFlag = mem[m].deleteFlag
           /\ \A j \in Levels : IF m = n /\ j = 0
                                THEN Ref(m, j)' = w.to /\ Marked(m, j)' = w.marked
                                ELSE Ref(m, j)' = Ref(m, j) /\ Marked(m, j)' = Marked(m, j)
  BY <1>1, LinkStored
<1>3. /\ Ref(n, 0)' = Nil /\ Marked(n, 0)' = TRUE
      /\ \A m \in Towers : \A j \in Levels :
           m # n \/ j # 0 => Ref(m, j)' = Ref(m, j) /\ Marked(m, j)' = Marked(m, j)
  <2>1. \A j \in Levels : j = 0 => Ref(n, j)' = w.to /\ Marked(n, j)' = w.marked
    BY <1>1, <1>2
  <2> QED
    BY <1>1, <1>2, <2>1
<1>4. /\ SentinelsAreFixed /\ LevelsAreClosed(U, L) /\ LiveNodesAreLinked(L, C)
      /\ \A x \in U : TowerIsRight(L, x) /\ FlagsAreRight(L, x)
      /\ NVMIsRight(U, L, C) /\ HistoryInv(U, L, C)
  BY DEF Inv, MemoryInv
<1>5. HistoryInv(U, L, C)'
  BY <1>1, <1>2, <1>4 DEF HistoryInv
<1>6. SentinelsAreFixed' /\ LevelsAreClosed(U, L)' /\ LiveNodesAreLinked(L, C)'
  <2>1. SentinelsAreFixed' /\ LiveNodesAreLinked(L, C)'
    BY <1>1, <1>2, <1>3, <1>4, NameFacts DEF SentinelsAreFixed, LiveNodesAreLinked
  <2>2. LevelsAreClosed(U, L)'
    BY <1>1, <1>2, <1>3, <1>4, NameFacts DEF LevelsAreClosed
  <2> QED
    BY <2>1, <2>2
<1>7. ASSUME NEW x \in U PROVE TowerIsRight(L, x)' /\ FlagsAreRight(L, x)'
  <2>1. TowerIsRight(L, x) /\ FlagsAreRight(L, x) /\ x \in Towers
    BY <1>1, <1>4
  <2>2. TowerIsRight(L, x)'
    BY <1>1, <1>2, <1>3, <2>1 DEF TowerIsRight
  <2>3. FlagsAreRight(L, x)'
    BY <1>1, <1>2, <1>3, <2>1 DEF FlagsAreRight
  <2> QED
    BY <2>2, <2>3
<1>8. NVMIsRight(U, L, C)'
  <2>1. \A x \in Nodes : nvm'[x] # Nil => x \in C[0] /\ nvm'[x] = Key(x)'
    BY <1>2, <1>4, NameFacts DEF NVMIsRight
  <2>2. \A x \in Nodes \ U : mem'[x].valid => Marked(x, 0)' \/ Ref(x, 0)' = Nil
    BY <1>1, <1>2, <1>3, <1>4, NameFacts DEF NVMIsRight
  <2>3. \A x \in free' : mem'[x].valid /\ (x \in U => x \in L[0] /\ Marked(x, 0)')
    <3>1. \A x \in free : x \in Towers
      BY <1>1, NameFacts DEF TypeInv
    <3> QED
      BY <1>1, <1>2, <1>3, <1>4, <3>1 DEF NVMIsRight
  <2> QED
    BY <2>1, <2>2, <2>3 DEF NVMIsRight
<1>9. ChainsInv(C)'
  <2>1. /\ KeyOf' = KeyOf /\ \A i \in Levels : i # 0 => Nexts(i)' = Nexts(i)
        /\ \E ny : /\ ny = Nexts(0)' /\ ny[n] = w.to
                   /\ \A m \in Towers : m # n => ny[m] = Nexts(0)[m]
    BY <1>1, LinkNexts
  <2>2. PICK ny : ny = Nexts(0)' /\ \A m \in Towers : m # n => ny[m] = Nexts(0)[m]
    BY <2>1
  <2>3. PICK r : IsChain(C[0], r, Nexts(0), Head, Tail) /\ (0 = 0 => r = KeyOf)
    BY <1>1, ChainOf
  <2>4. IsChain(C[0], r, ny, Head, Tail)
    <3>1. \A x \in C[0] \ {Tail} : ny[x] = Nexts(0)[x]
      BY <1>1, <2>2, ChainOf
    <3> QED
      BY <2>3, <3>1, ChainSame
  <2>5. [C EXCEPT ![0] = C[0]] = C
    BY DEF Inv, HistoryInv
  <2>6. ChainsInv([C EXCEPT ![0] = C[0]])'
    BY <1>1, <2>1, <2>2, <2>3, <2>4, ChainsStep
  <2> QED
    BY <2>5, <2>6
<1>10. Evolves(n, U, L, U, L)
  BY <1>1, <1>2, <1>3, NameFacts DEF Evolves
<1> QED
  BY <1>2, <1>3, <1>5, <1>6, <1>7, <1>8, <1>9, <1>10 DEF MemoryInv

(* The node that could not be linked is marked, and leads nowhere. *)
LEMMA MarkUnlinkedMove ==
  ASSUME NEW U, NEW L, NEW C, Inv(U, L, C), NEW t \in Threads, MarkUnlinked(t)
  PROVE  Inv(U, L, C)'
<1> SUFFICES ASSUME NEW l, l = local[t], NEW c, c = call[t], NEW n, n = l.node,
                    NEW d, d = [l EXCEPT !.pc = "undo"], NEW w, w = [to |-> Nil, marked |-> TRUE]
             PROVE  Inv(U, L, C)'
  OBVIOUS
<1>1. /\ l.pc = "markUnlinked" /\ Stored(n, 0, w) /\ Become(t, d) /\ UNCHANGED <<nvm, free, call>>
  BY DEF MarkUnlinked, At, Stored
<1>2. /\ l \in Locals /\ ThreadInv(U, L, l, c) /\ TypeInv
      /\ c \in DS!Calls \union {DS!None} /\ c # DS!None /\ call' = [call EXCEPT ![t] = c]
  BY <1>1, ThreadFacts DEF TypeInv
<1>3. Owner(l, c) /\ Height(l) = 0
  BY <1>1 DEF Owner, Height, Private
<1>4. /\ n \in U /\ c.op = "insert" /\ Key(n) = c.arg /\ l.up = 0
      /\ \A i \in Levels : n \in L[i] <=> i < 0
  BY <1>1, <1>2, <1>3 DEF ThreadInv, OwnerInv, Raising, Finding
<1>5. n \notin L[0] /\ w \in Links /\ w.to = Nil /\ w.marked = TRUE
  BY <1>4, LevelFacts DEF Links
<1>6. /\ mem' \in [Towers -> NodeFields]
      /\ HistoryInv(U, L, C)' /\ MemoryInv(U, L, C)' /\ ChainsInv(C)'
      /\ Evolves(n, U, L, U, L) /\ Marked(n, 0)'
  BY <1>1, <1>4, <1>5, UnlinkedMemory
<1>7. d \in Locals /\ d.pc = "undo" /\ d.node = n /\ d.up = 0 /\ d.result = l.result
  BY <1>2, <1>4 DEF Locals, Labels
<1>8. Owner(d, c) /\ Height(d) = 0
  BY <1>7 DEF Owner, Height, Private
<1>9. OwnerInv(U, L, d, c)'
  <2>1. Key(n)' = Key(n)
    BY <1>4, <1>6 DEF Evolves
  <2> QED
    BY <1>4, <1>6, <1>7, <1>8, <2>1 DEF OwnerInv, Raising, Finding, Private
<1>10. ThreadInv(U, L, d, c)'
  BY <1>7, <1>9 DEF ThreadInv, WalkInv, FindInv, HelpInv, RemoveInv, Finding
<1>11. nvm' \in [Nodes -> Int \union {Nil}] /\ free' \in SUBSET Nodes
       /\ (d.pc = "idle" <=> c = DS!None)
  BY <1>1, <1>2, <1>7 DEF TypeInv
<1> QED
  BY ZenonT(60), <1>1, <1>2, <1>3, <1>6, <1>7, <1>8, <1>10, <1>11, MemoryMove

-----------------------------------------------------------------------------
(* insert links its node. *)

(* A node is linked on a level behind p. *)
Added(L, k, n) == [L EXCEPT ![k] = L[k] \union {n}]

(* The histories with n linked on level k. *)
LEMMA LinkedHistory ==
  ASSUME NEW U, NEW L, NEW C, HistoryInv(U, L, C), NEW k \in Levels, NEW n \in U, n \in Towers,
         \A i \in Levels : n \in L[i] <=> i < k, k < mem[n].topLevel
  PROVE  HistoryInv(U, Added(L, k, n), Added(C, k, n))
<1>1. /\ L \in [Levels -> SUBSET U] /\ C \in [Levels -> SUBSET Towers]
      /\ U \in SUBSET Nodes
      /\ \A i \in Levels : C[i] \subseteq L[i] \union {Head, Tail}
      /\ \A i, j \in Levels : i <= j => L[j] \subseteq L[i]
      /\ \A i \in Levels : \A m \in L[i] : i < mem[m].topLevel
  BY DEF HistoryInv
<1>2. PICK M, B : M = Added(L, k, n) /\ B = Added(C, k, n)
  OBVIOUS
<1>3. /\ M[k] = L[k] \union {n} /\ \A i \in Levels : i # k => M[i] = L[i]
      /\ \A i \in Levels : M[i] \subseteq L[i] \union {n} /\ L[i] \subseteq M[i]
  BY <1>1, <1>2 DEF Added
<1>4. /\ B[k] = C[k] \union {n} /\ \A i \in Levels : i # k => B[i] = C[i]
  BY <1>1, <1>2 DEF Added
<1>5. M \in [Levels -> SUBSET U]
  <2>1. \A i \in Levels : M[i] \in SUBSET U
    BY <1>1, <1>3
  <2> QED
    BY <1>1, <1>2, <2>1 DEF Added
<1>6. B \in [Levels -> SUBSET Towers]
  <2>1. \A i \in Levels : B[i] \in SUBSET Towers
    BY <1>1, <1>4
  <2> QED
    BY <1>1, <1>2, <2>1 DEF Added
<1>7. ASSUME NEW i \in Levels, NEW j \in Levels, i <= j PROVE M[j] \subseteq M[i]
  <2>1. L[j] \subseteq L[i] /\ L[i] \subseteq M[i] /\ M[j] \subseteq L[j] \union {n}
    BY <1>1, <1>3, <1>7
  <2>2. CASE j = k
    <3>1. i = k \/ i < k
      BY <1>7, <2>2, LevelFacts
    <3> QED
      BY <1>3, <2>1, <3>1
  <2>3. CASE j # k
    BY <1>3, <2>1, <2>3
  <2> QED
    BY <2>2, <2>3
<1>8. \A i \in Levels : B[i] \subseteq M[i] \union {Head, Tail}
  BY <1>1, <1>3, <1>4
<1>9. \A i \in Levels : \A m \in M[i] : i < mem[m].topLevel
  BY <1>1, <1>3
<1> QED
  BY <1>1, <1>2, <1>5, <1>6, <1>7, <1>8, <1>9 DEF HistoryInv

(* The level is a chain with n on it, on level 0 in the order of the keys. *)
LEMMA LinkedChain ==
  ASSUME NEW U, NEW L, NEW C, Inv(U, L, C), NEW k \in Levels, NEW n \in Nodes, n \notin L[k],
         NEW p \in L[k] \union {Head}, ~Marked(p, k), Ref(n, k) = Ref(p, k),
         k = 0 => Key(p) < Key(n) /\ Key(n) < Key(Ref(p, 0)),
         NEW w \in Links, w.to = n, Stored(p, k, w)
  PROVE  ChainsInv(Added(C, k, n))'
<1>1. PICK r : IsChain(C[k], r, Nexts(k), Head, Tail) /\ (k = 0 => r = KeyOf)
  BY ChainOf
<1>2. /\ n \in Towers /\ p \in Towers /\ n # Head /\ n # Tail /\ p # Tail
      /\ Ref(p, k) \in Towers /\ TypeInv
  BY OnLevel, LevelIsTower, NameFacts DEF Inv
<1>3. /\ p \in C[k] /\ n \notin C[k] /\ C[k] \subseteq Towers
      /\ \A x \in Towers : Nexts(k)[x] = Ref(x, k) /\ KeyOf[x] = Key(x)
  BY <1>2, ChainOf
<1>4. /\ KeyOf' = KeyOf /\ \A i \in Levels : i # k => Nexts(i)' = Nexts(i)
      /\ \E ny : /\ ny = Nexts(k)' /\ ny[p] = w.to
                 /\ \A m \in Towers : m # p => ny[m] = Nexts(k)[m]
  BY <1>2, LinkNexts
<1>5. PICK ny : /\ ny = Nexts(k)' /\ ny[p] = n
                /\ \A m \in Towers : m # p => ny[m] = Nexts(k)[m]
  BY <1>4
<1>6. PICK X : X = C[k] \union {n}
  OBVIOUS
<1>7. \E ry : IsChain(C[k] \union {n}, ry, ny, Head, Tail) /\ (k = 0 => ry = KeyOf)
  <2>1. ny[n] = Nexts(k)[p] /\ \A x \in C[k] \ {p, Tail} : ny[x] = Nexts(k)[x]
    BY <1>2, <1>3, <1>5
  <2>2. CASE k # 0
    <3>1. PICK nx : nx = Nexts(k)
      OBVIOUS
    <3>2. PICK P : P = C[k]
      OBVIOUS
    <3>3. /\ IsChain(P, r, nx, Head, Tail) /\ p \in P /\ p # Tail /\ n \notin P
          /\ ny[p] = n /\ ny[n] = nx[p] /\ \A x \in P \ {p, Tail} : ny[x] = nx[x]
      BY <1>1, <1>2, <1>3, <1>5, <2>1, <3>1, <3>2
    <3>4. \E ry : IsChain(P \union {n}, ry, ny, Head, Tail)
      <4>1. \A x \in P \ {p, Tail} : ny[x] = nx[x]
        BY <3>3
      <4>2. IsChain(P, r, nx, Head, Tail) /\ p \in P /\ p # Tail /\ n \notin P /\ ny[p] = n /\ ny[n] = nx[p]
        BY <3>3
      <4>3. \A S, s, f, g, x, y :
              IsChain(S, s, f, Head, Tail) /\ x \in S /\ x # Tail /\ y \notin S /\ g[x] = y /\ g[y] = f[x]
              /\ (\A v \in S \ {x, Tail} : g[v] = f[v])
                => \E q : IsChain(S \union {y}, q, g, Head, Tail)
        BY ChainInsert
      <4> QED
        BY <4>1, <4>2, <4>3
    <3> QED
      BY <2>2, <3>2, <3>4
  <2>3. CASE k = 0
    <3>1. PICK nx : nx = Nexts(k)
      OBVIOUS
    <3>2. PICK P : P = C[k]
      OBVIOUS
    <3>3. PICK ry : ry = KeyOf
      OBVIOUS
    <3>4. r = ry /\ Key(n) \in Int
      BY <1>1, <1>2, <2>3, <3>3, Fields
    <3>5. ry[n] \in Int /\ ry[p] < ry[n] /\ ry[n] < ry[nx[p]]
      BY <1>2, <1>3, <2>3, <3>1, <3>3, <3>4
    <3>6. /\ IsChain(P, ry, nx, Head, Tail) /\ p \in P /\ p # Tail /\ n \notin P
          /\ ny[p] = n /\ ny[n] = nx[p] /\ \A x \in P \ {p, Tail} : ny[x] = nx[x]
      BY <1>1, <1>2, <1>3, <1>5, <2>1, <3>1, <3>2, <3>4
    <3>7. IsChain(P \union {n}, ry, ny, Head, Tail)
      BY <3>5, <3>6, ChainInsertAt
    <3> QED
      BY <3>2, <3>3, <3>7
  <2> QED
    BY <2>2, <2>3
<1>8. PICK ry : IsChain(X, ry, ny, Head, Tail) /\ (k = 0 => ry = KeyOf)
  BY <1>6, <1>7
<1>9. ChainsInv([C EXCEPT ![k] = X])'
  BY <1>4, <1>5, <1>8, ChainsStep
<1> QED
  BY <1>6, <1>9 DEF Added

(* The memory and the other threads after n was linked on level k. *)
LEMMA LinkedMemory ==
  ASSUME NEW U, NEW L, NEW C, Inv(U, L, C), NEW k \in Levels, NEW n \in U,
         \A i \in Levels : n \in L[i] <=> i < k, k < mem[n].topLevel,
         NEW p \in L[k] \union {Head}, ~Marked(p, k),
         k = 0 => \A j \in Levels : j < mem[n].topLevel => ~Marked(n, j) /\ Ref(n, j) # Nil,
         NEW w \in Links, w.to = n, w.marked = Marked(p, k), Stored(p, k, w), UNCHANGED <<nvm, free>>
  PROVE  /\ mem' \in [Towers -> NodeFields]
         /\ HistoryInv(U, Added(L, k, n), Added(C, k, n))'
         /\ MemoryInv(U, Added(L, k, n), Added(C, k, n))'
         /\ Evolves(n, U, L, U, Added(L, k, n))
<1>1. PICK M, B : M = Added(L, k, n) /\ B = Added(C, k, n)
  OBVIOUS
<1>2. /\ L \in [Levels -> SUBSET U] /\ C \in [Levels -> SUBSET Towers] /\ HistoryInv(U, L, C)
      /\ n \in Towers /\ p \in U \union {Head} /\ k < mem[p].topLevel
      /\ n \notin L[k]
  <2>1. ~(k < k)
    BY LevelFacts
  <2> QED
    BY <2>1, OnLevel, NameFacts DEF Inv, HistoryInv
<1>3. HistoryInv(U, M, B)
  BY <1>1, <1>2, LinkedHistory
<1>4. /\ M[k] = L[k] \union {n} /\ \A i \in Levels : i # k => M[i] = L[i]
      /\ \A i \in Levels : L[i] \subseteq M[i]
      /\ \A i \in Levels : M[i] \subseteq L[i] \union {n}
  BY <1>1, <1>2 DEF Added
<1>5. /\ B[k] = C[k] \union {n} /\ \A i \in Levels : i # k => B[i] = C[i]
  BY <1>1, <1>2 DEF Added
<1>6. \A j \in Levels : \A m \in M[j] : ~Marked(m, j) => m \in B[j]
  <2> SUFFICES ASSUME NEW j \in Levels, NEW m \in M[j], ~Marked(m, j) PROVE m \in B[j]
    OBVIOUS
  <2>1. m \in L[j] => m \in C[j]
    BY ChainOf
  <2> QED
    BY <1>4, <1>5, <2>1
<1>7. /\ \A m \in M[0] \ L[0] : \A j \in Levels : j < mem[m].topLevel => ~Marked(m, j) /\ Ref(m, j) # Nil
      /\ w.to \in M[k] \union {Tail}
  <2>1. 0 \in Levels
    BY LevelFacts
  <2> QED
    BY <1>4, <2>1
<1>8. \A m \in Nodes : nvm[m] # Nil => m \in B[0]
  <2>1. 0 \in Levels /\ \A m \in Nodes : nvm[m] # Nil => m \in C[0]
    BY LevelFacts DEF Inv, MemoryInv, NVMIsRight
  <2> QED
    BY <1>5, <2>1
<1>9. mem' \in [Towers -> NodeFields] /\ HistoryInv(U, M, B)' /\ MemoryInv(U, M, B)'
  BY <1>2, <1>3, <1>4, <1>6, <1>7, <1>8, RefStored
<1>10. Evolves(n, U, L, U, M)
  <2>1. \A i \in Levels : L[i] \subseteq M[i] /\ M[i] \subseteq L[i] \union {n}
    BY <1>4
  <2>2. p = Head \/ (p \in L[k] /\ ~Marked(p, k))
    OBVIOUS
  <2> QED
    BY <1>2, <2>1, <2>2, RefEvolves
<1> QED
  BY <1>1, <1>9, <1>10

(* insert links its node. *)
LEMMA LinkMove ==
  ASSUME NEW U, NEW L, NEW C, Inv(U, L, C), NEW t \in Threads, At(t, "link"),
         CAS(local[t].preds[0], 0, local[t].succs[0], local[t].node),
         Become(t, [Forget(local[t], {0}) EXCEPT !.pc = "makeValid", !.result = TRUE]),
         UNCHANGED <<nvm, free, call>>
  PROVE  \E M, B : Inv(U, M, B)' /\ \A i \in Levels : L[i] \subseteq M[i]
<1> DEFINE l == local[t]
<1> SUFFICES ASSUME NEW c, c = call[t], NEW n, n = l.node, NEW p, p = l.preds[0],
                    NEW w, w = To(n),
                    NEW d, d = [Forget(l, {0}) EXCEPT !.pc = "makeValid", !.result = TRUE]
             PROVE  \E M, B : Inv(U, M, B)' /\ \A i \in Levels : L[i] \subseteq M[i]
  OBVIOUS
<1>1. /\ l.pc = "link" /\ l \in Locals /\ ThreadInv(U, L, l, c) /\ TypeInv /\ 0 \in Levels
      /\ c \in DS!Calls \union {DS!None} /\ c # DS!None
  BY ThreadFacts, LevelFacts DEF At
<1>2. Owner(l, c) /\ Height(l) = 0
  BY <1>1 DEF Owner, Height, Private
<1>3. /\ c.op = "insert"
      /\ n \in U /\ Key(n) = c.arg
      /\ \A i \in Levels : n \in L[i] <=> i < 0
      /\ l.up = 0
      /\ \A i \in Levels : i < mem[n].topLevel => Ref(n, i) = l.succs[i] /\ ~Marked(n, i)
      /\ Key(p) < c.arg /\ c.arg < Key(l.succs[0])
      /\ \A i \in Levels : 0 <= i /\ i < mem[n].topLevel => Kept(L, l, i)
  BY <1>1, <1>2 DEF ThreadInv, OwnerInv, Raising, Finding
<1>4. /\ n \in Nodes /\ n \in Towers /\ n # Head /\ n # Tail /\ 0 < mem[n].topLevel
      /\ \A i \in Levels : n \notin L[i]
  BY <1>3, NameFacts, LevelFacts DEF Inv, HistoryInv, MemoryInv, TowerIsRight
<1>5. /\ p \in L[0] \union {Head} /\ l.succs[0] \in L[0] \union {Tail} /\ p \in Towers
      /\ Ref(n, 0) = l.succs[0]
  BY SMTT(30), <1>1, <1>3, <1>4, LevelIsTower, NameFacts DEF Kept
<1>6. mem[p].link[0] = To(l.succs[0]) /\ Stored(p, 0, w)
  BY DEF CAS, Stored
<1>7. Ref(p, 0) = l.succs[0] /\ Marked(p, 0) = FALSE
  BY <1>1, <1>6 DEF Ref, Marked, To
<1>8. w \in Links /\ w.to = n /\ w.marked = Marked(p, 0)
  BY <1>4, <1>7 DEF Links, To
<1>21. \A j \in Levels : j < mem[n].topLevel => ~Marked(n, j) /\ Ref(n, j) # Nil
  <2>1. \A j \in Levels : 0 <= j
    BY LevelFacts
  <2>2. \A j \in Levels : l.succs[j] \in L[j] \union {Tail} => l.succs[j] # Nil
    BY LevelIsTower, NameFacts
  <2> QED
    BY <1>3, <2>1, <2>2 DEF Kept
<1>9. ChainsInv(Added(C, 0, n))'
  BY <1>1, <1>3, <1>4, <1>5, <1>6, <1>7, <1>8, LinkedChain
<1>10. PICK M, B : M = Added(L, 0, n) /\ B = Added(C, 0, n)
  BY SMTT(30)
<1>11. /\ mem' \in [Towers -> NodeFields] /\ HistoryInv(U, M, B)' /\ MemoryInv(U, M, B)'
       /\ Evolves(n, U, L, U, M) /\ ChainsInv(B)'
  <2>1. ~Marked(p, 0)
    BY <1>7
  <2> QED
    BY <1>1, <1>3, <1>4, <1>5, <1>6, <1>8, <1>9, <1>10, <1>21, <2>1, LinkedMemory
<1>12. M[0] = L[0] \union {n} /\ \A i \in Levels : i # 0 => M[i] = L[i]
  <2>1. L \in [Levels -> SUBSET U]
    BY DEF Inv, HistoryInv
  <2> QED
    BY <1>1, <1>10, <2>1 DEF Added
<1>13. nvm' \in [Nodes -> Int \union {Nil}] /\ free' \in SUBSET Nodes
       /\ call' = [call EXCEPT ![t] = c]
  BY <1>1 DEF TypeInv
<1>14. /\ d \in Locals /\ d.pc = "makeValid" /\ d.node = n /\ d.up = 0 /\ d.result = TRUE
       /\ \A i \in Levels : i # 0 => d.preds[i] = l.preds[i] /\ d.succs[i] = l.succs[i]
  <2>1. /\ Forget(l, {0}) \in Locals /\ Forget(l, {0}).node = n /\ Forget(l, {0}).up = 0
        /\ \A i \in Levels : i # 0 => /\ Forget(l, {0}).preds[i] = l.preds[i]
                                      /\ Forget(l, {0}).succs[i] = l.succs[i]
    BY <1>1, <1>3, ForgetFacts
  <2>2. "makeValid" \in Labels
    BY DEF Labels
  <2>3. \A f \in Locals : LET g == [f EXCEPT !.pc = "makeValid", !.result = TRUE] IN
          /\ g \in Locals /\ g.pc = "makeValid" /\ g.node = f.node /\ g.up = f.up /\ g.result = TRUE
          /\ g.preds = f.preds /\ g.succs = f.succs
    BY <2>2 DEF Locals
  <2> QED
    BY <2>1, <2>3
<1>15. Owner(d, c) /\ Height(d) = 1
  BY <1>3, <1>14 DEF Owner, Height, Private
<1>16. OwnerInv(U, M, d, c)'
  <2>1. Key(n)' = Key(n) /\ mem'[n].topLevel = mem[n].topLevel
    BY <1>3, <1>11 DEF Evolves
  <2>2. \A i \in Levels : n \in M[i] <=> i < 1
    BY <1>4, <1>12, LevelFacts
  <2>3. \A i \in Levels : 1 <= i /\ i < mem[n].topLevel => Kept(M, d, i)
    <3>1. \A i \in Levels : 1 <= i => 0 <= i /\ i # 0
      BY LevelFacts
    <3> QED
      BY <1>3, <1>12, <1>14, <3>1 DEF Kept
  <2> QED
    BY <1>3, <1>14, <1>15, <2>1, <2>2, <2>3 DEF OwnerInv, Raising, Finding, Private
<1>17. ThreadInv(U, M, d, c)'
  BY <1>3, <1>12, <1>14, <1>15, <1>16 DEF ThreadInv, WalkInv, FindInv, HelpInv, RemoveInv, Finding
<1>18. Become(t, d)
  OBVIOUS
<1>19. Inv(U, M, B)'
  <2>1. (d.pc = "idle" <=> c = DS!None) /\ (n \in U => Owner(l, c) /\ n = l.node)
        /\ (Owner(d, c) /\ d.node \in U => Owner(l, c) /\ d.node = l.node)
    BY <1>1, <1>2, <1>14
  <2> QED
    BY ZenonT(60), <1>1, <1>11, <1>13, <1>14, <1>17, <1>18, <2>1, MemoryMove
<1>20. \A i \in Levels : L[i] \subseteq M[i]
  BY <1>12
<1> QED
  BY <1>19, <1>20

(* What the invariant says of an insertion that links the upper levels. *)
LEMMA RaiserFacts ==
  ASSUME NEW U, NEW L, NEW C, Inv(U, L, C), NEW t \in Threads, local[t].pc \in {"raise", "linkUpper"}
  PROVE  LET l == local[t]
             n == l.node
             u == l.up
         IN  /\ l \in Locals /\ ThreadInv(U, L, l, call[t]) /\ TypeInv
             /\ call[t] \in DS!Calls \union {DS!None} /\ call[t] # DS!None
             /\ Owner(l, call[t]) /\ call[t].op = "insert" /\ l.result
             /\ n \in U /\ n \in Towers /\ n # Head /\ n # Tail
             /\ u \in Levels /\ 0 < u /\ u < mem[n].topLevel /\ mem[n].topLevel \in Nat
             /\ \A i \in Levels : n \in L[i] <=> i < u
             /\ Key(n) = call[t].arg /\ Marked(n, u) \in BOOLEAN
             /\ l.pc = "linkUpper" => Ref(n, u) = l.succs[u]
             /\ \A i \in Levels : u <= i /\ i < mem[n].topLevel => Kept(L, l, i)
             /\ Kept(L, l, u) /\ l.preds[u] \in Towers
<1> DEFINE l == local[t]
           n == l.node
           u == l.up
<1>1. /\ l \in Locals /\ ThreadInv(U, L, l, call[t]) /\ TypeInv
      /\ call[t] \in DS!Calls \union {DS!None} /\ call[t] # DS!None
  BY ThreadFacts
<1>2. Owner(l, call[t]) /\ u \in Levels
  BY <1>1, LocalFields DEF ThreadInv, HelpInv
<1>3. 0 < u
  BY <1>1, <1>2 DEF ThreadInv, OwnerInv, Raising
<1>4. Height(l) = u
  BY <1>1, <1>2, <1>3, LevelFacts DEF Height, Private
<1>5. /\ call[t].op = "insert"
      /\ n \in U /\ Key(n) = call[t].arg
      /\ \A i \in Levels : n \in L[i] <=> i < u
      /\ u < mem[n].topLevel
      /\ l.pc = "linkUpper" => Ref(n, u) = l.succs[u]
      /\ \A i \in Levels : u <= i /\ i < mem[n].topLevel => Kept(L, l, i)
  BY <1>1, <1>2, <1>4 DEF ThreadInv, OwnerInv, Raising
<1>6. l.result
  BY <1>2 DEF Owner, Private
<1>7. n \in Towers /\ n # Head /\ n # Tail
  BY <1>5, NameFacts DEF Inv, HistoryInv
<1>8. Marked(n, u) \in BOOLEAN /\ mem[n].topLevel \in Nat
  <2>1. mem[n].topLevel \in 0..MAX_LEVEL /\ MAX_LEVEL \in Nat
    BY <1>1, <1>7, Fields, LevelFacts
  <2> QED
    BY <1>1, <1>2, <1>7, <2>1, Fields
<1>9. Kept(L, l, u)
  <2>1. \A i \in Nat : i <= i
    OBVIOUS
  <2>2. u <= u
    BY <1>2, <2>1, LevelFacts
  <2> QED
    BY <1>2, <1>5, <2>2
<1>10. l.preds[u] \in Towers
  BY <1>2, <1>9, LevelIsTower, NameFacts DEF Kept
<1> QED
  BY <1>1, <1>2, <1>3, <1>5, <1>6, <1>7, <1>8, <1>9, <1>10

(* The link of a level that is not linked yet is prepared. *)
LEMMA RaiseLinkMove ==
  ASSUME NEW U, NEW L, NEW C, Inv(U, L, C), NEW t \in Threads, RaiseLink(t)
  PROVE  Inv(U, L, C)'
<1> DEFINE l == local[t]
<1> SUFFICES ASSUME NEW c, c = call[t], NEW n, n = l.node, NEW u, u = l.up,
                    NEW w, w = To(l.succs[u]), NEW d, d = [l EXCEPT !.pc = "linkUpper"]
             PROVE  Inv(U, L, C)'
  OBVIOUS
<1>1. /\ l.pc = "raise" /\ Stored(n, u, w) /\ ~Marked(n, u) /\ Become(t, d)
      /\ UNCHANGED <<nvm, free, call>>
  BY DEF RaiseLink, At, Stored
<1>2. /\ l \in Locals /\ ThreadInv(U, L, l, c) /\ TypeInv
      /\ c \in DS!Calls \union {DS!None} /\ c # DS!None
      /\ Owner(l, c) /\ c.op = "insert" /\ l.result
      /\ n \in U /\ n \in Towers /\ n # Head /\ n # Tail
      /\ u \in Levels /\ 0 < u /\ u < mem[n].topLevel
      /\ \A i \in Levels : n \in L[i] <=> i < u
      /\ Key(n) = c.arg
      /\ Marked(n, u) \in BOOLEAN
      /\ \A i \in Levels : u <= i /\ i < mem[n].topLevel => Kept(L, l, i)
      /\ Kept(L, l, u)
  BY <1>1, RaiserFacts
<1>3. n \notin L[u] /\ n \notin C[u]
  BY <1>2, ChainOf, LevelFacts
<1>4. l.succs[u] \in L[u] \union {Tail} /\ l.succs[u] \in Towers
  BY <1>2, LevelIsTower, NameFacts DEF Kept
<1>5. w \in Links /\ w.to = l.succs[u] /\ w.marked = Marked(n, u)
  BY <1>1, <1>2, <1>4 DEF Links, To
<1>6. /\ KeyOf' = KeyOf /\ \A i \in Levels : i # u => Nexts(i)' = Nexts(i)
      /\ \E ny : /\ ny = Nexts(u)' /\ ny[n] = w.to
                 /\ \A m \in Towers : m # n => ny[m] = Nexts(u)[m]
  BY <1>1, <1>2, <1>5, LinkNexts
<1>7. PICK ny : /\ ny = Nexts(u)'
                /\ \A m \in Towers : m # n => ny[m] = Nexts(u)[m]
  BY <1>6
<1>8. PICK r : IsChain(C[u], r, Nexts(u), Head, Tail) /\ (u = 0 => r = KeyOf)
  BY <1>2, ChainOf
<1>9. IsChain(C[u], r, ny, Head, Tail)
  <2>1. \A x \in C[u] \ {Tail} : ny[x] = Nexts(u)[x]
    BY <1>2, <1>3, <1>7, ChainOf
  <2> QED
    BY <1>8, <2>1, ChainSame
<1>10. ChainsInv(C)'
  <2>1. [C EXCEPT ![u] = C[u]] = C
    BY DEF Inv, HistoryInv
  <2>2. ChainsInv([C EXCEPT ![u] = C[u]])'
    BY <1>2, <1>6, <1>7, <1>8, <1>9, ChainsStep
  <2> QED
    BY <2>1, <2>2
<1>11. /\ HistoryInv(U, L, C) /\ (\A j \in Levels : \A m \in L[j] : ~Marked(m, j) => m \in C[j])
       /\ \A m \in Nodes : nvm[m] # Nil => m \in C[0]
  BY ChainOf DEF Inv, MemoryInv, NVMIsRight
<1>12. mem' \in [Towers -> NodeFields] /\ HistoryInv(U, L, C)' /\ MemoryInv(U, L, C)'
  BY <1>1, <1>2, <1>4, <1>5, <1>11, RefStored
<1>13. nvm' \in [Nodes -> Int \union {Nil}] /\ free' \in SUBSET Nodes
       /\ call' = [call EXCEPT ![t] = c]
  BY <1>1, <1>2 DEF TypeInv
<1>14. Evolves(n, U, L, U, L)
  BY <1>1, <1>2, <1>3, <1>5, RefEvolves
<1>15. /\ d \in Locals /\ d.pc = "linkUpper" /\ d.node = n /\ d.up = u /\ d.result = l.result
       /\ d.preds = l.preds /\ d.succs = l.succs
  BY <1>2 DEF Locals, Labels
<1>16. Owner(d, c) /\ Height(d) = u
  BY <1>2, <1>15, LevelFacts DEF Owner, Height, Private
<1>17. OwnerInv(U, L, d, c)'
  <2>1. Key(n)' = Key(n) /\ mem'[n].topLevel = mem[n].topLevel
    BY <1>2, <1>14 DEF Evolves
  <2>2. \A i \in Levels : u <= i /\ i < mem[n].topLevel => Kept(L, d, i)
    BY <1>2, <1>15 DEF Kept
  <2>3. Ref(n, u)' = d.succs[u]
    BY <1>1, <1>2, <1>5, <1>15, LinkStored
  <2> QED
    BY <1>2, <1>15, <1>16, <2>1, <2>2, <2>3 DEF OwnerInv, Raising
<1>18. ThreadInv(U, L, d, c)'
  BY <1>2, <1>15, <1>16, <1>17 DEF ThreadInv, WalkInv, FindInv, HelpInv, RemoveInv, Finding
<1> QED
  BY ZenonT(60), <1>1, <1>2, <1>10, <1>12, <1>13, <1>14, <1>15, <1>18, MemoryMove

(* An insertion goes on to the next level. *)
RaisedOn(l) == [Forget(l, {l.up}) EXCEPT !.pc = "raise", !.up = @ + 1]

(* What it has then. *)
LEMMA RaisedFurther ==
  ASSUME NEW l \in Locals, l.up + 1 \in Levels
  PROVE  LET d == RaisedOn(l) IN
         /\ d \in Locals /\ d.pc = "raise" /\ d.node = l.node /\ d.up = l.up + 1
         /\ d.result = l.result
         /\ \A i \in Levels : i # l.up => d.preds[i] = l.preds[i] /\ d.succs[i] = l.succs[i]
<1>1. PICK f : f = Forget(l, {l.up})
  OBVIOUS
<1>2. /\ f \in Locals /\ f.node = l.node /\ f.up = l.up /\ f.result = l.result
      /\ \A i \in Levels : i \notin {l.up} => f.preds[i] = l.preds[i] /\ f.succs[i] = l.succs[i]
  BY <1>1, ForgetFacts
<1>3. LET h == [f EXCEPT !.pc = "raise", !.up = @ + 1] IN
        /\ h \in Locals /\ h.pc = "raise" /\ h.node = f.node /\ h.up = l.up + 1
        /\ h.result = f.result /\ h.preds = f.preds /\ h.succs = f.succs
  BY <1>2 DEF Locals, Labels
<1> QED
  BY <1>1, <1>2, <1>3 DEF RaisedOn

(* insert links an upper level of its node. *)
LEMMA LinkUpperMove ==
  ASSUME NEW U, NEW L, NEW C, Inv(U, L, C), NEW t \in Threads, LinkUpper(t)
  PROVE  \E M, B : Inv(U, M, B)' /\ \A i \in Levels : L[i] \subseteq M[i]
<1> DEFINE l == local[t]
<1> SUFFICES ASSUME NEW c, c = call[t], NEW n, n = l.node, NEW u, u = l.up, NEW p, p = l.preds[u],
                    NEW w, w = To(n)
             PROVE  \E M, B : Inv(U, M, B)' /\ \A i \in Levels : L[i] \subseteq M[i]
  BY ZenonT(60)
<1>1. /\ l.pc = "linkUpper" /\ Stored(p, u, w) /\ mem[p].link[u] = To(l.succs[u])
      /\ UNCHANGED <<nvm, free>>
  BY ZenonT(60) DEF LinkUpper, At, Stored, CAS
<1>2. /\ l \in Locals /\ ThreadInv(U, L, l, c) /\ TypeInv
      /\ c \in DS!Calls \union {DS!None} /\ c # DS!None
      /\ Owner(l, c) /\ c.op = "insert" /\ l.result
      /\ n \in U /\ n \in Towers /\ n # Head /\ n # Tail
      /\ u \in Levels /\ 0 < u /\ u < mem[n].topLevel /\ mem[n].topLevel \in Nat
      /\ \A i \in Levels : n \in L[i] <=> i < u
      /\ Key(n) = c.arg
      /\ Ref(n, u) = l.succs[u]
      /\ \A i \in Levels : u <= i /\ i < mem[n].topLevel => Kept(L, l, i)
      /\ Kept(L, l, u) /\ p \in Towers
  BY <1>1, RaiserFacts
<1>3. n \notin L[u] /\ p \in L[u] \union {Head}
  BY <1>2, LevelFacts DEF Kept
<1>4. Ref(p, u) = l.succs[u] /\ Marked(p, u) = FALSE
  BY <1>1 DEF Ref, Marked, To
<1>5. w \in Links /\ w.to = n /\ w.marked = Marked(p, u)
  BY <1>2, <1>4 DEF Links, To
<1>6. ChainsInv(Added(C, u, n))'
  <2>1. u # 0 /\ n \in Nodes
    BY <1>2, LevelFacts DEF Towers
  <2> QED
    BY <1>1, <1>2, <1>3, <1>4, <1>5, <2>1, LinkedChain
<1>7. PICK M, B : M = Added(L, u, n) /\ B = Added(C, u, n)
  BY SMTT(30)
<1>8. /\ mem' \in [Towers -> NodeFields] /\ HistoryInv(U, M, B)' /\ MemoryInv(U, M, B)'
      /\ Evolves(n, U, L, U, M) /\ ChainsInv(B)'
  <2>1. ~Marked(p, u)
    BY <1>4
  <2> QED
    BY <1>1, <1>2, <1>3, <1>5, <1>6, <1>7, <2>1, LinkedMemory
<1>9. M[u] = L[u] \union {n} /\ \A i \in Levels : i # u => M[i] = L[i]
  <2>1. L \in [Levels -> SUBSET U]
    BY DEF Inv, HistoryInv
  <2> QED
    BY <1>2, <1>7, <2>1 DEF Added
<1>17. \A i \in Levels : L[i] \subseteq M[i]
  BY <1>9
<1>18. nvm' \in [Nodes -> Int \union {Nil}] /\ free' \in SUBSET Nodes
  BY <1>1, <1>2 DEF TypeInv
<1>20. CASE Return(t, TRUE)
  <2>1. Become(t, Idle) /\ call' = [call EXCEPT ![t] = DS!None]
    BY <1>20 DEF Return
  <2>2. ThreadInv(U, M, Idle, DS!None)' /\ ~Owner(Idle, DS!None)
    BY IdleAfter, IdleThread
  <2>3. Inv(U, M, B)'
    <3>1. n \in U => Owner(l, c) /\ n = l.node
      BY <1>2
    <3> QED
      BY <1>8, <1>18, <2>1, <2>2, <3>1, IdleIsLocal, MemoryMove
  <2> QED
    BY <1>17, <2>3
<1>21. CASE /\ Raises(t) /\ Become(t, [Forget(l, {l.up}) EXCEPT !.pc = "raise", !.up = @ + 1])
            /\ UNCHANGED call
  <2> SUFFICES ASSUME NEW d, d = RaisedOn(l)
               PROVE  Inv(U, M, B)'
    BY <1>17
  <2>1. u + 1 < mem[n].topLevel /\ u + 1 \in Levels /\ 0 < u + 1
    <3>1. mem[n].topLevel \in 0..MAX_LEVEL
      BY <1>2, Fields
    <3> QED
      BY <1>2, <1>21, <3>1, LevelsAssumption DEF Raises, Levels
  <2>2. /\ d \in Locals /\ d.pc = "raise" /\ d.node = n /\ d.up = u + 1 /\ d.result = l.result
        /\ \A i \in Levels : i # u => d.preds[i] = l.preds[i] /\ d.succs[i] = l.succs[i]
    <3>1. l \in Locals /\ l.up = u /\ l.node = n /\ l.up + 1 \in Levels
      BY <1>2, <2>1
    <3>2. \A k \in Locals : k.up + 1 \in Levels =>
            LET r == RaisedOn(k) IN
            /\ r \in Locals /\ r.pc = "raise" /\ r.node = k.node /\ r.up = k.up + 1
            /\ r.result = k.result
            /\ \A i \in Levels : i # k.up => r.preds[i] = k.preds[i] /\ r.succs[i] = k.succs[i]
      BY RaisedFurther
    <3> QED
      BY <3>1, <3>2
  <2>3. Owner(d, c) /\ Height(d) = u + 1
    <3>1. u + 1 # 0
      BY <1>2, LevelFacts
    <3> QED
      BY <1>2, <2>2, <3>1 DEF Owner, Height, Private
  <2>4. OwnerInv(U, M, d, c)'
    <3>1. Key(n)' = Key(n) /\ mem'[n].topLevel = mem[n].topLevel
      BY <1>2, <1>8 DEF Evolves
    <3>2. \A i \in Levels : n \in M[i] <=> i < u + 1
      BY <1>2, <1>9, LevelFacts
    <3>3. \A i \in Levels : u + 1 <= i /\ i < mem[n].topLevel => Kept(M, d, i)
      <4>1. \A i \in Levels : u + 1 <= i => u <= i /\ i # u
        BY <1>2, LevelFacts
      <4> QED
        BY <1>2, <1>9, <2>2, <4>1 DEF Kept
    <3> QED
      BY <1>2, <2>1, <2>2, <2>3, <3>1, <3>2, <3>3 DEF OwnerInv, Raising
  <2>5. ThreadInv(U, M, d, c)'
    BY <1>2, <2>2, <2>3, <2>4 DEF ThreadInv, WalkInv, FindInv, HelpInv, RemoveInv, Finding
  <2>6. Become(t, d) /\ call' = [call EXCEPT ![t] = c]
    BY <1>2, <1>21 DEF TypeInv, RaisedOn
  <2> QED
    <3>1. (d.pc = "idle" <=> c = DS!None) /\ (n \in U => Owner(l, c) /\ n = l.node)
          /\ (Owner(d, c) /\ d.node \in U => Owner(l, c) /\ d.node = l.node)
      BY <1>2, <2>2
    <3> QED
      BY ZenonT(60), <1>2, <1>8, <1>18, <2>2, <2>5, <2>6, <3>1, MemoryMove
<1> QED
  BY ZenonT(60), <1>20, <1>21 DEF LinkUpper

-----------------------------------------------------------------------------
(* What a thread or a level leads to. *)

(* What a reference may be. *)
Names == Towers \union {Nil}

(* Which reference leads to which. *)
Leads == {gh \in Names \X Names : gh[1] # Nil /\ \E i \in 0..(mem[gh[1]].topLevel - 1) : gh[2] = Ref(gh[1], i)}

(* The levels of a node are levels. *)
LEMMA TowerLevels ==
  ASSUME TypeInv, NEW n \in Towers
  PROVE  \A i : i \in 0..(mem[n].topLevel - 1) <=> i \in Levels /\ i < mem[n].topLevel
<1>1. mem[n].topLevel \in 0..MAX_LEVEL /\ MAX_LEVEL \in Nat
  BY Fields, LevelFacts
<1> QED
  BY <1>1 DEF Levels

(* The threads hold references. *)
LEMMA RootsAreNames ==
  ASSUME TypeInv
  PROVE  Roots \in SUBSET Names
<1>1. ASSUME NEW t \in Threads
      PROVE  /\ {local[t].pred, local[t].from, local[t].curr, local[t].node} \subseteq Names
             /\ \A i \in Levels : {local[t].preds[i], local[t].succs[i]} \subseteq Names
  <2>1. local[t] \in Locals
    BY DEF TypeInv
  <2> QED
    BY <2>1, LocalFields DEF Names
<1>2. Head \in Names
  BY NameFacts DEF Names
<1> QED
  BY <1>1, <1>2 DEF Roots

(* Referenced is what as many rounds as there are nodes reach. *)
LEMMA ReferencedRounds ==
  ASSUME TypeInv
  PROVE  \E f : /\ Rounds(f, Cardinality(Nodes), Names, Leads, Roots)
                /\ Referenced = f[Cardinality(Nodes)]
<1> DEFINE N == Cardinality(Nodes)
           o == Roots
           G(x) == x \union UNION {{Ref(n, i) : i \in 0..(mem[n].topLevel - 1)} : n \in x \ {Nil}}
           Rec(f) == f = [k \in 0..N |-> IF k = 0 THEN o ELSE G(f[k-1])]
<1>1. N \in Nat
  BY NodesAssumption, FS_CardinalityType
<1>2. ASSUME NEW x \in SUBSET Names
      PROVE  G(x) = OneRound(x, Names, Leads)
  <2>1. ASSUME NEW g \in x, g # Nil, NEW i \in 0..(mem[g].topLevel - 1)
        PROVE  Ref(g, i) \in Names /\ <<g, Ref(g, i)>> \in Leads
    <3>1. g \in Towers
      BY <2>1 DEF Names
    <3>2. Ref(g, i) \in Names
      BY <2>1, <3>1, TowerLevels, Fields DEF Names
    <3> QED
      BY <2>1, <3>2 DEF Leads
  <2>2. \A h \in G(x) : h \in OneRound(x, Names, Leads)
    <3> SUFFICES ASSUME NEW h \in G(x) PROVE h \in OneRound(x, Names, Leads)
      OBVIOUS
    <3>1. CASE h \in x
      BY <3>1 DEF OneRound
    <3>2. CASE \E g \in x \ {Nil} : \E i \in 0..(mem[g].topLevel - 1) : h = Ref(g, i)
      BY <2>1, <3>2 DEF OneRound
    <3> QED
      BY <3>1, <3>2
  <2>3. \A h \in OneRound(x, Names, Leads) : h \in G(x)
    <3> SUFFICES ASSUME NEW h \in OneRound(x, Names, Leads) PROVE h \in G(x)
      OBVIOUS
    <3>1. CASE h \in x
      BY <3>1
    <3>2. CASE \E g \in x : <<g, h>> \in Leads
      <4>1. PICK g \in x : g # Nil /\ \E i \in 0..(mem[g].topLevel - 1) : h = Ref(g, i)
        BY <3>2 DEF Leads
      <4> QED
        BY <4>1
    <3> QED
      BY <3>1, <3>2 DEF OneRound
  <2> QED
    BY <2>2, <2>3
<1>3. o \in SUBSET Names
  BY RootsAreNames
<1>4. PICK g : Rounds(g, N, Names, Leads, o)
  <2> HIDE DEF N, o
  <2> QED
    BY <1>1, <1>3, RoundsExist
<1>5. Rec(g)
  <2>1. g \in [0..N -> SUBSET Names] /\ \A k \in 1..N : g[k] = OneRound(g[k-1], Names, Leads)
    BY <1>4 DEF Rounds
  <2>2. \A k \in 1..N : g[k-1] \in SUBSET Names
    BY <1>1, <2>1
  <2> HIDE DEF G, N
  <2>3. \A k \in 1..N : g[k] = G(g[k-1])
    BY <1>2, <2>1, <2>2
  <2>4. \A k \in 0..N : g[k] = IF k = 0 THEN o ELSE G(g[k-1])
    BY <1>1, <1>4, <2>3 DEF Rounds
  <2> QED
    BY <2>1, <2>4
<1>6. PICK f : Rec(f) /\ Referenced = f[N]
  <2>1. Rec(CHOOSE f : Rec(f))
    BY <1>5
  <2>2. Referenced = (CHOOSE f : Rec(f))[N]
    BY DEF Referenced
  <2> QED
    BY <2>1, <2>2
<1>7. f = [k \in 0..N |-> f[k]] /\ f[0] = o /\ \A k \in 1..N : f[k] = G(f[k-1])
  <2> HIDE DEF G, N, o
  <2> QED
    BY <1>1, <1>6
<1>8. \A k \in 1..N : f[k-1] \in SUBSET Names => f[k] = OneRound(f[k-1], Names, Leads)
  <2> HIDE DEF G
  <2> QED
    BY <1>2, <1>7
<1> HIDE DEF N, o, G
<1>9. Rounds(f, N, Names, Leads, o)
  BY <1>1, <1>3, <1>7, <1>8, RoundsOfRecursion
<1> QED
  BY <1>6, <1>9 DEF N, o

(* The threads hold nothing that is not Referenced, and no link in use leads *)
(* out of it.                                                                *)
LEMMA ReferencedCloses ==
  ASSUME NEW U, NEW L, NEW C, Inv(U, L, C)
  PROVE  /\ Roots \subseteq Referenced
         /\ \A n \in (U \union {Head}) \intersect Referenced : \A i \in Levels :
              i < mem[n].topLevel /\ Ref(n, i) # Nil => Ref(n, i) \in Referenced \union {Tail}
<1>1. TypeInv /\ Cardinality(Nodes) \in Nat /\ IsFiniteSet(Nodes)
  BY NodesAssumption, FS_CardinalityType DEF Inv
<1>2. PICK f : /\ Rounds(f, Cardinality(Nodes), Names, Leads, Roots)
               /\ Referenced = f[Cardinality(Nodes)]
  BY <1>1, ReferencedRounds
<1>3. Roots \subseteq Referenced /\ Referenced \subseteq Names
  BY <1>1, <1>2, RoundsGrow
<1>4. Nodes \subseteq Names /\ Cardinality(Nodes) <= Cardinality(Nodes)
  BY <1>1 DEF Names, Towers
<1>5. \A g \in Names, h \in Nodes : <<g, h>> \in Leads => g \in Roots \union Nodes
  <2> SUFFICES ASSUME NEW g \in Names, NEW h \in Nodes, <<g, h>> \in Leads PROVE g \in Roots \union Nodes
    OBVIOUS
  <2>1. g # Nil /\ g \in Towers /\ \E i \in 0..(mem[g].topLevel - 1) : h = Ref(g, i)
    BY DEF Leads, Names
  <2>2. g # Tail
    <3> SUFFICES ASSUME g = Tail PROVE FALSE
      OBVIOUS
    <3>1. PICK i \in Levels : h = Ref(Tail, i)
      BY <1>1, <2>1, TowerLevels
    <3>2. Ref(Tail, i) = Nil
      BY DEF Inv, MemoryInv, SentinelsAreFixed
    <3> QED
      BY <3>1, <3>2, NameFacts
  <2> QED
    BY <2>1, <2>2 DEF Towers, Roots
<1>6. \A g \in f[Cardinality(Nodes)] : \A h \in Nodes : <<g, h>> \in Leads => h \in f[Cardinality(Nodes)]
  <2>1. PICK N : N = Cardinality(Nodes)
    OBVIOUS
  <2>2. PICK S, D, M, o : S = Nodes /\ D = Names /\ M = Leads /\ o = Roots
    OBVIOUS
  <2>3. /\ N \in Nat /\ Rounds(f, N, D, M, o) /\ S \subseteq D /\ IsFiniteSet(S)
        /\ Cardinality(S) <= N
    BY <1>1, <1>2, <1>4, <2>1, <2>2
  <2>4. Onward(D, S, M, o)
    BY <1>5, <2>2 DEF Onward
  <2>5. Keeps(f[N], S, M)
    BY <2>3, <2>4, RoundsExhaust
  <2> QED
    BY <2>1, <2>2, <2>5 DEF Keeps
<1>7. ASSUME NEW n \in (U \union {Head}) \intersect Referenced, NEW i \in Levels,
             i < mem[n].topLevel, Ref(n, i) # Nil
      PROVE  Ref(n, i) \in Referenced \union {Tail}
  <2>1. Ref(n, i) \in L[i] \union {Tail} /\ L[i] \subseteq Nodes
    BY <1>7, LevelIsTower DEF Inv, MemoryInv, LevelsAreClosed
  <2>2. n \in Towers /\ n # Nil
    BY NameFacts DEF Inv, HistoryInv
  <2>3. Ref(n, i) \in Nodes => <<n, Ref(n, i)>> \in Leads
    BY <1>1, <1>4, <1>7, <2>2, TowerLevels DEF Leads, Names
  <2> QED
    BY <1>2, <1>6, <2>1, <2>3
<1> QED
  BY <1>3, <1>7

(* What no thread and no level leads to can be forgotten. *)
LEMMA ForgetUnreferenced ==
  ASSUME NEW U, NEW L, NEW C, Inv(U, L, C)
  PROVE  \E V, M : /\ Inv(V, M, C) /\ V = U \intersect Referenced
                   /\ \A i \in Levels : C[i] \subseteq M[i] \union {Head, Tail}
<1> SUFFICES ASSUME NEW F, F = Referenced,
                    NEW V, V = U \intersect F,
                    NEW M, M = [i \in Levels |-> L[i] \intersect F]
             PROVE  /\ Inv(V, M, C)
                    /\ \A i \in Levels : C[i] \subseteq M[i] \union {Head, Tail}
  OBVIOUS
<1>1. /\ Roots \subseteq F
      /\ \A n \in (U \union {Head}) \intersect F : \A i \in Levels :
              i < mem[n].topLevel /\ Ref(n, i) # Nil => Ref(n, i) \in F \union {Tail}
  BY ReferencedCloses
<1>2. /\ U \subseteq Nodes /\ 0 \in Levels
      /\ \A i \in Levels : L[i] \subseteq U /\ M[i] = L[i] \intersect F /\ M[i] \subseteq V
  BY LevelIsTower, LevelFacts DEF Inv, HistoryInv
<1>3. ASSUME NEW i \in Levels
      PROVE  C[i] \subseteq M[i] \union {Head, Tail}
  <2>1. PICK r : IsChain(C[i], r, Nexts(i), Head, Tail)
    BY ChainOf
  <2>2. Head \in F \union {Tail}
    BY <1>1 DEF Roots
  <2>3. \A c \in (C[i] \intersect (F \union {Tail})) \ {Tail} : Nexts(i)[c] \in F \union {Tail}
    <3> SUFFICES ASSUME NEW c \in C[i] \intersect F, c # Tail PROVE Nexts(i)[c] \in F \union {Tail}
      OBVIOUS
    <3>1. c \in L[i] \union {Head}
      BY ChainOf
    <3>2. /\ c \in U \union {Head} /\ i < mem[c].topLevel /\ c \in Towers
          /\ Ref(c, i) # Nil
      BY <3>1, OnLevel, LevelIsTower, NameFacts
    <3> QED
      BY <1>1, <3>2, ChainOf
  <2>4. C[i] \subseteq F \union {Tail}
    <3>1. PICK X, P, nx : X = F \union {Tail} /\ P = C[i] /\ nx = Nexts(i)
      OBVIOUS
    <3>2. IsChain(P, r, nx, Head, Tail) /\ Head \in X /\ \A c \in (P \intersect X) \ {Tail} : nx[c] \in X
      BY <2>1, <2>2, <2>3, <3>1
    <3>3. P \subseteq X
      BY <3>2, ChainInside
    <3> QED
      BY <3>1, <3>3
  <2> QED
    BY <1>2, <2>4, ChainOf
<1>4. HistoryInv(V, M, C)
  <2>1. /\ C \in [Levels -> SUBSET Towers]
        /\ \A i, j \in Levels : i <= j => L[j] \subseteq L[i]
        /\ \A i \in Levels : \A n \in L[i] : i < mem[n].topLevel
    BY DEF Inv, HistoryInv
  <2>2. V \in SUBSET Nodes /\ M \in [Levels -> SUBSET V]
    BY <1>2
  <2> QED
    BY <1>2, <1>3, <2>1, <2>2 DEF HistoryInv
<1>5. MemoryInv(V, M, C)
  <2>1. SentinelsAreFixed
    BY DEF Inv, MemoryInv
  <2>2. LevelsAreClosed(V, M)
    <3> SUFFICES ASSUME NEW n \in V \union {Head}, NEW i \in Levels, i < mem[n].topLevel
                 PROVE  Ref(n, i) \in M[i] \union {Tail} \/ (n \in V \ M[0] /\ Ref(n, i) = Nil)
      BY DEF LevelsAreClosed
    <3>1. n \in (U \union {Head}) \intersect F
      BY <1>1 DEF Roots
    <3>2. Ref(n, i) \in L[i] \union {Tail} \/ (n \in U \ L[0] /\ Ref(n, i) = Nil)
      BY <3>1 DEF Inv, MemoryInv, LevelsAreClosed
    <3>3. \A x \in L[i] : x # Nil
      BY LevelIsTower, NameFacts
    <3>4. CASE Ref(n, i) \in L[i] \union {Tail}
      BY <1>1, <1>2, <3>1, <3>3, <3>4, NameFacts
    <3>5. CASE n \in U \ L[0] /\ Ref(n, i) = Nil
      BY <1>2, <3>1, <3>5
    <3> QED
      BY <3>2, <3>4, <3>5
  <2>3. LiveNodesAreLinked(M, C)
    BY <1>2 DEF Inv, MemoryInv, LiveNodesAreLinked
  <2>4. ASSUME NEW n \in V PROVE TowerIsRight(M, n) /\ FlagsAreRight(M, n)
    <3>1. n \in U /\ TowerIsRight(L, n) /\ FlagsAreRight(L, n) /\ \A i \in Levels : n \in M[i] <=> n \in L[i]
      BY <1>2 DEF Inv, MemoryInv
    <3> QED
      BY <1>2, <3>1 DEF TowerIsRight, FlagsAreRight
  <2>5. NVMIsRight(V, M, C)
    <3>1. NVMIsRight(U, L, C)
      BY DEF Inv, MemoryInv
    <3>2. ASSUME NEW n \in Nodes \ V, mem[n].valid PROVE Marked(n, 0) \/ Ref(n, 0) = Nil
      <4>1. CASE n \notin U
        BY <3>1, <3>2, <4>1 DEF NVMIsRight
      <4>2. CASE n \in U
        <5>1. n \notin F
          BY <3>2, <4>2
        <5>2. n \notin C[0]
          BY <1>2, <1>3, <5>1, NameFacts
        <5>3. FlagsAreRight(L, n) /\ (n \in L[0] => Marked(n, 0))
          BY <1>2, <4>2, <5>2 DEF Inv, MemoryInv, LiveNodesAreLinked
        <5> QED
          BY <3>2, <5>3 DEF FlagsAreRight
      <4> QED
        BY <4>1, <4>2
    <3>3. \A n \in free : mem[n].valid /\ (n \in V => n \in M[0] /\ Marked(n, 0))
      BY <1>2, <3>1 DEF NVMIsRight
    <3> QED
      BY <3>1, <3>2, <3>3 DEF NVMIsRight
  <2> QED
    BY <2>1, <2>2, <2>3, <2>4, <2>5 DEF MemoryInv
<1>6. ASSUME NEW t \in Threads PROVE ThreadInv(V, M, local[t], call[t])
  <2> SUFFICES ASSUME NEW l, l = local[t], NEW c, c = call[t] PROVE ThreadInv(V, M, l, c)
    OBVIOUS
  <2>1. ThreadInv(U, L, l, c) /\ l \in Locals /\ l.lvl \in Levels
    <3>1. l \in Locals
      BY DEF Inv, TypeInv
    <3> QED
      BY <3>1, LocalFields DEF Inv
  <2>2. /\ l.pred \in F /\ l.from \in F /\ l.curr \in F /\ l.node \in F
        /\ \A i \in Levels : l.preds[i] \in F /\ l.succs[i] \in F
    BY <1>1 DEF Roots
  <2>3. \A i \in Levels : Kept(L, l, i) => Kept(M, l, i)
    BY <1>2, <2>2 DEF Kept
  <2>4. OwnerInv(V, M, l, c)
    <3>1. Owner(l, c) => l.node \in V /\ \A i \in Levels : l.node \in M[i] <=> l.node \in L[i]
      BY <1>2, <2>1, <2>2 DEF ThreadInv, OwnerInv
    <3> QED
      BY <2>1, <2>3, <3>1 DEF ThreadInv, OwnerInv
  <2>5. WalkInv(M, l, c)
    BY <1>2, <2>1, <2>2, <2>3 DEF ThreadInv, WalkInv
  <2>6. FindInv(M, l, c)
    <3>1. ASSUME RunIsDead(L, l) PROVE RunIsDead(M, l)
      <4>1. PICK D \in SUBSET L[l.lvl] :
              /\ l.from \in D \union {l.curr}
              /\ \A d \in D : /\ Marked(d, l.lvl) /\ Ref(d, l.lvl) \in D \union {l.curr}
                              /\ l.lvl = 0 => mem[d].deleteFlag
        BY <3>1 DEF RunIsDead
      <4>2. D \intersect F \in SUBSET M[l.lvl] /\ l.from \in (D \intersect F) \union {l.curr}
        BY <1>2, <2>1, <2>2, <4>1
      <4>3. ASSUME NEW d \in D \intersect F PROVE Ref(d, l.lvl) \in (D \intersect F) \union {l.curr}
        <5>1. d \in L[l.lvl] /\ Tail \notin D
          BY <1>2, <2>1, <4>1, NameFacts
        <5>2. d \in U /\ l.lvl < mem[d].topLevel
          BY <2>1, <5>1 DEF Inv, HistoryInv
        <5>3. Ref(d, l.lvl) # Nil
          BY <2>1, <5>1, OnLevel, LevelIsTower, NameFacts
        <5>4. Ref(d, l.lvl) \in F \union {Tail}
          BY <1>1, <2>1, <5>2, <5>3
        <5> QED
          BY <4>1, <5>1, <5>4
      <4> QED
        BY <4>1, <4>2, <4>3 DEF RunIsDead
    <3>2. FindInv(L, l, c)
      BY <2>1 DEF ThreadInv
    <3> QED
      BY <1>2, <2>1, <2>2, <3>1, <3>2 DEF FindInv
  <2>7. HelpInv(M, l, c) /\ RemoveInv(M, l, c)
    BY <1>2, <2>1, <2>2 DEF ThreadInv, HelpInv, RemoveInv
  <2> QED
    BY <2>4, <2>5, <2>6, <2>7 DEF ThreadInv
<1>7. TypeInv /\ ChainsInv(C) /\ OwnersAreApart
  BY DEF Inv
<1>8. Inv(V, M, C)
  BY <1>4, <1>5, <1>6, <1>7 DEF Inv
<1> QED
  BY <1>3, <1>8

-----------------------------------------------------------------------------
(* insert makes a node. *)

(* What insert has when it has made a node. *)
NewLocal(l, top, n) == [Forget(l, top..MAX_LEVEL) EXCEPT !.pc = "link", !.node = n]

(* Its fields. *)
LEMMA NewLocalFacts ==
  ASSUME NEW top \in Nat, NEW n \in Towers, NEW l \in Locals,
         NEW d, d = NewLocal(l, top, n)
  PROVE  /\ d \in Locals /\ d.pc = "link" /\ d.node = n /\ d.up = l.up /\ d.result = l.result
         /\ \A i \in Levels : i < top => d.preds[i] = l.preds[i] /\ d.succs[i] = l.succs[i]
<1>1. PICK S : S = top..MAX_LEVEL
  OBVIOUS
<1>2. PICK f : f = Forget(l, S)
  OBVIOUS
<1>3. /\ f \in Locals /\ f.up = l.up /\ f.result = l.result
      /\ \A i \in Levels : i \notin S => f.preds[i] = l.preds[i] /\ f.succs[i] = l.succs[i]
  BY <1>2, ForgetFacts
<1>4. \A i \in Levels : i < top => i \notin S
  BY <1>1, LevelFacts
<1>5. d = [f EXCEPT !.pc = "link", !.node = n]
  BY <1>1, <1>2 DEF NewLocal
<1>6. /\ d \in Locals /\ d.pc = "link" /\ d.node = n /\ d.up = f.up /\ d.result = f.result
      /\ d.preds = f.preds /\ d.succs = f.succs
  BY <1>3, <1>5 DEF Locals, Labels
<1> QED
  BY <1>3, <1>4, <1>6

(* Changes to a node that is not on a chain leave the chain. *)
LEMMA ChainAgrees ==
  ASSUME NEW C, NEW r, NEW nx, NEW a, NEW z, IsChain(C, r, nx, a, z),
         NEW ny, \A c \in C \ {z} : ny[c] = nx[c],
         NEW ry, \A c \in C : ry[c] = r[c]
  PROVE  IsChain(C, ry, ny, a, z)
<1>1. \A c, d \in C : r[c] \in Int /\ r[d] \in Int /\ (r[c] < r[d] => c # z)
  BY DEF IsChain
<1>2. \A c \in C \ {z} : ny[c] \in C /\ ry[ny[c]] = r[nx[c]]
  BY DEF IsChain
<1> QED
  BY <1>1, <1>2 DEF IsChain

(* The stores of insert into its new node. *)
NodeIsMade(n, m) == mem' = [mem EXCEPT ![n] = m]

(* A node that was not in use is on no chain. *)
LEMMA MadeChains ==
  ASSUME NEW U, NEW L, NEW C, Inv(U, L, C), NEW n \in Nodes, n \notin U, NEW m, NodeIsMade(n, m)
  PROVE  ChainsInv(C)'
<1>1. \A i \in Levels : n \notin C[i]
  BY LevelIsTower, NameFacts, ChainOf
<1>2. \A x \in Towers : x # n => mem'[x] = mem[x]
  BY DEF NodeIsMade, Inv, TypeInv
<1>3. \A x \in Towers : x # n => Key(x)' = Key(x) /\ \A i \in Levels : Ref(x, i)' = Ref(x, i)
  BY <1>2 DEF Key, Ref
<1>4. ASSUME NEW i \in Levels, NEW r, IsChain(C[i], r, Nexts(i), Head, Tail)
      PROVE  IsChain(C[i], r, Nexts(i)', Head, Tail)
  <2>1. PICK ny : ny = [x \in Towers |-> Ref(x, i)']
    OBVIOUS
  <2>2. PICK nx : nx = Nexts(i)
    OBVIOUS
  <2>3. PICK P : P = C[i]
    OBVIOUS
  <2>4. \A x \in P \ {Tail} : ny[x] = nx[x]
    <3>1. \A x \in P : x \in Towers /\ x # n /\ nx[x] = Ref(x, i)
      BY <1>1, <2>2, <2>3, ChainOf
    <3> QED
      BY <1>3, <2>1, <3>1
  <2>5. IsChain(P, r, nx, Head, Tail)
    BY <1>4, <2>2, <2>3
  <2>6. IsChain(P, r, ny, Head, Tail)
    BY <2>4, <2>5, ChainSame
  <2>7. ny = Nexts(i)'
    BY <2>1 DEF Nexts
  <2> QED
    BY <2>3, <2>6, <2>7
<1>5. ASSUME NEW i \in Levels PROVE \E r : IsChain(C[i], r, Nexts(i), Head, Tail)'
  <2>1. PICK r : IsChain(C[i], r, Nexts(i), Head, Tail)
    BY ChainOf
  <2>2. IsChain(C[i], r, Nexts(i)', Head, Tail)
    BY <1>4, <2>1
  <2> QED
    BY <2>2
<1>6. IsChain(C[0], KeyOf', Nexts(0)', Head, Tail)
  <2>1. PICK ry : ry = [x \in Towers |-> Key(x)']
    OBVIOUS
  <2>2. PICK r : r = KeyOf
    OBVIOUS
  <2>3. PICK P, ny : P = C[0] /\ ny = Nexts(0)'
    OBVIOUS
  <2>4. IsChain(C[0], KeyOf, Nexts(0), Head, Tail) /\ 0 \in Levels
    BY LevelFacts DEF Inv, ChainsInv
  <2>5. IsChain(P, r, ny, Head, Tail)
    BY <1>4, <2>2, <2>3, <2>4
  <2>6. \A x \in P : ry[x] = r[x]
    <3>1. \A x \in P : x \in Towers /\ x # n /\ r[x] = Key(x)
      BY <1>1, <2>2, <2>3, <2>4, ChainOf
    <3> QED
      BY <1>3, <2>1, <3>1
  <2>7. IsChain(P, ry, ny, Head, Tail)
    BY <2>5, <2>6, ChainAgrees
  <2>8. ry = KeyOf'
    BY <2>1 DEF KeyOf
  <2> QED
    BY <2>3, <2>7, <2>8
<1> QED
  BY <1>5, <1>6 DEF ChainsInv

(* The memory with the new node in use. *)
LEMMA MadeMemory ==
  ASSUME NEW U, NEW L, NEW C, Inv(U, L, C), NEW n \in Nodes, n \notin U, n \in free,
         NEW m \in NodeFields, NodeIsMade(n, m),
         m.key \in Keys, 0 < m.topLevel, ~m.valid, ~m.deleteFlag,
         \A i \in Levels : i < m.topLevel => m.link[i].to \in L[i] \union {Tail},
         UNCHANGED nvm, free' = free \ {n},
         NEW V, V = U \union {n}
  PROVE  /\ mem' \in [Towers -> NodeFields] /\ HistoryInv(V, L, C)' /\ MemoryInv(V, L, C)'
         /\ Evolves(n, U, L, V, L) /\ mem'[n] = m
<1>1. /\ TypeInv /\ n \in Towers /\ n # Head /\ n # Tail /\ U \subseteq Towers /\ U \subseteq Nodes
      /\ 0 \in Levels /\ \A i \in Levels : L[i] \subseteq U
      /\ HistoryInv(U, L, C) /\ SentinelsAreFixed /\ LevelsAreClosed(U, L)
      /\ LiveNodesAreLinked(L, C) /\ NVMIsRight(U, L, C)
      /\ \A x \in U : TowerIsRight(L, x) /\ FlagsAreRight(L, x)
  BY NameFacts, LevelFacts, LevelIsTower DEF Inv, HistoryInv, MemoryInv
<1>2. /\ mem' \in [Towers -> NodeFields] /\ mem'[n] = m
      /\ \A x \in Towers : x # n => mem'[x] = mem[x]
  BY <1>1 DEF NodeIsMade, TypeInv
<1>3. \A x \in Towers : x # n =>
        /\ Key(x)' = Key(x)
        /\ \A i \in Levels : Ref(x, i)' = Ref(x, i) /\ Marked(x, i)' = Marked(x, i)
  BY <1>2 DEF Key, Ref, Marked
<1>4. HistoryInv(V, L, C)'
  <2>1. L \in [Levels -> SUBSET V] /\ V \in SUBSET Nodes
    BY <1>1 DEF HistoryInv
  <2>2. \A i \in Levels : \A x \in L[i] : i < mem'[x].topLevel
    BY <1>1, <1>2 DEF HistoryInv
  <2> QED
    BY <1>1, <2>1, <2>2 DEF HistoryInv
<1>5. SentinelsAreFixed'
  BY <1>1, <1>2, <1>3, NameFacts DEF SentinelsAreFixed
<1>6. LevelsAreClosed(V, L)'
  <2> SUFFICES ASSUME NEW x \in V \union {Head}, NEW i \in Levels, i < mem'[x].topLevel
               PROVE  Ref(x, i)' \in L[i] \union {Tail} \/ (x \in V \ L[0] /\ Ref(x, i)' = Nil)
    BY DEF LevelsAreClosed
  <2>1. CASE x = n
    BY <1>2, <2>1 DEF Ref
  <2>2. CASE x # n
    BY <1>1, <1>2, <1>3, <2>2, NameFacts DEF LevelsAreClosed
  <2> QED
    BY <2>1, <2>2
<1>7. LiveNodesAreLinked(L, C)'
  BY <1>1, <1>3 DEF LiveNodesAreLinked
<1>8. \A i \in Levels : n \notin L[i] /\ n \notin C[i]
  BY <1>1, NameFacts DEF HistoryInv
<1>9. ASSUME NEW x \in V PROVE TowerIsRight(L, x)' /\ FlagsAreRight(L, x)'
  <2>1. CASE x = n
    <3>1. Key(n)' = m.key
      BY <1>2 DEF Key
    <3>2. TowerIsRight(L, n)'
      BY <1>1, <1>2, <1>8, <3>1 DEF TowerIsRight
    <3>3. FlagsAreRight(L, n)'
      BY <1>1, <1>2, <1>8 DEF FlagsAreRight
    <3> QED
      BY <2>1, <3>2, <3>3
  <2>2. CASE x # n
    <3>1. x \in U /\ x \in Towers /\ mem'[x] = mem[x]
      BY <1>1, <1>2, <2>2
    <3>2. TowerIsRight(L, x)'
      BY <1>1, <1>3, <2>2, <3>1 DEF TowerIsRight
    <3>3. FlagsAreRight(L, x)'
      BY <1>1, <1>3, <2>2, <3>1 DEF FlagsAreRight
    <3> QED
      BY <3>2, <3>3
  <2> QED
    BY <2>1, <2>2
<1>10. NVMIsRight(V, L, C)'
  <2>1. ASSUME NEW x \in Nodes, nvm'[x] # Nil PROVE x \in C[0] /\ nvm'[x] = Key(x)'
    <3>1. x \in C[0] /\ nvm[x] = Key(x)
      BY <1>1, <2>1 DEF NVMIsRight
    <3>2. x # n /\ x \in Towers
      BY <1>1, <1>8, <3>1, NameFacts
    <3> QED
      BY <1>3, <3>1, <3>2
  <2>2. ASSUME NEW x \in Nodes \ V, mem'[x].valid PROVE Marked(x, 0)' \/ Ref(x, 0)' = Nil
    BY <1>1, <1>2, <1>3, <2>2, NameFacts DEF NVMIsRight
  <2>3. ASSUME NEW x \in free'
        PROVE  mem'[x].valid /\ (x \in V => x \in L[0] /\ Marked(x, 0)')
    <3>1. x \in free /\ x # n /\ x \in Towers
      BY <1>1, <2>3, NameFacts DEF TypeInv
    <3>2. mem'[x] = mem[x] /\ Marked(x, 0)' = Marked(x, 0) /\ (x \in V => x \in U)
      BY <1>1, <1>2, <1>3, <3>1
    <3> QED
      BY <1>1, <3>1, <3>2 DEF NVMIsRight
  <2> QED
    BY <2>1, <2>2, <2>3 DEF NVMIsRight
<1>11. MemoryInv(V, L, C)'
  BY <1>5, <1>6, <1>7, <1>9, <1>10 DEF MemoryInv
<1>12. Evolves(n, U, L, V, L)
  <2>1. \A x \in U \union {Head, Tail} : x \in Towers /\ x # n
    BY <1>1, NameFacts
  <2>2. \A x \in U \union {Head, Tail} : Key(x)' = Key(x) /\ mem'[x] = mem[x]
    BY <1>2, <1>3, <2>1
  <2>3. \A x \in U : \A i \in Levels : Marked(x, i)' = Marked(x, i) /\ Ref(x, i)' = Ref(x, i)
    BY <1>3, <2>1
  <2> QED
    BY <1>1, <2>2, <2>3 DEF Evolves
<1> QED
  BY <1>2, <1>4, <1>11, <1>12

(* The parts of a link. *)
LEMMA ToFacts == \A x : To(x).to = x /\ To(x).marked = FALSE
BY DEF To

(* The node as insert makes it. *)
LEMMA NewNodeFacts ==
  ASSUME NEW U, NEW L, NEW C, Inv(U, L, C), NEW t \in Threads, local[t].pc = "alloc",
         NEW n \in Nodes, NEW top \in Heights, mem[n].valid
  PROVE  LET m == NewNode(t, n, top) IN
         /\ m \in NodeFields /\ m.key = call[t].arg /\ m.topLevel = top
         /\ ~m.valid /\ ~m.deleteFlag
         /\ \A i \in Levels : i < top => m.link[i].to = local[t].succs[i] /\ ~m.link[i].marked
<1> SUFFICES ASSUME NEW m, m = NewNode(t, n, top), NEW s, s = local[t].succs,
                    NEW g, g = [i \in Levels |-> IF i < top THEN To(s[i]) ELSE mem[n].link[i]]
             PROVE
         /\ m \in NodeFields /\ m.key = call[t].arg /\ m.topLevel = top
         /\ ~m.valid /\ ~m.deleteFlag
         /\ \A i \in Levels : i < top => m.link[i].to = s[i] /\ ~m.link[i].marked
  OBVIOUS
<1>1. /\ TypeInv /\ n \in Towers /\ top \in 0..MAX_LEVEL
      /\ call[t] \in DS!Calls /\ call[t].arg \in Int
  <2>1. TypeInv
    BY DEF Inv
  <2> QED
    BY <2>1, NameFacts, Running, LevelsAssumption DEF At
<1>2. s \in [Levels -> Towers \union {Nil}]
  BY <1>1, LocalFields DEF TypeInv
<1>3. mem[n].link \in [Levels -> Links]
  BY <1>1, Fields
<1>4. \A i \in Levels : To(s[i]) \in Links
  BY <1>2 DEF To, Links
<1>5. g \in [Levels -> Links] /\ \A i \in Levels : i < top => g[i] = To(s[i])
  BY <1>3, <1>4
<1>6. mem[n].valid = TRUE
  BY <1>1, Fields
<1>7. PICK k, h : k = call[t].arg /\ h = g
  OBVIOUS
<1>8. k \in Int /\ h \in [Levels -> Links]
  BY <1>1, <1>5, <1>7
<1>9. m = [valid |-> FALSE, insertFlag |-> FALSE, deleteFlag |-> FALSE,
           topLevel |-> top, key |-> k, link |-> h]
  <2>1. mem[n].valid = TRUE => (~mem[n].valid) = FALSE
    OBVIOUS
  <2>2. m = [valid |-> ~mem[n].valid, insertFlag |-> FALSE, deleteFlag |-> FALSE,
             topLevel |-> top, key |-> k, link |-> h]
    BY <1>7 DEF NewNode
  <2> QED
    BY <1>6, <2>1, <2>2
<1>10. m \in NodeFields
  BY <1>1, <1>8, <1>9 DEF NodeFields
<1>11. m.key = k /\ m.topLevel = top /\ m.link = h
  BY <1>9
<1>12. ~m.valid /\ ~m.deleteFlag
  BY <1>9
<1>13. \A i \in Levels : i < top => m.link[i].to = s[i] /\ ~m.link[i].marked
  BY <1>5, <1>7, <1>11, ToFacts
<1> QED
  BY <1>7, <1>10, <1>11, <1>12, <1>13

(* insert takes a free node that nothing refers to. *)
LEMMA MakeMove ==
  ASSUME NEW U, NEW L, NEW C, Inv(U, L, C), NEW t \in Threads, local[t].pc = "alloc",
         NEW n \in Nodes, NEW top \in Heights, n \in free, n \notin U,
         free' = free \ {n}, NodeIsMade(n, NewNode(t, n, top)),
         Become(t, [Forget(local[t], top..MAX_LEVEL) EXCEPT !.pc = "link", !.node = n]),
         UNCHANGED <<nvm, call>>
  PROVE  Inv(U \union {n}, L, C)'
<1> DEFINE l == local[t]
<1> SUFFICES ASSUME NEW c, c = call[t], NEW m, m = NewNode(t, n, top),
                    NEW p, p = l.preds[0], NEW q, q = l.succs[0]
             PROVE  Inv(U \union {n}, L, C)'
  OBVIOUS
<1>1. /\ l \in Locals /\ ThreadInv(U, L, l, c) /\ TypeInv
      /\ c \in DS!Calls \union {DS!None} /\ c # DS!None
      /\ c.arg \in Keys /\ 0 < top /\ 0 \in Levels /\ top \in Nat
  <2>1. TypeInv
    BY DEF Inv
  <2>2. c.arg \in Keys
    BY <2>1, Running DEF At
  <2> QED
    BY <2>1, <2>2, ThreadFacts, LevelFacts, LevelsAssumption
<1>2. /\ l.node = Nil /\ l.up = 0 /\ ~l.result /\ c.op = "insert"
      /\ \A i \in Levels : Kept(L, l, i)
      /\ Key(p) < c.arg /\ c.arg < Key(q)
  BY <1>1 DEF ThreadInv, WalkInv
<1>3. PICK d : /\ Become(t, d)
               /\ d \in Locals /\ d.pc = "link" /\ d.node = n /\ d.up = l.up /\ d.result = l.result
               /\ \A i \in Levels : i < top => d.preds[i] = l.preds[i] /\ d.succs[i] = l.succs[i]
  <2>1. n \in Towers
    BY NameFacts
  <2>2. PICK d : d = NewLocal(l, top, n)
    OBVIOUS
  <2>3. /\ d \in Locals /\ d.pc = "link" /\ d.node = n /\ d.up = l.up
        /\ d.result = l.result
        /\ \A i \in Levels : i < top => /\ d.preds[i] = l.preds[i] /\ d.succs[i] = l.succs[i]
    BY <1>1, <2>1, <2>2, NewLocalFacts
  <2>4. Become(t, d)
    BY <2>2 DEF NewLocal
  <2> QED
    BY <2>3, <2>4
<1>4. mem[n].valid
  BY DEF Inv, MemoryInv, NVMIsRight
<1>5. /\ m \in NodeFields /\ m.key = c.arg /\ m.topLevel = top
      /\ ~m.valid /\ ~m.deleteFlag
      /\ \A i \in Levels : i < top => m.link[i].to = l.succs[i] /\ ~m.link[i].marked
  BY <1>4, NewNodeFacts
<1>6. PICK V : V = U \union {n}
  OBVIOUS
<1>7. /\ mem' \in [Towers -> NodeFields] /\ HistoryInv(V, L, C)' /\ MemoryInv(V, L, C)'
      /\ Evolves(n, U, L, V, L) /\ mem'[n] = m
  <2>1. \A i \in Levels : i < m.topLevel => m.link[i].to \in L[i] \union {Tail}
    BY <1>2, <1>5 DEF Kept
  <2>2. NodeIsMade(n, m) /\ m.key \in Keys /\ 0 < m.topLevel
    BY <1>1, <1>5
  <2> QED
    BY <1>5, <1>6, <2>1, <2>2, MadeMemory
<1>8. ChainsInv(C)'
  BY MadeChains
<1>9. nvm' \in [Nodes -> Int \union {Nil}] /\ free' \in SUBSET Nodes
      /\ call' = [call EXCEPT ![t] = c]
  BY <1>1 DEF TypeInv
<1>10. Owner(d, c) /\ Height(d) = 0
  BY <1>3 DEF Owner, Height, Private
<1>11. OwnerInv(V, L, d, c)'
  <2>1. Key(n)' = c.arg /\ mem'[n].topLevel = top /\ n \in V
    BY <1>5, <1>6, <1>7 DEF Key
  <2>2. \A i \in Levels : n \notin L[i] /\ ~(i < 0)
    BY LevelIsTower, LevelFacts
  <2>3. \A i \in Levels : i < top => Ref(n, i)' = d.succs[i] /\ ~Marked(n, i)' /\ Kept(L, d, i)
    BY <1>2, <1>3, <1>5, <1>7 DEF Ref, Marked, Kept
  <2>4. d.preds[0] = p /\ d.succs[0] = q
    BY <1>1, <1>3
  <2>5. Key(p)' = Key(p) /\ Key(q)' = Key(q)
    <3>1. p \in U \union {Head, Tail} /\ q \in U \union {Head, Tail}
      BY <1>1, <1>2, LevelIsTower DEF Kept
    <3>2. \A x \in U \union {Head, Tail} : Key(x)' = Key(x)
      BY <1>7 DEF Evolves
    <3> QED
      BY <3>1, <3>2
  <2> QED
    BY <1>2, <1>3, <1>10, <2>1, <2>2, <2>3, <2>4, <2>5 DEF OwnerInv, Raising, Finding, Private
<1>12. ThreadInv(V, L, d, c)'
  BY <1>2, <1>3, <1>11 DEF ThreadInv, WalkInv, FindInv, HelpInv, RemoveInv, Finding
<1>13. Inv(V, L, C)'
  <2>1. (d.pc = "idle" <=> c = DS!None) /\ n \notin U /\ d.node = n
    BY <1>1, <1>3
  <2> QED
    BY ZenonT(60), <1>1, <1>3, <1>7, <1>8, <1>9, <1>12, <2>1, MemoryMove
<1> QED
  BY <1>6, <1>13

(* insert is given a node that nothing refers to: such nodes are forgotten   *)
(* first, so that the one it is given is not in use.                         *)
LEMMA AllocMove ==
  ASSUME ~Reuses, NEW U, NEW L, NEW C, Inv(U, L, C), NEW t \in Threads, AllocNode(t)
  PROVE  \E V, M : Inv(V, M, C)' /\ \A i \in Levels : C[i] \subseteq M[i] \union {Head, Tail}
<1>1. PICK V, M : /\ Inv(V, M, C) /\ V = U \intersect Referenced
                  /\ \A i \in Levels : C[i] \subseteq M[i] \union {Head, Tail}
  BY ForgetUnreferenced
<1>2. PICK n \in Nodes, top \in Heights :
        /\ Allocatable(n)
        /\ free' = free \ {n}
        /\ mem' = [mem EXCEPT ![n] = NewNode(t, n, top)]
        /\ Become(t, [Forget(local[t], top..MAX_LEVEL) EXCEPT !.pc = "link", !.node = n])
  BY DEF AllocNode
<1>3. n \in free /\ n \notin V
  BY <1>1, <1>2 DEF Allocatable
<1>4. NodeIsMade(n, NewNode(t, n, top))
  BY <1>2 DEF NodeIsMade
<1>5. local[t].pc = "alloc" /\ UNCHANGED <<nvm, call>>
  BY DEF AllocNode, At
<1>6. Inv(V \union {n}, M, C)'
  BY <1>1, <1>2, <1>3, <1>4, <1>5, MakeMove
<1> QED
  BY <1>1, <1>6

-----------------------------------------------------------------------------
(* The steps together. *)

(* A step that changes nothing. *)
LEMMA StutterMove ==
  ASSUME NEW U, NEW L, NEW C, Inv(U, L, C), UNCHANGED vars
  PROVE  Inv(U, L, C)'
<1> USE DEF vars
<1>1. TypeInv'
  BY DEF Inv, TypeInv, At
<1>2. HistoryInv(U, L, C)' /\ ChainsInv(C)' /\ OwnersAreApart'
  BY DEF Inv, HistoryInv, ChainsInv, Nexts, KeyOf, Ref, Key, OwnersAreApart
<1>3. MemoryInv(U, L, C)'
  <2>1. SentinelsAreFixed' /\ LevelsAreClosed(U, L)' /\ LiveNodesAreLinked(L, C)'
    BY DEF Inv, MemoryInv, SentinelsAreFixed, LevelsAreClosed, LiveNodesAreLinked, Key, Ref, Marked
  <2>2. \A n \in U : TowerIsRight(L, n)' /\ FlagsAreRight(L, n)'
    BY DEF Inv, MemoryInv, TowerIsRight, FlagsAreRight, Key, Ref, Marked
  <2>3. NVMIsRight(U, L, C)'
    BY DEF Inv, MemoryInv, NVMIsRight, Key, Ref, Marked
  <2> QED
    BY <2>1, <2>2, <2>3 DEF MemoryInv
<1>4. ASSUME NEW u \in Threads PROVE ThreadInv(U, L, local[u], call[u])'
  <2>1. ThreadInv(U, L, local'[u], call'[u])
    BY SMTT(30) DEF Inv
  <2>2. OwnerInv(U, L, local[u], call[u])'
    BY <2>1 DEF ThreadInv, OwnerInv, Key, Ref, Marked
  <2>3. WalkInv(L, local[u], call[u])'
    BY <2>1 DEF ThreadInv, WalkInv, Key
  <2>4. FindInv(L, local[u], call[u])'
    BY <2>1 DEF ThreadInv, FindInv, RunIsDead, Ref, Marked
  <2>5. HelpInv(L, local[u], call[u])' /\ RemoveInv(L, local[u], call[u])'
    BY <2>1 DEF ThreadInv, HelpInv, RemoveInv, Marked
  <2> QED
    BY <2>2, <2>3, <2>4, <2>5 DEF ThreadInv
<1> QED
  BY <1>1, <1>2, <1>3, <1>4 DEF Inv

(* What a step keeps: no node that a walk meets is forgotten. *)
LEMMA StepMove ==
  ASSUME ~Reuses, NEW U, NEW L, NEW C, Inv(U, L, C), [Next]_vars
  PROVE  \E V, M, B : Inv(V, M, B)' /\ \A i \in Levels : C[i] \subseteq M[i] \union {Head, Tail}
<1>1. \A i \in Levels : C[i] \subseteq L[i] \union {Head, Tail}
  BY DEF Inv, HistoryInv
<1>2. CASE UNCHANGED vars
  BY <1>1, <1>2, StutterMove
<1>3. CASE \E n \in Nodes : Evict(n)
  BY <1>1, <1>3, EvictMove
<1> SUFFICES ASSUME NEW t \in Threads, (\E c \in DS!Calls : Invoke(t, c)) \/ Step(t)
             PROVE  \E V, M, B : Inv(V, M, B)' /\ \A i \in Levels : C[i] \subseteq M[i] \union {Head, Tail}
  BY <1>2, <1>3 DEF Next
<1>4. CASE Inv(U, L, C)'
  BY <1>1, <1>4
<1>5. CASE \E c \in DS!Calls : Invoke(t, c)
  BY <1>4, <1>5, InvokeMove
<1>6. CASE WalkOn(t) \/ WalkStep(t) \/ WalkDown(t) \/ WalkHit(t) \/ WalkMissInsert(t)
  BY <1>4, <1>6, WalkOnMove, WalkStepMove, WalkDownMove, WalkHitMove, WalkMissInsertMove
<1>7. CASE WalkMiss(t) \/ ContainsDeleted(t) \/ Done(t)
  BY <1>4, <1>7, AnswersMove, ContainsDeletedMove
<1>8. CASE FindLevel(t) \/ FindMarked(t) \/ FindPass(t) \/ FindStop(t)
  BY <1>4, <1>8, FindLevelMove, FindMarkedMove, FindDeletedMove, FindPassMove, FindStopMove
<1>9. CASE Cut(t)
  <2>1. CASE /\ CAS(local[t].pred, local[t].lvl, local[t].from, local[t].curr)
             /\ Become(t, FindDown(t))
    <3>1. At(t, "cut") /\ UNCHANGED <<nvm, free, call>>
      BY <1>9 DEF Cut
    <3>2. PICK B : Inv(U, L, B)'
      BY <2>1, <3>1, CutMove
    <3> QED
      BY <1>1, <3>2
  <2>2. CASE UNCHANGED mem /\ Become(t, StartFind(local[t]))
    BY <1>4, <1>9, <2>2, CutFailsMove
  <2> QED
    BY <1>9, <2>1, <2>2 DEF Cut, CASFails
<1>10. CASE MakeValid(t) \/ FlushInsert(t)
  BY <1>4, <1>10, MakeValidMove, FlushInsertMove
<1>11. CASE AllocNode(t)
  <2>1. PICK V, M : Inv(V, M, C)' /\ \A i \in Levels : C[i] \subseteq M[i] \union {Head, Tail}
    BY <1>11, AllocMove
  <2> QED
    BY <2>1
<1>12. CASE LinkNode(t)
  <2>1. CASE /\ CAS(local[t].preds[0], 0, local[t].succs[0], local[t].node)
             /\ Become(t, [Forget(local[t], {0}) EXCEPT !.pc = "makeValid", !.result = TRUE])
    <3>1. At(t, "link") /\ UNCHANGED <<nvm, free, call>>
      BY <1>12 DEF LinkNode
    <3>2. PICK M, B : Inv(U, M, B)' /\ \A i \in Levels : L[i] \subseteq M[i]
      BY <2>1, <3>1, LinkMove
    <3>3. \A i \in Levels : C[i] \subseteq M[i] \union {Head, Tail}
      BY <1>1, <3>2
    <3> QED
      BY <3>2, <3>3
  <2>2. CASE /\ UNCHANGED mem
             /\ Become(t, [Forget(local[t], Levels) EXCEPT !.pc = "markUnlinked"])
    BY <1>4, <1>12, <2>2, LinkFailsMove
  <2> QED
    BY <1>12, <2>1, <2>2 DEF LinkNode, CASFails
<1>13. CASE MarkUnlinked(t)
  BY <1>4, <1>13, MarkUnlinkedMove
<1>14. CASE UndoInsert(t)
  <2>1. PICK V : Inv(V, L, C)'
    BY <1>14, UndoInsertMove
  <2> QED
    BY <1>1, <2>1
<1>15. CASE RaiseLink(t) \/ RaiseStops(t) \/ LinkUpperFails(t)
  BY <1>4, <1>15, RaiseLinkMove, AnswersMove, LinkUpperFailsMove
<1>16. CASE LinkUpper(t)
  <2>1. PICK M, B : Inv(U, M, B)' /\ \A i \in Levels : L[i] \subseteq M[i]
    BY <1>16, LinkUpperMove
  <2>2. \A i \in Levels : C[i] \subseteq M[i] \union {Head, Tail}
    BY <1>1, <2>1
  <2> QED
    BY <2>1, <2>2
<1>17. CASE Mark(t) \/ FlushDelete(t) \/ FreeRemoved(t)
  BY <1>4, <1>17, MarkMove, FlushDeleteMove, FreeRemovedMove
<1> QED
  BY <1>5, <1>6, <1>7, <1>8, <1>9, <1>10, <1>11, <1>12, <1>13, <1>14, <1>15, <1>16, <1>17 DEF Step

(* At first no node is in use, and head leads to tail on each level. *)
LEMMA InitIsRight ==
  ASSUME Init
  PROVE  Inv({}, [i \in Levels |-> {}], [i \in Levels |-> {Head, Tail}])
<1> SUFFICES ASSUME NEW U, U = {}, NEW L, L \in [Levels -> {{}}], NEW C, C \in [Levels -> {{Head, Tail}}]
             PROVE  Inv(U, L, C)
  OBVIOUS
<1>0. \A i \in Levels : L[i] = {} /\ C[i] = {Head, Tail}
  OBVIOUS
<1>1. /\ Zeroed.valid = TRUE /\ Zeroed.deleteFlag = FALSE
      /\ Zeroed \in NodeFields
      /\ \A i \in Levels : Zeroed.link[i] = To(Nil)
  <2>1. To(Nil) \in Links
    BY DEF To, Links
  <2>2. [i \in Levels |-> To(Nil)] \in [Levels -> Links]
    BY <2>1
  <2> QED
    BY <2>2, LevelFacts DEF Zeroed, NodeFields
<1>2. /\ MAX_LEVEL \in 0..MAX_LEVEL /\ MinKey \in Int /\ MaxKey \in Int
      /\ \A i \in Levels : i < MAX_LEVEL
  BY KeysAssumption, LevelFacts
<1>3. /\ mem[Head] = [Zeroed EXCEPT !.key = MinKey, !.topLevel = MAX_LEVEL,
                                    !.link = [i \in Levels |-> To(Tail)]]
      /\ mem[Tail] = [Zeroed EXCEPT !.key = MaxKey, !.topLevel = MAX_LEVEL]
      /\ \A n \in Nodes : mem[n] = Zeroed
      /\ mem = [n \in Towers |-> mem[n]]
  BY NameFacts DEF Init, Towers
<1>4. /\ mem[Head] \in NodeFields /\ Key(Head) = MinKey /\ mem[Head].topLevel = MAX_LEVEL
      /\ \A i \in Levels : mem[Head].link[i] = To(Tail)
  <2>1. To(Tail) \in Links
    BY NameFacts DEF To, Links
  <2>2. PICK f : f = [i \in Levels |-> To(Tail)]
    OBVIOUS
  <2>3. f \in [Levels -> Links] /\ \A i \in Levels : f[i] = To(Tail)
    BY <2>1, <2>2
  <2>4. PICK z : z = Zeroed
    OBVIOUS
  <2>5. z \in NodeFields /\ mem[Head] = [z EXCEPT !.key = MinKey, !.topLevel = MAX_LEVEL, !.link = f]
    BY <1>1, <1>3, <2>2, <2>4
  <2>6. mem[Head] \in NodeFields
    BY <1>2, <2>3, <2>5 DEF NodeFields
  <2>7. mem[Head].key = MinKey /\ mem[Head].topLevel = MAX_LEVEL /\ mem[Head].link = f
    BY <2>5 DEF NodeFields
  <2> QED
    BY <2>3, <2>6, <2>7 DEF Key
<1>5. /\ mem[Tail] \in NodeFields /\ Key(Tail) = MaxKey
      /\ \A i \in Levels : mem[Tail].link[i] = To(Nil)
  BY ZenonT(60), <1>1, <1>2, <1>3 DEF NodeFields, Key
<1>6. TypeInv
  <2>1. mem \in [Towers -> NodeFields]
    <3>1. \A n \in Towers : mem[n] \in NodeFields
      BY <1>1, <1>3, <1>4, <1>5 DEF Towers
    <3> QED
      BY <1>3, <3>1
  <2>2. nvm \in [Nodes -> Int \union {Nil}] /\ free \in SUBSET Nodes
    BY DEF Init
  <2>3. local \in [Threads -> Locals] /\ call \in [Threads -> DS!Calls \union {DS!None}]
    BY IdleIsLocal DEF Init
  <2>4. \A t \in Threads : At(t, "idle") <=> call[t] = DS!None
    BY IdleIsLocal DEF Init, At
  <2> QED
    BY <2>1, <2>2, <2>3, <2>4 DEF TypeInv
<1>7. HistoryInv(U, L, C)
  BY <1>0, NameFacts DEF HistoryInv
<1>8. MemoryInv(U, L, C)
  <2>1. \A i \in Levels : /\ Ref(Head, i) = Tail /\ Marked(Head, i) = FALSE
                          /\ Ref(Tail, i) = Nil /\ Marked(Tail, i) = FALSE
    BY <1>4, <1>5, ToFacts DEF Ref, Marked
  <2>2. SentinelsAreFixed
    BY <1>4, <1>5, <2>1 DEF SentinelsAreFixed
  <2>3. LevelsAreClosed(U, L) /\ LiveNodesAreLinked(L, C)
    BY <1>0, <2>1 DEF LevelsAreClosed, LiveNodesAreLinked
  <2>4. \A n \in Nodes : Ref(n, 0) = Nil /\ mem[n].valid
    BY <1>1, <1>3, LevelFacts DEF Ref, To
  <2>5. NVMIsRight(U, L, C)
    BY <2>4 DEF NVMIsRight, Init
  <2> QED
    BY <2>2, <2>3, <2>5 DEF MemoryInv
<1>9. ChainsInv(C)
  <2>1. \A i \in Levels : IsChain(C[i], KeyOf, Nexts(i), Head, Tail)
    <3> SUFFICES ASSUME NEW i \in Levels PROVE IsChain(C[i], KeyOf, Nexts(i), Head, Tail)
      OBVIOUS
    <3>1. Nexts(i)[Head] = Tail /\ KeyOf[Head] = MinKey /\ KeyOf[Tail] = MaxKey
      <4>1. Ref(Head, i) = Tail
        BY <1>4, ToFacts DEF Ref
      <4> QED
        BY <1>4, <1>5, <4>1, NameFacts DEF Nexts, KeyOf, Towers
    <3> QED
      BY <1>0, <3>1, KeysAssumption DEF IsChain
  <2> QED
    BY <2>1, LevelFacts DEF ChainsInv
<1>10. \A t \in Threads : ThreadInv(U, L, local[t], call[t]) /\ ~Owner(local[t], call[t])
  BY IdleThread DEF Init
<1> QED
  BY <1>6, <1>7, <1>8, <1>9, <1>10 DEF Inv, OwnersAreApart

(* The invariant holds in every state of every behaviour, for any number of  *)
(* threads, keys, nodes and levels, if no node is handed out while something *)
(* still refers to it.                                                       *)
THEOREM InvariantHolds ==
  ASSUME ~Reuses
  PROVE  Spec => []IInv
<1>1. Init => IInv
  BY InitIsRight DEF IInv
<1>2. IInv /\ [Next]_vars => IInv'
  BY StepMove DEF IInv
<1> QED
  BY <1>1, <1>2, PTL DEF Spec

-----------------------------------------------------------------------------
(* The chain of a level is what a walk along the level meets. *)

(* One step of a walk along level i. *)
Moves(i) == {gh \in Towers \X Towers : gh[2] = Ref(gh[1], i)}

(* Linked(i) is what one round more than there are nodes reaches from head. *)
LEMMA LinkedRounds ==
  ASSUME TypeInv, NEW i \in Levels
  PROVE  \E f : /\ Rounds(f, Cardinality(Nodes) + 1, Towers, Moves(i), {Head})
                /\ Linked(i) = f[Cardinality(Nodes) + 1]
<1> DEFINE N == Cardinality(Nodes) + 1
           o == {Head}
           G(x) == x \union ({Ref(n, i) : n \in x} \ {Nil})
           Rec(f) == f = [j \in 0..N |-> IF j = 0 THEN o ELSE G(f[j-1])]
<1>1. N \in Nat
  BY NodesAssumption, FS_CardinalityType
<1>2. ASSUME NEW x \in SUBSET Towers
      PROVE  G(x) = OneRound(x, Towers, Moves(i))
  <2>1. \A n \in x : Ref(n, i) \in Towers \union {Nil}
    BY Fields
  <2>2. Nil \notin Towers
    BY NodesAssumption DEF Towers
  <2> QED
    BY <2>1, <2>2 DEF OneRound, Moves
<1>3. o \in SUBSET Towers
  BY NameFacts
<1>4. PICK g : Rounds(g, N, Towers, Moves(i), o)
  <2> HIDE DEF N, o
  <2> QED
    BY <1>1, <1>3, RoundsExist
<1>5. Rec(g)
  <2>1. g \in [0..N -> SUBSET Towers] /\ \A k \in 1..N : g[k] = OneRound(g[k-1], Towers, Moves(i))
    BY <1>4 DEF Rounds
  <2>2. \A k \in 1..N : g[k-1] \in SUBSET Towers
    BY <1>1, <2>1
  <2> HIDE DEF G, N
  <2>3. \A k \in 1..N : g[k] = G(g[k-1])
    BY <1>2, <2>1, <2>2
  <2>4. \A k \in 0..N : g[k] = IF k = 0 THEN o ELSE G(g[k-1])
    BY <1>1, <1>4, <2>3 DEF Rounds
  <2> QED
    BY <2>1, <2>4
<1>6. PICK f : Rec(f) /\ Linked(i) = f[N]
  <2>1. Rec(CHOOSE f : Rec(f))
    BY <1>5
  <2>2. Linked(i) = (CHOOSE f : Rec(f))[N]
    BY DEF Linked
  <2> QED
    BY <2>1, <2>2
<1>7. f = [k \in 0..N |-> f[k]] /\ f[0] = o /\ \A k \in 1..N : f[k] = G(f[k-1])
  <2> HIDE DEF G, N, o
  <2> QED
    BY <1>1, <1>6
<1>8. \A k \in 1..N : f[k-1] \in SUBSET Towers => f[k] = OneRound(f[k-1], Towers, Moves(i))
  <2> HIDE DEF G
  <2> QED
    BY <1>2, <1>7
<1> HIDE DEF N, o, G
<1>9. Rounds(f, N, Towers, Moves(i), o)
  BY <1>1, <1>3, <1>7, <1>8, RoundsOfRecursion
<1> QED
  BY <1>6, <1>9 DEF N, o

(* Linked(i) is the chain of level i. *)
LEMMA LinkedIsChain ==
  ASSUME NEW U, NEW L, NEW C, Inv(U, L, C), NEW i \in Levels
  PROVE  Linked(i) = C[i]
<1>1. TypeInv /\ Cardinality(Nodes) \in Nat /\ IsFiniteSet(Nodes)
  BY NodesAssumption, FS_CardinalityType DEF Inv
<1>2. PICK N : N = Cardinality(Nodes) + 1
  OBVIOUS
<1>3. PICK f : Rounds(f, N, Towers, Moves(i), {Head}) /\ Linked(i) = f[N]
  BY <1>1, <1>2, LinkedRounds
<1>4. PICK r : IsChain(C[i], r, Nexts(i), Head, Tail)
  BY ChainOf
<1>5. /\ Head \in C[i] /\ Tail \in C[i] /\ C[i] \subseteq Towers
      /\ \A n \in Towers : Nexts(i)[n] = Ref(n, i)
      /\ Ref(Tail, i) = Nil /\ N \in Nat
  BY <1>1, <1>2, ChainOf DEF Inv, MemoryInv, SentinelsAreFixed
<1>6. \A n \in C[i] \ {Tail} : Ref(n, i) \in C[i]
  BY <1>4, <1>5 DEF IsChain
<1>7. f[N] \subseteq C[i]
  <2>1. Stays(C[i], Towers, Moves(i))
    BY <1>5, <1>6, NameFacts, NodesAssumption DEF Stays, Moves, Towers
  <2>2. {Head} \subseteq C[i]
    BY <1>5
  <2> QED
    BY <1>3, <1>5, <2>1, <2>2, RoundsStay
<1>8. C[i] \subseteq f[N]
  <2>1. PICK S : S = Nodes \union {Tail}
    OBVIOUS
  <2>2. S \subseteq Towers /\ IsFiniteSet(S) /\ Cardinality(S) <= N
    <3>1. Tail \notin Nodes
      BY NodesAssumption
    <3>2. IsFiniteSet(Nodes \union {Tail}) /\ Cardinality(Nodes \union {Tail}) = Cardinality(Nodes) + 1
      BY <1>1, <3>1, FS_AddElement
    <3> QED
      BY <1>2, <1>5, <2>1, <3>2 DEF Towers
  <2>3. Onward(Towers, S, Moves(i), {Head})
    BY <2>1 DEF Onward, Towers
  <2>4. Keeps(f[N], S, Moves(i))
    BY <1>3, <1>5, <2>2, <2>3, RoundsExhaust
  <2>5. Head \in f[N] /\ f[N] \subseteq Towers
    BY <1>3, <1>5, RoundsGrow
  <2>6. \A c \in (C[i] \intersect f[N]) \ {Tail} : Nexts(i)[c] \in f[N]
    <3> SUFFICES ASSUME NEW c \in C[i] \intersect f[N], c # Tail PROVE Nexts(i)[c] \in f[N]
      OBVIOUS
    <3>1. Nexts(i)[c] = Ref(c, i) /\ Ref(c, i) \in C[i] /\ c \in Towers
      BY <1>5, <1>6
    <3>2. <<c, Ref(c, i)>> \in Moves(i)
      BY <1>5, <3>1 DEF Moves
    <3>3. Ref(c, i) = Head \/ Ref(c, i) \in S
      BY <1>5, <2>1, <3>1 DEF Towers
    <3> QED
      BY <2>4, <2>5, <3>1, <3>2, <3>3 DEF Keeps
  <2> QED
    <3>1. PICK X, P, nx : X = f[N] /\ P = C[i] /\ nx = Nexts(i)
      OBVIOUS
    <3>2. IsChain(P, r, nx, Head, Tail) /\ Head \in X /\ \A c \in (P \intersect X) \ {Tail} : nx[c] \in X
      BY <1>4, <2>5, <2>6, <3>1
    <3>3. P \subseteq X
      BY <3>2, ChainInside
    <3> QED
      BY <3>1, <3>3
<1> QED
  BY <1>3, <1>7, <1>8

(* The same as a formula, to be had of the next state too. *)
LevelsAreChains == \A U, L, C : Inv(U, L, C) => \A i \in Levels : Linked(i) = C[i]

(* It holds in every state, of whatever behaviour. *)
LEMMA AlwaysChains == LevelsAreChains
BY LinkedIsChain DEF LevelsAreChains

-----------------------------------------------------------------------------
(* What the invariant is for. *)

(* The invariant implies TowersStandOnTheList: a node that is not marked     *)
(* above is not marked on level 0, and there only marked nodes are off the   *)
(* chain.                                                                    *)
LEMMA TowersStand ==
  ASSUME IInv
  PROVE  TowersStandOnTheList
<1>1. PICK U, L, C : Inv(U, L, C)
  BY DEF IInv
<1>2. 0 \in Levels /\ \A i \in Levels : Linked(i) = C[i]
  BY <1>1, LinkedIsChain, LevelFacts
<1> SUFFICES ASSUME NEW i \in Levels, NEW n \in C[i], ~Marked(n, i)
             PROVE  n \in C[0] /\ ~Marked(n, 0)
  BY <1>2 DEF TowersStandOnTheList
<1>3. CASE n \in {Head, Tail}
  BY <1>1, <1>2, <1>3, ChainOf DEF Inv, MemoryInv, SentinelsAreFixed
<1>4. CASE n \in L[i]
  <2>1. /\ n \in U /\ n \in L[0] /\ i < mem[n].topLevel /\ 0 <= i /\ TowerIsRight(L, n)
    <3>1. 0 <= i
      BY LevelFacts
    <3> QED
      BY <1>1, <1>2, <1>4, <3>1, LevelIsTower DEF Inv, HistoryInv, MemoryInv
  <2>2. ~Marked(n, 0)
    BY <1>2, <2>1 DEF TowerIsRight
  <2> QED
    BY <1>1, <1>2, <2>1, <2>2 DEF Inv, MemoryInv, LiveNodesAreLinked
<1> QED
  BY <1>1, <1>3, <1>4, ChainOf

(* The invariant implies PersistedKeysAreUnique: what NVM has is on the      *)
(* chain of level 0, whose keys differ.                                      *)
LEMMA PersistedKeysDiffer ==
  ASSUME IInv
  PROVE  PersistedKeysAreUnique
<1>1. PICK U, L, C : Inv(U, L, C)
  BY DEF IInv
<1>2. ASSUME NEW n \in Nodes, nvm[n] # Nil
      PROVE  n \in C[0] /\ nvm[n] = Key(n)
  BY <1>1, <1>2 DEF Inv, MemoryInv, NVMIsRight
<1>3. IsChain(C[0], KeyOf, Nexts(0), Head, Tail) /\ \A n \in Nodes : KeyOf[n] = Key(n)
  BY <1>1, NameFacts DEF Inv, ChainsInv, KeyOf
<1> SUFFICES ASSUME NEW m \in Nodes, NEW n \in Nodes, nvm[m] # Nil, nvm[m] = nvm[n]
             PROVE  m = n
  BY DEF PersistedKeysAreUnique
<1>4. m \in C[0] /\ n \in C[0] /\ KeyOf[m] = KeyOf[n]
  BY <1>2, <1>3
<1> QED
  BY <1>3, <1>4 DEF IsChain

-----------------------------------------------------------------------------
(* The properties. *)

(* The variables have their types in every state of every behaviour. *)
THEOREM TypesAreRight ==
  ASSUME ~Reuses
  PROVE  Spec => []TypeInv
<1>1. IInv => TypeInv
  BY DEF IInv, Inv
<1> QED
  BY <1>1, InvariantHolds, PTL

(* The short cuts can be trusted: a node that is not marked on an upper      *)
(* level is a member of the set, however many threads link, mark and cut its *)
(* levels.                                                                   *)
THEOREM TowersHold ==
  ASSUME ~Reuses
  PROVE  Spec => []TowersStandOnTheList
BY InvariantHolds, TowersStand, PTL

(* NVM never holds two members with one key, at whatever moment a crash      *)
(* comes.                                                                    *)
THEOREM KeysStayUnique ==
  ASSUME ~Reuses
  PROVE  Spec => []PersistedKeysAreUnique
BY InvariantHolds, PersistedKeysDiffer, PTL

(* No compare-and-swap, on whatever level, drops a node that is not marked   *)
(* from it.                                                                  *)
THEOREM UnmarkedStay ==
  ASSUME ~Reuses
  PROVE  Spec => UnmarkedStayLinked
<1>1. IInv /\ LevelsAreChains /\ LevelsAreChains' /\ [Next]_vars =>
        [\A i \in Levels : \A n \in Linked(i) :
       ~Marked(n, i) => Marked(n, i)' \/ n \in Linked(i)']_vars
  <2> SUFFICES ASSUME IInv, LevelsAreChains', [Next]_vars,
                      NEW i \in Levels, NEW n \in Linked(i), ~Marked(n, i)'
               PROVE  n \in Linked(i)'
    OBVIOUS
  <2>1. PICK U, L, C : Inv(U, L, C)
    BY DEF IInv
  <2>2. n \in C[i]
    BY <2>1, LinkedIsChain
  <2>3. PICK V, M, B : Inv(V, M, B)' /\ \A k \in Levels : C[k] \subseteq M[k] \union {Head, Tail}
    BY <2>1, StepMove
  <2>4. Linked(i)' = B[i]
    BY <2>3 DEF LevelsAreChains
  <2>5. /\ Head \in B[i] /\ Tail \in B[i]
        /\ \A m \in M[i] : ~Marked(m, i)' => m \in B[i]
    BY <2>3 DEF Inv, ChainsInv, IsChain, MemoryInv, LiveNodesAreLinked
  <2> QED
    BY <2>2, <2>3, <2>4, <2>5
<1>2. LevelsAreChains
  BY AlwaysChains
<1> QED
  BY <1>1, <1>2, InvariantHolds, PTL DEF Spec, UnmarkedStayLinked
=============================================================================
