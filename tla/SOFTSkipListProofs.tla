------------------------- MODULE SOFTSkipListProofs -------------------------
(***************************************************************************)
(* The proofs about the SOFT skip list, for any number of threads, keys,   *)
(* nodes and levels.                                                       *)
(*                                                                         *)
(* The model has no history: a node that was cut out may still lead back   *)
(* to a level, and a free node is one that nothing refers to. The          *)
(* invariant supplies three histories, U, L and C, and the proof of a step *)
(* says what becomes of them. Most steps change only what a thread holds   *)
(* (LocalMove). A step that changes memory is proved in two parts: the     *)
(* memory and its chains, and what the change leaves to the other threads  *)
(* (Evolves, OtherThreads). Last come the properties, which speak of       *)
(* Linked, a recursive function: it is the chain that the invariant knows. *)
(***************************************************************************)
EXTENDS SOFTSkipList, Recursion

-----------------------------------------------------------------------------
(* The invariant. It speaks of histories that the state has forgotten: U are  *)
(* the nodes in use, L[i] those of them that were ever linked on level i, and *)
(* C[i] those that a walk along level i meets.                               *)

Towers == Nodes \union {Head, Tail}

Links == [to : Towers \union {Nil}, state : States]

NodeFields ==
  [validStart : BOOLEAN, validEnd : BOOLEAN, deleted : BOOLEAN, pValidity : BOOLEAN,
   topLevel : 0..MAX_LEVEL, key : Int, link : [Levels -> Links]]

Labels ==
  {"idle", "walk", "step", "help", "publish", "link", "undo", "raise", "linkUpper",
   "findLevel", "find", "cut", "mark", "destroy", "bury", "free"}

(* What the local variables of a thread may be. *)
Locals ==
  [pc : Labels, lvl : Levels, pred : Towers \union {Nil}, predState : States \ {DELETED},
   from : Towers \union {Nil}, curr : Towers \union {Nil},
   preds : [Levels -> Towers \union {Nil}], succs : [Levels -> Towers \union {Nil}],
   node : Towers \union {Nil}, up : Levels, result : BOOLEAN]

(* The types of the variables. A thread is idle when it has no call. *)
TypeInv ==
  /\ mem \in [Towers -> NodeFields]
  /\ nvm \in [Nodes -> Int \union {Nil}]
  /\ free \in SUBSET Nodes
  /\ local \in [Threads -> Locals]
  /\ call \in [Threads -> DS!Calls \union {DS!None}]
  /\ \A t \in Threads : At(t, "idle") <=> call[t] = DS!None

(* How the histories relate: a node is linked from below, and what a walk    *)
(* meets was linked.                                                         *)
HistoryInv(U, L, C) ==
  /\ U \in SUBSET Nodes
  /\ L \in [Levels -> SUBSET U]
  /\ C \in [Levels -> SUBSET Towers]
  /\ \A i \in Levels : C[i] \subseteq L[i] \union {Head, Tail}
  /\ \A i, j \in Levels : i <= j => L[j] \subseteq L[i]
  /\ \A i \in Levels : \A n \in L[i] : i < mem[n].topLevel

(* head and tail stay what the constructor made them. *)
SentinelsAreFixed ==
  /\ Key(Head) = MinKey /\ Key(Tail) = MaxKey
  /\ mem[Head].topLevel = MAX_LEVEL
  /\ \A i \in Levels : State(Head, i) = INSERTED /\ State(Tail, i) = INSERTED
  /\ \A i \in Levels : Ref(Tail, i) = Nil

(* A level leads to nodes that were linked there. *)
LevelsAreClosed(U, L) ==
  \A n \in U \union {Head} : \A i \in Levels :
    i < mem[n].topLevel => Ref(n, i) \in L[i] \union {Tail}

(* The links of a level, and the keys, as functions: what a chain is made    *)
(* of.                                                                       *)
Nexts(i) == [n \in Towers |-> Ref(n, i)]
KeyOf == [n \in Towers |-> Key(n)]

(* A linked node that a walk of the level does not meet is DELETED there. *)
LiveNodesAreLinked(L, C) ==
  \A i \in Levels : \A n \in L[i] : State(n, i) # DELETED => n \in C[i]

(* What the state of a node says of its levels and of its bits. *)
TowerIsRight(L, n) ==
  /\ Key(n) \in Keys
  /\ 0 < mem[n].topLevel
  /\ \A i \in Levels \ {0} :
       /\ i < mem[n].topLevel => State(n, i) \in {INSERTED, DELETED}
       /\ n \in L[i] => State(n, 0) # INTEND_TO_INSERT
       /\ i < mem[n].topLevel /\ State(n, 0) \in {INTEND_TO_DELETE, DELETED} => State(n, i) = DELETED
       /\ \A j \in Levels : i <= j /\ j < mem[n].topLevel /\ State(n, i) = DELETED => State(n, j) = DELETED

(* The three validity bits, by the state of the node. *)
BitsAreRight(L, n) ==
  LET m == mem[n]
      v == m.pValidity
  IN  /\ m.validStart = v
      /\ n \notin L[0] => m.validEnd = ~v /\ m.deleted = ~v /\ State(n, 0) = INTEND_TO_INSERT
      /\ State(n, 0) \in {INTEND_TO_INSERT, INSERTED} => m.deleted = ~v
      /\ State(n, 0) # INTEND_TO_INSERT => m.validEnd = v
      /\ State(n, 0) = DELETED => m.deleted = v

(* NVM has the nodes that are valid now. A free node is dead, and if a       *)
(* thread or level may still lead to it, it is DELETED.                      *)
NVMIsRight(U, L) ==
  /\ \A n \in Nodes : nvm[n] = IF isValid(mem[n]) THEN Key(n) ELSE Nil
  /\ \A n \in Nodes \ U : ~isValid(mem[n])
  /\ \A n \in free :
       /\ mem[n].validEnd = mem[n].validStart /\ mem[n].deleted = mem[n].validStart
       /\ n \in U => n \in L[0] /\ State(n, 0) = DELETED

(* The insert that has made a node and not returned yet, and how many levels *)
(* of the node it has linked. l and c are the local variables and the call.  *)
Owner(l, c) == l.pc \in {"link", "undo"} \/ (c.op = "insert" /\ l.result)

Height(l) == IF l.pc \in {"link", "undo"} THEN 0 ELSE IF l.up = 0 THEN 1 ELSE l.up

(* No two insertions own one node. *)
OwnersAreApart ==
  \A t, u \in Threads :
    Owner(local[t], call[t]) /\ Owner(local[u], call[u]) /\ local[t].node = local[u].node => t = u

(* The references that insert has kept for a level. *)
Kept(L, l, i) == l.preds[i] \in L[i] \union {Head} /\ l.succs[i] \in L[i] \union {Tail}

Finding == {"findLevel", "find", "cut"}
Raising == {"raise", "linkUpper"} \union Finding

(* An insertion has linked its node on the levels below Height, and on these *)
(* alone. The references for the levels above are of those levels.           *)
OwnerInv(U, L, l, c) ==
  LET n == l.node IN
  Owner(l, c) =>
    /\ c.op = "insert"
    /\ n \in U /\ Key(n) = c.arg
    /\ \A i \in Levels : n \in L[i] <=> i < Height(l)
    /\ l.pc \in {"link", "undo", "help", "publish"} \union Raising
    /\ l.pc \notin Raising => l.up = 0
    /\ l.pc \in Raising =>
         0 < l.up /\ l.up < mem[n].topLevel /\ State(n, 0) # INTEND_TO_INSERT
    /\ l.pc = "link" =>
         /\ \A i \in Levels : i < mem[n].topLevel => Ref(n, i) = l.succs[i]
         /\ Key(l.preds[0]) < c.arg /\ c.arg < Key(l.succs[0])
    /\ l.pc = "linkUpper" => Ref(n, l.up) = l.succs[l.up]
    /\ l.pc # "undo" =>
         \A i \in Levels : Height(l) <= i /\ i < mem[n].topLevel => Kept(L, l, i)

(* A walk is on nodes that were linked on its level. *)
WalkInv(L, l, c) ==
  /\ l.pc \in {"idle", "walk", "step"} => l.node = Nil /\ l.up = 0 /\ ~l.result
  /\ l.pc \in {"walk", "step"} =>
    /\ l.curr \in L[l.lvl] \union {IF l.pc = "walk" THEN Tail ELSE Head}
    /\ c.op = "insert" \/ l.lvl > 0 => l.pred \in L[l.lvl] \union {Head}
    /\ c.op = "insert" =>
         /\ Key(l.pred) < c.arg
         /\ \A i \in Levels : l.lvl < i => Kept(L, l, i)

(* The nodes from l.from to l.curr are DELETED, and frozen. *)
RunIsDead(L, l) ==
  \E D \in SUBSET L[l.lvl] :
    /\ l.from \in D \union {l.curr}
    /\ \A d \in D : State(d, l.lvl) = DELETED /\ Ref(d, l.lvl) \in D \union {l.curr}

(* find has reached curr from pred over DELETED nodes. *)
FindInv(L, l, c) ==
  l.pc \in Finding =>
    /\ l.pred \in L[l.lvl] \union {Head}
    /\ c.op \in {"insert", "remove"}
    /\ c.op = "insert" => l.result
    /\ l.pc # "findLevel" => l.curr \in L[l.lvl] \union {Tail} /\ RunIsDead(L, l)

(* A node that is helped is on the list, and published with its bit set. *)
HelpInv(L, l, c) ==
  LET n == l.node IN
  /\ l.pc \in {"help", "publish"} => c.op = "insert" /\ n \in L[0] /\ l.up = 0
  /\ l.pc = "publish" => mem[n].validEnd = mem[n].pValidity
  /\ l.pc \in {"raise", "linkUpper"} => Owner(l, c)

(* A remover has marked its node from the top down to its level. *)
RemoveInv(L, l, c) ==
  LET n == l.node IN
  /\ l.pc \in {"mark", "destroy", "bury", "free"} => c.op = "remove"
  /\ l.pc \in {"mark", "destroy", "bury", "free"} \/ (l.pc \in Finding /\ c.op = "remove") =>
       /\ n \in L[0] /\ State(n, 0) # INTEND_TO_INSERT
       /\ l.pc = "mark" =>
            /\ l.lvl < mem[n].topLevel
            /\ \A i \in Levels : l.lvl < i /\ i < mem[n].topLevel => State(n, i) = DELETED
       /\ l.pc # "mark" => State(n, 0) # INSERTED
       /\ l.pc = "bury" => mem[n].deleted = mem[n].pValidity
       /\ l.pc \notin {"mark", "destroy", "bury"} => State(n, 0) = DELETED

(* What holds of a thread with the local variables l and the call c. *)
ThreadInv(U, L, l, c) ==
  OwnerInv(U, L, l, c) /\ WalkInv(L, l, c) /\ FindInv(L, l, c) /\ HelpInv(L, l, c) /\ RemoveInv(L, l, c)

(* The memory part of the invariant. *)
MemoryInv(U, L, C) ==
  /\ SentinelsAreFixed
  /\ LevelsAreClosed(U, L)
  /\ LiveNodesAreLinked(L, C)
  /\ \A n \in U : TowerIsRight(L, n) /\ BitsAreRight(L, n)
  /\ NVMIsRight(U, L)

(* Each level is one chain from head to tail, level 0 in the order of the    *)
(* keys.                                                                     *)
ChainsInv(C) ==
  /\ \A i \in Levels : \E r : IsChain(C[i], r, Nexts(i), Head, Tail)
  /\ IsChain(C[0], KeyOf, Nexts(0), Head, Tail)

(* The invariant for given histories. *)
Inv(U, L, C) ==
  /\ TypeInv
  /\ HistoryInv(U, L, C)
  /\ MemoryInv(U, L, C)
  /\ ChainsInv(C)
  /\ OwnersAreApart
  /\ \A t \in Threads : ThreadInv(U, L, local[t], call[t])

(* In each state there are histories that explain it. *)
IInv == \E U, L, C : Inv(U, L, C)

-----------------------------------------------------------------------------
(* What the constants and the types give. *)

(* Levels are numbers below MAX_LEVEL, 0 and the topmost among them. *)
LEMMA LevelFacts ==
  /\ Levels \subseteq Nat
  /\ 0 \in Levels /\ MAX_LEVEL - 1 \in Levels
  /\ MAX_LEVEL \in Nat
  /\ \A i \in Levels : i < MAX_LEVEL /\ (i > 0 => i - 1 \in Levels)
BY LevelsAssumption DEF Levels

(* The order of the levels goes on to the height of a node. *)
LEMMA LevelOrder == \A i, j \in Levels : \A k \in Nat : i <= j /\ j < k => i < k
BY LevelFacts

(* The four states are different numbers. *)
LEMMA StateFacts ==
  /\ States = {0, 1, 2, 3}
  /\ INSERTED = 0 /\ INTEND_TO_DELETE = 1 /\ INTEND_TO_INSERT = 2 /\ DELETED = 3
BY DEF States, INSERTED, INTEND_TO_DELETE, INTEND_TO_INSERT, DELETED

(* head, tail, the nodes and NULL are apart. *)
LEMMA NameFacts ==
  /\ Head # Tail /\ Head # Nil /\ Tail # Nil
  /\ Head \in Towers /\ Tail \in Towers /\ Nodes \subseteq Towers
  /\ \A n \in Nodes : n # Head /\ n # Tail /\ n # Nil
BY NodesAssumption DEF Towers

(* The types of the fields of a node. *)
LEMMA Fields ==
  ASSUME TypeInv, NEW n \in Towers
  PROVE  /\ mem[n] \in NodeFields
         /\ Key(n) \in Int /\ mem[n].topLevel \in 0..MAX_LEVEL
         /\ mem[n].link \in [Levels -> Links]
         /\ mem[n].validStart \in BOOLEAN /\ mem[n].validEnd \in BOOLEAN
         /\ mem[n].deleted \in BOOLEAN /\ mem[n].pValidity \in BOOLEAN
         /\ \A i \in Levels :
              /\ mem[n].link[i] \in Links
              /\ Ref(n, i) \in Towers \union {Nil} /\ State(n, i) \in States
BY DEF TypeInv, NodeFields, Links, Key, Ref, State

(* The types of the local variables. *)
LEMMA LocalFields ==
  ASSUME NEW l \in Locals
  PROVE  /\ l.pc \in Labels /\ l.lvl \in Levels /\ l.up \in Levels /\ l.result \in BOOLEAN
         /\ l.pred \in Towers \union {Nil} /\ l.from \in Towers \union {Nil}
         /\ l.curr \in Towers \union {Nil} /\ l.node \in Towers \union {Nil}
         /\ l.predState \in States \ {DELETED}
         /\ l.preds \in [Levels -> Towers \union {Nil}]
         /\ l.succs \in [Levels -> Towers \union {Nil}]
BY DEF Locals

(* A running call has a key. *)
LEMMA Running ==
  ASSUME TypeInv, NEW t \in Threads, ~At(t, "idle")
  PROVE  /\ call[t] \in DS!Calls
         /\ call[t].op \in {"insert", "remove", "contains"}
         /\ call[t].arg \in Keys /\ call[t].arg \in Int
         /\ MinKey < call[t].arg /\ call[t].arg < MaxKey
BY KeysAssumption DEF TypeInv, DS!Calls, DS!Operations

(* The fields of what a thread becomes. *)
LEMMA IdleIsLocal ==
  /\ Idle \in Locals
  /\ Idle.pc = "idle" /\ Idle.lvl = 0 /\ Idle.up = 0 /\ Idle.result = FALSE
  /\ Idle.node = Nil /\ Idle.predState = INSERTED
<1>1. 0 \in Levels
  BY LevelFacts
<1> QED
  BY <1>1, StateFacts DEF Idle, Locals, Labels

(* Members of a level. *)
LEMMA OnLevel ==
  ASSUME NEW U, NEW L, NEW C, Inv(U, L, C), NEW i \in Levels, NEW n \in L[i] \union {Head}
  PROVE  /\ n \in Towers /\ n # Tail /\ n # Nil
         /\ n \in U \union {Head}
         /\ i < mem[n].topLevel
         /\ Ref(n, i) \in L[i] \union {Tail}
         /\ \A j \in Levels : j <= i => n \in L[j] \union {Head}
         /\ n # Head => n \in Nodes
<1>1. L[i] \subseteq U /\ U \subseteq Nodes /\ \A j \in Levels : j <= i => L[i] \subseteq L[j]
  BY DEF Inv, HistoryInv
<1>2. n \in U \union {Head} /\ n \in Towers /\ n # Tail /\ n # Nil
  BY <1>1, NameFacts
<1>3. i < mem[n].topLevel
  BY LevelFacts DEF Inv, HistoryInv, MemoryInv, SentinelsAreFixed
<1> QED
  BY <1>1, <1>2, <1>3, NameFacts DEF Inv, MemoryInv, LevelsAreClosed

(* The nodes of a level are nodes. *)
LEMMA LevelIsTower ==
  ASSUME NEW U, NEW L, NEW C, Inv(U, L, C), NEW i \in Levels
  PROVE  L[i] \subseteq Towers /\ L[i] \subseteq Nodes /\ L[i] \subseteq U
BY NameFacts DEF Inv, HistoryInv

(* A node with a key of the callers is no sentinel. *)
LEMMA SentinelKeys ==
  ASSUME NEW U, NEW L, NEW C, Inv(U, L, C)
  PROVE  Key(Head) = MinKey /\ Key(Tail) = MaxKey
BY DEF Inv, MemoryInv, SentinelsAreFixed

-----------------------------------------------------------------------------
(* Steps that change no memory. *)

(* A step that changes the variables of one thread alone, to what ThreadInv  *)
(* allows, preserves the invariant.                                          *)
LEMMA LocalMove ==
  ASSUME NEW U, NEW L, NEW C, Inv(U, L, C), NEW t \in Threads,
         NEW l \in Locals, NEW c \in DS!Calls \union {DS!None}, l.pc = "idle" <=> c = DS!None,
         ThreadInv(U, L, l, c),
         Owner(l, c) => Owner(local[t], call[t]) /\ l.node = local[t].node,
         Become(t, l), call' = [call EXCEPT ![t] = c], UNCHANGED <<mem, nvm, free>>
  PROVE  Inv(U, L, C)'
<1>1. /\ local \in [Threads -> Locals] /\ call \in [Threads -> DS!Calls \union {DS!None}]
      /\ \A u \in Threads : local[u].pc = "idle" <=> call[u] = DS!None
  BY DEF Inv, TypeInv, At
<1>2. /\ local'[t] = l /\ call'[t] = c
      /\ \A u \in Threads \ {t} : local'[u] = local[u] /\ call'[u] = call[u]
      /\ local' \in [Threads -> Locals] /\ call' \in [Threads -> DS!Calls \union {DS!None}]
  BY <1>1 DEF Become
<1>3. TypeInv'
  <2>1. mem \in [Towers -> NodeFields] /\ nvm \in [Nodes -> Int \union {Nil}] /\ free \in SUBSET Nodes
    BY DEF Inv, TypeInv
  <2>2. \A u \in Threads : local'[u].pc = "idle" <=> call'[u] = DS!None
    BY <1>1, <1>2
  <2> QED
    BY <1>2, <2>1, <2>2 DEF TypeInv, At
<1>4. HistoryInv(U, L, C)'
  BY DEF Inv, HistoryInv
<1>5. MemoryInv(U, L, C)'
  <2>1. SentinelsAreFixed' /\ LevelsAreClosed(U, L)' /\ LiveNodesAreLinked(L, C)'
    BY DEF Inv, MemoryInv, SentinelsAreFixed, LevelsAreClosed, LiveNodesAreLinked, Key, Ref, State
  <2>2. \A n \in U : TowerIsRight(L, n)' /\ BitsAreRight(L, n)'
    BY DEF Inv, MemoryInv, TowerIsRight, BitsAreRight, Key, Ref, State
  <2>3. NVMIsRight(U, L)'
    BY DEF Inv, MemoryInv, NVMIsRight, isValid, Key, Ref, State
  <2> QED
    BY <2>1, <2>2, <2>3 DEF MemoryInv
<1>6. ChainsInv(C)'
  BY DEF Inv, ChainsInv, Nexts, KeyOf, Ref, Key
<1>7. OwnersAreApart'
  <2> SUFFICES ASSUME NEW u \in Threads, NEW v \in Threads,
                      Owner(local'[u], call'[u]), Owner(local'[v], call'[v]),
                      local'[u].node = local'[v].node
               PROVE  u = v
    BY DEF OwnersAreApart
  <2>1. \A w \in Threads : Owner(local'[w], call'[w]) =>
          Owner(local[w], call[w]) /\ local'[w].node = local[w].node
    BY <1>2
  <2> QED
    BY <2>1 DEF Inv, OwnersAreApart
<1>8. ASSUME NEW u \in Threads PROVE ThreadInv(U, L, local[u], call[u])'
  <2>1. ThreadInv(U, L, local'[u], call'[u])
    BY SMTT(30), <1>2 DEF Inv
  <2>2. OwnerInv(U, L, local[u], call[u])'
    BY <2>1 DEF ThreadInv, OwnerInv, Key, Ref, State
  <2>3. WalkInv(L, local[u], call[u])'
    BY SMTT(30), <2>1 DEF ThreadInv, WalkInv, Key
  <2>4. FindInv(L, local[u], call[u])'
    BY <2>1, SMTT(30) DEF ThreadInv, FindInv, RunIsDead, Ref, State
  <2>5. HelpInv(L, local[u], call[u])' /\ RemoveInv(L, local[u], call[u])'
    BY <2>1 DEF ThreadInv, HelpInv, RemoveInv, State
  <2> QED
    BY <2>2, <2>3, <2>4, <2>5 DEF ThreadInv
<1> QED
  BY <1>3, <1>4, <1>5, <1>6, <1>7, <1>8 DEF Inv

-----------------------------------------------------------------------------
(* What a thread may become, whatever it did to get there. *)

(* Of a thread that walks WalkInv is all there is to know. *)
LEMMA QuietThread ==
  ASSUME NEW U, NEW L, NEW l, NEW c, l.pc \in {"idle", "walk", "step"}, WalkInv(L, l, c)
  PROVE  ThreadInv(U, L, l, c) /\ ~Owner(l, c)
BY DEF ThreadInv, OwnerInv, Owner, WalkInv, FindInv, HelpInv, RemoveInv, Finding

(* An idle thread. *)
LEMMA IdleThread ==
  ASSUME NEW U, NEW L
  PROVE  ThreadInv(U, L, Idle, DS!None) /\ ~Owner(Idle, DS!None)
<1>1. WalkInv(L, Idle, DS!None)
  BY DEF WalkInv, Idle
<1> QED
  BY <1>1, IdleIsLocal, QuietThread

(* A search begins at head, on the topmost level. *)
LEMMA StartOfSearch ==
  ASSUME NEW U, NEW L, NEW C, Inv(U, L, C), NEW c \in DS!Calls
  PROVE  /\ StartSearch \in Locals /\ StartSearch.pc = "walk"
         /\ ThreadInv(U, L, StartSearch, c) /\ ~Owner(StartSearch, c)
<1> DEFINE top == MAX_LEVEL - 1
           l == StartSearch
<1>1. top \in Levels /\ \A i \in Levels : ~(top < i)
  BY LevelFacts DEF Levels
<1>2. Ref(Head, top) \in L[top] \union {Tail} /\ L[top] \subseteq Towers
  BY <1>1, OnLevel, LevelIsTower
<1>3. /\ l.pc = "walk" /\ l.lvl = top /\ l.pred = Head /\ l.curr = Ref(Head, top)
      /\ l.node = Nil /\ l.up = 0 /\ l.result = FALSE
  BY DEF StartSearch, Idle
<1>4. l \in Locals
  <2>1. Ref(Head, top) \in Towers \union {Nil} /\ Head \in Towers \union {Nil} /\ "walk" \in Labels
    BY <1>2, NameFacts DEF Labels
  <2> HIDE DEF top
  <2> QED
    BY ZenonT(60), <1>1, <2>1, IdleIsLocal DEF StartSearch, Locals, top
<1>5. c.arg \in Keys /\ c.arg \in Int /\ Key(Head) < c.arg
  BY KeysAssumption, SentinelKeys DEF DS!Calls
<1>6. WalkInv(L, l, c)
  BY <1>1, <1>2, <1>3, <1>5 DEF WalkInv
<1> QED
  BY <1>3, <1>4, <1>6, QuietThread

(* What find has when it begins a level behind p. *)
LEMMA FindFacts ==
  ASSUME NEW U, NEW L, NEW C, Inv(U, L, C), NEW l \in Locals, NEW i \in Levels,
         NEW p \in L[i] \union {Head}, State(p, i) # DELETED
  PROVE  LET f == FindFrom(l, p, i) IN
         /\ f \in Locals
         /\ f.pc = "find" /\ f.lvl = i /\ f.pred = p /\ f.from = Ref(p, i) /\ f.curr = Ref(p, i)
         /\ f.preds = l.preds /\ f.succs = l.succs /\ f.node = l.node /\ f.up = l.up
         /\ f.result = l.result
<1>1. p \in Towers /\ Ref(p, i) \in L[i] \union {Tail} /\ L[i] \subseteq Towers
  BY OnLevel, LevelIsTower
<1>2. State(p, i) \in States \ {DELETED}
  BY <1>1, Fields DEF Inv
<1> QED
  BY <1>1, <1>2, NameFacts DEF FindFrom, Locals, Labels

(* find may begin a level behind any node that was linked there and is not   *)
(* DELETED.                                                                  *)
LEMMA FindThread ==
  ASSUME NEW U, NEW L, NEW C, Inv(U, L, C), NEW l \in Locals, NEW c, NEW i \in Levels,
         NEW p \in L[i] \union {Head}, State(p, i) # DELETED,
         ThreadInv(U, L, l, c), l.pc \in {"linkUpper", "bury"} \union Finding,
         l.pc = "bury" => State(l.node, 0) = DELETED
  PROVE  ThreadInv(U, L, FindFrom(l, p, i), c)
<1> DEFINE f == FindFrom(l, p, i)
<1>1. /\ f.pc = "find" /\ f.lvl = i /\ f.pred = p /\ f.from = Ref(p, i) /\ f.curr = Ref(p, i)
      /\ f.preds = l.preds /\ f.succs = l.succs /\ f.node = l.node /\ f.up = l.up
      /\ f.result = l.result
  BY FindFacts
<1>2. Ref(p, i) \in L[i] \union {Tail}
  BY OnLevel
<1> HIDE DEF f
<1>3. c.op \in {"insert", "remove"} /\ (c.op = "insert" => l.result)
  BY DEF ThreadInv, FindInv, HelpInv, RemoveInv, Owner, Finding
<1>4. RunIsDead(L, f)
  <2>1. {} \in SUBSET L[f.lvl] /\ f.from \in {} \union {f.curr}
    BY <1>1
  <2> QED
    BY <2>1 DEF RunIsDead
<1>5. OwnerInv(U, L, f, c)
  <2>1. Owner(f, c) => Owner(l, c)
    BY <1>1 DEF Owner
  <2>2. Owner(l, c) => Height(f) = Height(l)
    BY <1>1 DEF Owner, Height, Finding
  <2> QED
    BY <1>1, <2>1, <2>2 DEF ThreadInv, OwnerInv, Kept, Raising, Finding, RemoveInv
<1>6. WalkInv(L, f, c) /\ HelpInv(L, f, c)
  BY <1>1 DEF WalkInv, HelpInv
<1>7. FindInv(L, f, c)
  BY <1>1, <1>2, <1>3, <1>4 DEF FindInv, Finding
<1>8. RemoveInv(L, f, c)
  BY <1>1 DEF ThreadInv, RemoveInv, Finding, HelpInv, Owner
<1> QED
  BY <1>5, <1>6, <1>7, <1>8 DEF ThreadInv, f

(* find goes down one level, or ends. *)
LEMMA FindGoesDown ==
  ASSUME NEW U, NEW L, NEW C, Inv(U, L, C), NEW t \in Threads, local[t].pc \in {"find", "cut"}
  PROVE  /\ FindDown(t) \in Locals /\ FindDown(t).pc # "idle"
         /\ ThreadInv(U, L, FindDown(t), call[t])
         /\ Owner(FindDown(t), call[t]) <=> Owner(local[t], call[t])
         /\ FindDown(t).node = local[t].node
<1> DEFINE l == local[t]
           c == call[t]
           k == l.lvl
           r == Record(t)
           d == FindDown(t)
<1>1. l \in Locals /\ TypeInv /\ ThreadInv(U, L, l, c) /\ k \in Levels
  <2>1. l \in Locals
    BY DEF Inv, TypeInv
  <2> QED
    BY <2>1, LocalFields DEF Inv
<1>2. /\ l.pred \in L[k] \union {Head} /\ c.op \in {"insert", "remove"}
      /\ c.op = "insert" => l.result
      /\ l.curr \in L[k] \union {Tail}
  BY SMTT(30), <1>1 DEF ThreadInv, FindInv, Finding
<1>3. /\ r \in Locals
      /\ r.pc = l.pc /\ r.lvl = k /\ r.pred = l.pred /\ r.node = l.node /\ r.up = l.up
      /\ r.result = l.result /\ r.from = l.from /\ r.curr = l.curr
      /\ \A i \in Levels : \/ r.preds[i] = l.preds[i] /\ r.succs[i] = l.succs[i]
                           \/ i = k /\ r.preds[i] = l.pred /\ r.succs[i] = l.curr
  <2>1. [l EXCEPT !.preds[l.lvl] = l.pred, !.succs[l.lvl] = l.curr] \in Locals
    BY <1>1 DEF Locals
  <2> QED
    BY <1>1, <2>1 DEF Record, Locals
<1>4. /\ d \in Locals
      /\ d.node = l.node /\ d.up = l.up /\ d.result = l.result
      /\ d.preds = r.preds /\ d.succs = r.succs
      /\ IF k > 0 THEN d.pc = "findLevel" /\ d.lvl = k - 1 /\ d.pred = l.pred
         ELSE d.pc = IF c.op = "insert" THEN "raise" ELSE "free"
  <2>1. 0 \in Levels /\ INSERTED \in States \ {DELETED} /\ (k > 0 => k - 1 \in Levels)
    <3> HIDE DEF k
    <3> QED
      BY <1>1, LevelFacts, StateFacts
  <2>2. PICK e \in Locals : e = [r EXCEPT !.predState = INSERTED]
    BY <1>3, <2>1 DEF Locals
  <2>3. /\ e.lvl = k /\ e.pred = l.pred /\ e.node = l.node /\ e.up = l.up
        /\ e.result = l.result /\ e.preds = r.preds /\ e.succs = r.succs
    BY <1>3, <2>2 DEF Locals
  <2>4. d = IF e.lvl > 0 THEN [e EXCEPT !.pc = "findLevel", !.lvl = e.lvl - 1, !.from = Nil, !.curr = Nil]
            ELSE SearchEnds(e, IF c.op = "insert" THEN "raise" ELSE "free")
    BY <2>2 DEF FindDown
  <2> HIDE DEF d, r, l, c
  <2>5. CASE k > 0
    <3>1. d = [e EXCEPT !.pc = "findLevel", !.lvl = k - 1, !.from = Nil, !.curr = Nil]
      BY <2>3, <2>4, <2>5
    <3> QED
      BY ZenonT(60), <2>1, <2>2, <2>3, <2>5, <3>1 DEF Locals, Labels
  <2>6. CASE ~(k > 0)
    <3>1. d = SearchEnds(e, IF c.op = "insert" THEN "raise" ELSE "free")
      BY <2>3, <2>4, <2>6
    <3> QED
      BY ZenonT(60), <2>1, <2>2, <2>3, <2>6, <3>1 DEF SearchEnds, Locals, Labels
  <2> QED
    BY <2>5, <2>6
<1>5. Owner(d, c) <=> Owner(l, c)
  BY <1>2, <1>4 DEF Owner
<1> HIDE DEF d, r
<1>6. \A i \in Levels : Kept(L, l, i) => Kept(L, d, i)
  BY <1>2, <1>3, <1>4 DEF Kept
<1>7. OwnerInv(U, L, d, c)
  <2>1. Height(d) = Height(l)
    BY <1>4 DEF Height
  <2> QED
    BY <1>1, <1>2, <1>4, <1>5, <1>6, <2>1 DEF ThreadInv, OwnerInv, Raising, Finding
<1>8. WalkInv(L, d, c)
  BY <1>4 DEF WalkInv
<1>9. FindInv(L, d, c)
  <2> SUFFICES ASSUME k > 0 PROVE d.pred \in L[k-1] \union {Head}
    BY <1>2, <1>4 DEF FindInv, Finding
  <2>1. k - 1 \in Levels /\ k - 1 <= k
    <3> HIDE DEF k
    <3> QED
      BY <1>1, LevelFacts
  <2>2. \A j \in Levels : j <= k => l.pred \in L[j] \union {Head}
    <3> HIDE DEF k
    <3> QED
      BY <1>1, <1>2, OnLevel
  <2> QED
    BY <1>4, <2>1, <2>2
<1>10. HelpInv(L, d, c) /\ RemoveInv(L, d, c)
  BY <1>1, <1>2, <1>4, <1>5 DEF ThreadInv, HelpInv, RemoveInv, Owner, Finding
<1> QED
  BY <1>4, <1>5, <1>7, <1>8, <1>9, <1>10 DEF ThreadInv, d

-----------------------------------------------------------------------------
(* The steps that change no memory preserve the invariant. *)

(* What the invariant says of a running thread. *)
LEMMA ThreadFacts ==
  ASSUME NEW U, NEW L, NEW C, Inv(U, L, C), NEW t \in Threads
  PROVE  /\ TypeInv
         /\ local[t] \in Locals /\ call[t] \in DS!Calls \union {DS!None}
         /\ local[t].pc = "idle" <=> call[t] = DS!None
         /\ ThreadInv(U, L, local[t], call[t])
BY DEF Inv, TypeInv, At

(* An operation that changes no memory returns. *)
LEMMA AnswerMove ==
  ASSUME NEW U, NEW L, NEW C, Inv(U, L, C), NEW t \in Threads, NEW r, Return(t, r),
         UNCHANGED <<mem, nvm, free>>
  PROVE  Inv(U, L, C)'
BY IdleThread, IdleIsLocal, LocalMove DEF Return

(* A thread goes on with its call. *)
LEMMA ThreadMove ==
  ASSUME NEW U, NEW L, NEW C, Inv(U, L, C), NEW t \in Threads, local[t].pc # "idle",
         NEW l \in Locals, l.pc # "idle", ThreadInv(U, L, l, call[t]),
         Owner(l, call[t]) => Owner(local[t], call[t]) /\ l.node = local[t].node,
         Become(t, l), UNCHANGED <<mem, nvm, free, call>>
  PROVE  Inv(U, L, C)'
<1>1. call[t] \in DS!Calls \union {DS!None} /\ call[t] # DS!None
  BY ThreadFacts
<1>2. call' = [call EXCEPT ![t] = call[t]]
  BY DEF Inv, TypeInv
<1> QED
  BY <1>1, <1>2, LocalMove

(* An operation is invoked. *)
LEMMA InvokeMove ==
  ASSUME NEW U, NEW L, NEW C, Inv(U, L, C), NEW t \in Threads, NEW c \in DS!Calls, Invoke(t, c)
  PROVE  Inv(U, L, C)'
<1>1. c # DS!None
  BY DEF DS!Calls, DS!None, DS!Operations
<1> QED
  BY <1>1, StartOfSearch, LocalMove DEF Invoke

(* Where a walk stands. *)
LEMMA WalkFacts ==
  ASSUME NEW U, NEW L, NEW C, Inv(U, L, C), NEW t \in Threads, local[t].pc \in {"walk", "step"}
  PROVE  LET l == local[t] IN
         /\ l \in Locals /\ l.lvl \in Levels /\ WalkInv(L, l, call[t])
         /\ l.node = Nil /\ l.up = 0 /\ ~l.result /\ ~Owner(l, call[t])
         /\ l.curr \in L[l.lvl] \union {IF l.pc = "walk" THEN Tail ELSE Head}
         /\ l.curr \in Towers /\ State(l.curr, l.lvl) \in States
         /\ l.curr # Tail => Ref(l.curr, l.lvl) \in L[l.lvl] \union {Tail}
         /\ L[l.lvl] \subseteq Towers
         /\ State(Tail, l.lvl) = INSERTED
         /\ call[t].op \in {"insert", "remove", "contains"}
         /\ call[t].arg \in Keys /\ call[t].arg \in Int
         /\ MinKey < call[t].arg /\ call[t].arg < MaxKey
<1> DEFINE l == local[t]
           k == l.lvl
<1>1. TypeInv /\ l \in Locals /\ ThreadInv(U, L, l, call[t])
  BY ThreadFacts
<1>2. k \in Levels /\ WalkInv(L, l, call[t])
  BY <1>1, LocalFields DEF ThreadInv
<1>3. /\ l.node = Nil /\ l.up = 0 /\ ~l.result
      /\ l.curr \in L[k] \union {IF l.pc = "walk" THEN Tail ELSE Head}
  BY <1>2 DEF WalkInv
<1>4. ~Owner(l, call[t])
  BY <1>3 DEF Owner
<1>5. L[k] \subseteq Towers /\ l.curr \in Towers /\ State(l.curr, k) \in States
  BY <1>1, <1>2, <1>3, LevelIsTower, NameFacts, Fields
<1>6. l.curr # Tail => Ref(l.curr, k) \in L[k] \union {Tail}
  BY <1>2, <1>3, OnLevel
<1>7. State(Tail, k) = INSERTED
  BY <1>2 DEF Inv, MemoryInv, SentinelsAreFixed
<1> QED
  BY <1>1, <1>2, <1>3, <1>4, <1>5, <1>6, <1>7, Running DEF At

(* A walk goes on over a node. *)
LEMMA WalkOnMove ==
  ASSUME NEW U, NEW L, NEW C, Inv(U, L, C), NEW t \in Threads, WalkOn(t)
  PROVE  Inv(U, L, C)'
<1> DEFINE l == local[t]
           c == call[t]
           k == l.lvl
<1>1. l.pc = "walk"
  BY DEF WalkOn, At
<1>2. /\ l \in Locals /\ k \in Levels /\ WalkInv(L, l, c) /\ c \in DS!Calls \union {DS!None}
      /\ l.node = Nil /\ l.up = 0 /\ ~l.result
      /\ l.curr \in L[k] \union {Tail} /\ l.curr \in Towers /\ L[k] \subseteq Towers
      /\ l.curr # Tail => Ref(l.curr, k) \in L[k] \union {Tail}
      /\ State(Tail, k) = INSERTED /\ State(l.curr, k) \in States
      /\ c.op \in {"insert", "remove", "contains"} /\ c.arg \in Int /\ c.arg < MaxKey
  BY <1>1, WalkFacts, ThreadFacts
<1>3. Key(Tail) = MaxKey /\ MaxKey \in Int /\ Key(l.curr) \in Int
  BY <1>2, SentinelKeys, KeysAssumption, ThreadFacts, Fields
<1>4. CASE Here(t) = DELETED
  <2> DEFINE m == [l EXCEPT !.curr = Ref(l.curr, l.lvl)]
  <2>1. l.curr # Tail
    BY <1>2, <1>4, StateFacts DEF Here
  <2>2. m \in Locals
    BY <1>2, <2>1, NameFacts DEF Locals
  <2>3. m.pc = "walk" /\ WalkInv(L, m, c)
    BY <1>1, <1>2, <2>1 DEF WalkInv, Locals, Kept
  <2>4. Become(t, m)
    BY <1>4 DEF WalkOn
  <2> HIDE DEF m
  <2> QED
    BY <1>1, <2>2, <2>3, <2>4, QuietThread, ThreadMove DEF WalkOn
<1>5. CASE Here(t) # DELETED
  <2> DEFINE m == Pass(t)
  <2>1. l.curr # Tail /\ (c.op = "insert" => Key(l.curr) < c.arg)
    BY <1>1, <1>2, <1>3, <1>5, StateFacts DEF WalkOn, WalkStops, Here, At, isOut
  <2>2. m \in Locals
    <3>1. /\ (IF c.op = "insert" THEN Here(t) ELSE INSERTED) \in States \ {DELETED}
          /\ (IF c.op = "insert" \/ l.lvl > 0 THEN l.curr ELSE Nil) \in Towers \union {Nil}
          /\ "step" \in Labels
      BY <1>2, <1>5, StateFacts DEF Here, Labels
    <3>2. \A x \in Towers \union {Nil}, y \in States \ {DELETED} :
            [l EXCEPT !.pc = "step", !.pred = x, !.predState = y] \in Locals
      BY ZenonT(60), <1>2, <3>1 DEF Locals
    <3> QED
      BY <3>1, <3>2 DEF Pass
  <2>3. m.pc = "step" /\ WalkInv(L, m, c)
    BY <1>1, <1>2, <2>1 DEF WalkInv, Locals, Pass, Kept
  <2>4. Become(t, m)
    BY <1>5 DEF WalkOn
  <2> HIDE DEF m
  <2> QED
    BY <1>1, <2>2, <2>3, <2>4, QuietThread, ThreadMove DEF WalkOn
<1> QED
  BY <1>4, <1>5

(* A walk reads the way on from a node. *)
LEMMA WalkStepMove ==
  ASSUME NEW U, NEW L, NEW C, Inv(U, L, C), NEW t \in Threads, WalkStep(t)
  PROVE  Inv(U, L, C)'
<1> DEFINE l == local[t]
           c == call[t]
           m == [l EXCEPT !.pc = "walk", !.curr = Ref(l.curr, l.lvl)]
<1>1. l.pc = "step" /\ Become(t, m)
  BY DEF WalkStep, At
<1>2. /\ l \in Locals /\ l.lvl \in Levels /\ WalkInv(L, l, c)
      /\ l.node = Nil /\ l.up = 0 /\ ~l.result
      /\ Ref(l.curr, l.lvl) \in L[l.lvl] \union {Tail}
      /\ L[l.lvl] \subseteq Towers
  <2>1. l.curr \in L[l.lvl] \union {Head} /\ L[l.lvl] \subseteq Towers
    BY <1>1, WalkFacts
  <2>2. l.lvl \in Levels
    BY <1>1, WalkFacts
  <2>3. l.curr # Tail
    BY <2>1, <2>2, OnLevel
  <2> QED
    BY <1>1, <2>1, <2>3, WalkFacts
<1>3. m \in Locals /\ m.pc = "walk"
  <2>1. PICK x \in Towers : x = Ref(l.curr, l.lvl)
    BY <1>2, NameFacts
  <2>2. m = [l EXCEPT !.pc = "walk", !.curr = x]
    BY <2>1
  <2> HIDE DEF m
  <2> QED
    BY ZenonT(60), <1>2, <2>2 DEF Locals, Labels
<1>4. WalkInv(L, m, c)
  BY <1>1, <1>2 DEF WalkInv, Locals, Kept
<1> HIDE DEF m
<1> QED
  BY <1>1, <1>3, <1>4, QuietThread, ThreadMove DEF WalkStep

(* A walk goes down one level, behind the node it has stopped at. *)
LEMMA WalkDownMove ==
  ASSUME NEW U, NEW L, NEW C, Inv(U, L, C), NEW t \in Threads, WalkDown(t)
  PROVE  Inv(U, L, C)'
<1> DEFINE l == local[t]
           c == call[t]
           k == l.lvl
           r == Record(t)
           p == IF c.op = "insert" \/ k > 1 THEN l.pred ELSE Nil
           m == [r EXCEPT !.pc = "step", !.lvl = k - 1, !.curr = l.pred, !.pred = p,
                          !.predState = INSERTED]
<1>1. l.pc = "walk" /\ k > 0
  BY DEF WalkDown, WalkStops, At
<1>2. /\ l \in Locals /\ k \in Levels /\ WalkInv(L, l, c)
      /\ l.node = Nil /\ l.up = 0 /\ ~l.result
      /\ l.curr \in L[k] \union {Tail} /\ l.curr \in Towers /\ L[k] \subseteq Towers
  BY <1>1, WalkFacts
<1>3. l.pred \in L[k] \union {Head} /\ l.pred \in Towers
  BY <1>1, <1>2, NameFacts DEF WalkInv
<1>4. /\ r \in Locals
      /\ r.pc = l.pc /\ r.lvl = k /\ r.pred = l.pred /\ r.node = l.node /\ r.up = l.up
      /\ r.result = l.result
      /\ \A i \in Levels : i # k => r.preds[i] = l.preds[i] /\ r.succs[i] = l.succs[i]
      /\ c.op = "insert" => r.preds[k] = l.pred /\ r.succs[k] = l.curr
  <2>1. [l EXCEPT !.preds[l.lvl] = l.pred, !.succs[l.lvl] = l.curr] \in Locals
    BY <1>2, <1>3 DEF Locals
  <2> QED
    BY <1>2, <2>1 DEF Record, Locals
<1>5. Become(t, m)
  BY <1>4 DEF WalkDown
<1> HIDE DEF r
<1>6. k - 1 \in Levels /\ k - 1 < k /\ \A j \in Levels : k - 1 < j => j = k \/ k < j
  <2> HIDE DEF k
  <2> QED
    BY <1>1, <1>2, LevelFacts
<1>7. l.pred \in L[k-1] \union {Head}
  <2> HIDE DEF k
  <2>1. k \in Nat
    BY <1>2, LevelFacts
  <2> QED
    BY <1>2, <1>3, <1>6, <2>1, OnLevel
<1>8. m \in Locals /\ m.pc = "step"
  <2>1. p \in Towers \union {Nil} /\ INSERTED \in States \ {DELETED} /\ "step" \in Labels
    BY <1>3, StateFacts DEF Labels
  <2> QED
    BY ZenonT(60), <1>3, <1>4, <1>6, <2>1 DEF Locals
<1>9. WalkInv(L, m, c)
  <2>1. /\ m.pc = "step" /\ m.lvl = k - 1 /\ m.pred = p /\ m.curr = l.pred /\ m.preds = r.preds
        /\ m.succs = r.succs /\ m.node = Nil /\ m.up = 0 /\ m.result = l.result
    BY <1>2, <1>4 DEF Locals
  <2>2. c.op = "insert" => Key(l.pred) < c.arg /\ \A i \in Levels : k < i => Kept(L, l, i)
    BY <1>1, <1>2 DEF WalkInv
  <2> HIDE DEF m
  <2>3. c.op = "insert" => \A i \in Levels : k - 1 < i => Kept(L, m, i)
    <3> SUFFICES ASSUME c.op = "insert", NEW i \in Levels, k - 1 < i PROVE Kept(L, m, i)
      OBVIOUS
    <3>1. CASE i = k
      BY <1>2, <1>3, <1>4, <2>1, <3>1 DEF Kept
    <3>2. CASE k < i
      <4>1. i # k
        <5> HIDE DEF k
        <5> QED
          BY <1>2, <3>2, LevelFacts
      <4> QED
        BY <1>4, <2>1, <2>2, <3>2, <4>1 DEF Kept
    <3> QED
      BY <1>6, <3>1, <3>2
  <2>4. c.op = "insert" \/ m.lvl > 0 => m.pred = l.pred
    <3> HIDE DEF k
    <3> QED
      BY <1>2, <2>1, LevelFacts
  <2> QED
    BY <1>2, <1>7, <2>1, <2>2, <2>3, <2>4 DEF WalkInv
<1> HIDE DEF m
<1> QED
  BY <1>1, <1>5, <1>8, <1>9, QuietThread, ThreadMove DEF WalkDown

(* A search that ends with a node of the key. *)
LEMMA FoundNode ==
  ASSUME NEW U, NEW L, NEW C, Inv(U, L, C), NEW t \in Threads, WalkFinds(t), local[t].lvl = 0
  PROVE  local[t].curr \in L[0] /\ State(local[t].curr, 0) \in States /\ local[t].pc = "walk"
<1>1. local[t].pc = "walk" /\ Key(local[t].curr) = call[t].arg
  BY DEF WalkFinds, WalkStops, At
<1>2. local[t].curr \in L[0] \union {Tail} /\ State(local[t].curr, 0) \in States
  BY <1>1, WalkFacts
<1>3. Key(Tail) = MaxKey /\ call[t].arg < MaxKey /\ call[t].arg \in Int
  BY <1>1, SentinelKeys, WalkFacts
<1> QED
  BY <1>1, <1>2, <1>3, KeysAssumption

(* insert finds an insertion of its key under way. *)
LEMMA InsertHelpsMove ==
  ASSUME NEW U, NEW L, NEW C, Inv(U, L, C), NEW t \in Threads, InsertHelps(t)
  PROVE  Inv(U, L, C)'
<1> DEFINE n == local[t].curr
           m == [Idle EXCEPT !.pc = "help", !.node = n]
<1>1. /\ n \in L[0] /\ local[t].pc = "walk" /\ call[t].op = "insert" /\ Become(t, m)
      /\ n \in Towers
  BY FoundNode, LevelFacts, LevelIsTower DEF InsertHelps
<1>2. /\ m \in Locals /\ m.pc = "help" /\ m.node = n /\ m.up = 0 /\ m.result = FALSE
  BY ZenonT(60), <1>1, IdleIsLocal DEF Locals, Labels
<1> HIDE DEF m
<1>3. ~Owner(m, call[t])
  BY <1>2 DEF Owner
<1>4. ThreadInv(U, L, m, call[t])
  BY <1>1, <1>2, <1>3 DEF ThreadInv, OwnerInv, WalkInv, FindInv, HelpInv, RemoveInv, Finding
<1> QED
  BY <1>1, <1>2, <1>3, <1>4, ThreadMove DEF InsertHelps

(* remove finds its key. *)
LEMMA RemoveFoundMove ==
  ASSUME NEW U, NEW L, NEW C, Inv(U, L, C), NEW t \in Threads, RemoveFound(t)
  PROVE  Inv(U, L, C)'
<1> DEFINE n == local[t].curr
           top == mem[n].topLevel - 1
           m == [Idle EXCEPT !.pc = "mark", !.node = n, !.lvl = top]
<1>1. /\ n \in L[0] /\ local[t].pc = "walk" /\ call[t].op = "remove" /\ Become(t, m)
      /\ State(n, 0) # INTEND_TO_INSERT
      /\ n \in Towers /\ n \in U
  BY FoundNode, LevelFacts, LevelIsTower, StateFacts DEF RemoveFound, isOut, Here
<1>2. /\ mem[n].topLevel \in 0..MAX_LEVEL /\ 0 < mem[n].topLevel
  BY <1>1, ThreadFacts, Fields DEF Inv, MemoryInv, TowerIsRight
<1>3. top \in Levels /\ \A i \in Levels : top < i => ~(i < mem[n].topLevel)
  BY <1>2, LevelsAssumption DEF Levels
<1>4. m \in Locals /\ m.pc = "mark" /\ m.node = n /\ m.up = 0 /\ m.result = FALSE /\ m.lvl = top
  BY ZenonT(60), <1>1, <1>3, IdleIsLocal DEF Locals, Labels
<1> HIDE DEF m
<1>5. ~Owner(m, call[t])
  BY <1>4 DEF Owner
<1>6. RemoveInv(L, m, call[t])
  BY <1>1, <1>2, <1>3, <1>4 DEF RemoveInv, Finding
<1>7. ThreadInv(U, L, m, call[t])
  BY <1>4, <1>5, <1>6 DEF ThreadInv, OwnerInv, WalkInv, FindInv, HelpInv, Finding
<1> QED
  BY <1>1, <1>4, <1>5, <1>7, ThreadMove DEF RemoveFound

(* The four steps that only answer. *)
LEMMA AnswersMove ==
  ASSUME NEW U, NEW L, NEW C, Inv(U, L, C), NEW t \in Threads,
         WalkAnswers(t) \/ InsertFound(t) \/ RemoveMiss(t) \/ RaiseStops(t)
  PROVE  Inv(U, L, C)'
BY AnswerMove DEF WalkAnswers, InsertFound, RemoveMiss, RaiseStops

-----------------------------------------------------------------------------
(* find *)

(* What the invariant says of a thread inside find. *)
LEMMA FinderFacts ==
  ASSUME NEW U, NEW L, NEW C, Inv(U, L, C), NEW t \in Threads, local[t].pc \in Finding
  PROVE  LET l == local[t] IN
         /\ l \in Locals /\ l.lvl \in Levels /\ FindInv(L, l, call[t])
         /\ l.pc # "idle"
         /\ l.pred \in L[l.lvl] \union {Head} /\ l.pred \in Towers
         /\ L[l.lvl] \subseteq Towers
         /\ State(l.pred, l.lvl) \in States
         /\ State(Tail, l.lvl) = INSERTED
         /\ call[t].op \in {"insert", "remove"} /\ (call[t].op = "insert" => l.result)
         /\ call[t].arg \in Int /\ call[t].arg < MaxKey
         /\ l.pc # "findLevel" => l.curr \in L[l.lvl] \union {Tail} /\ l.curr \in Towers
<1> DEFINE l == local[t]
<1>1. TypeInv /\ l \in Locals /\ ThreadInv(U, L, l, call[t])
  BY ThreadFacts
<1>2. l.lvl \in Levels /\ FindInv(L, l, call[t]) /\ l.pc # "idle"
  BY <1>1, LocalFields DEF ThreadInv, Finding
<1>3. L[l.lvl] \subseteq Towers
  BY <1>2, LevelIsTower
<1>4. /\ l.pred \in L[l.lvl] \union {Head}
      /\ call[t].op \in {"insert", "remove"} /\ (call[t].op = "insert" => l.result)
      /\ l.pc # "findLevel" => l.curr \in L[l.lvl] \union {Tail}
  BY <1>2 DEF FindInv
<1>5. l.pred \in Towers /\ State(l.pred, l.lvl) \in States
  BY <1>1, <1>2, <1>3, <1>4, NameFacts, Fields
<1>6. State(Tail, l.lvl) = INSERTED
  BY <1>2 DEF Inv, MemoryInv, SentinelsAreFixed
<1> QED
  BY <1>1, <1>2, <1>3, <1>4, <1>5, <1>6, NameFacts, Running DEF At

(* find begins a level, from wherever it is called. *)
LEMMA FindFromMove ==
  ASSUME NEW U, NEW L, NEW C, Inv(U, L, C), NEW t \in Threads,
         local[t].pc \in {"linkUpper"} \union Finding, NEW i \in Levels,
         NEW p \in L[i] \union {Head}, State(p, i) # DELETED,
         Become(t, FindFrom(local[t], p, i)), UNCHANGED <<mem, nvm, free, call>>
  PROVE  Inv(U, L, C)'
<1> DEFINE l == local[t]
<1>1. l \in Locals /\ ThreadInv(U, L, l, call[t])
  BY ThreadFacts
<1>2. ThreadInv(U, L, FindFrom(l, p, i), call[t])
  BY <1>1, FindThread DEF Finding
<1>3. /\ FindFrom(l, p, i) \in Locals /\ FindFrom(l, p, i).pc = "find"
      /\ FindFrom(l, p, i).node = l.node /\ FindFrom(l, p, i).result = l.result
  BY <1>1, FindFacts
<1>4. Owner(FindFrom(l, p, i), call[t]) => Owner(l, call[t])
  BY <1>3 DEF Owner
<1>5. l.pc # "idle"
  BY DEF Finding
<1> QED
  BY <1>2, <1>3, <1>4, <1>5, ThreadMove

(* head is never DELETED. *)
LEMMA HeadIsLive ==
  ASSUME NEW U, NEW L, NEW C, Inv(U, L, C), NEW i \in Levels
  PROVE  State(Head, i) # DELETED
BY StateFacts DEF Inv, MemoryInv, SentinelsAreFixed

(* find begins at the top. *)
LEMMA StartFindMove ==
  ASSUME NEW U, NEW L, NEW C, Inv(U, L, C), NEW t \in Threads,
         local[t].pc \in {"linkUpper"} \union Finding,
         Become(t, StartFind(local[t])), UNCHANGED <<mem, nvm, free, call>>
  PROVE  Inv(U, L, C)'
BY FindFromMove, HeadIsLive, LevelFacts DEF StartFind

(* find begins a level behind pred, or at the top if pred is DELETED by now. *)
LEMMA FindLevelMove ==
  ASSUME NEW U, NEW L, NEW C, Inv(U, L, C), NEW t \in Threads, FindLevel(t)
  PROVE  Inv(U, L, C)'
<1> DEFINE l == local[t]
<1>1. l.pc \in Finding /\ l.lvl \in Levels /\ l.pred \in L[l.lvl] \union {Head}
  BY FinderFacts DEF FindLevel, At, Finding
<1>2. CASE State(l.pred, l.lvl) = DELETED
  BY <1>1, <1>2, StartFindMove DEF FindLevel
<1>3. CASE State(l.pred, l.lvl) # DELETED
  BY <1>1, <1>3, FindFromMove DEF FindLevel
<1> QED
  BY <1>2, <1>3

(* A short cut could not be linked: find looks for its neighbours. *)
LEMMA LinkUpperFailsMove ==
  ASSUME NEW U, NEW L, NEW C, Inv(U, L, C), NEW t \in Threads, LinkUpperFails(t)
  PROVE  Inv(U, L, C)'
BY StartFindMove DEF LinkUpperFails, CASFails, At

(* A cut fails, and find begins again. *)
LEMMA CutFailsMove ==
  ASSUME NEW U, NEW L, NEW C, Inv(U, L, C), NEW t \in Threads, Cut(t), UNCHANGED mem,
         Become(t, StartFind(local[t]))
  PROVE  Inv(U, L, C)'
BY StartFindMove DEF Cut, At, Finding

(* find goes on over a node: a DELETED one joins the run behind pred,        *)
(* another becomes pred.                                                     *)
LEMMA FindOnMove ==
  ASSUME NEW U, NEW L, NEW C, Inv(U, L, C), NEW t \in Threads, FindOn(t)
  PROVE  Inv(U, L, C)'
<1> DEFINE l == local[t]
           c == call[t]
           k == l.lvl
<1>1. l.pc = "find" /\ l.pc \in Finding
  BY DEF FindOn, At, Finding
<1>2. /\ l \in Locals /\ k \in Levels /\ FindInv(L, l, c) /\ ThreadInv(U, L, l, c)
      /\ l.curr \in L[k] \union {Tail} /\ l.curr \in Towers /\ L[k] \subseteq Towers
      /\ l.pred \in L[k] \union {Head}
      /\ State(Tail, k) = INSERTED /\ c.arg \in Int /\ c.arg < MaxKey
  BY <1>1, FinderFacts, ThreadFacts
<1>3. Key(Tail) = MaxKey /\ MaxKey \in Int
  BY SentinelKeys, KeysAssumption
<1>4. l.curr \in L[k]
  BY <1>2, <1>3, StateFacts DEF FindOn, Here
<1>5. Ref(l.curr, k) \in L[k] \union {Tail} /\ Ref(l.curr, k) \in Towers
  BY <1>2, <1>4, OnLevel, NameFacts
<1>6. CASE Here(t) = DELETED
  <2> DEFINE m == [l EXCEPT !.curr = Ref(l.curr, l.lvl)]
  <2>1. /\ m \in Locals /\ m.pc = l.pc /\ m.lvl = k /\ m.pred = l.pred /\ m.from = l.from
        /\ m.curr = Ref(l.curr, k) /\ m.node = l.node /\ m.result = l.result /\ m.up = l.up
        /\ m.preds = l.preds /\ m.succs = l.succs
    BY <1>2, <1>5 DEF Locals
  <2>2. Become(t, m)
    BY <1>6 DEF FindOn
  <2> HIDE DEF m
  <2>3. RunIsDead(L, m)
    <3>1. PICK D \in SUBSET L[k] :
            /\ l.from \in D \union {l.curr}
            /\ \A d \in D : State(d, k) = DELETED /\ Ref(d, k) \in D \union {l.curr}
      BY <1>1, <1>2 DEF FindInv, RunIsDead
    <3> DEFINE E == D \union {l.curr}
    <3>2. E \in SUBSET L[k] /\ l.from \in E
      BY <1>4, <3>1
    <3>3. \A d \in E : State(d, k) = DELETED /\ Ref(d, k) \in E \union {m.curr}
      BY <1>6, <2>1, <3>1 DEF Here
    <3> HIDE DEF E
    <3> QED
      BY <2>1, <3>2, <3>3 DEF RunIsDead
  <2>4. FindInv(L, m, c)
    BY <1>1, <1>2, <1>5, <2>1, <2>3 DEF FindInv, Finding
  <2>5. Owner(m, c) <=> Owner(l, c)
    BY <2>1 DEF Owner
  <2>6. OwnerInv(U, L, m, c) /\ WalkInv(L, m, c) /\ HelpInv(L, m, c) /\ RemoveInv(L, m, c)
    <3>1. OwnerInv(U, L, m, c)
      BY <1>1, <1>2, <2>1, <2>5 DEF ThreadInv, OwnerInv, Height, Kept, Raising, Finding
    <3> QED
      BY <1>1, <1>2, <2>1, <3>1 DEF ThreadInv, WalkInv, HelpInv, RemoveInv
  <2> QED
    BY <1>1, <2>1, <2>2, <2>4, <2>5, <2>6, ThreadMove DEF FindOn, ThreadInv
<1>7. CASE Here(t) # DELETED
  <2> DEFINE m == [l EXCEPT !.pred = l.curr, !.predState = Here(t),
                            !.from = Ref(l.curr, l.lvl), !.curr = Ref(l.curr, l.lvl)]
             f == FindFrom(l, l.curr, k)
  <2>1. m = f
    BY <1>1, <1>2 DEF FindFrom, Here, Locals
  <2>2. Become(t, f)
    BY <1>7, <2>1 DEF FindOn
  <2> QED
    BY <1>1, <1>2, <1>4, <1>7, <2>2, FindFromMove DEF FindOn, Here
<1> QED
  BY <1>6, <1>7

(* find stops at a node, and cuts the run out if there is one. *)
LEMMA FindStopMove ==
  ASSUME NEW U, NEW L, NEW C, Inv(U, L, C), NEW t \in Threads, FindStop(t)
  PROVE  Inv(U, L, C)'
<1> DEFINE l == local[t]
           c == call[t]
<1>1. l.pc = "find" /\ l.pc \in Finding
  BY DEF FindStop, At, Finding
<1>2. l \in Locals /\ ThreadInv(U, L, l, c)
  BY ThreadFacts
<1>3. CASE l.from = l.curr
  BY <1>1, <1>3, FindGoesDown, ThreadMove DEF FindStop
<1>4. CASE l.from # l.curr
  <2> DEFINE m == [l EXCEPT !.pc = "cut"]
  <2>1. /\ m \in Locals /\ m.pc = "cut" /\ m.lvl = l.lvl /\ m.pred = l.pred /\ m.from = l.from
        /\ m.curr = l.curr /\ m.node = l.node /\ m.result = l.result /\ m.up = l.up
        /\ m.preds = l.preds /\ m.succs = l.succs
    BY <1>2 DEF Locals, Labels
  <2>2. Become(t, m)
    BY <1>4 DEF FindStop
  <2> HIDE DEF m
  <2>3. FindInv(L, m, c)
    BY <1>1, <1>2, <2>1 DEF ThreadInv, FindInv, RunIsDead, Finding
  <2>4. Owner(m, c) <=> Owner(l, c)
    BY <1>1, <2>1 DEF Owner
  <2>5. OwnerInv(U, L, m, c) /\ WalkInv(L, m, c) /\ HelpInv(L, m, c) /\ RemoveInv(L, m, c)
    <3>1. OwnerInv(U, L, m, c)
      BY SMTT(30), <1>1, <1>2, <2>1, <2>4 DEF ThreadInv, OwnerInv, Height, Kept, Raising, Finding
    <3> QED
      BY <1>1, <1>2, <2>1, <3>1 DEF ThreadInv, WalkInv, HelpInv, RemoveInv, Finding
  <2> QED
    BY <1>1, <2>1, <2>2, <2>3, <2>4, <2>5, ThreadMove DEF FindStop, ThreadInv
<1> QED
  BY <1>3, <1>4

(* Forgetting references leaves the other fields. *)
LEMMA ForgetFacts ==
  ASSUME NEW l \in Locals, NEW S
  PROVE  LET f == Forget(l, S) IN
         /\ f \in Locals
         /\ f.pc = l.pc /\ f.lvl = l.lvl /\ f.pred = l.pred /\ f.from = l.from /\ f.curr = l.curr
         /\ f.node = l.node /\ f.up = l.up /\ f.result = l.result /\ f.predState = l.predState
         /\ \A i \in Levels : i \notin S => f.preds[i] = l.preds[i] /\ f.succs[i] = l.succs[i]
<1>1. /\ l.preds \in [Levels -> Towers \union {Nil}] /\ l.succs \in [Levels -> Towers \union {Nil}]
  BY LocalFields
<1>2. /\ [i \in Levels |-> IF i \in S THEN Nil ELSE l.preds[i]] \in [Levels -> Towers \union {Nil}]
      /\ [i \in Levels |-> IF i \in S THEN Nil ELSE l.succs[i]] \in [Levels -> Towers \union {Nil}]
  BY <1>1
<1>3. \A x, y \in [Levels -> Towers \union {Nil}] : [l EXCEPT !.preds = x, !.succs = y] \in Locals
  BY DEF Locals
<1>4. Forget(l, S) \in Locals
  BY <1>2, <1>3 DEF Forget
<1> QED
  BY <1>1, <1>4 DEF Forget, Locals

(* The node of insert could not be linked. *)
LEMMA LinkFailsMove ==
  ASSUME NEW U, NEW L, NEW C, Inv(U, L, C), NEW t \in Threads, LinkNode(t), UNCHANGED mem,
         Become(t, [Forget(local[t], Levels) EXCEPT !.pc = "undo", !.predState = INSERTED])
  PROVE  Inv(U, L, C)'
<1> DEFINE l == local[t]
           c == call[t]
           m == [Forget(l, Levels) EXCEPT !.pc = "undo", !.predState = INSERTED]
<1>1. l.pc = "link" /\ l \in Locals /\ ThreadInv(U, L, l, c)
  BY ThreadFacts DEF LinkNode, At
<1>2. m \in Locals /\ m.pc = "undo" /\ m.node = l.node /\ m.up = l.up /\ m.result = l.result
  <2>1. /\ Forget(l, Levels) \in Locals /\ Forget(l, Levels).node = l.node
        /\ Forget(l, Levels).up = l.up /\ Forget(l, Levels).result = l.result
    BY <1>1, ForgetFacts
  <2>2. INSERTED \in States \ {DELETED} /\ "undo" \in Labels
    BY StateFacts DEF Labels
  <2>3. \A f \in Locals : LET g == [f EXCEPT !.pc = "undo", !.predState = INSERTED] IN
          g \in Locals /\ g.pc = "undo" /\ g.node = f.node /\ g.up = f.up /\ g.result = f.result
    BY <2>2 DEF Locals
  <2> QED
    BY <2>1, <2>3
<1>6. Become(t, m)
  OBVIOUS
<1> HIDE DEF m
<1>3. Owner(l, c) /\ Height(l) = 0 /\ Height(m) = 0
  BY <1>1, <1>2 DEF Owner, Height
<1>4. OwnerInv(U, L, m, c)
  BY <1>1, <1>2, <1>3 DEF ThreadInv, OwnerInv, Raising, Finding
<1>5. ThreadInv(U, L, m, c)
  BY <1>2, <1>4 DEF ThreadInv, WalkInv, FindInv, HelpInv, RemoveInv, Finding
<1> QED
  BY <1>1, <1>2, <1>3, <1>5, <1>6, ThreadMove DEF LinkNode

-----------------------------------------------------------------------------
(* The steps that change memory. What a step leaves to the threads that do not *)
(* take it, n0 being the node of an insertion that takes it, if it is one:    *)
(* U and L become V and M.                                                   *)
Evolves(n0, U, L, V, M) ==
  /\ U \ {n0} \subseteq V
  /\ \A i \in Levels : L[i] \subseteq M[i] /\ M[i] \subseteq L[i] \union {n0}
  /\ \A n \in U \union {Head, Tail} : Key(n)' = Key(n) /\ mem'[n].topLevel = mem[n].topLevel
  /\ \A i \in Levels : \A n \in L[i] :
       State(n, i) = DELETED => State(n, i)' = DELETED /\ Ref(n, i)' = Ref(n, i)
  /\ \A n \in U :
       /\ State(n, 0) # INTEND_TO_INSERT => State(n, 0)' # INTEND_TO_INSERT
       /\ State(n, 0) \notin {INTEND_TO_INSERT, INSERTED} => State(n, 0)' # INSERTED
       /\ \A i \in Levels : i < mem[n].topLevel /\ State(n, i) = DELETED => State(n, i)' = DELETED
       /\ mem[n].validEnd = mem[n].pValidity => mem'[n].validEnd = mem'[n].pValidity
       /\ mem[n].deleted = mem[n].pValidity => mem'[n].deleted = mem'[n].pValidity
       /\ n # n0 => \A i \in Levels : n \notin L[i] => Ref(n, i)' = Ref(n, i)

(* What holds of a thread survives the steps of the others, if the memory    *)
(* evolves so.                                                               *)
LEMMA OtherThreads ==
  ASSUME NEW U, NEW L, NEW C, Inv(U, L, C), NEW n0, NEW V, NEW M, Evolves(n0, U, L, V, M),
         NEW l \in Locals, NEW c, ThreadInv(U, L, l, c), Owner(l, c) => l.node # n0
  PROVE  ThreadInv(V, M, l, c)'
<1>1. /\ \A i \in Levels : L[i] \subseteq U /\ U \subseteq Nodes
      /\ 0 \in Levels /\ l.lvl \in Levels /\ l.up \in Levels
  BY LevelIsTower, LevelFacts, LocalFields DEF Inv, HistoryInv
<1>2. /\ U \ {n0} \subseteq V
      /\ \A i \in Levels : L[i] \subseteq M[i] /\ M[i] \subseteq L[i] \union {n0}
      /\ \A n \in U \union {Head, Tail} : Key(n)' = Key(n) /\ mem'[n].topLevel = mem[n].topLevel
      /\ \A i \in Levels : \A n \in L[i] :
           State(n, i) = DELETED => State(n, i)' = DELETED /\ Ref(n, i)' = Ref(n, i)
      /\ \A n \in U :
           /\ State(n, 0) # INTEND_TO_INSERT => State(n, 0)' # INTEND_TO_INSERT
           /\ State(n, 0) \notin {INTEND_TO_INSERT, INSERTED} => State(n, 0)' # INSERTED
           /\ \A i \in Levels : i < mem[n].topLevel /\ State(n, i) = DELETED => State(n, i)' = DELETED
           /\ mem[n].validEnd = mem[n].pValidity => mem'[n].validEnd = mem'[n].pValidity
           /\ mem[n].deleted = mem[n].pValidity => mem'[n].deleted = mem'[n].pValidity
           /\ n # n0 => \A i \in Levels : n \notin L[i] => Ref(n, i)' = Ref(n, i)
  BY DEF Evolves
<1>3. \A i \in Levels : Kept(L, l, i) => Kept(M, l, i)
  BY <1>2 DEF Kept
<1>4. OwnerInv(V, M, l, c)'
  <2> SUFFICES ASSUME Owner(l, c) PROVE OwnerInv(V, M, l, c)'
    BY DEF OwnerInv
  <2> DEFINE n == l.node
  <2>1. /\ c.op = "insert"
        /\ n \in U /\ Key(n) = c.arg
        /\ \A i \in Levels : n \in L[i] <=> i < Height(l)
        /\ l.pc \in {"link", "undo", "help", "publish"} \union Raising
        /\ l.pc \notin Raising => l.up = 0
        /\ l.pc \in Raising =>
             0 < l.up /\ l.up < mem[n].topLevel /\ State(n, 0) # INTEND_TO_INSERT
        /\ l.pc = "link" =>
             /\ \A i \in Levels : i < mem[n].topLevel => Ref(n, i) = l.succs[i]
             /\ Key(l.preds[0]) < c.arg /\ c.arg < Key(l.succs[0])
        /\ l.pc = "linkUpper" => Ref(n, l.up) = l.succs[l.up]
        /\ l.pc # "undo" =>
             \A i \in Levels : Height(l) <= i /\ i < mem[n].topLevel => Kept(L, l, i)
    BY DEF ThreadInv, OwnerInv
  <2>2. n # n0 /\ n \in V /\ Key(n)' = Key(n) /\ mem'[n].topLevel = mem[n].topLevel
        /\ \A i \in Levels : n \in M[i] <=> n \in L[i]
    BY <1>1, <1>2, <2>1
  <2>3. l.pc = "link" => Height(l) = 0 /\ 0 < mem[n].topLevel
    BY <2>1 DEF Height, Inv, MemoryInv, TowerIsRight
  <2>4. l.pc = "linkUpper" => Height(l) = l.up /\ n \notin L[l.up]
    <3> SUFFICES ASSUME l.pc = "linkUpper" PROVE Height(l) = l.up /\ n \notin L[l.up]
      OBVIOUS
    <3>1. Height(l) = l.up
      BY <2>1 DEF Height, Raising
    <3>2. ~(l.up < l.up)
      BY <1>1, LevelFacts
    <3> QED
      BY <1>1, <2>1, <3>1, <3>2
  <2>5. l.pc = "link" =>
          /\ \A i \in Levels : i < mem'[n].topLevel => Ref(n, i)' = l.succs[i]
          /\ Key(l.preds[0])' < c.arg /\ c.arg < Key(l.succs[0])'
    <3> SUFFICES ASSUME l.pc = "link"
                 PROVE  /\ \A i \in Levels : i < mem'[n].topLevel => Ref(n, i)' = l.succs[i]
                        /\ Key(l.preds[0])' < c.arg /\ c.arg < Key(l.succs[0])'
      OBVIOUS
    <3>1. \A i \in Levels : n \notin L[i]
      <4>1. \A i \in Levels : ~(i < 0)
        BY LevelFacts
      <4> QED
        BY <2>1, <2>3, <4>1
    <3>2. Kept(L, l, 0)
      BY <1>1, <2>1, <2>3
    <3>3. l.preds[0] \in U \union {Head} /\ l.succs[0] \in U \union {Tail}
      BY <1>1, <3>2 DEF Kept
    <3>4. Key(l.preds[0])' = Key(l.preds[0]) /\ Key(l.succs[0])' = Key(l.succs[0])
      BY <1>2, <3>3
    <3> QED
      BY <1>2, <2>1, <2>2, <3>1, <3>4
  <2>6. l.pc = "linkUpper" => Ref(n, l.up)' = l.succs[l.up]
    BY <1>1, <1>2, <2>1, <2>2, <2>4
  <2>7. l.pc # "undo" =>
          \A i \in Levels : Height(l) <= i /\ i < mem'[n].topLevel => Kept(M, l, i)
    BY <1>3, <2>1, <2>2
  <2>8. l.pc \in Raising =>
             0 < l.up /\ l.up < mem'[n].topLevel /\ State(n, 0)' # INTEND_TO_INSERT
    BY <1>2, <2>1, <2>2
  <2> QED
    BY <2>1, <2>2, <2>5, <2>6, <2>7, <2>8 DEF OwnerInv
<1>5. WalkInv(M, l, c)'
  <2>1. WalkInv(L, l, c)
    BY DEF ThreadInv
  <2>2. l.pc \in {"walk", "step"} /\ c.op = "insert" => Key(l.pred)' = Key(l.pred)
    BY <1>1, <1>2, <2>1 DEF WalkInv
  <2> QED
    BY <1>1, <1>2, <1>3, <2>1, <2>2 DEF WalkInv
<1>6. FindInv(M, l, c)'
  <2>1. FindInv(L, l, c)
    BY DEF ThreadInv
  <2>2. ASSUME RunIsDead(L, l) PROVE RunIsDead(M, l)'
    <3>1. PICK D \in SUBSET L[l.lvl] :
            /\ l.from \in D \union {l.curr}
            /\ \A d \in D : State(d, l.lvl) = DELETED /\ Ref(d, l.lvl) \in D \union {l.curr}
      BY <2>2 DEF RunIsDead
    <3>2. \A d \in D : State(d, l.lvl)' = DELETED /\ Ref(d, l.lvl)' \in D \union {l.curr}
      BY <1>1, <1>2, <3>1
    <3>3. D \in SUBSET M[l.lvl]
      BY <1>1, <1>2, <3>1
    <3> QED
      BY <3>1, <3>2, <3>3 DEF RunIsDead
  <2> QED
    BY <1>1, <1>2, <2>1, <2>2 DEF FindInv
<1>7. HelpInv(M, l, c)'
  BY <1>1, <1>2 DEF ThreadInv, HelpInv
<1>8. RemoveInv(M, l, c)'
  <2>1. RemoveInv(L, l, c)
    BY DEF ThreadInv
  <2> DEFINE n == l.node
  <2>2. /\ l.pc \in {"mark", "destroy", "bury", "free"} => c.op = "remove"
        /\ l.pc \in {"mark", "destroy", "bury", "free"} \/ (l.pc \in Finding /\ c.op = "remove") =>
             /\ n \in L[0] /\ State(n, 0) # INTEND_TO_INSERT
             /\ l.pc = "mark" =>
                  /\ l.lvl < mem[n].topLevel
                  /\ \A i \in Levels : l.lvl < i /\ i < mem[n].topLevel => State(n, i) = DELETED
             /\ l.pc # "mark" => State(n, 0) # INSERTED
             /\ l.pc = "bury" => mem[n].deleted = mem[n].pValidity
             /\ l.pc \notin {"mark", "destroy", "bury"} => State(n, 0) = DELETED
    BY <2>1 DEF RemoveInv
  <2>3. n \in L[0] => n \in U /\ n \in M[0]
    BY <1>1, <1>2
  <2> HIDE DEF n
  <2>4. l.pc \in {"mark", "destroy", "bury", "free"} \/ (l.pc \in Finding /\ c.op = "remove") =>
          /\ n \in M[0] /\ State(n, 0)' # INTEND_TO_INSERT
          /\ l.pc = "mark" =>
               /\ l.lvl < mem'[n].topLevel
               /\ \A i \in Levels : l.lvl < i /\ i < mem'[n].topLevel => State(n, i)' = DELETED
          /\ l.pc # "mark" => State(n, 0)' # INSERTED
          /\ l.pc = "bury" => mem'[n].deleted = mem'[n].pValidity
          /\ l.pc \notin {"mark", "destroy", "bury"} => State(n, 0)' = DELETED
    <3> SUFFICES ASSUME l.pc \in {"mark", "destroy", "bury", "free"} \/ (l.pc \in Finding /\ c.op = "remove")
                 PROVE /\ n \in M[0] /\ State(n, 0)' # INTEND_TO_INSERT
                       /\ l.pc = "mark" =>
                            /\ l.lvl < mem'[n].topLevel
                            /\ \A i \in Levels : l.lvl < i /\ i < mem'[n].topLevel => State(n, i)' = DELETED
                       /\ l.pc # "mark" => State(n, 0)' # INSERTED
                       /\ l.pc = "bury" => mem'[n].deleted = mem'[n].pValidity
                       /\ l.pc \notin {"mark", "destroy", "bury"} => State(n, 0)' = DELETED
      OBVIOUS
    <3>1. n \in L[0] /\ n \in U /\ n \in M[0]
      BY <2>2, <2>3
    <3>2. State(n, 0)' # INTEND_TO_INSERT /\ (l.pc # "mark" => State(n, 0)' # INSERTED)
      BY <1>2, <2>2, <3>1
    <3>3. l.pc = "mark" =>
               /\ l.lvl < mem'[n].topLevel
               /\ \A i \in Levels : l.lvl < i /\ i < mem'[n].topLevel => State(n, i)' = DELETED
      BY <1>2, <2>2, <3>1
    <3>4. l.pc \notin {"mark", "destroy", "bury"} => State(n, 0)' = DELETED
      BY <1>1, <1>2, <2>2, <3>1
    <3> QED
      BY <1>2, <2>2, <3>1, <3>2, <3>3, <3>4
  <2> QED
    BY <2>2, <2>4 DEF RemoveInv, n
<1> QED
  BY <1>4, <1>5, <1>6, <1>7, <1>8 DEF ThreadInv

(* A step that changes memory preserves the invariant if the memory part is  *)
(* preserved, the change is one that the other threads can take, and the     *)
(* thread itself is left right.                                              *)
LEMMA MemoryMove ==
  ASSUME NEW U, NEW L, NEW C, Inv(U, L, C), NEW t \in Threads,
         NEW l \in Locals, NEW c \in DS!Calls \union {DS!None}, l.pc = "idle" <=> c = DS!None,
         Become(t, l), call' = [call EXCEPT ![t] = c],
         mem' \in [Towers -> NodeFields], nvm' \in [Nodes -> Int \union {Nil}], free' \in SUBSET Nodes,
         NEW V, NEW M, NEW B, HistoryInv(V, M, B)', MemoryInv(V, M, B)', ChainsInv(B)',
         NEW n0, Evolves(n0, U, L, V, M),
         n0 \in U => Owner(local[t], call[t]) /\ n0 = local[t].node,
         Owner(l, c) /\ l.node \in U => Owner(local[t], call[t]) /\ l.node = local[t].node,
         ThreadInv(V, M, l, c)'
  PROVE  Inv(V, M, B)'
<1>1. /\ local \in [Threads -> Locals] /\ call \in [Threads -> DS!Calls \union {DS!None}]
      /\ \A u \in Threads : local[u].pc = "idle" <=> call[u] = DS!None
  BY DEF Inv, TypeInv, At
<1>2. /\ local'[t] = l /\ call'[t] = c
      /\ \A u \in Threads \ {t} : local'[u] = local[u] /\ call'[u] = call[u]
      /\ local' \in [Threads -> Locals] /\ call' \in [Threads -> DS!Calls \union {DS!None}]
  BY <1>1 DEF Become
<1>3. TypeInv'
  <2>1. \A u \in Threads : local'[u].pc = "idle" <=> call'[u] = DS!None
    BY <1>1, <1>2
  <2> QED
    BY <1>2, <2>1 DEF TypeInv, At
<1>4. \A u \in Threads : Owner(local[u], call[u]) => local[u].node \in U
  BY DEF Inv, ThreadInv, OwnerInv
<1>5. OwnersAreApart'
  <2> SUFFICES ASSUME NEW u \in Threads, NEW v \in Threads,
                      Owner(local'[u], call'[u]), Owner(local'[v], call'[v]),
                      local'[u].node = local'[v].node
               PROVE  u = v
    BY DEF OwnersAreApart
  <2>1. \A w \in Threads : w # t =>
          Owner(local[w], call[w]) <=> Owner(local'[w], call'[w])
    BY <1>2
  <2>2. \A w \in Threads : w # t /\ Owner(local'[w], call'[w]) =>
          Owner(local[w], call[w]) /\ local'[w].node = local[w].node /\ local[w].node \in U
    BY <1>2, <1>4, <2>1
  <2>3. Owner(local'[t], call'[t]) /\ local'[t].node \in U =>
          Owner(local[t], call[t]) /\ local'[t].node = local[t].node
    BY <1>2
  <2> QED
    BY <2>2, <2>3 DEF Inv, OwnersAreApart
<1>6. ASSUME NEW u \in Threads PROVE ThreadInv(V, M, local[u], call[u])'
  <2>1. PICK k \in Locals, d \in DS!Calls \union {DS!None} : k = local'[u] /\ d = call'[u]
    BY <1>2
  <2>2. ThreadInv(V, M, k, d)'
    <3>1. CASE u = t
      BY <1>2, <2>1, <3>1
    <3>2. CASE u # t
      <4>1. k = local[u] /\ d = call[u]
        BY <1>2, <2>1, <3>2
      <4>2. ThreadInv(U, L, k, d)
        BY <4>1 DEF Inv
      <4>3. Owner(k, d) => k.node # n0
        BY SMTT(30), <1>4, <3>2, <4>1 DEF Inv, OwnersAreApart
      <4> QED
        BY <4>2, <4>3, OtherThreads
    <3> QED
      BY <3>1, <3>2
  <2>3. OwnerInv(V, M, local[u], call[u])'
    BY <2>1, <2>2 DEF ThreadInv, OwnerInv, Key, Ref, State
  <2>4. WalkInv(M, local[u], call[u])'
    BY <2>1, <2>2 DEF ThreadInv, WalkInv, Key
  <2>5. FindInv(M, local[u], call[u])'
    <3>1. ASSUME RunIsDead(M, k)' PROVE RunIsDead(M, local[u])'
      <4>1. PICK D \in SUBSET M[k.lvl] :
              /\ k.from \in D \union {k.curr}
              /\ \A d1 \in D : State(d1, k.lvl)' = DELETED /\ Ref(d1, k.lvl)' \in D \union {k.curr}
        BY <3>1 DEF RunIsDead
      <4>2. /\ D \in SUBSET M[local'[u].lvl]
            /\ local'[u].from \in D \union {local'[u].curr}
            /\ \A d1 \in D : /\ State(d1, local[u].lvl)' = DELETED
                           /\ Ref(d1, local[u].lvl)' \in D \union {local'[u].curr}
        BY SMTT(30), <2>1, <4>1 DEF Ref, State
      <4> QED
        BY <4>2 DEF RunIsDead
    <3> QED
      BY <2>1, <2>2, <3>1 DEF ThreadInv, FindInv
  <2>6. HelpInv(M, local[u], call[u])' /\ RemoveInv(M, local[u], call[u])'
    BY <2>1, <2>2 DEF ThreadInv, HelpInv, RemoveInv, State
  <2> QED
    BY <2>3, <2>4, <2>5, <2>6 DEF ThreadInv
<1> QED
  BY <1>3, <1>5, <1>6 DEF Inv

-----------------------------------------------------------------------------
(* A store into one link. *)
Stored(n, i, w) == mem' = [mem EXCEPT ![n].link[i] = w]

(* The state alone is stored. *)
StateIsStored(n, i, s) == mem' = [mem EXCEPT ![n].link[i].state = s]

(* What the links and the other fields are after a store into one link. *)
LEMMA LinkStored ==
  ASSUME TypeInv, NEW n \in Towers, NEW i \in Levels, NEW w \in Links,
         Stored(n, i, w)
  PROVE  /\ mem' \in [Towers -> NodeFields]
         /\ \A m \in Towers :
              /\ Key(m)' = Key(m) /\ mem'[m].topLevel = mem[m].topLevel
              /\ mem'[m].validStart = mem[m].validStart /\ mem'[m].validEnd = mem[m].validEnd
              /\ mem'[m].deleted = mem[m].deleted /\ mem'[m].pValidity = mem[m].pValidity
              /\ \A j \in Levels : IF m = n /\ j = i
                                   THEN Ref(m, j)' = w.to /\ State(m, j)' = w.state
                                   ELSE Ref(m, j)' = Ref(m, j) /\ State(m, j)' = State(m, j)
<1>1. mem \in [Towers -> NodeFields] /\ mem[n] \in NodeFields
  BY DEF TypeInv
<1>2. mem[n].link \in [Levels -> Links]
  BY <1>1 DEF NodeFields
<1>3. [mem[n].link EXCEPT ![i] = w] \in [Levels -> Links]
  BY <1>2
<1>4. \A f \in [Levels -> Links] : [mem[n] EXCEPT !.link = f] \in NodeFields
  BY <1>1 DEF NodeFields
<1>5. mem' = [mem EXCEPT ![n] = [mem[n] EXCEPT !.link = [mem[n].link EXCEPT ![i] = w]]]
  BY DEF Stored
<1>6. mem' \in [Towers -> NodeFields]
  BY <1>1, <1>3, <1>4, <1>5
<1>7. mem'[n] = [mem[n] EXCEPT !.link = [mem[n].link EXCEPT ![i] = w]]
      /\ \A m \in Towers : m # n => mem'[m] = mem[m]
  BY <1>1, <1>5
<1>8. /\ mem'[n].key = mem[n].key /\ mem'[n].topLevel = mem[n].topLevel
      /\ mem'[n].validStart = mem[n].validStart /\ mem'[n].validEnd = mem[n].validEnd
      /\ mem'[n].deleted = mem[n].deleted /\ mem'[n].pValidity = mem[n].pValidity
      /\ mem'[n].link = [mem[n].link EXCEPT ![i] = w]
  BY <1>1, <1>7 DEF NodeFields
<1>9. \A j \in Levels : mem'[n].link[j] = IF j = i THEN w ELSE mem[n].link[j]
  BY <1>2, <1>8
<1> QED
  BY <1>6, <1>7, <1>8, <1>9 DEF Key, Ref, State

(* A store of a state is a store of a link with the reference it has. *)
LEMMA StateStored ==
  ASSUME TypeInv, NEW n \in Towers, NEW i \in Levels, NEW s \in States,
         StateIsStored(n, i, s)
  PROVE  To(Ref(n, i), s) \in Links /\ Stored(n, i, To(Ref(n, i), s))
<1>1. mem \in [Towers -> NodeFields] /\ mem[n] \in NodeFields
  BY DEF TypeInv
<1>2. mem[n].link \in [Levels -> Links] /\ mem[n].link[i] \in Links
  BY <1>1 DEF NodeFields
<1>3. [mem[n].link[i] EXCEPT !.state = s] = To(mem[n].link[i].to, s)
  BY <1>2 DEF Links, To
<1>4. To(mem[n].link[i].to, s) \in Links
  BY <1>2 DEF Links, To
<1> QED
  BY <1>1, <1>2, <1>3, <1>4 DEF Ref, Stored, StateIsStored

(* A store that leads a link elsewhere, with the state it has. *)
LEMMA RefStored ==
  ASSUME NEW U, NEW L, NEW C, Inv(U, L, C),
         NEW n \in U \union {Head}, NEW i \in Levels, i < mem[n].topLevel,
         NEW w \in Links, w.state = State(n, i), Stored(n, i, w),
         UNCHANGED <<nvm, free>>,
         NEW M, NEW B, HistoryInv(U, M, B), w.to \in M[i] \union {Tail},
         \A j \in Levels : L[j] \subseteq M[j],
         \A j \in Levels \ {0} : \A m \in M[j] \ L[j] : State(m, 0) # INTEND_TO_INSERT,
         \A j \in Levels : \A m \in M[j] : State(m, j) # DELETED => m \in B[j]
  PROVE  mem' \in [Towers -> NodeFields] /\ HistoryInv(U, M, B)' /\ MemoryInv(U, M, B)'
<1>1. U \subseteq Towers /\ n \in Towers /\ n # Tail /\ 0 \in Levels
  BY NameFacts, LevelFacts DEF Inv, HistoryInv
<1>2. /\ mem' \in [Towers -> NodeFields]
      /\ \A m \in Towers :
           /\ Key(m)' = Key(m) /\ mem'[m].topLevel = mem[m].topLevel
           /\ mem'[m].validStart = mem[m].validStart /\ mem'[m].validEnd = mem[m].validEnd
           /\ mem'[m].deleted = mem[m].deleted /\ mem'[m].pValidity = mem[m].pValidity
           /\ \A j \in Levels : State(m, j)' = State(m, j)
           /\ \A j \in Levels : ~(m = n /\ j = i) => Ref(m, j)' = Ref(m, j)
      /\ Ref(n, i)' = w.to
  <2>1. TypeInv
    BY DEF Inv
  <2>2. /\ mem' \in [Towers -> NodeFields]
        /\ \A m \in Towers :
             /\ Key(m)' = Key(m) /\ mem'[m].topLevel = mem[m].topLevel
             /\ mem'[m].validStart = mem[m].validStart /\ mem'[m].validEnd = mem[m].validEnd
             /\ mem'[m].deleted = mem[m].deleted /\ mem'[m].pValidity = mem[m].pValidity
             /\ \A j \in Levels : IF m = n /\ j = i
                                  THEN Ref(m, j)' = w.to /\ State(m, j)' = w.state
                                  ELSE Ref(m, j)' = Ref(m, j) /\ State(m, j)' = State(m, j)
    BY <1>1, <2>1, LinkStored
  <2> QED
    BY <1>1, <2>2
<1>3. /\ SentinelsAreFixed /\ LevelsAreClosed(U, L)
      /\ \A m \in U : TowerIsRight(L, m) /\ BitsAreRight(L, m)
      /\ NVMIsRight(U, L)
  BY DEF Inv, MemoryInv
<1>4. /\ M \in [Levels -> SUBSET U]
      /\ \A j \in Levels : \A m \in M[j] : j < mem[m].topLevel
      /\ HistoryInv(U, M, B)'
  BY <1>1, <1>2 DEF HistoryInv
<1>5. SentinelsAreFixed'
  BY <1>1, <1>2, <1>3, NameFacts DEF SentinelsAreFixed
<1>6. LevelsAreClosed(U, M)'
  BY <1>1, <1>2, <1>3, NameFacts DEF LevelsAreClosed
<1>7. LiveNodesAreLinked(M, B)'
  BY <1>1, <1>2, <1>4 DEF LiveNodesAreLinked
<1>8. ASSUME NEW m \in U PROVE TowerIsRight(M, m)' /\ BitsAreRight(M, m)'
  <2>1. /\ TowerIsRight(L, m) /\ BitsAreRight(L, m) /\ m \in Towers
    BY <1>1, <1>3
  <2>2. TowerIsRight(M, m)'
    BY <1>1, <1>2, <1>4, <2>1 DEF TowerIsRight
  <2>3. BitsAreRight(M, m)'
    BY <1>1, <1>2, <1>4, <2>1 DEF BitsAreRight
  <2> QED
    BY <2>2, <2>3
<1>9. NVMIsRight(U, M)'
  <2>1. \A m \in Nodes : m \in Towers /\ (isValid(mem[m]) <=> isValid(mem[m])')
    BY <1>2, NameFacts DEF isValid
  <2> QED
    <3>1. free \in SUBSET Nodes /\ nvm' = nvm /\ free' = free
      BY DEF Inv, TypeInv
    <3>2. \A m \in Nodes : nvm'[m] = IF isValid(mem[m])' THEN Key(m)' ELSE Nil
      BY <1>2, <1>3, <2>1, <3>1 DEF NVMIsRight
    <3>3. \A m \in Nodes \ U : ~isValid(mem[m])'
      BY <1>3, <2>1 DEF NVMIsRight
    <3>4. \A m \in free' :
            /\ mem'[m].validEnd = mem'[m].validStart /\ mem'[m].deleted = mem'[m].validStart
            /\ m \in U => m \in M[0] /\ State(m, 0)' = DELETED
      BY <1>1, <1>2, <1>3, <2>1, <3>1 DEF NVMIsRight
    <3> QED
      BY <3>2, <3>3, <3>4 DEF NVMIsRight
<1> QED
  BY <1>2, <1>4, <1>5, <1>6, <1>7, <1>8, <1>9 DEF MemoryInv

(* What such a store leaves to the other threads. *)
LEMMA RefEvolves ==
  ASSUME NEW U, NEW L, NEW C, Inv(U, L, C),
         NEW n \in U \union {Head}, NEW i \in Levels, NEW w \in Links,
         w.state = State(n, i), Stored(n, i, w),
         NEW M, NEW n0, \A j \in Levels : L[j] \subseteq M[j] /\ M[j] \subseteq L[j] \union {n0},
         \/ n = Head
         \/ n \in L[i] /\ State(n, i) # DELETED
         \/ n = n0 /\ n \notin L[i]
  PROVE  Evolves(n0, U, L, U, M)
<1>1. /\ U \subseteq Towers /\ n \in Towers /\ 0 \in Levels /\ Head \notin U
      /\ \A j \in Levels : L[j] \subseteq U
  BY NameFacts, LevelFacts, LevelIsTower DEF Inv, HistoryInv
<1>2. \A m \in Towers :
        /\ Key(m)' = Key(m) /\ mem'[m].topLevel = mem[m].topLevel
        /\ mem'[m].validStart = mem[m].validStart /\ mem'[m].validEnd = mem[m].validEnd
        /\ mem'[m].deleted = mem[m].deleted /\ mem'[m].pValidity = mem[m].pValidity
        /\ \A j \in Levels : State(m, j)' = State(m, j)
        /\ \A j \in Levels : ~(m = n /\ j = i) => Ref(m, j)' = Ref(m, j)
  <2>1. TypeInv
    BY DEF Inv
  <2>2. /\ mem' \in [Towers -> NodeFields]
        /\ \A m \in Towers :
             /\ Key(m)' = Key(m) /\ mem'[m].topLevel = mem[m].topLevel
             /\ mem'[m].validStart = mem[m].validStart /\ mem'[m].validEnd = mem[m].validEnd
             /\ mem'[m].deleted = mem[m].deleted /\ mem'[m].pValidity = mem[m].pValidity
             /\ \A j \in Levels : IF m = n /\ j = i
                                  THEN Ref(m, j)' = w.to /\ State(m, j)' = w.state
                                  ELSE Ref(m, j)' = Ref(m, j) /\ State(m, j)' = State(m, j)
    BY <1>1, <2>1, LinkStored
  <2> QED
    BY <1>1, <2>2
<1> QED
  BY <1>1, <1>2, NameFacts DEF Evolves

-----------------------------------------------------------------------------
(* A store that changes the state of a link. *)
StateMayBecome(n, i, s) ==
  \/ s = State(n, i)
  \/ i = 0 /\ State(n, 0) = INTEND_TO_INSERT /\ s = INSERTED /\ mem[n].validEnd = mem[n].pValidity
  \/ /\ i = 0 /\ State(n, 0) = INSERTED /\ s = INTEND_TO_DELETE
     /\ \A j \in Levels \ {0} : j < mem[n].topLevel => State(n, j) = DELETED
  \/ i = 0 /\ State(n, 0) = INTEND_TO_DELETE /\ s = DELETED /\ mem[n].deleted = mem[n].pValidity
  \/ /\ 0 < i /\ s = DELETED
     /\ \A j \in Levels : i < j /\ j < mem[n].topLevel => State(n, j) = DELETED

(* Chains whose links and keys are the same are the same. *)
LEMMA ChainsSame ==
  ASSUME NEW U, NEW L, NEW C, Inv(U, L, C), KeyOf' = KeyOf, \A i \in Levels : Nexts(i)' = Nexts(i)
  PROVE  ChainsInv(C)'
<1>1. ASSUME NEW i \in Levels PROVE \E r : IsChain(C[i], r, Nexts(i), Head, Tail)'
  <2>1. PICK r : IsChain(C[i], r, Nexts(i), Head, Tail)
    BY DEF Inv, ChainsInv
  <2>2. IsChain(C[i], r, Nexts(i)', Head, Tail)
    BY <2>1
  <2> QED
    BY <2>2
<1>2. IsChain(C[0], KeyOf', Nexts(0)', Head, Tail)
  BY LevelFacts DEF Inv, ChainsInv
<1> QED
  BY <1>1, <1>2 DEF ChainsInv

(* A state moves on as it may: no level changes, and no thread is disturbed. *)
LEMMA StateStep ==
  ASSUME NEW U, NEW L, NEW C, Inv(U, L, C),
         NEW n \in L[0], NEW i \in Levels, NEW s \in States, StateMayBecome(n, i, s),
         StateIsStored(n, i, s), UNCHANGED <<nvm, free>>
  PROVE  /\ mem' \in [Towers -> NodeFields]
         /\ HistoryInv(U, L, C)' /\ MemoryInv(U, L, C)' /\ ChainsInv(C)'
         /\ Evolves(Nil, U, L, U, L)
         /\ State(n, i)' = s
         /\ \A j \in Levels : j # i => State(n, j)' = State(n, j)
         /\ \A m \in Towers : mem'[m].topLevel = mem[m].topLevel
<1>1. /\ U \subseteq Towers /\ n \in U /\ n \in Towers /\ 0 \in Levels /\ Head \notin U
      /\ \A j \in Levels : L[j] \subseteq U
      /\ \A j \in Levels : j \in Nat
      /\ n # Head /\ n # Tail /\ Nil \notin U
  BY NameFacts, LevelFacts, LevelIsTower DEF Inv, HistoryInv
<1>2. /\ mem' \in [Towers -> NodeFields]
      /\ \A m \in Towers :
           /\ Key(m)' = Key(m) /\ mem'[m].topLevel = mem[m].topLevel
           /\ mem'[m].validStart = mem[m].validStart /\ mem'[m].validEnd = mem[m].validEnd
           /\ mem'[m].deleted = mem[m].deleted /\ mem'[m].pValidity = mem[m].pValidity
           /\ \A j \in Levels : Ref(m, j)' = Ref(m, j)
           /\ \A j \in Levels : ~(m = n /\ j = i) => State(m, j)' = State(m, j)
      /\ State(n, i)' = s
  <2>0. TypeInv
    BY DEF Inv
  <2>1. To(Ref(n, i), s) \in Links /\ Stored(n, i, To(Ref(n, i), s))
    BY <1>1, <2>0, StateStored
  <2>2. PICK w \in Links : w = To(Ref(n, i), s) /\ w.to = Ref(n, i) /\ w.state = s
    BY <2>1 DEF To
  <2>3. Stored(n, i, w)
    BY <2>1, <2>2
  <2>4. /\ mem' \in [Towers -> NodeFields]
        /\ \A m \in Towers :
             /\ Key(m)' = Key(m) /\ mem'[m].topLevel = mem[m].topLevel
             /\ mem'[m].validStart = mem[m].validStart /\ mem'[m].validEnd = mem[m].validEnd
             /\ mem'[m].deleted = mem[m].deleted /\ mem'[m].pValidity = mem[m].pValidity
             /\ \A j \in Levels : IF m = n /\ j = i
                                  THEN Ref(m, j)' = w.to /\ State(m, j)' = w.state
                                  ELSE Ref(m, j)' = Ref(m, j) /\ State(m, j)' = State(m, j)
    BY <1>1, <2>0, <2>3, LinkStored
  <2> QED
    BY <1>1, <2>2, <2>4
<1>3. /\ SentinelsAreFixed /\ LevelsAreClosed(U, L) /\ LiveNodesAreLinked(L, C)
      /\ \A m \in U : TowerIsRight(L, m) /\ BitsAreRight(L, m)
      /\ NVMIsRight(U, L)
  BY DEF Inv, MemoryInv
<1>4. HistoryInv(U, L, C)'
  BY <1>1, <1>2 DEF Inv, HistoryInv
<1>5. SentinelsAreFixed' /\ LevelsAreClosed(U, L)'
  BY <1>1, <1>2, <1>3, NameFacts DEF SentinelsAreFixed, LevelsAreClosed
<1>6. TowerIsRight(L, n) /\ BitsAreRight(L, n)
  BY <1>1, <1>3
<1>7. /\ State(n, i) = DELETED => s = DELETED
      /\ i = 0 /\ State(n, 0) # INTEND_TO_INSERT => s # INTEND_TO_INSERT
      /\ i = 0 /\ State(n, 0) \notin {INTEND_TO_INSERT, INSERTED} => s # INSERTED
  BY <1>1, <1>6, StateFacts DEF StateMayBecome, TowerIsRight
<1>8. LiveNodesAreLinked(L, C)'
  BY <1>1, <1>2, <1>3, <1>7 DEF LiveNodesAreLinked
<1>9. TowerIsRight(L, n)'
  <2>1. \A j \in Levels \ {0} : j < mem[n].topLevel => State(n, j)' \in {INSERTED, DELETED}
    BY <1>1, <1>2, <1>6 DEF StateMayBecome, TowerIsRight
  <2>2. \A j \in Levels \ {0} : n \in L[j] => State(n, 0)' # INTEND_TO_INSERT
    BY <1>1, <1>2, <1>6, <1>7 DEF TowerIsRight
  <2>3. \A j \in Levels \ {0} : j < mem[n].topLevel /\ State(n, 0)' \in {INTEND_TO_DELETE, DELETED}
                                => State(n, j)' = DELETED
    BY <1>1, <1>2, <1>6, StateFacts DEF StateMayBecome, TowerIsRight
  <2>4. \A j \in Levels \ {0}, k \in Levels :
          j <= k /\ k < mem[n].topLevel /\ State(n, j)' = DELETED => State(n, k)' = DELETED
    <3> SUFFICES ASSUME NEW j \in Levels \ {0}, NEW k \in Levels, j <= k, k < mem[n].topLevel,
                        State(n, j)' = DELETED
                 PROVE  State(n, k)' = DELETED
      OBVIOUS
    <3>1. CASE State(n, j) = DELETED
      BY <1>1, <1>2, <1>6, <1>7, <3>1 DEF TowerIsRight
    <3>2. CASE State(n, j) # DELETED
      <4>1. j = i /\ s = DELETED
        BY <1>1, <1>2, <3>2
      <4>2. \A x \in Levels : i < x /\ x < mem[n].topLevel => State(n, x) = DELETED
        BY <1>1, <3>2, <4>1 DEF StateMayBecome
      <4>3. k = i \/ i < k
        BY <1>1, <4>1
      <4> QED
        BY <1>1, <1>2, <4>1, <4>2, <4>3
    <3> QED
      BY <3>1, <3>2
  <2> QED
    BY <1>1, <1>2, <1>6, <2>1, <2>2, <2>3, <2>4 DEF TowerIsRight
<1>10. BitsAreRight(L, n)'
  <2>1. i # 0 => State(n, 0)' = State(n, 0)
    BY <1>1, <1>2
  <2>2. i = 0 => State(n, 0)' = s
    BY <1>2
  <2>3. CASE i # 0
    BY <1>1, <1>2, <1>6, <2>1, <2>3 DEF BitsAreRight
  <2>4. CASE i = 0
    BY <1>1, <1>2, <1>6, <2>2, <2>4, StateFacts DEF BitsAreRight, StateMayBecome
  <2> QED
    BY <2>3, <2>4
<1>11. ASSUME NEW m \in U PROVE TowerIsRight(L, m)' /\ BitsAreRight(L, m)'
  <2>1. CASE m = n
    BY <1>9, <1>10, <2>1
  <2>2. CASE m # n
    BY <1>1, <1>2, <1>3, <2>2 DEF TowerIsRight, BitsAreRight
  <2> QED
    BY <2>1, <2>2
<1>12. NVMIsRight(U, L)'
  <2>1. \A m \in Nodes : m \in Towers /\ (isValid(mem[m]) <=> isValid(mem[m])')
    BY <1>2, NameFacts DEF isValid
  <2>2. \A m \in U : State(m, 0) = DELETED => State(m, 0)' = DELETED
    BY <1>1, <1>2, <1>7
  <2> QED
    <3>1. free \in SUBSET Nodes /\ nvm' = nvm /\ free' = free
      BY DEF Inv, TypeInv
    <3>2. \A m \in Nodes : nvm'[m] = IF isValid(mem[m])' THEN Key(m)' ELSE Nil
      BY <1>2, <1>3, <2>1, <3>1 DEF NVMIsRight
    <3>3. \A m \in Nodes \ U : ~isValid(mem[m])'
      BY <1>3, <2>1 DEF NVMIsRight
    <3>4. \A m \in free' :
            /\ mem'[m].validEnd = mem'[m].validStart /\ mem'[m].deleted = mem'[m].validStart
            /\ m \in U => m \in L[0] /\ State(m, 0)' = DELETED
      BY <1>1, <1>2, <1>3, <2>1, <2>2, <3>1 DEF NVMIsRight
    <3> QED
      BY <3>2, <3>3, <3>4 DEF NVMIsRight
<1>13. ChainsInv(C)'
  <2>1. \A j \in Levels : Nexts(j)' = Nexts(j)
    BY <1>2 DEF Nexts
  <2>2. KeyOf' = KeyOf
    BY <1>2 DEF KeyOf
  <2> QED
    BY <2>1, <2>2, ChainsSame
<1>14. Evolves(Nil, U, L, U, L)
  BY <1>1, <1>2, <1>7, NameFacts DEF Evolves
<1> QED
  BY <1>2, <1>4, <1>5, <1>8, <1>11, <1>12, <1>13, <1>14, <1>1 DEF MemoryInv

(* A step that moves a state on preserves the invariant, if the thread       *)
(* itself is left right.                                                     *)
LEMMA StateMove ==
  ASSUME NEW U, NEW L, NEW C, Inv(U, L, C), NEW t \in Threads,
         NEW n \in L[0], NEW i \in Levels, NEW s \in States, StateMayBecome(n, i, s),
         StateIsStored(n, i, s), UNCHANGED <<nvm, free>>,
         NEW l \in Locals, NEW c \in DS!Calls \union {DS!None}, l.pc = "idle" <=> c = DS!None,
         Become(t, l), call' = [call EXCEPT ![t] = c],
         Owner(l, c) => Owner(local[t], call[t]) /\ l.node = local[t].node,
         ThreadInv(U, L, l, c)'
  PROVE  Inv(U, L, C)'
<1>1. /\ mem' \in [Towers -> NodeFields]
      /\ HistoryInv(U, L, C)' /\ MemoryInv(U, L, C)' /\ ChainsInv(C)'
      /\ Evolves(Nil, U, L, U, L)
  BY StateStep
<1>2. nvm' \in [Nodes -> Int \union {Nil}] /\ free' \in SUBSET Nodes /\ Nil \notin U
  BY NameFacts DEF Inv, TypeInv, HistoryInv
<1> QED
  BY <1>1, <1>2, MemoryMove

(* Node::stateCAS *)
LEMMA StateCASStores ==
  ASSUME TypeInv, NEW n \in Towers, NEW a \in States, NEW b \in States, stateCAS(n, a, b)
  PROVE  \E s \in States : s = (IF State(n, 0) = a THEN b ELSE State(n, 0)) /\ StateIsStored(n, 0, s)
<1>1. State(n, 0) \in States
  BY Fields, LevelFacts
<1>2. mem' = [mem EXCEPT ![n].link[0].state = IF State(n, 0) = a THEN b ELSE State(n, 0)]
  BY DEF stateCAS, State
<1>3. PICK s \in States : s = IF State(n, 0) = a THEN b ELSE State(n, 0)
  BY <1>1
<1>4. StateIsStored(n, 0, s)
  BY <1>2, <1>3 DEF StateIsStored
<1> QED
  BY <1>3, <1>4

(* What an idle thread is left to. *)
LEMMA IdleAfter ==
  ASSUME NEW V, NEW M
  PROVE  ThreadInv(V, M, Idle, DS!None)' /\ ~Owner(Idle, DS!None)
<1>1. WalkInv(M, Idle, DS!None)'
  BY DEF WalkInv, Idle
<1>2. ~Owner(Idle, DS!None)
  BY IdleThread
<1> QED
  BY <1>1, <1>2, IdleIsLocal DEF ThreadInv, OwnerInv, FindInv, HelpInv, RemoveInv, Finding

(* The state of a helped node becomes INSERTED. *)
LEMMA PublishMove ==
  ASSUME NEW U, NEW L, NEW C, Inv(U, L, C), NEW t \in Threads, Publish(t)
  PROVE  Inv(U, L, C)'
<1> DEFINE l == local[t]
<1> SUFFICES ASSUME NEW c, c = call[t], NEW n, n = l.node
             PROVE  Inv(U, L, C)'
  OBVIOUS
<1>1. l.pc = "publish" /\ l \in Locals /\ ThreadInv(U, L, l, c) /\ TypeInv /\ c \in DS!Calls \union {DS!None}
      /\ c # DS!None
  BY ThreadFacts DEF Publish, At
<1>2. /\ c.op = "insert" /\ n \in L[0] /\ l.up = 0 /\ mem[n].validEnd = mem[n].pValidity
      /\ n \in Towers /\ n \in U
  BY <1>1, LevelIsTower, LevelFacts DEF ThreadInv, HelpInv
<1>3. PICK s \in States : /\ s = IF State(n, 0) = INTEND_TO_INSERT THEN INSERTED ELSE State(n, 0)
                          /\ StateIsStored(n, 0, s)
  BY <1>1, <1>2, StateFacts, StateCASStores DEF Publish
<1>4. StateMayBecome(n, 0, s) /\ s # INTEND_TO_INSERT /\ 0 \in Levels
  BY <1>2, <1>3, StateFacts, LevelFacts DEF StateMayBecome
<1>5. UNCHANGED <<nvm, free>>
  BY DEF Publish
<1>6. CASE Return(t, l.result)
  BY <1>2, <1>3, <1>4, <1>5, <1>6, IdleAfter, IdleIsLocal, StateMove DEF Return
<1>7. CASE Raises(t) /\ Become(t, [l EXCEPT !.pc = "raise", !.up = 1]) /\ UNCHANGED call
  <2> SUFFICES ASSUME NEW m, m = [l EXCEPT !.pc = "raise", !.up = 1]
               PROVE  Inv(U, L, C)'
    OBVIOUS
  <2>1. 1 \in Levels /\ 1 < mem[n].topLevel /\ l.result
    <3>1. mem[n].topLevel \in 0..MAX_LEVEL
      BY <1>1, <1>2, Fields
    <3> QED
      BY <1>2, <1>7, <3>1, LevelsAssumption DEF Raises, Levels
  <2>2. /\ m \in Locals /\ m.pc = "raise" /\ m.up = 1 /\ m.node = n /\ m.result = l.result
        /\ m.preds = l.preds /\ m.succs = l.succs
    BY <1>1, <2>1 DEF Locals, Labels
  <2>3. Become(t, m)
    BY <1>7
  <2>4. Owner(l, c) /\ Owner(m, c) /\ Height(l) = 1 /\ Height(m) = 1
    BY <1>1, <1>2, <2>1, <2>2 DEF Owner, Height
  <2>5. /\ State(n, 0)' = s /\ mem'[n].topLevel = mem[n].topLevel
        /\ Evolves(Nil, U, L, U, L)
    BY <1>2, <1>3, <1>4, <1>5, StateStep
  <2>6. OwnerInv(U, L, m, c)'
    <3>1. /\ n \in U /\ Key(n) = c.arg
          /\ \A i \in Levels : n \in L[i] <=> i < 1
          /\ \A i \in Levels : 1 <= i /\ i < mem[n].topLevel => Kept(L, l, i)
      BY <1>1, <2>4 DEF ThreadInv, OwnerInv
    <3>2. Key(n)' = Key(n)
      BY <1>2, <2>5 DEF Evolves
    <3>3. \A i \in Levels : Kept(L, l, i) => Kept(L, m, i)
      BY <2>2 DEF Kept
    <3> QED
      BY <1>2, <1>4, <2>1, <2>2, <2>4, <2>5, <3>1, <3>2, <3>3 DEF OwnerInv, Raising
  <2>7. ThreadInv(U, L, m, c)'
    BY <2>2, <2>4, <2>6 DEF ThreadInv, WalkInv, FindInv, HelpInv, RemoveInv, Finding
  <2>8. call' = [call EXCEPT ![t] = c]
    BY <1>1, <1>7 DEF TypeInv
  <2> QED
    BY <1>1, <1>2, <1>3, <1>4, <1>5, <2>2, <2>3, <2>4, <2>7, <2>8, StateMove
<1> QED
  BY <1>6, <1>7 DEF Publish

-----------------------------------------------------------------------------
(* remove *)

(* What the invariant says of a remover. *)
LEMMA RemoverFacts ==
  ASSUME NEW U, NEW L, NEW C, Inv(U, L, C), NEW t \in Threads,
         local[t].pc \in {"mark", "destroy", "bury", "free"}
  PROVE  LET l == local[t] IN
         /\ l \in Locals /\ RemoveInv(L, l, call[t]) /\ TypeInv
         /\ call[t].op = "remove"
         /\ call[t] \in DS!Calls \union {DS!None} /\ call[t] # DS!None
         /\ call' = call => call' = [call EXCEPT ![t] = call[t]]
         /\ l.node \in L[0] /\ l.node \in U /\ l.node \in Towers
         /\ State(l.node, 0) \in States \ {INTEND_TO_INSERT}
         /\ mem[l.node].topLevel \in 0..MAX_LEVEL
         /\ l.pc # "mark" => State(l.node, 0) # INSERTED
         /\ TowerIsRight(L, l.node) /\ BitsAreRight(L, l.node)
<1> DEFINE l == local[t]
<1>1. l \in Locals /\ ThreadInv(U, L, l, call[t]) /\ TypeInv
      /\ call[t] \in DS!Calls \union {DS!None} /\ call[t] # DS!None
  BY ThreadFacts
<1>2. RemoveInv(L, l, call[t])
  BY <1>1 DEF ThreadInv
<1>3. /\ call[t].op = "remove" /\ l.node \in L[0] /\ State(l.node, 0) # INTEND_TO_INSERT
      /\ l.pc # "mark" => State(l.node, 0) # INSERTED
  BY <1>2 DEF RemoveInv
<1>4. l.node \in U /\ l.node \in Towers
  BY <1>3, LevelIsTower, LevelFacts
<1>5. State(l.node, 0) \in States /\ mem[l.node].topLevel \in 0..MAX_LEVEL
  BY <1>1, <1>4, Fields, LevelFacts
<1>6. TowerIsRight(L, l.node) /\ BitsAreRight(L, l.node)
  BY <1>4 DEF Inv, MemoryInv
<1>7. call' = call => call' = [call EXCEPT ![t] = call[t]]
  BY <1>1 DEF TypeInv
<1> QED
  BY <1>1, <1>2, <1>3, <1>4, <1>5, <1>6, <1>7

(* remove marks an upper level. *)
LEMMA MarkMove ==
  ASSUME NEW U, NEW L, NEW C, Inv(U, L, C), NEW t \in Threads, Mark(t)
  PROVE  Inv(U, L, C)'
<1> DEFINE l == local[t]
<1> SUFFICES ASSUME NEW c, c = call[t], NEW n, n = l.node, NEW i, i = l.lvl,
                    NEW m, m = [l EXCEPT !.lvl = i - 1]
             PROVE  Inv(U, L, C)'
  OBVIOUS
<1>1. l.pc = "mark" /\ 0 < i /\ Become(t, m) /\ UNCHANGED <<nvm, free, call>>
      /\ StateIsStored(n, i, DELETED)
  BY DEF Mark, At, StateIsStored
<1>2. /\ l \in Locals /\ RemoveInv(L, l, c) /\ TypeInv /\ c.op = "remove"
      /\ c \in DS!Calls \union {DS!None} /\ c # DS!None /\ call' = [call EXCEPT ![t] = c]
      /\ n \in L[0] /\ n \in Towers /\ State(n, 0) # INTEND_TO_INSERT
      /\ mem[n].topLevel \in 0..MAX_LEVEL
  BY <1>1, RemoverFacts
<1>3. i \in Levels /\ i - 1 \in Levels /\ \A j \in Levels : i - 1 < j => j = i \/ i < j
  <2>1. i \in Levels
    BY <1>2, LocalFields
  <2> QED
    BY <1>1, <2>1, LevelFacts
<1>4. /\ m \in Locals /\ m.pc = "mark" /\ m.lvl = i - 1 /\ m.node = n
  BY <1>1, <1>2, <1>3 DEF Locals
<1>5. /\ i < mem[n].topLevel
      /\ \A j \in Levels : i < j /\ j < mem[n].topLevel => State(n, j) = DELETED
  BY <1>1, <1>2 DEF RemoveInv
<1>6. StateMayBecome(n, i, DELETED) /\ DELETED \in States
  BY <1>1, <1>5, StateFacts DEF StateMayBecome
<1>7. /\ State(n, i)' = DELETED
      /\ \A j \in Levels : j # i => State(n, j)' = State(n, j)
      /\ mem'[n].topLevel = mem[n].topLevel
  BY <1>1, <1>2, <1>3, <1>6, StateStep
<1>8. RemoveInv(L, m, c)'
  <2>1. State(n, 0)' # INTEND_TO_INSERT
    BY <1>1, <1>2, <1>7, LevelFacts
  <2>2. i - 1 < mem[n].topLevel
    <3>1. i \in Nat /\ mem[n].topLevel \in Nat
      BY <1>2, <1>3, LevelFacts
    <3> QED
      BY <1>5, <3>1
  <2>3. \A j \in Levels : i - 1 < j /\ j < mem[n].topLevel => State(n, j)' = DELETED
    BY <1>3, <1>5, <1>7
  <2> QED
    BY <1>2, <1>4, <1>7, <2>1, <2>2, <2>3 DEF RemoveInv
<1>9. ThreadInv(U, L, m, c)' /\ ~Owner(m, c)
  BY <1>2, <1>4, <1>8 DEF ThreadInv, OwnerInv, WalkInv, FindInv, HelpInv, Finding, Owner
<1> QED
  BY <1>1, <1>2, <1>3, <1>4, <1>6, <1>9, StateMove

(* remove marks level 0, or finds it marked. *)
LEMMA ClaimMove ==
  ASSUME NEW U, NEW L, NEW C, Inv(U, L, C), NEW t \in Threads, Claim(t)
  PROVE  Inv(U, L, C)'
<1> DEFINE l == local[t]
<1> SUFFICES ASSUME NEW c, c = call[t], NEW n, n = l.node,
                    NEW m, m = [l EXCEPT !.pc = "destroy", !.result = State(n, 0) = INSERTED]
             PROVE  Inv(U, L, C)'
  OBVIOUS
<1>1. l.pc = "mark" /\ l.lvl = 0 /\ Become(t, m) /\ UNCHANGED <<nvm, free, call>>
      /\ stateCAS(n, INSERTED, INTEND_TO_DELETE)
  BY DEF Claim, At
<1>2. /\ l \in Locals /\ RemoveInv(L, l, c) /\ TypeInv /\ c.op = "remove"
      /\ c \in DS!Calls \union {DS!None} /\ c # DS!None /\ call' = [call EXCEPT ![t] = c]
      /\ n \in L[0] /\ n \in Towers /\ State(n, 0) # INTEND_TO_INSERT
      /\ mem[n].topLevel \in 0..MAX_LEVEL
  BY <1>1, RemoverFacts
<1>3. PICK s \in States : /\ s = IF State(n, 0) = INSERTED THEN INTEND_TO_DELETE ELSE State(n, 0)
                          /\ StateIsStored(n, 0, s)
  BY <1>1, <1>2, StateFacts, StateCASStores
<1>4. /\ m \in Locals /\ m.pc = "destroy" /\ m.node = n
  BY ZenonT(60), <1>2 DEF Locals, Labels
<1>5. \A j \in Levels \ {0} : j < mem[n].topLevel => State(n, j) = DELETED
  BY <1>1, <1>2, LevelFacts DEF RemoveInv
<1>6. StateMayBecome(n, 0, s) /\ s # INTEND_TO_INSERT /\ s # INSERTED /\ 0 \in Levels
  BY <1>2, <1>3, <1>5, StateFacts, LevelFacts DEF StateMayBecome
<1>7. State(n, 0)' = s
  BY <1>1, <1>2, <1>3, <1>6, StateStep
<1>8. RemoveInv(L, m, c)'
  BY <1>2, <1>4, <1>6, <1>7 DEF RemoveInv
<1>9. ThreadInv(U, L, m, c)' /\ ~Owner(m, c)
  BY <1>2, <1>4, <1>8 DEF ThreadInv, OwnerInv, WalkInv, FindInv, HelpInv, Finding, Owner
<1>10. /\ n \in L[0] /\ 0 \in Levels /\ StateMayBecome(n, 0, s) /\ StateIsStored(n, 0, s)
       /\ UNCHANGED <<nvm, free>> /\ Become(t, m) /\ call' = [call EXCEPT ![t] = c]
  BY <1>1, <1>2, <1>3, <1>6
<1>11. /\ m \in Locals /\ c \in DS!Calls \union {DS!None} /\ (m.pc = "idle" <=> c = DS!None)
       /\ Owner(m, c) => Owner(local[t], call[t]) /\ m.node = local[t].node
       /\ ThreadInv(U, L, m, c)'
  BY <1>2, <1>4, <1>9
<1> HIDE DEF l
<1> QED
  BY <1>10, <1>11, StateMove

(* The state of a destroyed node becomes DELETED. *)
LEMMA BuryMove ==
  ASSUME NEW U, NEW L, NEW C, Inv(U, L, C), NEW t \in Threads, Bury(t)
  PROVE  Inv(U, L, C)'
<1> DEFINE l == local[t]
<1> SUFFICES ASSUME NEW c, c = call[t], NEW n, n = l.node, NEW m, m = StartFind(l)
             PROVE  Inv(U, L, C)'
  OBVIOUS
<1>1. l.pc = "bury" /\ UNCHANGED <<nvm, free>> /\ stateCAS(n, INTEND_TO_DELETE, DELETED)
  BY DEF Bury, At
<1>2. /\ l \in Locals /\ RemoveInv(L, l, c) /\ TypeInv /\ c.op = "remove"
      /\ c \in DS!Calls \union {DS!None} /\ c # DS!None
      /\ call' = call => call' = [call EXCEPT ![t] = c]
      /\ n \in L[0] /\ n \in Towers /\ State(n, 0) \in States \ {INTEND_TO_INSERT, INSERTED}
  BY <1>1, RemoverFacts
<1>3. PICK s \in States : /\ s = IF State(n, 0) = INTEND_TO_DELETE THEN DELETED ELSE State(n, 0)
                          /\ StateIsStored(n, 0, s)
  BY <1>1, <1>2, StateFacts, StateCASStores
<1>4. s = DELETED
  BY <1>2, <1>3, StateFacts
<1>5. StateMayBecome(n, 0, s) /\ 0 \in Levels
  BY <1>1, <1>2, <1>3, StateFacts, LevelFacts DEF StateMayBecome, RemoveInv
<1>6. State(n, 0)' = DELETED
  BY <1>1, <1>2, <1>3, <1>4, <1>5, StateStep
<1>7. CASE Return(t, FALSE)
  BY <1>1, <1>2, <1>3, <1>5, <1>7, IdleAfter, IdleIsLocal, StateMove DEF Return
<1>8. CASE Become(t, m) /\ UNCHANGED call
  <2>1. MAX_LEVEL - 1 \in Levels /\ State(Head, MAX_LEVEL - 1) # DELETED
    BY LevelFacts, HeadIsLive
  <2>2. /\ m \in Locals
        /\ m.pc = "find" /\ m.lvl = MAX_LEVEL - 1 /\ m.pred = Head
        /\ m.from = Ref(Head, MAX_LEVEL - 1) /\ m.curr = Ref(Head, MAX_LEVEL - 1)
        /\ m.node = n
    BY <1>2, <2>1, FindFacts DEF StartFind
  <2>3. m.curr \in L[m.lvl] \union {Tail}
    BY <2>1, <2>2, OnLevel
  <2>4. RunIsDead(L, m)'
    <3>1. {} \in SUBSET L[m.lvl] /\ m.from \in {} \union {m.curr}
      BY <2>2
    <3> QED
      BY <3>1 DEF RunIsDead
  <2>5. FindInv(L, m, c)' /\ RemoveInv(L, m, c)'
    BY <1>2, <1>6, <2>2, <2>3, <2>4, StateFacts DEF FindInv, RemoveInv, Finding
  <2>6. ~Owner(m, c)
    BY <1>2, <2>2 DEF Owner
  <2>7. ThreadInv(U, L, m, c)'
    BY <2>2, <2>5, <2>6 DEF ThreadInv, OwnerInv, WalkInv, HelpInv
  <2> QED
    BY <1>1, <1>2, <1>3, <1>5, <1>8, <2>2, <2>6, <2>7, StateMove
<1> QED
  BY <1>7, <1>8 DEF Bury

-----------------------------------------------------------------------------
(* A store into the bits of a node. *)
BitsAreStored(n, m) ==
  /\ mem' = [mem EXCEPT ![n] = m]
  /\ m.key = mem[n].key /\ m.topLevel = mem[n].topLevel /\ m.link = mem[n].link

(* A bit that says that the node has come so far goes on saying it. *)
BitsStay(n, m) ==
  /\ mem[n].validEnd = mem[n].pValidity => m.validEnd = m.pValidity
  /\ mem[n].deleted = mem[n].pValidity => m.deleted = m.pValidity

(* NVM and the free nodes after it: V are the nodes in use then. *)
NVMFollows(L, V, n, m) ==
  /\ nvm' = [nvm EXCEPT ![n] = IF isValid(m) THEN Key(n) ELSE Nil]
  /\ n \notin V => ~isValid(m)
  /\ free' \subseteq free \union {n}
  /\ n \in free' =>
       /\ m.validEnd = m.validStart /\ m.deleted = m.validStart
       /\ n \in V => n \in L[0] /\ State(n, 0) = DELETED

(* n0 is the node that is no longer in use, if there is one. *)
Leaves(n0, n, U, V) == V = U \/ (V = U \ {n} /\ n0 = n)

(* A store into the bits of a node leaves the levels and the other threads   *)
(* as they were.                                                             *)
LEMMA BitsStep ==
  ASSUME NEW U, NEW L, NEW C, Inv(U, L, C),
         NEW n \in U, NEW m \in NodeFields, BitsAreStored(n, m),
         NEW V, NEW n0, Leaves(n0, n, U, V), HistoryInv(V, L, C),
         BitsAreRight(L, n)' \/ V # U, NVMIsRight(V, L)',
         BitsStay(n, m)
  PROVE  /\ mem' \in [Towers -> NodeFields]
         /\ HistoryInv(V, L, C)' /\ MemoryInv(V, L, C)' /\ ChainsInv(C)'
         /\ Evolves(n0, U, L, V, L)
         /\ \A x \in Towers : /\ mem'[x].topLevel = mem[x].topLevel /\ Key(x)' = Key(x)
                              /\ \A j \in Levels : State(x, j)' = State(x, j) /\ Ref(x, j)' = Ref(x, j)
<1>0. V \subseteq U /\ (V = U \/ (V = U \ {n} /\ n0 = n))
  BY DEF Leaves
<1>1. /\ U \subseteq Towers /\ n \in Towers /\ 0 \in Levels
      /\ \A j \in Levels : L[j] \subseteq U
      /\ mem \in [Towers -> NodeFields]
  BY NameFacts, LevelFacts, LevelIsTower DEF Inv, HistoryInv, TypeInv
<1>2. /\ mem' \in [Towers -> NodeFields] /\ mem'[n] = m
      /\ \A x \in Towers : x # n => mem'[x] = mem[x]
  BY <1>1 DEF BitsAreStored
<1>3. \A x \in Towers :
         /\ mem'[x].topLevel = mem[x].topLevel /\ Key(x)' = Key(x)
         /\ \A j \in Levels : State(x, j)' = State(x, j) /\ Ref(x, j)' = Ref(x, j)
  BY <1>1, <1>2 DEF BitsAreStored, Key, State, Ref
<1>4. /\ SentinelsAreFixed /\ LevelsAreClosed(U, L) /\ LiveNodesAreLinked(L, C)
      /\ \A x \in U : TowerIsRight(L, x) /\ BitsAreRight(L, x)
  BY DEF Inv, MemoryInv
<1>5. HistoryInv(V, L, C)'
  BY <1>1, <1>3 DEF HistoryInv
<1>6. SentinelsAreFixed' /\ LevelsAreClosed(V, L)' /\ LiveNodesAreLinked(L, C)'
  <2>1. SentinelsAreFixed'
    BY <1>1, <1>3, <1>4, NameFacts DEF SentinelsAreFixed
  <2>2. LevelsAreClosed(V, L)' /\ LiveNodesAreLinked(L, C)'
    BY <1>0, <1>1, <1>3, <1>4, NameFacts DEF LevelsAreClosed, LiveNodesAreLinked
  <2> QED
    BY <2>1, <2>2
<1>7. ASSUME NEW x \in V PROVE TowerIsRight(L, x)' /\ BitsAreRight(L, x)'
  <2>1. TowerIsRight(L, x) /\ BitsAreRight(L, x) /\ x \in Towers
    BY <1>0, <1>1, <1>4
  <2>2. TowerIsRight(L, x)'
    BY <1>1, <1>3, <2>1 DEF TowerIsRight
  <2>3. CASE x = n
    BY <1>0, <1>7, <2>2, <2>3
  <2>4. CASE x # n
    <3>1. BitsAreRight(L, x)'
      BY <1>1, <1>2, <1>3, <2>1, <2>4 DEF BitsAreRight
    <3> QED
      BY <2>2, <3>1
  <2> QED
    BY <2>3, <2>4
<1>8. ChainsInv(C)'
  <2>1. \A j \in Levels : Nexts(j)' = Nexts(j)
    BY <1>3 DEF Nexts
  <2>2. KeyOf' = KeyOf
    BY <1>3 DEF KeyOf
  <2> QED
    BY <2>1, <2>2, ChainsSame
<1>9. Evolves(n0, U, L, V, L)
  BY <1>0, <1>1, <1>2, <1>3, NameFacts DEF Evolves, BitsStay
<1> QED
  BY <1>2, <1>3, <1>5, <1>6, <1>7, <1>8, <1>9 DEF MemoryInv

(* NVM after a BARRIER for n, or a store that makes no member of n. *)
LEMMA NVMAfterBits ==
  ASSUME NEW U, NEW L, NEW C, Inv(U, L, C),
         NEW n \in U, NEW m \in NodeFields, BitsAreStored(n, m), NEW V \in SUBSET U, V = U \/ V = U \ {n},
         NVMFollows(L, V, n, m)
  PROVE  NVMIsRight(V, L)' /\ nvm' \in [Nodes -> Int \union {Nil}] /\ free' \in SUBSET Nodes
<1>1. /\ U \subseteq Nodes /\ Nodes \subseteq Towers /\ n \in Nodes
      /\ \A j \in Levels : L[j] \subseteq U
      /\ mem \in [Towers -> NodeFields] /\ nvm \in [Nodes -> Int \union {Nil}] /\ free \in SUBSET Nodes
      /\ Key(n) \in Int /\ 0 \in Levels
  BY NameFacts, LevelFacts, LevelIsTower, Fields DEF Inv, HistoryInv, TypeInv
<1>2. /\ mem'[n] = m /\ m.key = mem[n].key /\ m.link = mem[n].link
      /\ \A x \in Nodes : x # n => mem'[x] = mem[x]
      /\ nvm'[n] = IF isValid(m) THEN Key(n) ELSE Nil
      /\ \A x \in Nodes : x # n => nvm'[x] = nvm[x]
  BY <1>1 DEF BitsAreStored, NVMFollows
<1>3. nvm' \in [Nodes -> Int \union {Nil}] /\ free' \in SUBSET Nodes
  BY <1>1 DEF NVMFollows
<1>4. NVMIsRight(U, L)
  BY DEF Inv, MemoryInv
<1>5. \A x \in Nodes : isValid(mem[x])' <=> isValid(mem'[x])
  BY DEF isValid
<1>6. \A x \in Nodes : nvm'[x] = IF isValid(mem[x])' THEN Key(x)' ELSE Nil
  <2> SUFFICES ASSUME NEW x \in Nodes PROVE nvm'[x] = IF isValid(mem[x])' THEN Key(x)' ELSE Nil
    OBVIOUS
  <2>1. CASE x = n
    BY <1>2, <1>5, <2>1 DEF Key
  <2>2. CASE x # n
    BY <1>2, <1>4, <1>5, <2>2 DEF Key, NVMIsRight
  <2> QED
    BY <2>1, <2>2
<1>7. \A x \in Nodes \ V : ~isValid(mem[x])'
  <2> SUFFICES ASSUME NEW x \in Nodes \ V PROVE ~isValid(mem'[x])
    BY <1>5
  <2>1. CASE x = n
    BY <1>2, <2>1 DEF NVMFollows
  <2>2. CASE x # n
    BY <1>2, <1>4, <2>2 DEF NVMIsRight
  <2> QED
    BY <2>1, <2>2
<1>8. \A x \in free' :
         /\ mem'[x].validEnd = mem'[x].validStart /\ mem'[x].deleted = mem'[x].validStart
         /\ x \in V => x \in L[0] /\ State(x, 0)' = DELETED
  <2> SUFFICES ASSUME NEW x \in free'
               PROVE  /\ mem'[x].validEnd = mem'[x].validStart /\ mem'[x].deleted = mem'[x].validStart
                      /\ x \in V => x \in L[0] /\ State(x, 0)' = DELETED
    OBVIOUS
  <2>1. CASE x = n
    <3>1. /\ m.validEnd = m.validStart /\ m.deleted = m.validStart
          /\ n \in V => n \in L[0] /\ State(n, 0) = DELETED
      <4>1. n \in free' =>
              /\ m.validEnd = m.validStart /\ m.deleted = m.validStart
              /\ n \in V => n \in L[0] /\ State(n, 0) = DELETED
        BY Zenon DEF NVMFollows
      <4>2. n \in free'
        BY <2>1
      <4> QED
        BY <4>1, <4>2, Zenon
    <3>2. State(n, 0)' = State(n, 0)
      BY <1>2 DEF State
    <3> QED
      BY <1>2, <2>1, <3>1, <3>2
  <2>2. CASE x # n
    <3>1. x \in free /\ x \in Nodes
      BY <1>1, <2>2 DEF NVMFollows
    <3>2. mem'[x] = mem[x]
      BY <1>2, <2>2, <3>1
    <3>3. /\ mem[x].validEnd = mem[x].validStart /\ mem[x].deleted = mem[x].validStart
          /\ x \in U => x \in L[0] /\ State(x, 0) = DELETED
      BY <1>4, <3>1 DEF NVMIsRight
    <3>4. State(x, 0)' = State(x, 0)
      BY <3>2 DEF State
    <3> QED
      BY <3>2, <3>3, <3>4
  <2> QED
    BY <2>1, <2>2
<1> QED
  BY <1>3, <1>6, <1>7, <1>8 DEF NVMIsRight

(* A helper sets validEnd and writes the line back. *)
LEMMA HelpMove ==
  ASSUME NEW U, NEW L, NEW C, Inv(U, L, C), NEW t \in Threads, Help(t)
  PROVE  Inv(U, L, C)'
<1> DEFINE l == local[t]
<1> SUFFICES ASSUME NEW c, c = call[t], NEW n, n = l.node,
                    NEW k, k = [l EXCEPT !.pc = "publish"],
                    NEW m, m = [mem[n] EXCEPT !.validEnd = mem[n].pValidity]
             PROVE  Inv(U, L, C)'
  OBVIOUS
<1>1. l.pc = "help" /\ l \in Locals /\ ThreadInv(U, L, l, c) /\ TypeInv /\ c \in DS!Calls \union {DS!None}
      /\ c # DS!None
  BY ThreadFacts DEF Help, At
<1>2. /\ c.op = "insert" /\ n \in L[0] /\ l.up = 0
      /\ n \in Towers /\ n \in U
  BY <1>1, LevelIsTower, LevelFacts DEF ThreadInv, HelpInv
<1>3. mem[n] \in NodeFields /\ mem \in [Towers -> NodeFields]
  BY <1>1, <1>2, Fields DEF TypeInv
<1>4. m \in NodeFields /\ m.validEnd = m.pValidity /\ m.pValidity = mem[n].pValidity
      /\ m.validStart = mem[n].validStart /\ m.deleted = mem[n].deleted
      /\ m.key = mem[n].key /\ m.topLevel = mem[n].topLevel /\ m.link = mem[n].link
  BY <1>3 DEF NodeFields
<1>5. mem' = [mem EXCEPT ![n] = m] /\ mem'[n] = m /\ BitsAreStored(n, m)
  BY <1>2, <1>3, <1>4 DEF Help, BitsAreStored
<1>6. TowerIsRight(L, n) /\ BitsAreRight(L, n) /\ NVMIsRight(U, L) /\ HistoryInv(U, L, C)
  BY <1>2 DEF Inv, MemoryInv
<1>7. BitsAreRight(L, n)'
  <2>1. State(n, 0)' = State(n, 0)
    BY <1>4, <1>5 DEF State
  <2> QED
    BY <1>2, <1>4, <1>5, <1>6, <2>1 DEF BitsAreRight
<1>8. nvm' = [nvm EXCEPT ![n] = IF isValid(m) THEN Key(n) ELSE Nil] /\ free' = free
  BY <1>4, <1>5 DEF Help, BARRIER, Key
<1>9. n \in free => /\ m.validEnd = m.validStart /\ m.deleted = m.validStart
                    /\ State(n, 0) = DELETED
  BY <1>2, <1>4, <1>6 DEF NVMIsRight, BitsAreRight
<1>10. NVMIsRight(U, L)' /\ nvm' \in [Nodes -> Int \union {Nil}] /\ free' \in SUBSET Nodes
  <2>1. NVMFollows(L, U, n, m)
    BY <1>2, <1>4, <1>8, <1>9 DEF NVMFollows
  <2> QED
    BY <1>2, <1>4, <1>5, <2>1, NVMAfterBits
<1>11. BitsStay(n, m)
  BY <1>4 DEF BitsStay
<1>A. Leaves(Nil, n, U, U)
  BY DEF Leaves
<1>12. /\ mem' \in [Towers -> NodeFields]
       /\ HistoryInv(U, L, C)' /\ MemoryInv(U, L, C)' /\ ChainsInv(C)'
       /\ Evolves(Nil, U, L, U, L)
       /\ mem'[n].topLevel = mem[n].topLevel /\ Key(n)' = Key(n)
  BY <1>2, <1>4, <1>5, <1>6, <1>7, <1>A, <1>10, <1>11, BitsStep
<1>13. /\ k \in Locals /\ k.pc = "publish" /\ k.node = n /\ k.result = l.result /\ k.up = 0
       /\ k.preds = l.preds /\ k.succs = l.succs
  BY <1>1, <1>2 DEF Locals, Labels
<1>14. Owner(k, c) <=> Owner(l, c)
  BY <1>1, <1>13 DEF Owner
<1>15. OwnerInv(U, L, k, c)'
  <2>1. Height(k) = Height(l)
    BY <1>1, <1>2, <1>13 DEF Height
  <2>2. \A i \in Levels : Kept(L, l, i) => Kept(L, k, i)
    BY <1>13 DEF Kept
  <2> QED
    BY <1>1, <1>2, <1>12, <1>13, <1>14, <2>1, <2>2 DEF ThreadInv, OwnerInv, Raising, Finding
<1>16. ThreadInv(U, L, k, c)'
  BY ZenonT(60), <1>2, <1>4, <1>5, <1>13, <1>15 DEF ThreadInv, WalkInv, FindInv, HelpInv, RemoveInv, Finding
<1>17. Become(t, k) /\ call' = [call EXCEPT ![t] = c] /\ Nil \notin U
  BY <1>1, NameFacts DEF Help, Goto, TypeInv, Inv, HistoryInv
<1> QED
  BY <1>1, <1>10, <1>12, <1>13, <1>14, <1>16, <1>17, MemoryMove

(* A remover sets deleted and writes the line back. *)
LEMMA DestroyMove ==
  ASSUME NEW U, NEW L, NEW C, Inv(U, L, C), NEW t \in Threads, Destroy(t)
  PROVE  Inv(U, L, C)'
<1> DEFINE l == local[t]
<1> SUFFICES ASSUME NEW c, c = call[t], NEW n, n = l.node,
                    NEW k, k = [l EXCEPT !.pc = "bury"],
                    NEW m, m = [mem[n] EXCEPT !.deleted = mem[n].pValidity]
             PROVE  Inv(U, L, C)'
  OBVIOUS
<1>1. l.pc = "destroy"
  BY DEF Destroy, At
<1>2. /\ l \in Locals /\ RemoveInv(L, l, c) /\ TypeInv /\ c.op = "remove"
      /\ c \in DS!Calls \union {DS!None} /\ c # DS!None
      /\ n \in L[0] /\ n \in Towers /\ n \in U /\ State(n, 0) \in States \ {INTEND_TO_INSERT, INSERTED}
      /\ BitsAreRight(L, n)
  BY <1>1, RemoverFacts
<1>3. mem[n] \in NodeFields /\ mem \in [Towers -> NodeFields]
  BY <1>2, Fields DEF TypeInv
<1>4. m \in NodeFields /\ m.deleted = m.pValidity /\ m.pValidity = mem[n].pValidity
      /\ m.validStart = mem[n].validStart /\ m.validEnd = mem[n].validEnd
      /\ m.key = mem[n].key /\ m.topLevel = mem[n].topLevel /\ m.link = mem[n].link
  BY <1>3 DEF NodeFields
<1>5. mem' = [mem EXCEPT ![n] = m] /\ mem'[n] = m /\ BitsAreStored(n, m)
  BY <1>2, <1>3, <1>4 DEF Destroy, BitsAreStored
<1>6. NVMIsRight(U, L) /\ HistoryInv(U, L, C)
  BY DEF Inv, MemoryInv
<1>7. BitsAreRight(L, n)'
  <2>1. State(n, 0)' = State(n, 0)
    BY <1>4, <1>5 DEF State
  <2> QED
    BY <1>2, <1>4, <1>5, <2>1 DEF BitsAreRight
<1>8. nvm' = [nvm EXCEPT ![n] = IF isValid(m) THEN Key(n) ELSE Nil] /\ free' = free
  BY <1>4, <1>5 DEF Destroy, BARRIER, Key
<1>9. n \in free => /\ m.validEnd = m.validStart /\ m.deleted = m.validStart
                    /\ State(n, 0) = DELETED
  BY <1>2, <1>4, <1>6 DEF NVMIsRight, BitsAreRight
<1>10. NVMIsRight(U, L)' /\ nvm' \in [Nodes -> Int \union {Nil}] /\ free' \in SUBSET Nodes
  <2>1. NVMFollows(L, U, n, m)
    BY <1>2, <1>4, <1>8, <1>9 DEF NVMFollows
  <2> QED
    BY <1>2, <1>4, <1>5, <2>1, NVMAfterBits
<1>11. BitsStay(n, m)
  BY <1>4 DEF BitsStay
<1>A. Leaves(Nil, n, U, U)
  BY DEF Leaves
<1>12. /\ mem' \in [Towers -> NodeFields]
       /\ HistoryInv(U, L, C)' /\ MemoryInv(U, L, C)' /\ ChainsInv(C)'
       /\ Evolves(Nil, U, L, U, L)
       /\ State(n, 0)' = State(n, 0)
  BY <1>2, <1>4, <1>5, <1>6, <1>7, <1>A, <1>10, <1>11, LevelFacts, BitsStep
<1>13. k \in Locals /\ k.pc = "bury" /\ k.node = n
  BY <1>2 DEF Locals, Labels
<1>14. RemoveInv(L, k, c)'
  BY <1>2, <1>4, <1>5, <1>12, <1>13 DEF RemoveInv
<1>15. ThreadInv(U, L, k, c)' /\ ~Owner(k, c)
  BY <1>2, <1>13, <1>14 DEF ThreadInv, OwnerInv, WalkInv, FindInv, HelpInv, Finding, Owner
<1>16. Become(t, k) /\ call' = [call EXCEPT ![t] = c] /\ Nil \notin U
  BY <1>2, NameFacts DEF Destroy, Goto, TypeInv, Inv, HistoryInv
<1> QED
  BY <1>2, <1>10, <1>12, <1>13, <1>15, <1>16, MemoryMove

(* A removed node is freed: dead in NVM, DELETED and off its levels, though  *)
(* a thread may hold it.                                                     *)
LEMMA FreeRemovedMove ==
  ASSUME NEW U, NEW L, NEW C, Inv(U, L, C), NEW t \in Threads, FreeRemoved(t)
  PROVE  Inv(U, L, C)'
<1> DEFINE l == local[t]
<1> SUFFICES ASSUME NEW n, n = l.node, NEW m, m = Freed(mem[n])
             PROVE  Inv(U, L, C)'
  OBVIOUS
<1>1. l.pc = "free"
  BY DEF FreeRemoved, At
<1>2. /\ RemoveInv(L, l, call[t]) /\ TypeInv
      /\ n \in L[0] /\ n \in Towers /\ n \in U /\ BitsAreRight(L, n)
  BY <1>1, RemoverFacts
<1>3. State(n, 0) = DELETED
  BY <1>1, <1>2 DEF RemoveInv
<1>4. mem[n] \in NodeFields /\ mem \in [Towers -> NodeFields] /\ nvm \in [Nodes -> Int \union {Nil}]
  BY <1>2, Fields DEF TypeInv
<1>5. mem[n].validStart = mem[n].pValidity /\ mem[n].validEnd = mem[n].pValidity
      /\ mem[n].deleted = mem[n].pValidity
  BY <1>2, <1>3, StateFacts DEF BitsAreRight
<1>6. m \in NodeFields /\ m.deleted = FALSE /\ m.pValidity = FALSE
      /\ m.validStart = FALSE /\ m.validEnd = FALSE
      /\ m.key = mem[n].key /\ m.topLevel = mem[n].topLevel /\ m.link = mem[n].link
  BY <1>4, <1>5 DEF NodeFields, Freed
<1>7. mem' = [mem EXCEPT ![n] = m] /\ mem'[n] = m /\ BitsAreStored(n, m)
  BY <1>2, <1>4, <1>6 DEF FreeRemoved, BitsAreStored
<1>8. NVMIsRight(U, L) /\ HistoryInv(U, L, C) /\ n \in Nodes
  BY <1>2 DEF Inv, MemoryInv, HistoryInv
<1>9. BitsAreRight(L, n)'
  <2>1. State(n, 0)' = DELETED
    BY <1>3, <1>6, <1>7 DEF State
  <2> QED
    <3>1. /\ mem'[n].validStart = FALSE /\ mem'[n].validEnd = FALSE /\ mem'[n].deleted = FALSE
          /\ mem'[n].pValidity = FALSE
      BY <1>6, <1>7
    <3>2. DELETED \notin {INTEND_TO_INSERT, INSERTED}
      BY StateFacts
    <3> QED
      BY <1>2, <2>1, <3>1, <3>2, Zenon DEF BitsAreRight
<1>10. nvm' = [nvm EXCEPT ![n] = IF isValid(m) THEN Key(n) ELSE Nil] /\ free' = free \union {n}
  <2>1. ~isValid(m) /\ ~isValid(mem[n])
    BY <1>5, <1>6 DEF isValid
  <2>2. nvm[n] = Nil
    BY <1>8, <2>1 DEF NVMIsRight
  <2> QED
    BY <1>4, <1>8, <2>1, <2>2 DEF FreeRemoved
<1>11. NVMIsRight(U, L)' /\ nvm' \in [Nodes -> Int \union {Nil}] /\ free' \in SUBSET Nodes
  <2>1. NVMFollows(L, U, n, m)
    BY <1>2, <1>3, <1>6, <1>10 DEF NVMFollows
  <2> QED
    BY <1>2, <1>6, <1>7, <2>1, NVMAfterBits
<1>12. /\ mem' \in [Towers -> NodeFields]
       /\ HistoryInv(U, L, C)' /\ MemoryInv(U, L, C)' /\ ChainsInv(C)'
       /\ Evolves(Nil, U, L, U, L)
  <2>1. BitsStay(n, m)
    BY <1>6 DEF BitsStay
  <2>2. Leaves(Nil, n, U, U)
    BY DEF Leaves
  <2> QED
    BY <1>2, <1>6, <1>7, <1>8, <1>9, <1>11, <2>1, <2>2, BitsStep
<1>13. Nil \notin U
  BY NameFacts DEF Inv, HistoryInv
<1> QED
  BY <1>11, <1>12, <1>13, IdleAfter, IdleIsLocal, MemoryMove DEF FreeRemoved, Return

(* A node that was never linked is freed. *)
LEMMA UndoInsertMove ==
  ASSUME NEW U, NEW L, NEW C, Inv(U, L, C), NEW t \in Threads, UndoInsert(t)
  PROVE  \E V : Inv(V, L, C)'
<1> DEFINE l == local[t]
<1> SUFFICES ASSUME NEW c, c = call[t], NEW n, n = l.node,
                    NEW m, m = Freed([mem[n] EXCEPT !.validStart = ~mem[n].pValidity]),
                    NEW k, k = StartSearch, NEW V, V = U \ {n}
             PROVE  Inv(V, L, C)'
  OBVIOUS
<1>1. l.pc = "undo" /\ l \in Locals /\ ThreadInv(U, L, l, c) /\ TypeInv /\ c \in DS!Calls
      /\ c # DS!None
  BY ThreadFacts DEF UndoInsert, At
<1>2. Owner(l, c) /\ Height(l) = 0
  BY <1>1 DEF Owner, Height
<1>3. n \in U /\ \A i \in Levels : n \notin L[i]
  <2>1. n \in U /\ \A i \in Levels : n \in L[i] <=> i < 0
    BY <1>1, <1>2 DEF ThreadInv, OwnerInv
  <2> QED
    BY <2>1, LevelFacts
<1>4. HistoryInv(U, L, C) /\ n \in Nodes /\ n \in Towers /\ 0 \in Levels
  BY <1>3, NameFacts, LevelFacts DEF Inv, HistoryInv
<1>5. mem[n] \in NodeFields /\ mem \in [Towers -> NodeFields] /\ nvm \in [Nodes -> Int \union {Nil}]
  BY <1>1, <1>4, Fields DEF TypeInv
<1>6. mem[n].validStart = mem[n].pValidity /\ mem[n].validEnd = ~mem[n].pValidity
      /\ mem[n].deleted = ~mem[n].pValidity
  BY <1>3, <1>4 DEF Inv, MemoryInv, BitsAreRight
<1>7. m \in NodeFields /\ m.deleted = FALSE /\ m.validStart = FALSE /\ m.validEnd = FALSE
      /\ m.key = mem[n].key /\ m.topLevel = mem[n].topLevel /\ m.link = mem[n].link
  <2>1. PICK x : x = [mem[n] EXCEPT !.validStart = ~mem[n].pValidity]
    OBVIOUS
  <2>2. /\ x \in NodeFields /\ x.validEnd = x.validStart /\ x.deleted = x.validStart
        /\ x.key = mem[n].key /\ x.topLevel = mem[n].topLevel /\ x.link = mem[n].link
    BY <1>5, <1>6, <2>1 DEF NodeFields
  <2>3. m = Freed(x)
    BY <2>1
  <2>4. /\ m.validStart = FALSE /\ m.validEnd = FALSE /\ m.deleted = FALSE
        /\ m.key = x.key /\ m.topLevel = x.topLevel /\ m.link = x.link
    BY <2>2, <2>3 DEF NodeFields, Freed
  <2>5. m \in NodeFields
    BY ZenonT(60), <2>2, <2>3 DEF NodeFields, Freed
  <2> QED
    BY <2>2, <2>4, <2>5
<1>8. mem' = [mem EXCEPT ![n] = m] /\ mem'[n] = m /\ BitsAreStored(n, m)
  BY <1>4, <1>5, <1>7 DEF UndoInsert, BitsAreStored
<1>9. V \in SUBSET U /\ n \notin V /\ HistoryInv(V, L, C)
  BY <1>3, <1>4 DEF HistoryInv
<1>10. nvm' = [nvm EXCEPT ![n] = IF isValid(m) THEN Key(n) ELSE Nil] /\ free' = free \union {n}
       /\ ~isValid(m)
  <2>1. ~isValid(m) /\ ~isValid(mem[n])
    BY <1>5, <1>6, <1>7 DEF isValid, NodeFields
  <2>2. nvm[n] = Nil
    BY SMTT(30), <1>4, <2>1 DEF Inv, MemoryInv, NVMIsRight
  <2> QED
    BY SMTT(30), <1>5, <1>4, <2>1, <2>2 DEF UndoInsert
<1>11. NVMIsRight(V, L)' /\ nvm' \in [Nodes -> Int \union {Nil}] /\ free' \in SUBSET Nodes
  <2>1. NVMFollows(L, V, n, m)
    BY <1>7, <1>9, <1>10 DEF NVMFollows
  <2> QED
    BY <1>3, <1>7, <1>8, <1>9, <2>1, NVMAfterBits, SMTT(30)
<1>12. /\ mem' \in [Towers -> NodeFields]
       /\ HistoryInv(V, L, C)' /\ MemoryInv(V, L, C)' /\ ChainsInv(C)'
       /\ Evolves(n, U, L, V, L)
  <2>1. BitsStay(n, m)
    BY <1>5, <1>6 DEF BitsStay, NodeFields
  <2>2. Leaves(n, n, U, V) /\ V # U
    BY <1>3 DEF Leaves
  <2> QED
    BY <1>3, <1>7, <1>8, <1>9, <1>11, <2>1, <2>2, BitsStep
<1>13. k \in Locals /\ k.pc = "walk" /\ ThreadInv(U, L, k, c) /\ ~Owner(k, c)
  BY <1>1, StartOfSearch
<1>14. ThreadInv(V, L, k, c)'
  BY <1>12, <1>13, OtherThreads
<1>15. Become(t, k) /\ call' = [call EXCEPT ![t] = c]
  BY <1>1 DEF UndoInsert, TypeInv
<1> QED
  BY <1>1, <1>2, <1>11, <1>12, <1>13, <1>14, <1>15, MemoryMove

-----------------------------------------------------------------------------
(* The links of a level after a store into one of them. *)
LEMMA LinkNexts ==
  ASSUME TypeInv, NEW n \in Towers, NEW k \in Levels, NEW w \in Links, Stored(n, k, w)
  PROVE  /\ KeyOf' = KeyOf
         /\ \A i \in Levels : i # k => Nexts(i)' = Nexts(i)
         /\ \E ny : /\ ny = Nexts(k)' /\ ny[n] = w.to
                    /\ \A m \in Towers : m # n => ny[m] = Nexts(k)[m]
<1>1. \A m \in Towers :
        /\ Key(m)' = Key(m)
        /\ \A j \in Levels : IF m = n /\ j = k
                             THEN Ref(m, j)' = w.to /\ State(m, j)' = w.state
                             ELSE Ref(m, j)' = Ref(m, j) /\ State(m, j)' = State(m, j)
  BY LinkStored
<1>2. KeyOf' = KeyOf
  BY <1>1 DEF KeyOf
<1>3. ASSUME NEW i \in Levels, i # k PROVE Nexts(i)' = Nexts(i)
  BY <1>1, <1>3 DEF Nexts
<1>4. PICK ny : ny = [m \in Towers |-> Ref(m, k)']
  OBVIOUS
<1>5. ny = Nexts(k)'
  BY <1>4 DEF Nexts
<1>6. ny[n] = w.to /\ \A m \in Towers : m # n => ny[m] = Nexts(k)[m]
  BY <1>1, <1>4 DEF Nexts
<1> QED
  BY <1>2, <1>3, <1>5, <1>6

(* One level changes to another chain. *)
LEMMA ChainsStep ==
  ASSUME NEW U, NEW L, NEW C, Inv(U, L, C), KeyOf' = KeyOf, NEW k \in Levels,
         \A i \in Levels : i # k => Nexts(i)' = Nexts(i),
         NEW X, NEW r, NEW ny, ny = Nexts(k)', IsChain(X, r, ny, Head, Tail), k = 0 => r = KeyOf
  PROVE  ChainsInv([C EXCEPT ![k] = X])'
<1> DEFINE B == [C EXCEPT ![k] = X]
<1>0. B[k] = X /\ \A i \in Levels : i # k => B[i] = C[i]
  BY DEF Inv, HistoryInv
<1> HIDE DEF B
<1>1. ASSUME NEW i \in Levels PROVE \E s : IsChain(B[i], s, Nexts(i), Head, Tail)'
  <2>1. CASE i = k
    <3>1. IsChain(B[i], r, Nexts(i)', Head, Tail)
      BY <1>0, <2>1
    <3> QED
      BY <3>1
  <2>2. CASE i # k
    <3>1. PICK s : IsChain(C[i], s, Nexts(i), Head, Tail)
      BY DEF Inv, ChainsInv
    <3>2. IsChain(B[i], s, Nexts(i)', Head, Tail)
      BY <1>0, <2>2, <3>1
    <3> QED
      BY <3>2
  <2> QED
    BY <2>1, <2>2
<1>2. IsChain(B[0], KeyOf', Nexts(0)', Head, Tail)
  <2>1. CASE k = 0
    BY <1>0, <2>1
  <2>2. CASE k # 0
    BY <1>0, <2>2, LevelFacts DEF Inv, ChainsInv
  <2> QED
    BY <2>1, <2>2
<1>3. ChainsInv(B)'
  BY <1>1, <1>2 DEF ChainsInv
<1> QED
  BY <1>3 DEF B

(* The chain of a level, with the order of the keys on level 0. *)
LEMMA ChainOf ==
  ASSUME NEW U, NEW L, NEW C, Inv(U, L, C), NEW k \in Levels
  PROVE  /\ \E r : IsChain(C[k], r, Nexts(k), Head, Tail) /\ (k = 0 => r = KeyOf)
         /\ Head \in C[k] /\ Tail \in C[k] /\ C[k] \subseteq Towers
         /\ C[k] \subseteq L[k] \union {Head, Tail}
         /\ \A n \in L[k] \union {Head} : State(n, k) # DELETED => n \in C[k]
         /\ \A n \in Towers : Nexts(k)[n] = Ref(n, k) /\ KeyOf[n] = Key(n)
<1>1. PICK r : IsChain(C[k], r, Nexts(k), Head, Tail) /\ (k = 0 => r = KeyOf)
  BY DEF Inv, ChainsInv
<1>2. Head \in C[k] /\ Tail \in C[k]
  BY <1>1 DEF IsChain
<1> QED
  BY <1>1, <1>2 DEF Inv, HistoryInv, MemoryInv, LiveNodesAreLinked, Nexts, KeyOf

(* find cuts out a run of DELETED nodes; what is not DELETED stays on the    *)
(* level.                                                                    *)
LEMMA CutMove ==
  ASSUME NEW U, NEW L, NEW C, Inv(U, L, C), NEW t \in Threads, At(t, "cut"),
         CAS(local[t].pred, local[t].lvl, To(local[t].from, local[t].predState),
             To(local[t].curr, local[t].predState)),
         Become(t, FindDown(t)), UNCHANGED <<nvm, free, call>>
  PROVE  \E B : Inv(U, L, B)'
<1> DEFINE l == local[t]
<1> SUFFICES ASSUME NEW c, c = call[t], NEW k, k = l.lvl, NEW p, p = l.pred,
                    NEW q, q = l.curr, NEW w, w = To(q, l.predState), NEW d, d = FindDown(t)
             PROVE  \E B : Inv(U, L, B)'
  OBVIOUS
<1>1. /\ l.pc = "cut" /\ l \in Locals /\ k \in Levels /\ FindInv(L, l, c) /\ TypeInv
      /\ p \in L[k] \union {Head} /\ p \in Towers /\ q \in L[k] \union {Tail} /\ q \in Towers
      /\ L[k] \subseteq Towers
      /\ c \in DS!Calls \union {DS!None} /\ c # DS!None
  BY FinderFacts, ThreadFacts DEF At, Finding
<1>2. mem[p].link[k] = To(l.from, l.predState) /\ Stored(p, k, w)
  BY DEF CAS, Stored
<1>3. Ref(p, k) = l.from /\ State(p, k) = l.predState /\ l.predState \in States \ {DELETED}
  BY <1>1, <1>2, LocalFields DEF Ref, State, To
<1>4. w \in Links /\ w.to = q /\ w.state = State(p, k)
  BY <1>1, <1>3 DEF Links, To
<1>5. PICK D \in SUBSET L[k] :
        /\ l.from \in D \union {q}
        /\ \A x \in D : State(x, k) = DELETED /\ Ref(x, k) \in D \union {q}
  BY <1>1 DEF FindInv, RunIsDead, Finding
<1>6. p \notin D /\ Tail \notin D /\ p # Tail
  BY <1>1, <1>3, <1>5, OnLevel
<1>7. PICK r : IsChain(C[k], r, Nexts(k), Head, Tail) /\ (k = 0 => r = KeyOf)
  BY <1>1, ChainOf
<1>8. /\ p \in C[k] /\ C[k] \subseteq Towers /\ \A x \in Towers : Nexts(k)[x] = Ref(x, k)
  BY <1>1, <1>3, ChainOf
<1>9. /\ KeyOf' = KeyOf /\ \A i \in Levels : i # k => Nexts(i)' = Nexts(i)
      /\ \E ny : /\ ny = Nexts(k)' /\ ny[p] = w.to
                 /\ \A m \in Towers : m # p => ny[m] = Nexts(k)[m]
  BY <1>1, <1>2, <1>4, LinkNexts
<1>10. PICK ny : /\ ny = Nexts(k)' /\ ny[p] = q
                 /\ \A m \in Towers : m # p => ny[m] = Nexts(k)[m]
  BY <1>4, <1>9
<1>11. PICK X \in SUBSET C[k] : X \union D = C[k] \union D /\ IsChain(X, r, ny, Head, Tail)
  <2>1. /\ Nexts(k)[p] \in D \union {q} /\ \A x \in D : Nexts(k)[x] \in D \union {q}
        /\ \A x \in C[k] \ {p, Tail} : ny[x] = Nexts(k)[x]
    BY <1>1, <1>3, <1>5, <1>8, <1>10
  <2>2. \E X \in SUBSET C[k] : X \union D = C[k] \union D /\ IsChain(X, r, ny, Head, Tail)
    BY <1>6, <1>7, <1>8, <1>10, <2>1, ChainCut
  <2> QED
    BY <2>2
<1>12. PICK B : B = [C EXCEPT ![k] = X]
  OBVIOUS
<1>13. HistoryInv(U, L, C)
  BY DEF Inv
<1>14. B[k] = X /\ (\A i \in Levels : i # k => B[i] = C[i]) /\ HistoryInv(U, L, B)
  BY <1>1, <1>11, <1>12, <1>13 DEF HistoryInv
<1>15. ChainsInv(B)'
  BY <1>1, <1>7, <1>9, <1>10, <1>11, <1>12, ChainsStep
<1>16. \A j \in Levels : \A m \in L[j] : State(m, j) # DELETED => m \in B[j]
  <2> SUFFICES ASSUME NEW j \in Levels, NEW m \in L[j], State(m, j) # DELETED PROVE m \in B[j]
    OBVIOUS
  <2>1. m \in C[j]
    BY ChainOf
  <2>2. CASE j = k
    BY <1>5, <1>11, <1>14, <2>1, <2>2
  <2>3. CASE j # k
    BY <1>14, <2>1, <2>3
  <2> QED
    BY <2>2, <2>3
<1>17. p \in U \union {Head} /\ k < mem[p].topLevel
  BY <1>1, OnLevel
<1>18. mem' \in [Towers -> NodeFields] /\ HistoryInv(U, L, B)' /\ MemoryInv(U, L, B)'
  BY <1>1, <1>2, <1>4, <1>14, <1>16, <1>17, RefStored
<1>19. Nil \notin U /\ nvm' \in [Nodes -> Int \union {Nil}] /\ free' \in SUBSET Nodes
       /\ call' = [call EXCEPT ![t] = c]
  BY NameFacts DEF Inv, TypeInv, HistoryInv
<1>20. Evolves(Nil, U, L, U, L)
  BY <1>1, <1>2, <1>3, <1>4, <1>17, RefEvolves
<1>21. /\ d \in Locals /\ d.pc # "idle" /\ ThreadInv(U, L, d, c)
       /\ Owner(d, c) => Owner(l, c) /\ d.node = l.node
  BY <1>1, FindGoesDown
<1>22. Owner(d, c) => d.node # Nil
  BY <1>19, <1>21 DEF ThreadInv, OwnerInv
<1>23. ThreadInv(U, L, d, c)'
  BY <1>20, <1>21, <1>22, OtherThreads
<1>24. Inv(U, L, B)'
  BY <1>1, <1>15, <1>18, <1>19, <1>20, <1>21, <1>23, MemoryMove
<1> QED
  BY <1>24

-----------------------------------------------------------------------------
(* insert links its node. *)

(* A node is linked on a level behind p. *)
Added(L, k, n) == [L EXCEPT ![k] = L[k] \union {n}]

(* The histories with n linked on level k. *)
LEMMA LinkedHistory ==
  ASSUME NEW U, NEW L, NEW C, HistoryInv(U, L, C), NEW k \in Levels, NEW n \in U, n \in Towers,
         \A i \in Levels : n \in L[i] <=> i < k, k < mem[n].topLevel
  PROVE  HistoryInv(U, Added(L, k, n), Added(C, k, n))
<1>1. /\ L \in [Levels -> SUBSET U] /\ C \in [Levels -> SUBSET Towers]
      /\ U \in SUBSET Nodes
      /\ \A i \in Levels : C[i] \subseteq L[i] \union {Head, Tail}
      /\ \A i, j \in Levels : i <= j => L[j] \subseteq L[i]
      /\ \A i \in Levels : \A m \in L[i] : i < mem[m].topLevel
  BY DEF HistoryInv
<1>2. PICK M, B : M = Added(L, k, n) /\ B = Added(C, k, n)
  OBVIOUS
<1>3. /\ M[k] = L[k] \union {n} /\ \A i \in Levels : i # k => M[i] = L[i]
      /\ \A i \in Levels : M[i] \subseteq L[i] \union {n} /\ L[i] \subseteq M[i]
  BY <1>1, <1>2 DEF Added
<1>4. /\ B[k] = C[k] \union {n} /\ \A i \in Levels : i # k => B[i] = C[i]
  BY <1>1, <1>2 DEF Added
<1>5. M \in [Levels -> SUBSET U]
  <2>1. \A i \in Levels : M[i] \in SUBSET U
    BY <1>1, <1>3
  <2> QED
    BY <1>1, <1>2, <2>1 DEF Added
<1>6. B \in [Levels -> SUBSET Towers]
  <2>1. \A i \in Levels : B[i] \in SUBSET Towers
    BY <1>1, <1>4
  <2> QED
    BY <1>1, <1>2, <2>1 DEF Added
<1>7. ASSUME NEW i \in Levels, NEW j \in Levels, i <= j PROVE M[j] \subseteq M[i]
  <2>1. L[j] \subseteq L[i] /\ L[i] \subseteq M[i] /\ M[j] \subseteq L[j] \union {n}
    BY <1>1, <1>3, <1>7
  <2>2. CASE j = k
    <3>1. i = k \/ i < k
      BY <1>7, <2>2, LevelFacts
    <3> QED
      BY <1>3, <2>1, <3>1
  <2>3. CASE j # k
    BY <1>3, <2>1, <2>3
  <2> QED
    BY <2>2, <2>3
<1>8. \A i \in Levels : B[i] \subseteq M[i] \union {Head, Tail}
  BY <1>1, <1>3, <1>4
<1>9. \A i \in Levels : \A m \in M[i] : i < mem[m].topLevel
  BY <1>1, <1>3
<1> QED
  BY <1>1, <1>2, <1>5, <1>6, <1>7, <1>8, <1>9 DEF HistoryInv

(* The level is a chain with n on it, on level 0 in the order of the keys. *)
LEMMA LinkedChain ==
  ASSUME NEW U, NEW L, NEW C, Inv(U, L, C), NEW k \in Levels, NEW n \in Nodes, n \notin L[k],
         NEW p \in L[k] \union {Head}, State(p, k) # DELETED, Ref(n, k) = Ref(p, k),
         k = 0 => Key(p) < Key(n) /\ Key(n) < Key(Ref(p, 0)),
         NEW w \in Links, w.to = n, Stored(p, k, w)
  PROVE  ChainsInv(Added(C, k, n))'
<1>1. PICK r : IsChain(C[k], r, Nexts(k), Head, Tail) /\ (k = 0 => r = KeyOf)
  BY ChainOf
<1>2. /\ n \in Towers /\ p \in Towers /\ n # Head /\ n # Tail /\ p # Tail
      /\ Ref(p, k) \in Towers /\ TypeInv
  BY OnLevel, LevelIsTower, NameFacts DEF Inv
<1>3. /\ p \in C[k] /\ n \notin C[k] /\ C[k] \subseteq Towers
      /\ \A x \in Towers : Nexts(k)[x] = Ref(x, k) /\ KeyOf[x] = Key(x)
  BY <1>2, ChainOf
<1>4. /\ KeyOf' = KeyOf /\ \A i \in Levels : i # k => Nexts(i)' = Nexts(i)
      /\ \E ny : /\ ny = Nexts(k)' /\ ny[p] = w.to
                 /\ \A m \in Towers : m # p => ny[m] = Nexts(k)[m]
  BY <1>2, LinkNexts
<1>5. PICK ny : /\ ny = Nexts(k)' /\ ny[p] = n
                /\ \A m \in Towers : m # p => ny[m] = Nexts(k)[m]
  BY <1>4
<1>6. PICK X : X = C[k] \union {n}
  OBVIOUS
<1>7. \E ry : IsChain(C[k] \union {n}, ry, ny, Head, Tail) /\ (k = 0 => ry = KeyOf)
  <2>1. ny[n] = Nexts(k)[p] /\ \A x \in C[k] \ {p, Tail} : ny[x] = Nexts(k)[x]
    BY <1>2, <1>3, <1>5
  <2>2. CASE k # 0
    <3>1. PICK nx : nx = Nexts(k)
      OBVIOUS
    <3>2. PICK P : P = C[k]
      OBVIOUS
    <3>3. /\ IsChain(P, r, nx, Head, Tail) /\ p \in P /\ p # Tail /\ n \notin P
          /\ ny[p] = n /\ ny[n] = nx[p] /\ \A x \in P \ {p, Tail} : ny[x] = nx[x]
      BY <1>1, <1>2, <1>3, <1>5, <2>1, <3>1, <3>2
    <3>4. \E ry : IsChain(P \union {n}, ry, ny, Head, Tail)
      BY <3>3, ChainInsert
    <3> QED
      BY <2>2, <3>2, <3>4
  <2>3. CASE k = 0
    <3>1. PICK nx : nx = Nexts(k)
      OBVIOUS
    <3>2. PICK P : P = C[k]
      OBVIOUS
    <3>3. PICK ry : ry = KeyOf
      OBVIOUS
    <3>4. r = ry /\ Key(n) \in Int
      BY <1>1, <1>2, <2>3, <3>3, Fields
    <3>5. ry[n] \in Int /\ ry[p] < ry[n] /\ ry[n] < ry[nx[p]]
      BY <1>2, <1>3, <2>3, <3>1, <3>3, <3>4
    <3>6. /\ IsChain(P, ry, nx, Head, Tail) /\ p \in P /\ p # Tail /\ n \notin P
          /\ ny[p] = n /\ ny[n] = nx[p] /\ \A x \in P \ {p, Tail} : ny[x] = nx[x]
      BY <1>1, <1>2, <1>3, <1>5, <2>1, <3>1, <3>2, <3>4
    <3>7. IsChain(P \union {n}, ry, ny, Head, Tail)
      BY <3>5, <3>6, ChainInsertAt
    <3> QED
      BY <3>2, <3>3, <3>7
  <2> QED
    BY <2>2, <2>3
<1>8. PICK ry : IsChain(X, ry, ny, Head, Tail) /\ (k = 0 => ry = KeyOf)
  BY <1>6, <1>7
<1>9. ChainsInv([C EXCEPT ![k] = X])'
  BY <1>4, <1>5, <1>8, ChainsStep
<1> QED
  BY <1>6, <1>9 DEF Added

(* The memory and the other threads after n was linked on level k. *)
LEMMA LinkedMemory ==
  ASSUME NEW U, NEW L, NEW C, Inv(U, L, C), NEW k \in Levels, NEW n \in U,
         \A i \in Levels : n \in L[i] <=> i < k, k < mem[n].topLevel,
         NEW p \in L[k] \union {Head}, State(p, k) # DELETED,
         k # 0 => State(n, 0) # INTEND_TO_INSERT,
         NEW w \in Links, w.to = n, w.state = State(p, k), Stored(p, k, w), UNCHANGED <<nvm, free>>
  PROVE  /\ mem' \in [Towers -> NodeFields]
         /\ HistoryInv(U, Added(L, k, n), Added(C, k, n))'
         /\ MemoryInv(U, Added(L, k, n), Added(C, k, n))'
         /\ Evolves(n, U, L, U, Added(L, k, n))
<1>1. PICK M, B : M = Added(L, k, n) /\ B = Added(C, k, n)
  OBVIOUS
<1>2. /\ L \in [Levels -> SUBSET U] /\ C \in [Levels -> SUBSET Towers] /\ HistoryInv(U, L, C)
      /\ n \in Towers /\ p \in U \union {Head} /\ k < mem[p].topLevel
      /\ n \notin L[k]
  <2>1. ~(k < k)
    BY LevelFacts
  <2> QED
    BY <2>1, OnLevel, NameFacts DEF Inv, HistoryInv
<1>3. HistoryInv(U, M, B)
  BY <1>1, <1>2, LinkedHistory
<1>4. /\ M[k] = L[k] \union {n} /\ \A i \in Levels : i # k => M[i] = L[i]
      /\ \A i \in Levels : L[i] \subseteq M[i]
      /\ \A i \in Levels : M[i] \subseteq L[i] \union {n}
  BY <1>1, <1>2 DEF Added
<1>5. /\ B[k] = C[k] \union {n} /\ \A i \in Levels : i # k => B[i] = C[i]
  BY <1>1, <1>2 DEF Added
<1>6. \A j \in Levels : \A m \in M[j] : State(m, j) # DELETED => m \in B[j]
  <2> SUFFICES ASSUME NEW j \in Levels, NEW m \in M[j], State(m, j) # DELETED PROVE m \in B[j]
    OBVIOUS
  <2>1. m \in L[j] => m \in C[j]
    BY ChainOf
  <2> QED
    BY <1>4, <1>5, <2>1
<1>7. /\ \A j \in Levels \ {0} : \A m \in M[j] \ L[j] : State(m, 0) # INTEND_TO_INSERT
      /\ w.to \in M[k] \union {Tail}
  BY <1>4
<1>8. mem' \in [Towers -> NodeFields] /\ HistoryInv(U, M, B)' /\ MemoryInv(U, M, B)'
  <2> QED
    BY <1>2, <1>3, <1>4, <1>6, <1>7, RefStored
<1>9. Evolves(n, U, L, U, M)
  <2>1. \A i \in Levels : L[i] \subseteq M[i] /\ M[i] \subseteq L[i] \union {n}
    BY <1>4
  <2>2. p = Head \/ (p \in L[k] /\ State(p, k) # DELETED)
    OBVIOUS
  <2> QED
    BY <1>2, <2>1, <2>2, RefEvolves
<1> QED
  BY <1>1, <1>8, <1>9

(* insert links its node. *)
LEMMA LinkMove ==
  ASSUME NEW U, NEW L, NEW C, Inv(U, L, C), NEW t \in Threads, At(t, "link"),
         CAS(local[t].preds[0], 0, To(local[t].succs[0], local[t].predState),
             To(local[t].node, local[t].predState)),
         Become(t, [Forget(local[t], {0}) EXCEPT !.pc = "help", !.predState = INSERTED,
                                                 !.result = TRUE]),
         UNCHANGED <<nvm, free, call>>
  PROVE  \E M, B : Inv(U, M, B)' /\ \A i \in Levels : L[i] \subseteq M[i]
<1> DEFINE l == local[t]
<1> SUFFICES ASSUME NEW c, c = call[t], NEW n, n = l.node, NEW p, p = l.preds[0],
                    NEW w, w = To(n, l.predState),
                    NEW d, d = [Forget(l, {0}) EXCEPT !.pc = "help", !.predState = INSERTED,
                                                      !.result = TRUE]
             PROVE  \E M, B : Inv(U, M, B)' /\ \A i \in Levels : L[i] \subseteq M[i]
  OBVIOUS
<1>1. /\ l.pc = "link" /\ l \in Locals /\ ThreadInv(U, L, l, c) /\ TypeInv /\ 0 \in Levels
      /\ c \in DS!Calls \union {DS!None} /\ c # DS!None
  BY ThreadFacts, LevelFacts DEF At
<1>2. Owner(l, c) /\ Height(l) = 0
  BY <1>1 DEF Owner, Height
<1>3. /\ c.op = "insert"
      /\ n \in U /\ Key(n) = c.arg
      /\ \A i \in Levels : n \in L[i] <=> i < 0
      /\ l.up = 0
      /\ \A i \in Levels : i < mem[n].topLevel => Ref(n, i) = l.succs[i]
      /\ Key(p) < c.arg /\ c.arg < Key(l.succs[0])
      /\ \A i \in Levels : 0 <= i /\ i < mem[n].topLevel => Kept(L, l, i)
  BY <1>1, <1>2 DEF ThreadInv, OwnerInv, Raising, Finding
<1>4. /\ n \in Nodes /\ n \in Towers /\ n # Head /\ n # Tail /\ 0 < mem[n].topLevel
      /\ \A i \in Levels : n \notin L[i]
  BY <1>3, NameFacts, LevelFacts DEF Inv, HistoryInv, MemoryInv, TowerIsRight
<1>5. /\ p \in L[0] \union {Head} /\ l.succs[0] \in L[0] \union {Tail} /\ p \in Towers
      /\ Ref(n, 0) = l.succs[0]
  BY SMTT(30), <1>1, <1>3, <1>4, LevelIsTower, NameFacts DEF Kept
<1>6. mem[p].link[0] = To(l.succs[0], l.predState) /\ Stored(p, 0, w)
  BY DEF CAS, Stored
<1>7. Ref(p, 0) = l.succs[0] /\ State(p, 0) = l.predState /\ l.predState \in States \ {DELETED}
  BY <1>1, <1>6, LocalFields DEF Ref, State, To
<1>8. w \in Links /\ w.to = n /\ w.state = State(p, 0)
  BY <1>4, <1>7 DEF Links, To
<1>9. ChainsInv(Added(C, 0, n))'
  BY <1>1, <1>3, <1>4, <1>5, <1>6, <1>7, <1>8, LinkedChain
<1>10. PICK M, B : M = Added(L, 0, n) /\ B = Added(C, 0, n)
  OBVIOUS
<1>11. /\ mem' \in [Towers -> NodeFields] /\ HistoryInv(U, M, B)' /\ MemoryInv(U, M, B)'
       /\ Evolves(n, U, L, U, M) /\ ChainsInv(B)'
  <2>1. State(p, 0) # DELETED
    BY <1>7
  <2> QED
    BY <1>1, <1>3, <1>4, <1>5, <1>6, <1>8, <1>9, <1>10, <2>1, LinkedMemory
<1>12. M[0] = L[0] \union {n} /\ \A i \in Levels : i # 0 => M[i] = L[i]
  <2>1. L \in [Levels -> SUBSET U]
    BY DEF Inv, HistoryInv
  <2> QED
    BY <1>1, <1>10, <2>1 DEF Added
<1>13. nvm' \in [Nodes -> Int \union {Nil}] /\ free' \in SUBSET Nodes
       /\ call' = [call EXCEPT ![t] = c]
  BY <1>1 DEF TypeInv
<1>14. /\ d \in Locals /\ d.pc = "help" /\ d.node = n /\ d.up = 0 /\ d.result = TRUE
       /\ \A i \in Levels : i # 0 => d.preds[i] = l.preds[i] /\ d.succs[i] = l.succs[i]
  <2>1. /\ Forget(l, {0}) \in Locals /\ Forget(l, {0}).node = n /\ Forget(l, {0}).up = 0
        /\ \A i \in Levels : i # 0 => /\ Forget(l, {0}).preds[i] = l.preds[i]
                                      /\ Forget(l, {0}).succs[i] = l.succs[i]
    BY <1>1, <1>3, ForgetFacts
  <2>2. INSERTED \in States \ {DELETED} /\ "help" \in Labels
    BY StateFacts DEF Labels
  <2>3. \A f \in Locals : LET g == [f EXCEPT !.pc = "help", !.predState = INSERTED, !.result = TRUE] IN
          /\ g \in Locals /\ g.pc = "help" /\ g.node = f.node /\ g.up = f.up /\ g.result = TRUE
          /\ g.preds = f.preds /\ g.succs = f.succs
    BY <2>2 DEF Locals
  <2> QED
    BY ZenonT(60), <2>1, <2>3
<1>15. Owner(d, c) /\ Height(d) = 1
  BY <1>3, <1>14 DEF Owner, Height
<1>16. OwnerInv(U, M, d, c)'
  <2>1. Key(n)' = Key(n) /\ mem'[n].topLevel = mem[n].topLevel
    BY <1>3, <1>11 DEF Evolves
  <2>2. \A i \in Levels : n \in M[i] <=> i < 1
    BY <1>4, <1>12, LevelFacts
  <2>3. \A i \in Levels : 1 <= i /\ i < mem[n].topLevel => Kept(M, d, i)
    <3>1. \A i \in Levels : 1 <= i => 0 <= i /\ i # 0
      BY LevelFacts
    <3> QED
      BY <1>3, <1>12, <1>14, <3>1 DEF Kept
  <2> QED
    BY <1>3, <1>14, <1>15, <2>1, <2>2, <2>3 DEF OwnerInv, Raising, Finding
<1>17. ThreadInv(U, M, d, c)'
  BY <1>3, <1>12, <1>14, <1>16 DEF ThreadInv, WalkInv, FindInv, HelpInv, RemoveInv, Finding
<1>18. Become(t, d)
  OBVIOUS
<1>19. Inv(U, M, B)'
  <2>1. (d.pc = "idle" <=> c = DS!None) /\ (n \in U => Owner(l, c) /\ n = l.node)
        /\ (Owner(d, c) /\ d.node \in U => Owner(l, c) /\ d.node = l.node)
    BY <1>1, <1>2, <1>14
  <2> QED
    BY ZenonT(60), <1>1, <1>11, <1>13, <1>14, <1>17, <1>18, <2>1, MemoryMove
<1>20. \A i \in Levels : L[i] \subseteq M[i]
  BY <1>12
<1> QED
  BY <1>19, <1>20

(* What the invariant says of an insertion that links the upper levels. *)
LEMMA RaiserFacts ==
  ASSUME NEW U, NEW L, NEW C, Inv(U, L, C), NEW t \in Threads, local[t].pc \in {"raise", "linkUpper"}
  PROVE  LET l == local[t]
             n == l.node
             u == l.up
         IN  /\ l \in Locals /\ ThreadInv(U, L, l, call[t]) /\ TypeInv
             /\ call[t] \in DS!Calls \union {DS!None} /\ call[t] # DS!None
             /\ Owner(l, call[t]) /\ call[t].op = "insert" /\ l.result
             /\ n \in U /\ n \in Towers /\ n # Head /\ n # Tail
             /\ u \in Levels /\ 0 < u /\ u < mem[n].topLevel /\ mem[n].topLevel \in Nat
             /\ \A i \in Levels : n \in L[i] <=> i < u
             /\ Key(n) = call[t].arg /\ State(n, 0) # INTEND_TO_INSERT
             /\ State(n, u) \in {INSERTED, DELETED}
             /\ l.pc = "linkUpper" => Ref(n, u) = l.succs[u]
             /\ \A i \in Levels : u <= i /\ i < mem[n].topLevel => Kept(L, l, i)
             /\ Kept(L, l, u) /\ l.preds[u] \in Towers
<1> DEFINE l == local[t]
           n == l.node
           u == l.up
<1>1. /\ l \in Locals /\ ThreadInv(U, L, l, call[t]) /\ TypeInv
      /\ call[t] \in DS!Calls \union {DS!None} /\ call[t] # DS!None
  BY ThreadFacts
<1>2. Owner(l, call[t]) /\ u \in Levels
  BY <1>1, LocalFields DEF ThreadInv, HelpInv
<1>3. 0 < u
  BY <1>1, <1>2 DEF ThreadInv, OwnerInv, Raising
<1>4. Height(l) = u
  BY <1>2, <1>3, LevelFacts DEF Height
<1>5. /\ call[t].op = "insert"
      /\ n \in U /\ Key(n) = call[t].arg
      /\ \A i \in Levels : n \in L[i] <=> i < u
      /\ u < mem[n].topLevel /\ State(n, 0) # INTEND_TO_INSERT
      /\ l.pc = "linkUpper" => Ref(n, u) = l.succs[u]
      /\ \A i \in Levels : u <= i /\ i < mem[n].topLevel => Kept(L, l, i)
  BY <1>1, <1>2, <1>4 DEF ThreadInv, OwnerInv, Raising
<1>6. l.result
  BY <1>2 DEF Owner
<1>7. n \in Towers /\ n # Head /\ n # Tail
  BY <1>5, NameFacts DEF Inv, HistoryInv
<1>8. State(n, u) \in {INSERTED, DELETED} /\ mem[n].topLevel \in Nat
  <2>1. mem[n].topLevel \in 0..MAX_LEVEL /\ MAX_LEVEL \in Nat
    BY <1>1, <1>7, Fields, LevelFacts
  <2>2. TowerIsRight(L, n)
    BY <1>5 DEF Inv, MemoryInv
  <2>3. u # 0
    BY <1>2, <1>3, LevelFacts
  <2>4. State(n, u) \in {INSERTED, DELETED}
    BY <1>2, <1>5, <2>2, <2>3 DEF TowerIsRight
  <2> QED
    BY <2>1, <2>4
<1>9. Kept(L, l, u)
  <2>1. \A i \in Levels : i <= i
    BY LevelFacts
  <2> QED
    BY <1>2, <1>5, <2>1
<1>10. l.preds[u] \in Towers
  BY <1>2, <1>9, LevelIsTower, NameFacts DEF Kept
<1> QED
  BY <1>1, <1>2, <1>3, <1>5, <1>6, <1>7, <1>8, <1>9, <1>10

(* The link of a level that is not linked yet is prepared. *)
LEMMA RaiseLinkMove ==
  ASSUME NEW U, NEW L, NEW C, Inv(U, L, C), NEW t \in Threads, RaiseLink(t)
  PROVE  Inv(U, L, C)'
<1> DEFINE l == local[t]
<1> SUFFICES ASSUME NEW c, c = call[t], NEW n, n = l.node, NEW u, u = l.up,
                    NEW w, w = To(l.succs[u], INSERTED), NEW d, d = [l EXCEPT !.pc = "linkUpper"]
             PROVE  Inv(U, L, C)'
  OBVIOUS
<1>1. /\ l.pc = "raise" /\ Stored(n, u, w) /\ State(n, u) # DELETED /\ Become(t, d)
      /\ UNCHANGED <<nvm, free, call>>
  BY DEF RaiseLink, At, Stored, Goto
<1>2. /\ l \in Locals /\ ThreadInv(U, L, l, c) /\ TypeInv
      /\ c \in DS!Calls \union {DS!None} /\ c # DS!None
      /\ Owner(l, c) /\ c.op = "insert" /\ l.result
      /\ n \in U /\ n \in Towers /\ n # Head /\ n # Tail
      /\ u \in Levels /\ 0 < u /\ u < mem[n].topLevel
      /\ \A i \in Levels : n \in L[i] <=> i < u
      /\ Key(n) = c.arg /\ State(n, 0) # INTEND_TO_INSERT
      /\ State(n, u) \in {INSERTED, DELETED}
      /\ \A i \in Levels : u <= i /\ i < mem[n].topLevel => Kept(L, l, i)
      /\ Kept(L, l, u)
  BY <1>1, RaiserFacts
<1>3. n \notin L[u] /\ n \notin C[u]
  BY <1>2, ChainOf, LevelFacts
<1>4. l.succs[u] \in L[u] \union {Tail} /\ l.succs[u] \in Towers
  BY <1>2, LevelIsTower, NameFacts DEF Kept
<1>5. w \in Links /\ w.to = l.succs[u] /\ w.state = State(n, u)
  BY <1>1, <1>2, <1>4, StateFacts DEF Links, To
<1>6. /\ KeyOf' = KeyOf /\ \A i \in Levels : i # u => Nexts(i)' = Nexts(i)
      /\ \E ny : /\ ny = Nexts(u)' /\ ny[n] = w.to
                 /\ \A m \in Towers : m # n => ny[m] = Nexts(u)[m]
  BY <1>1, <1>2, <1>5, LinkNexts
<1>7. PICK ny : /\ ny = Nexts(u)'
                /\ \A m \in Towers : m # n => ny[m] = Nexts(u)[m]
  BY <1>6
<1>8. PICK r : IsChain(C[u], r, Nexts(u), Head, Tail) /\ (u = 0 => r = KeyOf)
  BY <1>2, ChainOf
<1>9. IsChain(C[u], r, ny, Head, Tail)
  <2>1. \A x \in C[u] \ {Tail} : ny[x] = Nexts(u)[x]
    BY <1>2, <1>3, <1>7, ChainOf
  <2> QED
    BY <1>8, <2>1, ChainSame
<1>10. ChainsInv(C)'
  <2>1. [C EXCEPT ![u] = C[u]] = C
    BY DEF Inv, HistoryInv
  <2>2. ChainsInv([C EXCEPT ![u] = C[u]])'
    BY <1>2, <1>6, <1>7, <1>8, <1>9, ChainsStep
  <2> QED
    BY <2>1, <2>2
<1>11. HistoryInv(U, L, C) /\ \A j \in Levels : \A m \in L[j] : State(m, j) # DELETED => m \in C[j]
  BY ChainOf DEF Inv
<1>12. mem' \in [Towers -> NodeFields] /\ HistoryInv(U, L, C)' /\ MemoryInv(U, L, C)'
  BY <1>1, <1>2, <1>4, <1>5, <1>11, RefStored
<1>13. nvm' \in [Nodes -> Int \union {Nil}] /\ free' \in SUBSET Nodes
       /\ call' = [call EXCEPT ![t] = c]
  BY <1>1, <1>2 DEF TypeInv
<1>14. Evolves(n, U, L, U, L)
  BY <1>1, <1>2, <1>3, <1>5, RefEvolves
<1>15. /\ d \in Locals /\ d.pc = "linkUpper" /\ d.node = n /\ d.up = u /\ d.result = l.result
       /\ d.preds = l.preds /\ d.succs = l.succs
  BY <1>2 DEF Locals, Labels
<1>16. Owner(d, c) /\ Height(d) = u
  BY <1>2, <1>15, LevelFacts DEF Owner, Height
<1>17. OwnerInv(U, L, d, c)'
  <2>1. Key(n)' = Key(n) /\ mem'[n].topLevel = mem[n].topLevel /\ State(n, 0)' # INTEND_TO_INSERT
    BY <1>2, <1>14 DEF Evolves
  <2>2. \A i \in Levels : u <= i /\ i < mem[n].topLevel => Kept(L, d, i)
    BY SMTT(30), <1>2, <1>15 DEF Kept
  <2>3. Ref(n, u)' = d.succs[u]
    BY <1>1, <1>2, <1>5, <1>15, LinkStored
  <2> QED
    BY <1>2, <1>15, <1>16, <2>1, <2>2, <2>3 DEF OwnerInv, Raising
<1>18. ThreadInv(U, L, d, c)'
  BY <1>2, <1>15, <1>16, <1>17 DEF ThreadInv, WalkInv, FindInv, HelpInv, RemoveInv, Finding
<1>19. /\ d.pc = "idle" <=> c = DS!None
       /\ n \in U => Owner(local[t], call[t]) /\ n = local[t].node
       /\ Owner(d, c) /\ d.node \in U => Owner(local[t], call[t]) /\ d.node = local[t].node
  BY <1>2, <1>15
<1>20. Become(t, d) /\ d \in Locals /\ c \in DS!Calls \union {DS!None}
  BY <1>1, <1>2, <1>15
<1> QED
  BY <1>10, <1>12, <1>13, <1>14, <1>18, <1>19, <1>20, MemoryMove

(* An insertion goes on to the next level. *)
RaisedOn(l) == [Forget(l, {l.up}) EXCEPT !.pc = "raise", !.up = @ + 1]

(* What it has then. *)
LEMMA RaisedFurther ==
  ASSUME NEW l \in Locals, l.up + 1 \in Levels
  PROVE  LET d == RaisedOn(l) IN
         /\ d \in Locals /\ d.pc = "raise" /\ d.node = l.node /\ d.up = l.up + 1
         /\ d.result = l.result
         /\ \A i \in Levels : i # l.up => d.preds[i] = l.preds[i] /\ d.succs[i] = l.succs[i]
<1>1. PICK f : f = Forget(l, {l.up})
  OBVIOUS
<1>2. /\ f \in Locals /\ f.node = l.node /\ f.up = l.up /\ f.result = l.result
      /\ \A i \in Levels : i \notin {l.up} => f.preds[i] = l.preds[i] /\ f.succs[i] = l.succs[i]
  BY <1>1, ForgetFacts
<1>3. LET h == [f EXCEPT !.pc = "raise", !.up = @ + 1] IN
        /\ h \in Locals /\ h.pc = "raise" /\ h.node = f.node /\ h.up = l.up + 1
        /\ h.result = f.result /\ h.preds = f.preds /\ h.succs = f.succs
  BY <1>2 DEF Locals, Labels
<1> QED
  BY <1>1, <1>2, <1>3 DEF RaisedOn

(* insert links an upper level of its node. *)
LEMMA LinkUpperMove ==
  ASSUME NEW U, NEW L, NEW C, Inv(U, L, C), NEW t \in Threads, LinkUpper(t)
  PROVE  \E M, B : Inv(U, M, B)' /\ \A i \in Levels : L[i] \subseteq M[i]
<1> DEFINE l == local[t]
<1> SUFFICES ASSUME NEW c, c = call[t], NEW n, n = l.node, NEW u, u = l.up, NEW p, p = l.preds[u],
                    NEW w, w = To(n, INSERTED)
             PROVE  \E M, B : Inv(U, M, B)' /\ \A i \in Levels : L[i] \subseteq M[i]
  BY ZenonT(60)
<1>1. /\ l.pc = "linkUpper" /\ Stored(p, u, w) /\ mem[p].link[u] = To(l.succs[u], INSERTED)
      /\ UNCHANGED <<nvm, free>>
  BY ZenonT(60) DEF LinkUpper, At, Stored, CAS
<1>2. /\ l \in Locals /\ ThreadInv(U, L, l, c) /\ TypeInv
      /\ c \in DS!Calls \union {DS!None} /\ c # DS!None
      /\ Owner(l, c) /\ c.op = "insert" /\ l.result
      /\ n \in U /\ n \in Towers /\ n # Head /\ n # Tail
      /\ u \in Levels /\ 0 < u /\ u < mem[n].topLevel /\ mem[n].topLevel \in Nat
      /\ \A i \in Levels : n \in L[i] <=> i < u
      /\ Key(n) = c.arg /\ State(n, 0) # INTEND_TO_INSERT
      /\ Ref(n, u) = l.succs[u]
      /\ \A i \in Levels : u <= i /\ i < mem[n].topLevel => Kept(L, l, i)
      /\ Kept(L, l, u) /\ p \in Towers
  BY <1>1, RaiserFacts
<1>3. n \notin L[u] /\ p \in L[u] \union {Head}
  BY <1>2, LevelFacts DEF Kept
<1>4. Ref(p, u) = l.succs[u] /\ State(p, u) = INSERTED /\ INSERTED # DELETED /\ INSERTED \in States
  BY <1>1, StateFacts DEF Ref, State, To
<1>5. w \in Links /\ w.to = n /\ w.state = State(p, u)
  BY <1>2, <1>4 DEF Links, To
<1>6. ChainsInv(Added(C, u, n))'
  <2>1. u # 0 /\ n \in Nodes
    BY <1>2, LevelFacts DEF Towers
  <2> QED
    BY <1>1, <1>2, <1>3, <1>4, <1>5, <2>1, LinkedChain
<1>7. PICK M, B : M = Added(L, u, n) /\ B = Added(C, u, n)
  BY SMTT(30)
<1>8. /\ mem' \in [Towers -> NodeFields] /\ HistoryInv(U, M, B)' /\ MemoryInv(U, M, B)'
      /\ Evolves(n, U, L, U, M) /\ ChainsInv(B)'
  <2>1. State(p, u) # DELETED
    BY <1>4
  <2> QED
    BY <1>1, <1>2, <1>3, <1>5, <1>6, <1>7, <2>1, LinkedMemory, SMTT(30)
<1>9. M[u] = L[u] \union {n} /\ \A i \in Levels : i # u => M[i] = L[i]
  <2>1. L \in [Levels -> SUBSET U]
    BY DEF Inv, HistoryInv
  <2> QED
    BY <1>2, <1>7, <2>1 DEF Added
<1>17. \A i \in Levels : L[i] \subseteq M[i]
  BY <1>9
<1>18. nvm' \in [Nodes -> Int \union {Nil}] /\ free' \in SUBSET Nodes
  BY <1>1, <1>2 DEF TypeInv
<1>20. CASE Return(t, TRUE)
  <2>1. Become(t, Idle) /\ call' = [call EXCEPT ![t] = DS!None]
    BY <1>20 DEF Return
  <2>2. ThreadInv(U, M, Idle, DS!None)' /\ ~Owner(Idle, DS!None)
    BY IdleAfter, IdleThread
  <2>3. Inv(U, M, B)'
    <3>1. n \in U => Owner(l, c) /\ n = l.node
      BY <1>2
    <3> QED
      BY <1>8, <1>18, <2>1, <2>2, <3>1, IdleIsLocal, MemoryMove
  <2> QED
    BY <1>17, <2>3
<1>21. CASE /\ Raises(t) /\ Become(t, [Forget(l, {l.up}) EXCEPT !.pc = "raise", !.up = @ + 1])
            /\ UNCHANGED call
  <2> SUFFICES ASSUME NEW d, d = RaisedOn(l)
               PROVE  Inv(U, M, B)'
    BY <1>17
  <2>1. u + 1 < mem[n].topLevel /\ u + 1 \in Levels /\ 0 < u + 1
    <3>1. mem[n].topLevel \in 0..MAX_LEVEL
      BY <1>2, Fields
    <3> QED
      BY <1>2, <1>21, <3>1, LevelsAssumption DEF Raises, Levels
  <2>2. /\ d \in Locals /\ d.pc = "raise" /\ d.node = n /\ d.up = u + 1 /\ d.result = l.result
        /\ \A i \in Levels : i # u => d.preds[i] = l.preds[i] /\ d.succs[i] = l.succs[i]
    <3>1. l \in Locals /\ l.up = u /\ l.node = n /\ l.up + 1 \in Levels
      BY <1>2, <2>1
    <3>2. \A k \in Locals : k.up + 1 \in Levels =>
            LET r == RaisedOn(k) IN
            /\ r \in Locals /\ r.pc = "raise" /\ r.node = k.node /\ r.up = k.up + 1
            /\ r.result = k.result
            /\ \A i \in Levels : i # k.up => r.preds[i] = k.preds[i] /\ r.succs[i] = k.succs[i]
      BY RaisedFurther
    <3> QED
      BY <3>1, <3>2
  <2>3. Owner(d, c) /\ Height(d) = u + 1
    <3>1. u + 1 # 0
      BY <1>2, LevelFacts
    <3> QED
      BY <1>2, <2>2, <3>1 DEF Owner, Height
  <2>4. OwnerInv(U, M, d, c)'
    <3>1. Key(n)' = Key(n) /\ mem'[n].topLevel = mem[n].topLevel /\ State(n, 0)' # INTEND_TO_INSERT
      BY <1>2, <1>8 DEF Evolves
    <3>2. \A i \in Levels : n \in M[i] <=> i < u + 1
      BY <1>2, <1>9, LevelFacts
    <3>3. \A i \in Levels : u + 1 <= i /\ i < mem[n].topLevel => Kept(M, d, i)
      <4>1. \A i \in Levels : u + 1 <= i => u <= i /\ i # u
        BY <1>2, LevelFacts
      <4> QED
        BY <1>2, <1>9, <2>2, <4>1 DEF Kept
    <3> QED
      BY <1>2, <2>1, <2>2, <2>3, <3>1, <3>2, <3>3 DEF OwnerInv, Raising
  <2>5. ThreadInv(U, M, d, c)'
    BY <1>2, <2>2, <2>3, <2>4 DEF ThreadInv, WalkInv, FindInv, HelpInv, RemoveInv, Finding
  <2>6. Become(t, d) /\ call' = [call EXCEPT ![t] = c]
    BY <1>2, <1>21 DEF TypeInv, RaisedOn
  <2> QED
    <3>1. (d.pc = "idle" <=> c = DS!None) /\ (n \in U => Owner(l, c) /\ n = l.node)
          /\ (Owner(d, c) /\ d.node \in U => Owner(l, c) /\ d.node = l.node)
      BY <1>2, <2>2
    <3> QED
      BY ZenonT(60), <1>2, <1>8, <1>18, <2>2, <2>5, <2>6, <3>1, MemoryMove
<1> QED
  BY ZenonT(60), <1>20, <1>21 DEF LinkUpper

-----------------------------------------------------------------------------
(* What a thread or a level leads to. *)

(* What a reference may be. *)
Names == Towers \union {Nil}

(* Which reference leads to which. *)
Leads == {gh \in Names \X Names : gh[1] # Nil /\ \E i \in 0..(mem[gh[1]].topLevel - 1) : gh[2] = Ref(gh[1], i)}

(* The levels of a node are levels. *)
LEMMA TowerLevels ==
  ASSUME TypeInv, NEW n \in Towers
  PROVE  \A i : i \in 0..(mem[n].topLevel - 1) <=> i \in Levels /\ i < mem[n].topLevel
<1>1. mem[n].topLevel \in 0..MAX_LEVEL /\ MAX_LEVEL \in Nat
  BY Fields, LevelFacts
<1> QED
  BY <1>1 DEF Levels

(* The threads hold references. *)
LEMMA RootsAreNames ==
  ASSUME TypeInv
  PROVE  Roots \in SUBSET Names
<1>1. ASSUME NEW t \in Threads
      PROVE  /\ {local[t].pred, local[t].from, local[t].curr, local[t].node} \subseteq Names
             /\ \A i \in Levels : {local[t].preds[i], local[t].succs[i]} \subseteq Names
  <2>1. local[t] \in Locals
    BY DEF TypeInv
  <2> QED
    BY <2>1, LocalFields DEF Names
<1>2. Head \in Names
  BY NameFacts DEF Names
<1> QED
  BY <1>1, <1>2 DEF Roots

(* Referenced is what as many rounds as there are nodes reach. *)
LEMMA ReferencedRounds ==
  ASSUME TypeInv
  PROVE  \E f : /\ Rounds(f, Cardinality(Nodes), Names, Leads, Roots)
                /\ Referenced = f[Cardinality(Nodes)]
<1> DEFINE N == Cardinality(Nodes)
           o == Roots
           G(x) == x \union UNION {{Ref(n, i) : i \in 0..(mem[n].topLevel - 1)} : n \in x \ {Nil}}
           Rec(f) == f = [k \in 0..N |-> IF k = 0 THEN o ELSE G(f[k-1])]
<1>1. N \in Nat
  BY NodesAssumption, FS_CardinalityType
<1>2. ASSUME NEW x \in SUBSET Names
      PROVE  G(x) = OneRound(x, Names, Leads)
  <2>1. ASSUME NEW g \in x, g # Nil, NEW i \in 0..(mem[g].topLevel - 1)
        PROVE  Ref(g, i) \in Names /\ <<g, Ref(g, i)>> \in Leads
    <3>1. g \in Towers
      BY <2>1 DEF Names
    <3>2. Ref(g, i) \in Names
      BY <2>1, <3>1, TowerLevels, Fields DEF Names
    <3> QED
      BY <2>1, <3>2 DEF Leads
  <2>2. \A h \in G(x) : h \in OneRound(x, Names, Leads)
    <3> SUFFICES ASSUME NEW h \in G(x) PROVE h \in OneRound(x, Names, Leads)
      OBVIOUS
    <3>1. CASE h \in x
      BY <3>1 DEF OneRound
    <3>2. CASE \E g \in x \ {Nil} : \E i \in 0..(mem[g].topLevel - 1) : h = Ref(g, i)
      BY <2>1, <3>2 DEF OneRound
    <3> QED
      BY <3>1, <3>2
  <2>3. \A h \in OneRound(x, Names, Leads) : h \in G(x)
    <3> SUFFICES ASSUME NEW h \in OneRound(x, Names, Leads) PROVE h \in G(x)
      OBVIOUS
    <3>1. CASE h \in x
      BY <3>1
    <3>2. CASE \E g \in x : <<g, h>> \in Leads
      <4>1. PICK g \in x : g # Nil /\ \E i \in 0..(mem[g].topLevel - 1) : h = Ref(g, i)
        BY <3>2 DEF Leads
      <4> QED
        BY <4>1
    <3> QED
      BY <3>1, <3>2 DEF OneRound
  <2> QED
    BY <2>2, <2>3
<1>3. o \in SUBSET Names
  BY RootsAreNames
<1>4. PICK g : Rounds(g, N, Names, Leads, o)
  <2> HIDE DEF N, o
  <2> QED
    BY <1>1, <1>3, RoundsExist
<1>5. Rec(g)
  <2>1. g \in [0..N -> SUBSET Names] /\ \A k \in 1..N : g[k] = OneRound(g[k-1], Names, Leads)
    BY <1>4 DEF Rounds
  <2>2. \A k \in 1..N : g[k-1] \in SUBSET Names
    BY <1>1, <2>1
  <2> HIDE DEF G, N
  <2>3. \A k \in 1..N : g[k] = G(g[k-1])
    BY <1>2, <2>1, <2>2
  <2>4. \A k \in 0..N : g[k] = IF k = 0 THEN o ELSE G(g[k-1])
    BY <1>1, <1>4, <2>3 DEF Rounds
  <2> QED
    BY <2>1, <2>4
<1>6. PICK f : Rec(f) /\ Referenced = f[N]
  <2>1. Rec(CHOOSE f : Rec(f))
    BY <1>5
  <2>2. Referenced = (CHOOSE f : Rec(f))[N]
    BY DEF Referenced
  <2> QED
    BY <2>1, <2>2
<1>7. f = [k \in 0..N |-> f[k]] /\ f[0] = o /\ \A k \in 1..N : f[k] = G(f[k-1])
  <2> HIDE DEF G, N, o
  <2> QED
    BY <1>1, <1>6
<1>8. \A k \in 1..N : f[k-1] \in SUBSET Names => f[k] = OneRound(f[k-1], Names, Leads)
  <2> HIDE DEF G
  <2> QED
    BY <1>2, <1>7
<1> HIDE DEF N, o, G
<1>9. Rounds(f, N, Names, Leads, o)
  BY <1>1, <1>3, <1>7, <1>8, RoundsOfRecursion
<1> QED
  BY <1>6, <1>9 DEF N, o

(* The threads hold nothing that is not Referenced, and no link in use leads *)
(* out of it.                                                                *)
LEMMA ReferencedCloses ==
  ASSUME NEW U, NEW L, NEW C, Inv(U, L, C)
  PROVE  /\ Roots \subseteq Referenced
         /\ \A n \in (U \union {Head}) \intersect Referenced : \A i \in Levels :
              i < mem[n].topLevel => Ref(n, i) \in Referenced \union {Tail}
<1>1. TypeInv /\ Cardinality(Nodes) \in Nat /\ IsFiniteSet(Nodes)
  BY NodesAssumption, FS_CardinalityType DEF Inv
<1>2. PICK f : /\ Rounds(f, Cardinality(Nodes), Names, Leads, Roots)
               /\ Referenced = f[Cardinality(Nodes)]
  BY <1>1, ReferencedRounds
<1>3. Roots \subseteq Referenced /\ Referenced \subseteq Names
  BY <1>1, <1>2, RoundsGrow
<1>4. Nodes \subseteq Names /\ Cardinality(Nodes) <= Cardinality(Nodes)
  BY <1>1 DEF Names, Towers
<1>5. \A g \in Names, h \in Nodes : <<g, h>> \in Leads => g \in Roots \union Nodes
  <2> SUFFICES ASSUME NEW g \in Names, NEW h \in Nodes, <<g, h>> \in Leads PROVE g \in Roots \union Nodes
    OBVIOUS
  <2>1. g # Nil /\ g \in Towers /\ \E i \in 0..(mem[g].topLevel - 1) : h = Ref(g, i)
    BY DEF Leads, Names
  <2>2. g # Tail
    <3> SUFFICES ASSUME g = Tail PROVE FALSE
      OBVIOUS
    <3>1. PICK i \in Levels : h = Ref(Tail, i)
      BY <1>1, <2>1, TowerLevels
    <3>2. Ref(Tail, i) = Nil
      BY DEF Inv, MemoryInv, SentinelsAreFixed
    <3> QED
      BY <3>1, <3>2, NameFacts
  <2> QED
    BY <2>1, <2>2 DEF Towers, Roots
<1>6. \A g \in f[Cardinality(Nodes)] : \A h \in Nodes : <<g, h>> \in Leads => h \in f[Cardinality(Nodes)]
  <2>1. PICK N : N = Cardinality(Nodes)
    OBVIOUS
  <2>2. PICK S, D, M, o : S = Nodes /\ D = Names /\ M = Leads /\ o = Roots
    OBVIOUS
  <2>3. /\ N \in Nat /\ Rounds(f, N, D, M, o) /\ S \subseteq D /\ IsFiniteSet(S)
        /\ Cardinality(S) <= N
    BY <1>1, <1>2, <1>4, <2>1, <2>2
  <2>4. Onward(D, S, M, o)
    BY <1>5, <2>2 DEF Onward
  <2>5. Keeps(f[N], S, M)
    BY <2>3, <2>4, RoundsExhaust
  <2> QED
    BY <2>1, <2>2, <2>5 DEF Keeps
<1>7. ASSUME NEW n \in (U \union {Head}) \intersect Referenced, NEW i \in Levels, i < mem[n].topLevel
      PROVE  Ref(n, i) \in Referenced \union {Tail}
  <2>1. Ref(n, i) \in L[i] \union {Tail} /\ L[i] \subseteq Nodes
    BY <1>7, LevelIsTower DEF Inv, MemoryInv, LevelsAreClosed
  <2>2. n \in Towers /\ n # Nil
    BY NameFacts DEF Inv, HistoryInv
  <2>3. Ref(n, i) \in Nodes => <<n, Ref(n, i)>> \in Leads
    BY <1>1, <1>4, <1>7, <2>2, TowerLevels DEF Leads, Names
  <2> QED
    BY <1>2, <1>6, <2>1, <2>3
<1> QED
  BY <1>3, <1>7

(* What no thread and no level leads to can be forgotten. *)
LEMMA ForgetUnreferenced ==
  ASSUME NEW U, NEW L, NEW C, Inv(U, L, C)
  PROVE  \E V, M : /\ Inv(V, M, C) /\ V = U \intersect Referenced
                   /\ \A i \in Levels : C[i] \subseteq M[i] \union {Head, Tail}
<1> SUFFICES ASSUME NEW F, F = Referenced,
                    NEW V, V = U \intersect F,
                    NEW M, M = [i \in Levels |-> L[i] \intersect F]
             PROVE  /\ Inv(V, M, C)
                    /\ \A i \in Levels : C[i] \subseteq M[i] \union {Head, Tail}
  OBVIOUS
<1>1. /\ Roots \subseteq F
      /\ \A n \in (U \union {Head}) \intersect F : \A i \in Levels :
              i < mem[n].topLevel => Ref(n, i) \in F \union {Tail}
  BY ReferencedCloses
<1>2. /\ U \subseteq Nodes /\ 0 \in Levels
      /\ \A i \in Levels : L[i] \subseteq U /\ M[i] = L[i] \intersect F /\ M[i] \subseteq V
  BY LevelIsTower, LevelFacts DEF Inv, HistoryInv
<1>3. ASSUME NEW i \in Levels
      PROVE  C[i] \subseteq M[i] \union {Head, Tail}
  <2>1. PICK r : IsChain(C[i], r, Nexts(i), Head, Tail)
    BY ChainOf
  <2>2. Head \in F \union {Tail}
    BY <1>1 DEF Roots
  <2>3. \A c \in (C[i] \intersect (F \union {Tail})) \ {Tail} : Nexts(i)[c] \in F \union {Tail}
    <3> SUFFICES ASSUME NEW c \in C[i] \intersect F, c # Tail PROVE Nexts(i)[c] \in F \union {Tail}
      OBVIOUS
    <3>1. c \in L[i] \union {Head}
      BY ChainOf
    <3>2. c \in U \union {Head} /\ i < mem[c].topLevel /\ c \in Towers
      BY <3>1, OnLevel
    <3> QED
      BY <1>1, <3>2, ChainOf
  <2>4. C[i] \subseteq F \union {Tail}
    <3>1. PICK X, P, nx : X = F \union {Tail} /\ P = C[i] /\ nx = Nexts(i)
      OBVIOUS
    <3>2. IsChain(P, r, nx, Head, Tail) /\ Head \in X /\ \A c \in (P \intersect X) \ {Tail} : nx[c] \in X
      BY <2>1, <2>2, <2>3, <3>1
    <3>3. P \subseteq X
      BY <3>2, ChainInside
    <3> QED
      BY <3>1, <3>3
  <2> QED
    BY <1>2, <2>4, ChainOf
<1>4. HistoryInv(V, M, C)
  <2>1. /\ C \in [Levels -> SUBSET Towers]
        /\ \A i, j \in Levels : i <= j => L[j] \subseteq L[i]
        /\ \A i \in Levels : \A n \in L[i] : i < mem[n].topLevel
    BY DEF Inv, HistoryInv
  <2>2. V \in SUBSET Nodes /\ M \in [Levels -> SUBSET V]
    BY <1>2
  <2> QED
    BY <1>2, <1>3, <2>1, <2>2 DEF HistoryInv
<1>5. MemoryInv(V, M, C)
  <2>1. SentinelsAreFixed
    BY DEF Inv, MemoryInv
  <2>2. LevelsAreClosed(V, M)
    <3> SUFFICES ASSUME NEW n \in V \union {Head}, NEW i \in Levels, i < mem[n].topLevel
                 PROVE  Ref(n, i) \in M[i] \union {Tail}
      BY DEF LevelsAreClosed
    <3>1. n \in (U \union {Head}) \intersect F
      BY <1>1 DEF Roots
    <3>2. Ref(n, i) \in L[i] \union {Tail}
      BY <3>1 DEF Inv, MemoryInv, LevelsAreClosed
    <3> QED
      BY <1>1, <1>2, <3>1, <3>2
  <2>3. LiveNodesAreLinked(M, C)
    BY <1>2 DEF Inv, MemoryInv, LiveNodesAreLinked
  <2>4. ASSUME NEW n \in V PROVE TowerIsRight(M, n) /\ BitsAreRight(M, n)
    <3>1. n \in U /\ TowerIsRight(L, n) /\ BitsAreRight(L, n) /\ \A i \in Levels : n \in M[i] <=> n \in L[i]
      BY <1>2 DEF Inv, MemoryInv
    <3> QED
      BY <1>2, <3>1 DEF TowerIsRight, BitsAreRight
  <2>5. NVMIsRight(V, M)
    <3>1. NVMIsRight(U, L)
      BY DEF Inv, MemoryInv
    <3>2. ASSUME NEW n \in Nodes \ V PROVE ~isValid(mem[n])
      <4>1. CASE n \notin U
        BY <3>1, <4>1 DEF NVMIsRight
      <4>2. CASE n \in U
        <5>1. n \notin F
          BY <3>2, <4>2
        <5>2. n \notin C[0]
          BY <1>2, <1>3, <5>1, NameFacts
        <5>3. BitsAreRight(L, n) /\ (n \in L[0] => State(n, 0) = DELETED)
          BY <1>2, <4>2, <5>2 DEF Inv, MemoryInv, LiveNodesAreLinked
        <5>4. mem[n].validStart \in BOOLEAN /\ mem[n].validEnd \in BOOLEAN /\ mem[n].deleted \in BOOLEAN
              /\ mem[n].pValidity \in BOOLEAN
          BY <3>2, NameFacts, Fields DEF Inv
        <5> QED
          BY <5>3, <5>4 DEF BitsAreRight, isValid
      <4> QED
        BY <4>1, <4>2
    <3>3. \A n \in free : n \in V => n \in M[0] /\ State(n, 0) = DELETED
      BY <1>2, <3>1 DEF NVMIsRight
    <3> QED
      BY <3>1, <3>2, <3>3 DEF NVMIsRight
  <2> QED
    BY <2>1, <2>2, <2>3, <2>4, <2>5 DEF MemoryInv
<1>6. ASSUME NEW t \in Threads PROVE ThreadInv(V, M, local[t], call[t])
  <2> SUFFICES ASSUME NEW l, l = local[t], NEW c, c = call[t] PROVE ThreadInv(V, M, l, c)
    OBVIOUS
  <2>1. ThreadInv(U, L, l, c) /\ l \in Locals /\ l.lvl \in Levels
    <3>1. l \in Locals
      BY DEF Inv, TypeInv
    <3> QED
      BY <3>1, LocalFields DEF Inv
  <2>2. /\ l.pred \in F /\ l.from \in F /\ l.curr \in F /\ l.node \in F
        /\ \A i \in Levels : l.preds[i] \in F /\ l.succs[i] \in F
    BY <1>1 DEF Roots
  <2>3. \A i \in Levels : Kept(L, l, i) => Kept(M, l, i)
    BY <1>2, <2>2 DEF Kept
  <2>4. OwnerInv(V, M, l, c)
    <3>1. Owner(l, c) => l.node \in V /\ \A i \in Levels : l.node \in M[i] <=> l.node \in L[i]
      BY <1>2, <2>1, <2>2 DEF ThreadInv, OwnerInv
    <3> QED
      BY <2>1, <2>3, <3>1 DEF ThreadInv, OwnerInv
  <2>5. WalkInv(M, l, c)
    BY <1>2, <2>1, <2>2, <2>3 DEF ThreadInv, WalkInv
  <2>6. FindInv(M, l, c)
    <3>1. ASSUME RunIsDead(L, l) PROVE RunIsDead(M, l)
      <4>1. PICK D \in SUBSET L[l.lvl] :
              /\ l.from \in D \union {l.curr}
              /\ \A d \in D : State(d, l.lvl) = DELETED /\ Ref(d, l.lvl) \in D \union {l.curr}
        BY <3>1 DEF RunIsDead
      <4>2. D \intersect F \in SUBSET M[l.lvl] /\ l.from \in (D \intersect F) \union {l.curr}
        BY <1>2, <2>1, <2>2, <4>1
      <4>3. ASSUME NEW d \in D \intersect F PROVE Ref(d, l.lvl) \in (D \intersect F) \union {l.curr}
        <5>1. d \in L[l.lvl] /\ Tail \notin D
          BY <1>2, <2>1, <4>1, NameFacts
        <5>2. d \in U /\ l.lvl < mem[d].topLevel
          BY <2>1, <5>1 DEF Inv, HistoryInv
        <5>3. Ref(d, l.lvl) \in F \union {Tail}
          BY <1>1, <2>1, <5>2
        <5> QED
          BY <4>1, <5>1, <5>3
      <4> QED
        BY <4>1, <4>2, <4>3 DEF RunIsDead
    <3>2. FindInv(L, l, c)
      BY <2>1 DEF ThreadInv
    <3> QED
      BY <1>2, <2>1, <2>2, <3>1, <3>2 DEF FindInv
  <2>7. HelpInv(M, l, c) /\ RemoveInv(M, l, c)
    BY <1>2, <2>1, <2>2 DEF ThreadInv, HelpInv, RemoveInv
  <2> QED
    BY <2>4, <2>5, <2>6, <2>7 DEF ThreadInv
<1>7. TypeInv /\ ChainsInv(C) /\ OwnersAreApart
  BY DEF Inv
<1>8. Inv(V, M, C)
  BY <1>4, <1>5, <1>6, <1>7 DEF Inv
<1> QED
  BY <1>3, <1>8

-----------------------------------------------------------------------------
(* insert makes a node. *)

(* What insert has when it has made a node. *)
NewLocal(r, top, n) == [Forget(SearchEnds(r, "link"), top..MAX_LEVEL) EXCEPT !.node = n]

(* Its fields. *)
LEMMA NewLocalFacts ==
  ASSUME NEW top \in Nat, NEW n \in Towers, NEW r \in Locals,
         NEW d, d = NewLocal(r, top, n)
  PROVE  /\ d \in Locals /\ d.pc = "link" /\ d.node = n /\ d.up = r.up /\ d.result = r.result
         /\ \A i \in Levels : i < top => d.preds[i] = r.preds[i] /\ d.succs[i] = r.succs[i]
<1>1. PICK s : s = SearchEnds(r, "link")
  OBVIOUS
<1>2. /\ s \in Locals /\ s.pc = "link" /\ s.up = r.up /\ s.result = r.result
      /\ s.preds = r.preds /\ s.succs = r.succs
  BY <1>1, LevelFacts DEF SearchEnds, Locals, Labels
<1>3. PICK S : S = top..MAX_LEVEL
  OBVIOUS
<1>4. PICK f : f = Forget(s, S)
  OBVIOUS
<1>5. /\ f \in Locals /\ f.pc = "link" /\ f.up = r.up /\ f.result = r.result
      /\ \A i \in Levels : i \notin S => f.preds[i] = r.preds[i] /\ f.succs[i] = r.succs[i]
  BY <1>2, <1>4, ForgetFacts
<1>6. \A i \in Levels : i < top => i \notin S
  BY <1>3, LevelFacts
<1>7. d = [f EXCEPT !.node = n]
  BY <1>1, <1>3, <1>4 DEF NewLocal
<1>8. /\ d \in Locals /\ d.pc = f.pc /\ d.node = n /\ d.up = f.up /\ d.result = f.result
      /\ d.preds = f.preds /\ d.succs = f.succs
  BY <1>5, <1>7 DEF Locals
<1> QED
  BY <1>5, <1>6, <1>8

(* What the search has recorded when it ends. *)
LEMMA RecordFacts ==
  ASSUME NEW U, NEW L, NEW C, Inv(U, L, C), NEW t \in Threads, local[t].pc = "walk",
         local[t].lvl = 0, call[t].op = "insert"
  PROVE  LET r == Record(t) IN
         /\ r \in Locals /\ r.up = 0 /\ ~r.result
         /\ \A i \in Levels : Kept(L, r, i)
         /\ r.preds[0] = local[t].pred /\ r.succs[0] = local[t].curr
         /\ Key(local[t].pred) < call[t].arg
<1> DEFINE l == local[t]
           c == call[t]
           r == Record(t)
<1>1. /\ l \in Locals /\ WalkInv(L, l, c)
      /\ l.node = Nil /\ l.up = 0 /\ ~l.result
      /\ l.curr \in L[0] \union {Tail} /\ l.curr \in Towers /\ 0 \in Levels /\ L[0] \subseteq Towers
  BY WalkFacts, LevelFacts
<1>2. /\ l.pred \in L[0] \union {Head} /\ Key(l.pred) < c.arg
      /\ \A i \in Levels : 0 < i => Kept(L, l, i)
  BY <1>1 DEF WalkInv
<1>3. l.pred \in Towers
  BY <1>1, <1>2, NameFacts
<1>4. /\ r \in Locals /\ r.up = l.up /\ r.result = l.result
      /\ r.preds[l.lvl] = l.pred /\ r.succs[l.lvl] = l.curr
      /\ \A i \in Levels : i # l.lvl => r.preds[i] = l.preds[i] /\ r.succs[i] = l.succs[i]
  <2>1. [l EXCEPT !.preds[l.lvl] = l.pred, !.succs[l.lvl] = l.curr] \in Locals
    BY <1>1, <1>3 DEF Locals
  <2> QED
    BY <1>1, <2>1 DEF Record, Locals
<1>5. /\ r \in Locals /\ r.up = 0 /\ ~r.result
      /\ r.preds[0] = l.pred /\ r.succs[0] = l.curr
      /\ \A i \in Levels : i # 0 => r.preds[i] = l.preds[i] /\ r.succs[i] = l.succs[i]
  BY <1>1, <1>4
<1>6. \A i \in Levels : i = 0 \/ 0 < i
  BY LevelFacts
<1> HIDE DEF r
<1>7. \A i \in Levels : Kept(L, r, i)
  BY <1>1, <1>2, <1>5, <1>6 DEF Kept
<1> QED
  BY <1>2, <1>5, <1>7 DEF r

(* Changes to a node that is not on a chain leave the chain. *)
LEMMA ChainAgrees ==
  ASSUME NEW C, NEW r, NEW nx, NEW a, NEW z, IsChain(C, r, nx, a, z),
         NEW ny, \A c \in C \ {z} : ny[c] = nx[c],
         NEW ry, \A c \in C : ry[c] = r[c]
  PROVE  IsChain(C, ry, ny, a, z)
<1>1. \A c, d \in C : r[c] \in Int /\ r[d] \in Int /\ (r[c] < r[d] => c # z)
  BY DEF IsChain
<1>2. \A c \in C \ {z} : ny[c] \in C /\ ry[ny[c]] = r[nx[c]]
  BY DEF IsChain
<1> QED
  BY <1>1, <1>2 DEF IsChain

(* The stores of insert into its new node. *)
NodeIsMade(n, m) == mem' = [mem EXCEPT ![n] = m]

(* A node that was not in use is on no chain. *)
LEMMA MadeChains ==
  ASSUME NEW U, NEW L, NEW C, Inv(U, L, C), NEW n \in Nodes, n \notin U, NEW m, NodeIsMade(n, m)
  PROVE  ChainsInv(C)'
<1>1. \A i \in Levels : n \notin C[i]
  BY LevelIsTower, NameFacts, ChainOf
<1>2. \A x \in Towers : x # n => mem'[x] = mem[x]
  BY DEF NodeIsMade, Inv, TypeInv
<1>3. \A x \in Towers : x # n => Key(x)' = Key(x) /\ \A i \in Levels : Ref(x, i)' = Ref(x, i)
  BY <1>2 DEF Key, Ref
<1>4. ASSUME NEW i \in Levels, NEW r, IsChain(C[i], r, Nexts(i), Head, Tail)
      PROVE  IsChain(C[i], r, Nexts(i)', Head, Tail)
  <2>1. PICK ny : ny = [x \in Towers |-> Ref(x, i)']
    OBVIOUS
  <2>2. PICK nx : nx = Nexts(i)
    OBVIOUS
  <2>3. PICK P : P = C[i]
    OBVIOUS
  <2>4. \A x \in P \ {Tail} : ny[x] = nx[x]
    <3>1. \A x \in P : x \in Towers /\ x # n /\ nx[x] = Ref(x, i)
      BY <1>1, <2>2, <2>3, ChainOf
    <3> QED
      BY <1>3, <2>1, <3>1
  <2>5. IsChain(P, r, nx, Head, Tail)
    BY <1>4, <2>2, <2>3
  <2>6. IsChain(P, r, ny, Head, Tail)
    BY <2>4, <2>5, ChainSame
  <2>7. ny = Nexts(i)'
    BY <2>1 DEF Nexts
  <2> QED
    BY <2>3, <2>6, <2>7
<1>5. ASSUME NEW i \in Levels PROVE \E r : IsChain(C[i], r, Nexts(i), Head, Tail)'
  <2>1. PICK r : IsChain(C[i], r, Nexts(i), Head, Tail)
    BY ChainOf
  <2>2. IsChain(C[i], r, Nexts(i)', Head, Tail)
    BY <1>4, <2>1
  <2> QED
    BY <2>2
<1>6. IsChain(C[0], KeyOf', Nexts(0)', Head, Tail)
  <2>1. PICK ry : ry = [x \in Towers |-> Key(x)']
    OBVIOUS
  <2>2. PICK r : r = KeyOf
    OBVIOUS
  <2>3. PICK P, ny : P = C[0] /\ ny = Nexts(0)'
    OBVIOUS
  <2>4. IsChain(C[0], KeyOf, Nexts(0), Head, Tail) /\ 0 \in Levels
    BY LevelFacts DEF Inv, ChainsInv
  <2>5. IsChain(P, r, ny, Head, Tail)
    BY <1>4, <2>2, <2>3, <2>4
  <2>6. \A x \in P : ry[x] = r[x]
    <3>1. \A x \in P : x \in Towers /\ x # n /\ r[x] = Key(x)
      BY <1>1, <2>2, <2>3, <2>4, ChainOf
    <3> QED
      BY <1>3, <2>1, <3>1
  <2>7. IsChain(P, ry, ny, Head, Tail)
    BY <2>5, <2>6, ChainAgrees
  <2>8. ry = KeyOf'
    BY <2>1 DEF KeyOf
  <2> QED
    BY <2>3, <2>7, <2>8
<1> QED
  BY <1>5, <1>6 DEF ChainsInv

(* The memory with the new node in use. *)
LEMMA MadeMemory ==
  ASSUME NEW U, NEW L, NEW C, Inv(U, L, C), NEW n \in Nodes, n \notin U, n \in free,
         NEW m \in NodeFields, NodeIsMade(n, m),
         m.key \in Keys, 0 < m.topLevel,
         m.validStart = ~mem[n].validStart, m.pValidity = ~mem[n].validStart,
         m.validEnd = mem[n].validEnd, m.deleted = mem[n].deleted,
         m.link[0].state = INTEND_TO_INSERT,
         \A i \in Levels : i < m.topLevel =>
           /\ m.link[i].to \in L[i] \union {Tail}
           /\ i # 0 => m.link[i].state = INSERTED,
         UNCHANGED nvm, free' = free \ {n},
         NEW V, V = U \union {n}
  PROVE  /\ mem' \in [Towers -> NodeFields] /\ HistoryInv(V, L, C)' /\ MemoryInv(V, L, C)'
         /\ Evolves(n, U, L, V, L) /\ mem'[n] = m
<1>1. /\ TypeInv /\ n \in Towers /\ n # Head /\ n # Tail /\ U \subseteq Towers /\ U \subseteq Nodes
      /\ 0 \in Levels /\ \A i \in Levels : L[i] \subseteq U
      /\ HistoryInv(U, L, C) /\ SentinelsAreFixed /\ LevelsAreClosed(U, L)
      /\ LiveNodesAreLinked(L, C) /\ NVMIsRight(U, L)
      /\ \A x \in U : TowerIsRight(L, x) /\ BitsAreRight(L, x)
  BY NameFacts, LevelFacts, LevelIsTower DEF Inv, HistoryInv, MemoryInv
<1>2. /\ mem' \in [Towers -> NodeFields] /\ mem'[n] = m
      /\ \A x \in Towers : x # n => mem'[x] = mem[x]
  BY <1>1 DEF NodeIsMade, TypeInv
<1>3. \A x \in Towers : x # n =>
        /\ Key(x)' = Key(x)
        /\ \A i \in Levels : Ref(x, i)' = Ref(x, i) /\ State(x, i)' = State(x, i)
  BY <1>2 DEF Key, Ref, State
<1>4. HistoryInv(V, L, C)'
  <2>1. L \in [Levels -> SUBSET V] /\ V \in SUBSET Nodes
    BY <1>1 DEF HistoryInv
  <2>2. \A i \in Levels : \A x \in L[i] : i < mem'[x].topLevel
    BY <1>1, <1>2 DEF HistoryInv
  <2> QED
    BY <1>1, <2>1, <2>2 DEF HistoryInv
<1>5. SentinelsAreFixed'
  BY <1>1, <1>2, <1>3, NameFacts DEF SentinelsAreFixed
<1>6. LevelsAreClosed(V, L)'
  <2> SUFFICES ASSUME NEW x \in V \union {Head}, NEW i \in Levels, i < mem'[x].topLevel
               PROVE  Ref(x, i)' \in L[i] \union {Tail}
    BY DEF LevelsAreClosed
  <2>1. CASE x = n
    BY <1>2, <2>1 DEF Ref
  <2>2. CASE x # n
    BY <1>1, <1>2, <1>3, <2>2, NameFacts DEF LevelsAreClosed
  <2> QED
    BY <2>1, <2>2
<1>7. LiveNodesAreLinked(L, C)'
  BY <1>1, <1>3 DEF LiveNodesAreLinked
<1>8. \A i \in Levels : n \notin L[i]
  BY <1>1
<1>9. ASSUME NEW x \in V PROVE TowerIsRight(L, x)' /\ BitsAreRight(L, x)'
  <2>1. CASE x = n
    <3>1. Key(n)' = m.key /\ \A i \in Levels : State(n, i)' = m.link[i].state
      BY <1>2 DEF Key, State
    <3>2. INTEND_TO_INSERT \notin {INTEND_TO_DELETE, DELETED, INSERTED}
          /\ INSERTED # DELETED
      BY StateFacts
    <3>3. TowerIsRight(L, n)'
      <4>1. \A i, j \in Levels : i <= j /\ j < m.topLevel => i < m.topLevel
        <5>1. m.topLevel \in 0..MAX_LEVEL /\ MAX_LEVEL \in Nat
          BY LevelFacts DEF NodeFields
        <5>2. m.topLevel \in Nat
          BY <5>1
        <5> QED
          BY <5>2, LevelOrder
      <4>2. Key(n)' \in Keys /\ 0 < mem'[n].topLevel /\ mem'[n].topLevel = m.topLevel
        BY <1>2, <3>1
      <4>3. ASSUME NEW i \in Levels \ {0}, i < m.topLevel
            PROVE  State(n, i)' = INSERTED
        BY <3>1, <4>3
      <4>4. State(n, 0)' = INTEND_TO_INSERT
        BY <1>1, <3>1
      <4> QED
        BY <1>8, <3>2, <4>1, <4>2, <4>3, <4>4 DEF TowerIsRight
    <3>4. mem[n].validEnd = mem[n].validStart /\ mem[n].deleted = mem[n].validStart
      BY <1>1 DEF NVMIsRight
    <3>5. /\ m.validStart \in BOOLEAN /\ m.validEnd \in BOOLEAN /\ m.deleted \in BOOLEAN
          /\ m.pValidity \in BOOLEAN /\ mem[n].validStart \in BOOLEAN
      BY <1>1, Fields DEF NodeFields
    <3>6. m.validEnd = ~m.pValidity /\ m.deleted = ~m.pValidity /\ m.validStart = m.pValidity
      BY <3>4, <3>5
    <3>7. BitsAreRight(L, n)'
      BY <1>1, <1>2, <3>1, <3>2, <3>6 DEF BitsAreRight
    <3> QED
      BY <2>1, <3>3, <3>7
  <2>2. CASE x # n
    <3>1. x \in U /\ x \in Towers /\ mem'[x] = mem[x]
      BY <1>1, <1>2, <2>2
    <3>2. TowerIsRight(L, x)'
      BY <1>1, <1>3, <2>2, <3>1 DEF TowerIsRight
    <3>3. BitsAreRight(L, x)'
      BY <1>1, <1>3, <2>2, <3>1 DEF BitsAreRight
    <3> QED
      BY <3>2, <3>3
  <2> QED
    BY <2>1, <2>2
<1>10. NVMIsRight(V, L)'
  <2>1. ~isValid(mem[n]) /\ ~isValid(m)
    <3>1. mem[n].validEnd = mem[n].validStart /\ ~isValid(mem[n])
      BY <1>1 DEF NVMIsRight
    <3>2. mem[n].validStart \in BOOLEAN
      BY <1>1, Fields
    <3> QED
      BY <3>1, <3>2 DEF isValid
  <2>2. ASSUME NEW x \in Nodes PROVE nvm'[x] = IF isValid(mem'[x]) THEN Key(x)' ELSE Nil
    <3>1. nvm[x] = IF isValid(mem[x]) THEN Key(x) ELSE Nil
      BY <1>1 DEF NVMIsRight
    <3>2. CASE x = n
      BY <1>2, <2>1, <3>1, <3>2
    <3>3. CASE x # n
      BY <1>2, <1>3, <3>1, <3>3, NameFacts
    <3> QED
      BY <3>2, <3>3
  <2>3. ASSUME NEW x \in Nodes \ V PROVE ~isValid(mem'[x])
    BY <1>1, <1>2, <2>3, NameFacts DEF NVMIsRight
  <2>4. ASSUME NEW x \in free'
        PROVE  /\ mem'[x].validEnd = mem'[x].validStart /\ mem'[x].deleted = mem'[x].validStart
               /\ x \in V => x \in L[0] /\ State(x, 0)' = DELETED
    <3>1. x \in free /\ x # n /\ x \in Towers
      BY <1>1, <2>4, NameFacts DEF TypeInv
    <3>2. mem'[x] = mem[x] /\ State(x, 0)' = State(x, 0) /\ (x \in V => x \in U)
      BY <1>1, <1>2, <1>3, <3>1
    <3> QED
      BY <1>1, <3>1, <3>2 DEF NVMIsRight
  <2> QED
    BY <2>2, <2>3, <2>4 DEF NVMIsRight
<1>11. MemoryInv(V, L, C)'
  BY <1>5, <1>6, <1>7, <1>9, <1>10 DEF MemoryInv
<1>12. Evolves(n, U, L, V, L)
  <2>1. \A x \in U \union {Head, Tail} : x \in Towers /\ x # n
    BY <1>1, NameFacts
  <2>2. \A x \in U \union {Head, Tail} : Key(x)' = Key(x) /\ mem'[x] = mem[x]
    BY <1>2, <1>3, <2>1
  <2>3. \A x \in U : \A i \in Levels : State(x, i)' = State(x, i) /\ Ref(x, i)' = Ref(x, i)
    BY <1>3, <2>1
  <2> QED
    BY <1>1, <2>2, <2>3 DEF Evolves
<1> QED
  BY <1>2, <1>4, <1>11, <1>12

(* The parts of a link. *)
LEMMA ToFacts == \A x, s : To(x, s).to = x /\ To(x, s).state = s
BY DEF To

(* The node as insert makes it. *)
LEMMA NewNodeFacts ==
  ASSUME NEW U, NEW L, NEW C, Inv(U, L, C), NEW t \in Threads, local[t].pc = "walk",
         local[t].lvl = 0, call[t].op = "insert", NEW n \in Nodes, NEW top \in Heights
  PROVE  LET m == NewNode(t, n, top) IN
         /\ m \in NodeFields /\ m.key = call[t].arg /\ m.topLevel = top
         /\ m.validStart = ~mem[n].validStart /\ m.pValidity = ~mem[n].validStart
         /\ m.validEnd = mem[n].validEnd /\ m.deleted = mem[n].deleted
         /\ m.link[0].state = INTEND_TO_INSERT
         /\ \A i \in Levels : i < top =>
              /\ m.link[i].to = Record(t).succs[i]
              /\ i # 0 => m.link[i].state = INSERTED
<1> SUFFICES ASSUME NEW m, m = NewNode(t, n, top), NEW r, r = Record(t),
                    NEW g, g = [i \in Levels |->
                       IF i >= top THEN mem[n].link[i]
                       ELSE To(r.succs[i], IF i = 0 THEN INTEND_TO_INSERT ELSE INSERTED)]
             PROVE
         /\ m \in NodeFields /\ m.key = call[t].arg /\ m.topLevel = top
         /\ m.validStart = ~mem[n].validStart /\ m.pValidity = ~mem[n].validStart
         /\ m.validEnd = mem[n].validEnd /\ m.deleted = mem[n].deleted
         /\ m.link[0].state = INTEND_TO_INSERT
         /\ \A i \in Levels : i < top =>
              /\ m.link[i].to = r.succs[i]
              /\ i # 0 => m.link[i].state = INSERTED
  BY ZenonT(60)
<1>1. /\ TypeInv /\ n \in Towers /\ call[t].arg \in Int /\ top \in 0..MAX_LEVEL /\ top > 0
      /\ 0 \in Levels /\ top \in Nat
  BY NameFacts, WalkFacts, LevelsAssumption, LevelFacts DEF Inv
<1>2. r.succs \in [Levels -> Towers \union {Nil}]
  BY RecordFacts, LocalFields
<1>3. mem[n] \in NodeFields /\ mem[n].link \in [Levels -> Links] /\ mem[n].validStart \in BOOLEAN
  BY <1>1, Fields
<1>4. \A i \in Levels : To(r.succs[i], IF i = 0 THEN INTEND_TO_INSERT ELSE INSERTED) \in Links
  BY <1>2, StateFacts DEF To, Links
<1>5. /\ g \in [Levels -> Links]
      /\ \A i \in Levels : g[i] \in Links
      /\ \A i \in Levels : i < top => g[i] = To(r.succs[i], IF i = 0 THEN INTEND_TO_INSERT ELSE INSERTED)
  <2>1. \A i \in Levels : i < top => ~(i >= top)
    BY <1>1, LevelFacts
  <2> QED
    BY <1>3, <1>4, <2>1
<1>6. m = [mem[n] EXCEPT !.validStart = ~@, !.pValidity = ~mem[n].validStart, !.topLevel = top,
             !.key = call[t].arg, !.link = g]
  BY <1>3 DEF NewNode, NodeFields
<1>7. /\ m \in NodeFields /\ m.key = call[t].arg /\ m.topLevel = top
      /\ m.validStart = ~mem[n].validStart /\ m.pValidity = ~mem[n].validStart
      /\ m.validEnd = mem[n].validEnd /\ m.deleted = mem[n].deleted
      /\ m.link = g
  <2>1. \A a, b, k, f :
          LET x == [mem[n] EXCEPT !.validStart = a, !.pValidity = b, !.topLevel = top,
                                  !.key = k, !.link = f]
          IN  /\ x.key = k /\ x.topLevel = top /\ x.validStart = a /\ x.pValidity = b
              /\ x.validEnd = mem[n].validEnd /\ x.deleted = mem[n].deleted
              /\ x.link = f
    BY <1>3 DEF NodeFields
  <2>2. \A k \in Int, f \in [Levels -> Links], a, b \in BOOLEAN :
          [mem[n] EXCEPT !.validStart = a, !.pValidity = b, !.topLevel = top,
                         !.key = k, !.link = f] \in NodeFields
    BY <1>1, <1>3 DEF NodeFields
  <2>3. PICK a \in BOOLEAN : a = ~mem[n].validStart
    OBVIOUS
  <2>4. m = [mem[n] EXCEPT !.validStart = a, !.pValidity = a, !.topLevel = top,
                           !.key = call[t].arg, !.link = g]
    BY <1>6, <2>3
  <2>5. m \in NodeFields
    <3>1. [mem[n] EXCEPT !.validStart = a, !.pValidity = a, !.topLevel = top,
                         !.key = call[t].arg, !.link = g] \in NodeFields
      <4>1. PICK k, f : k = call[t].arg /\ f = g
        OBVIOUS
      <4>2. k \in Int /\ f \in [Levels -> Links]
        BY <1>1, <1>5, <4>1
      <4>3. [mem[n] EXCEPT !.validStart = a, !.pValidity = a, !.topLevel = top,
                           !.key = k, !.link = f] \in NodeFields
        BY <2>2, <4>2
      <4> QED
        BY <4>1, <4>3
    <3> QED
      BY <2>4, <3>1
  <2>6. /\ m.key = call[t].arg /\ m.topLevel = top
        /\ m.validStart = a /\ m.pValidity = a
        /\ m.validEnd = mem[n].validEnd /\ m.deleted = mem[n].deleted
        /\ m.link = g
    BY <2>1, <2>4
  <2> QED
    BY <2>3, <2>5, <2>6
<1>8. \A i \in Levels : i < top =>
        m.link[i] = To(r.succs[i], IF i = 0 THEN INTEND_TO_INSERT ELSE INSERTED)
  BY <1>5, <1>7
<1>9. \A i \in Levels : i < top => m.link[i].to = r.succs[i] /\ (i # 0 => m.link[i].state = INSERTED)
  BY <1>8, ToFacts
<1>10. m.link[0].state = INTEND_TO_INSERT
  BY <1>1, <1>8, ToFacts
<1> QED
  BY <1>7, <1>9, <1>10

(* insert takes a free node that nothing refers to. *)
LEMMA MakeMove ==
  ASSUME NEW U, NEW L, NEW C, Inv(U, L, C), NEW t \in Threads,
         WalkStops(t), local[t].lvl = 0, call[t].op = "insert", ~WalkFinds(t),
         NEW n \in Nodes, NEW top \in Heights, n \in free, n \notin U,
         free' = free \ {n}, NodeIsMade(n, NewNode(t, n, top)),
         Become(t, [Forget(SearchEnds(Record(t), "link"), top..MAX_LEVEL) EXCEPT !.node = n]),
         UNCHANGED <<nvm, call>>
  PROVE  Inv(U \union {n}, L, C)'
<1> DEFINE l == local[t]
<1> SUFFICES ASSUME NEW c, c = call[t], NEW m, m = NewNode(t, n, top), NEW r, r = Record(t),
                    NEW p, p = l.pred, NEW q, q = l.curr
             PROVE  Inv(U \union {n}, L, C)'
  OBVIOUS
<1>0. PICK d : /\ Become(t, d)
               /\ d \in Locals /\ d.pc = "link" /\ d.node = n /\ d.up = r.up /\ d.result = r.result
               /\ \A i \in Levels : i < top => d.preds[i] = r.preds[i] /\ d.succs[i] = r.succs[i]
  <2>1. r \in Locals /\ top \in Nat /\ n \in Towers
    BY RecordFacts, LevelsAssumption, NameFacts DEF WalkStops, At
  <2>2. PICK d : d = NewLocal(r, top, n)
    OBVIOUS
  <2>3. /\ d \in Locals /\ d.pc = "link" /\ d.node = n /\ d.up = r.up
        /\ d.result = r.result
        /\ \A i \in Levels : i < top => /\ d.preds[i] = r.preds[i] /\ d.succs[i] = r.succs[i]
    BY <2>1, <2>2, NewLocalFacts
  <2>4. Become(t, d)
    BY <2>2 DEF NewLocal
  <2> QED
    BY <2>3, <2>4
<1>1. l.pc = "walk"
  BY DEF WalkStops, At
<1>2. /\ r \in Locals /\ r.up = 0 /\ ~r.result
      /\ \A i \in Levels : Kept(L, r, i)
      /\ r.preds[0] = p /\ r.succs[0] = q
      /\ Key(p) < c.arg
  BY <1>1, RecordFacts
<1>3. /\ m \in NodeFields /\ m.key = c.arg /\ m.topLevel = top
      /\ m.validStart = ~mem[n].validStart /\ m.pValidity = ~mem[n].validStart
      /\ m.validEnd = mem[n].validEnd /\ m.deleted = mem[n].deleted
      /\ m.link[0].state = INTEND_TO_INSERT
      /\ \A i \in Levels : i < top =>
           /\ m.link[i].to = r.succs[i]
           /\ i # 0 => m.link[i].state = INSERTED
  BY <1>1, NewNodeFacts
<1>4. /\ c.arg \in Keys /\ c.arg \in Int /\ 0 < top /\ 0 \in Levels /\ top \in Nat
      /\ c \in DS!Calls \union {DS!None} /\ c # DS!None /\ c.op = "insert"
      /\ q \in L[0] \union {Tail} /\ q \in Towers /\ TypeInv
      /\ L[0] \subseteq U /\ L[0] \subseteq Towers
  BY <1>1, WalkFacts, LevelsAssumption, LevelFacts, ThreadFacts, LevelIsTower
<1>5. c.arg < Key(q)
  <2>1. Key(q) \in Int
    BY <1>4, Fields
  <2> QED
    BY <1>4, <2>1 DEF WalkStops, WalkFinds
<1>6. PICK V : V = U \union {n}
  OBVIOUS
<1>7. /\ mem' \in [Towers -> NodeFields] /\ HistoryInv(V, L, C)' /\ MemoryInv(V, L, C)'
      /\ Evolves(n, U, L, V, L) /\ mem'[n] = m
  <2>1. \A i \in Levels : i < m.topLevel =>
           /\ m.link[i].to \in L[i] \union {Tail}
           /\ i # 0 => m.link[i].state = INSERTED
    BY <1>2, <1>3 DEF Kept
  <2>2. NodeIsMade(n, m) /\ m.key \in Keys /\ 0 < m.topLevel
    BY <1>3, <1>4
  <2> QED
    BY SMTT(30), <1>3, <1>6, <2>1, <2>2, MadeMemory
<1>8. ChainsInv(C)'
  BY MadeChains
<1>9. nvm' \in [Nodes -> Int \union {Nil}] /\ free' \in SUBSET Nodes
      /\ call' = [call EXCEPT ![t] = c]
  BY <1>4 DEF TypeInv
<1>10. Owner(d, c) /\ Height(d) = 0
  BY <1>0 DEF Owner, Height
<1>11. OwnerInv(V, L, d, c)'
  <2>1. Key(n)' = c.arg /\ mem'[n].topLevel = top /\ n \in V
    BY <1>3, <1>6, <1>7 DEF Key
  <2>2. \A i \in Levels : n \notin L[i] /\ ~(i < 0)
    BY LevelIsTower, LevelFacts
  <2>3. \A i \in Levels : i < top => Ref(n, i)' = d.succs[i] /\ Kept(L, d, i)
    BY <1>0, <1>2, <1>3, <1>7 DEF Ref, Kept
  <2>4. d.preds[0] = p /\ d.succs[0] = q
    BY <1>0, <1>2, <1>4
  <2>5. Key(p)' = Key(p) /\ Key(q)' = Key(q)
    <3>1. p \in U \union {Head, Tail} /\ q \in U \union {Head, Tail}
      BY <1>2, <1>4 DEF Kept
    <3>2. \A x \in U \union {Head, Tail} : Key(x)' = Key(x)
      BY <1>7 DEF Evolves
    <3> QED
      BY <3>1, <3>2
  <2> QED
    BY <1>0, <1>2, <1>4, <1>5, <1>10, <2>1, <2>2, <2>3, <2>4, <2>5 DEF OwnerInv, Raising, Finding
<1>12. ThreadInv(V, L, d, c)'
  BY <1>0, <1>2, <1>11 DEF ThreadInv, WalkInv, FindInv, HelpInv, RemoveInv, Finding
<1>13. Inv(V, L, C)'
  <2>1. (d.pc = "idle" <=> c = DS!None) /\ n \notin U /\ d.node = n
    BY <1>0, <1>4
  <2> QED
    BY ZenonT(60), <1>0, <1>4, <1>7, <1>8, <1>9, <1>12, <2>1, MemoryMove
<1> QED
  BY <1>6, <1>13

(* insert finds no node of its key and makes one: nodes that nothing refers  *)
(* to are forgotten first, so that the one it is given is not in use.        *)
LEMMA InsertMissMove ==
  ASSUME NEW U, NEW L, NEW C, Inv(U, L, C), NEW t \in Threads, InsertMiss(t)
  PROVE  \E V, M : Inv(V, M, C)' /\ \A i \in Levels : C[i] \subseteq M[i] \union {Head, Tail}
<1>1. PICK V, M : /\ Inv(V, M, C) /\ V = U \intersect Referenced
                  /\ \A i \in Levels : C[i] \subseteq M[i] \union {Head, Tail}
  BY ForgetUnreferenced
<1>2. PICK n \in Nodes, top \in Heights :
        /\ Allocatable(n)
        /\ free' = free \ {n}
        /\ mem' = [mem EXCEPT ![n] = NewNode(t, n, top)]
        /\ Become(t, [Forget(SearchEnds(Record(t), "link"), top..MAX_LEVEL) EXCEPT !.node = n])
  BY DEF InsertMiss
<1>3. n \in free /\ n \notin V
  BY <1>1, <1>2 DEF Allocatable
<1>4. NodeIsMade(n, NewNode(t, n, top))
  BY <1>2 DEF NodeIsMade
<1>5. /\ WalkStops(t) /\ local[t].lvl = 0 /\ call[t].op = "insert" /\ ~WalkFinds(t)
      /\ UNCHANGED <<nvm, call>>
  BY DEF InsertMiss
<1>6. Inv(V \union {n}, M, C)'
  BY <1>1, <1>2, <1>3, <1>4, <1>5, MakeMove
<1> QED
  BY <1>1, <1>6

-----------------------------------------------------------------------------
(* The steps together. *)

(* A step that changes nothing. *)
LEMMA StutterMove ==
  ASSUME NEW U, NEW L, NEW C, Inv(U, L, C), UNCHANGED vars
  PROVE  Inv(U, L, C)'
<1> USE DEF vars
<1>1. TypeInv'
  BY DEF Inv, TypeInv, At
<1>2. HistoryInv(U, L, C)' /\ ChainsInv(C)' /\ OwnersAreApart'
  BY DEF Inv, HistoryInv, ChainsInv, Nexts, KeyOf, Ref, Key, OwnersAreApart
<1>3. MemoryInv(U, L, C)'
  <2>1. SentinelsAreFixed' /\ LevelsAreClosed(U, L)' /\ LiveNodesAreLinked(L, C)'
    BY DEF Inv, MemoryInv, SentinelsAreFixed, LevelsAreClosed, LiveNodesAreLinked, Key, Ref, State
  <2>2. \A n \in U : TowerIsRight(L, n)' /\ BitsAreRight(L, n)'
    BY DEF Inv, MemoryInv, TowerIsRight, BitsAreRight, Key, Ref, State
  <2>3. NVMIsRight(U, L)'
    BY DEF Inv, MemoryInv, NVMIsRight, isValid, Key, Ref, State
  <2> QED
    BY <2>1, <2>2, <2>3 DEF MemoryInv
<1>4. ASSUME NEW u \in Threads PROVE ThreadInv(U, L, local[u], call[u])'
  <2>1. ThreadInv(U, L, local'[u], call'[u])
    BY DEF Inv
  <2>2. OwnerInv(U, L, local[u], call[u])'
    BY <2>1 DEF ThreadInv, OwnerInv, Key, Ref, State
  <2>3. WalkInv(L, local[u], call[u])'
    BY <2>1 DEF ThreadInv, WalkInv, Key
  <2>4. FindInv(L, local[u], call[u])'
    BY <2>1 DEF ThreadInv, FindInv, RunIsDead, Ref, State
  <2>5. HelpInv(L, local[u], call[u])' /\ RemoveInv(L, local[u], call[u])'
    BY <2>1 DEF ThreadInv, HelpInv, RemoveInv, State
  <2> QED
    BY <2>2, <2>3, <2>4, <2>5 DEF ThreadInv
<1> QED
  BY <1>1, <1>2, <1>3, <1>4 DEF Inv

(* What a step keeps: no node that a walk meets is forgotten. *)
LEMMA StepMove ==
  ASSUME NEW U, NEW L, NEW C, Inv(U, L, C), [Next]_vars
  PROVE  \E V, M, B : Inv(V, M, B)' /\ \A i \in Levels : C[i] \subseteq M[i] \union {Head, Tail}
<1>1. \A i \in Levels : C[i] \subseteq L[i] \union {Head, Tail}
  BY DEF Inv, HistoryInv
<1>2. CASE UNCHANGED vars
  BY <1>1, <1>2, StutterMove
<1> SUFFICES ASSUME NEW t \in Threads, (\E c \in DS!Calls : Invoke(t, c)) \/ Step(t)
             PROVE  \E V, M, B : Inv(V, M, B)' /\ \A i \in Levels : C[i] \subseteq M[i] \union {Head, Tail}
  BY <1>2 DEF Next
<1>3. CASE Inv(U, L, C)'
  BY <1>1, <1>3
<1>4. CASE \E c \in DS!Calls : Invoke(t, c)
  BY <1>3, <1>4, InvokeMove
<1>5. CASE WalkOn(t) \/ WalkStep(t) \/ WalkDown(t) \/ WalkAnswers(t)
  BY <1>3, <1>5, WalkOnMove, WalkStepMove, WalkDownMove, AnswersMove
<1>6. CASE InsertHelps(t) \/ InsertFound(t) \/ RemoveMiss(t) \/ RemoveFound(t)
  BY <1>3, <1>6, InsertHelpsMove, AnswersMove, RemoveFoundMove
<1>7. CASE FindLevel(t) \/ FindOn(t) \/ FindStop(t)
  BY <1>3, <1>7, FindLevelMove, FindOnMove, FindStopMove
<1>8. CASE Cut(t)
  <2>1. CASE /\ CAS(local[t].pred, local[t].lvl, To(local[t].from, local[t].predState),
                    To(local[t].curr, local[t].predState))
             /\ Become(t, FindDown(t))
    <3>1. At(t, "cut") /\ UNCHANGED <<nvm, free, call>>
      BY <1>8 DEF Cut
    <3>2. PICK B : Inv(U, L, B)'
      BY <2>1, <3>1, CutMove
    <3> QED
      BY <1>1, <3>2
  <2>2. CASE UNCHANGED mem /\ Become(t, StartFind(local[t]))
    BY <1>3, <1>8, <2>2, CutFailsMove
  <2> QED
    BY <1>8, <2>1, <2>2 DEF Cut, CASFails
<1>9. CASE InsertMiss(t)
  BY <1>9, InsertMissMove
<1>10. CASE LinkNode(t)
  <2>1. CASE /\ CAS(local[t].preds[0], 0, To(local[t].succs[0], local[t].predState),
                    To(local[t].node, local[t].predState))
             /\ Become(t, [Forget(local[t], {0}) EXCEPT !.pc = "help", !.predState = INSERTED,
                                                        !.result = TRUE])
    <3>1. At(t, "link") /\ UNCHANGED <<nvm, free, call>>
      BY <1>10 DEF LinkNode
    <3>2. PICK M, B : Inv(U, M, B)' /\ \A i \in Levels : L[i] \subseteq M[i]
      BY <2>1, <3>1, LinkMove
    <3>3. \A i \in Levels : C[i] \subseteq M[i] \union {Head, Tail}
      BY <1>1, <3>2
    <3> QED
      BY <3>2, <3>3
  <2>2. CASE /\ UNCHANGED mem
             /\ Become(t, [Forget(local[t], Levels) EXCEPT !.pc = "undo", !.predState = INSERTED])
    BY <1>3, <1>10, <2>2, LinkFailsMove
  <2> QED
    BY <1>10, <2>1, <2>2 DEF LinkNode, CASFails
<1>11. CASE UndoInsert(t)
  <2>1. PICK V : Inv(V, L, C)'
    BY <1>11, UndoInsertMove
  <2> QED
    BY <1>1, <2>1
<1>12. CASE Help(t) \/ Publish(t)
  BY <1>3, <1>12, HelpMove, PublishMove
<1>13. CASE RaiseLink(t) \/ RaiseStops(t) \/ LinkUpperFails(t)
  BY <1>3, <1>13, RaiseLinkMove, AnswersMove, LinkUpperFailsMove
<1>14. CASE LinkUpper(t)
  <2>1. PICK M, B : Inv(U, M, B)' /\ \A i \in Levels : L[i] \subseteq M[i]
    BY <1>14, LinkUpperMove
  <2>2. \A i \in Levels : C[i] \subseteq M[i] \union {Head, Tail}
    BY <1>1, <2>1
  <2> QED
    BY <2>1, <2>2
<1>15. CASE Mark(t) \/ Claim(t) \/ Destroy(t) \/ Bury(t) \/ FreeRemoved(t)
  BY <1>3, <1>15, MarkMove, ClaimMove, DestroyMove, BuryMove, FreeRemovedMove
<1> QED
  BY <1>4, <1>5, <1>6, <1>7, <1>8, <1>9, <1>10, <1>11, <1>12, <1>13, <1>14, <1>15 DEF Step

(* At first no node is in use, and head leads to tail on each level. *)
LEMMA InitIsRight ==
  ASSUME Init
  PROVE  Inv({}, [i \in Levels |-> {}], [i \in Levels |-> {Head, Tail}])
<1> SUFFICES ASSUME NEW U, U = {}, NEW L, L \in [Levels -> {{}}], NEW C, C \in [Levels -> {{Head, Tail}}]
             PROVE  Inv(U, L, C)
  OBVIOUS
<1>0. \A i \in Levels : L[i] = {} /\ C[i] = {Head, Tail}
  OBVIOUS
<1>1. /\ Zeroed.validStart = FALSE /\ Zeroed.validEnd = FALSE /\ Zeroed.deleted = FALSE
      /\ Zeroed \in NodeFields
      /\ \A i \in Levels : Zeroed.link[i] = To(Nil, INSERTED)
  <2>1. To(Nil, INSERTED) \in Links
    BY StateFacts DEF To, Links
  <2>2. [i \in Levels |-> To(Nil, INSERTED)] \in [Levels -> Links]
    BY <2>1
  <2> QED
    BY <2>2, LevelFacts DEF Zeroed, NodeFields
<1>2. /\ MAX_LEVEL \in 0..MAX_LEVEL /\ MinKey \in Int /\ MaxKey \in Int
      /\ \A i \in Levels : i < MAX_LEVEL
  BY KeysAssumption, LevelFacts
<1>3. /\ mem[Head] = [Zeroed EXCEPT !.key = MinKey, !.topLevel = MAX_LEVEL,
                                    !.link = [i \in Levels |-> To(Tail, INSERTED)]]
      /\ mem[Tail] = [Zeroed EXCEPT !.key = MaxKey, !.topLevel = MAX_LEVEL]
      /\ \A n \in Nodes : mem[n] = Zeroed
      /\ mem = [n \in Towers |-> mem[n]]
  BY NameFacts DEF Init, Towers
<1>4. /\ mem[Head] \in NodeFields /\ Key(Head) = MinKey /\ mem[Head].topLevel = MAX_LEVEL
      /\ \A i \in Levels : mem[Head].link[i] = To(Tail, INSERTED)
  <2>1. To(Tail, INSERTED) \in Links
    BY StateFacts, NameFacts DEF To, Links
  <2>2. PICK f : f = [i \in Levels |-> To(Tail, INSERTED)]
    OBVIOUS
  <2>3. f \in [Levels -> Links] /\ \A i \in Levels : f[i] = To(Tail, INSERTED)
    BY <2>1, <2>2
  <2> QED
    BY <1>1, <1>2, <1>3, <2>2, <2>3 DEF NodeFields, Key
<1>5. /\ mem[Tail] \in NodeFields /\ Key(Tail) = MaxKey
      /\ \A i \in Levels : mem[Tail].link[i] = To(Nil, INSERTED)
  BY <1>1, <1>2, <1>3 DEF NodeFields, Key
<1>6. TypeInv
  <2>1. mem \in [Towers -> NodeFields]
    <3>1. \A n \in Towers : mem[n] \in NodeFields
      BY <1>1, <1>3, <1>4, <1>5 DEF Towers
    <3> QED
      BY <1>3, <3>1
  <2>2. nvm \in [Nodes -> Int \union {Nil}] /\ free \in SUBSET Nodes
    BY DEF Init
  <2>3. local \in [Threads -> Locals] /\ call \in [Threads -> DS!Calls \union {DS!None}]
    BY IdleIsLocal DEF Init
  <2>4. \A t \in Threads : At(t, "idle") <=> call[t] = DS!None
    BY IdleIsLocal DEF Init, At
  <2> QED
    BY <2>1, <2>2, <2>3, <2>4 DEF TypeInv
<1>7. HistoryInv(U, L, C)
  BY <1>0, NameFacts DEF HistoryInv
<1>8. MemoryInv(U, L, C)
  <2>1. \A i \in Levels : /\ Ref(Head, i) = Tail /\ State(Head, i) = INSERTED
                          /\ Ref(Tail, i) = Nil /\ State(Tail, i) = INSERTED
    BY <1>4, <1>5 DEF Ref, State, To
  <2>2. SentinelsAreFixed
    BY <1>4, <1>5, <2>1 DEF SentinelsAreFixed
  <2>3. LevelsAreClosed(U, L) /\ LiveNodesAreLinked(L, C)
    BY <1>0, <2>1 DEF LevelsAreClosed, LiveNodesAreLinked
  <2>4. \A n \in Nodes : ~isValid(mem[n])
    BY <1>1, <1>3 DEF isValid
  <2>5. NVMIsRight(U, L)
    BY <1>1, <1>3, <2>4 DEF NVMIsRight, Init
  <2> QED
    BY <2>2, <2>3, <2>5 DEF MemoryInv
<1>9. ChainsInv(C)
  <2>1. \A i \in Levels : IsChain(C[i], KeyOf, Nexts(i), Head, Tail)
    <3> SUFFICES ASSUME NEW i \in Levels PROVE IsChain(C[i], KeyOf, Nexts(i), Head, Tail)
      OBVIOUS
    <3>1. Nexts(i)[Head] = Tail /\ KeyOf[Head] = MinKey /\ KeyOf[Tail] = MaxKey
      BY <1>4, <1>5, NameFacts DEF Nexts, KeyOf, Ref, To
    <3> QED
      BY <1>0, <3>1, KeysAssumption DEF IsChain
  <2> QED
    BY <2>1, LevelFacts DEF ChainsInv
<1>10. \A t \in Threads : ThreadInv(U, L, local[t], call[t]) /\ ~Owner(local[t], call[t])
  BY IdleThread DEF Init
<1> QED
  BY <1>6, <1>7, <1>8, <1>9, <1>10 DEF Inv, OwnersAreApart

(* The invariant holds in every state of every behaviour, for any number of  *)
(* threads, keys, nodes and levels.                                          *)
THEOREM InvariantHolds == Spec => []IInv
<1>1. Init => IInv
  BY InitIsRight DEF IInv
<1>2. IInv /\ [Next]_vars => IInv'
  BY StepMove DEF IInv
<1> QED
  BY <1>1, <1>2, PTL DEF Spec

-----------------------------------------------------------------------------
(* The chain of a level is what a walk along the level meets. *)

(* One step of a walk along level i. *)
Moves(i) == {gh \in Towers \X Towers : gh[2] = Ref(gh[1], i)}

(* Linked(i) is what one round more than there are nodes reaches from head. *)
LEMMA LinkedRounds ==
  ASSUME TypeInv, NEW i \in Levels
  PROVE  \E f : /\ Rounds(f, Cardinality(Nodes) + 1, Towers, Moves(i), {Head})
                /\ Linked(i) = f[Cardinality(Nodes) + 1]
<1> DEFINE N == Cardinality(Nodes) + 1
           o == {Head}
           G(x) == x \union ({Ref(n, i) : n \in x} \ {Nil})
           Rec(f) == f = [j \in 0..N |-> IF j = 0 THEN o ELSE G(f[j-1])]
<1>1. N \in Nat
  BY NodesAssumption, FS_CardinalityType
<1>2. ASSUME NEW x \in SUBSET Towers
      PROVE  G(x) = OneRound(x, Towers, Moves(i))
  <2>1. \A n \in x : Ref(n, i) \in Towers \union {Nil}
    BY Fields
  <2>2. Nil \notin Towers
    BY NodesAssumption DEF Towers
  <2> QED
    BY <2>1, <2>2 DEF OneRound, Moves
<1>3. o \in SUBSET Towers
  BY NameFacts
<1>4. PICK g : Rounds(g, N, Towers, Moves(i), o)
  <2> HIDE DEF N, o
  <2> QED
    BY <1>1, <1>3, RoundsExist
<1>5. Rec(g)
  <2>1. g \in [0..N -> SUBSET Towers] /\ \A k \in 1..N : g[k] = OneRound(g[k-1], Towers, Moves(i))
    BY <1>4 DEF Rounds
  <2>2. \A k \in 1..N : g[k-1] \in SUBSET Towers
    BY <1>1, <2>1
  <2> HIDE DEF G, N
  <2>3. \A k \in 1..N : g[k] = G(g[k-1])
    BY <1>2, <2>1, <2>2
  <2>4. \A k \in 0..N : g[k] = IF k = 0 THEN o ELSE G(g[k-1])
    BY <1>1, <1>4, <2>3 DEF Rounds
  <2> QED
    BY <2>1, <2>4
<1>6. PICK f : Rec(f) /\ Linked(i) = f[N]
  <2>1. Rec(CHOOSE f : Rec(f))
    BY <1>5
  <2>2. Linked(i) = (CHOOSE f : Rec(f))[N]
    BY DEF Linked
  <2> QED
    BY <2>1, <2>2
<1>7. f = [k \in 0..N |-> f[k]] /\ f[0] = o /\ \A k \in 1..N : f[k] = G(f[k-1])
  <2> HIDE DEF G, N, o
  <2> QED
    BY <1>1, <1>6
<1>8. \A k \in 1..N : f[k-1] \in SUBSET Towers => f[k] = OneRound(f[k-1], Towers, Moves(i))
  <2> HIDE DEF G
  <2> QED
    BY <1>2, <1>7
<1> HIDE DEF N, o, G
<1>9. Rounds(f, N, Towers, Moves(i), o)
  BY <1>1, <1>3, <1>7, <1>8, RoundsOfRecursion
<1> QED
  BY <1>6, <1>9 DEF N, o

(* Linked(i) is the chain of level i. *)
LEMMA LinkedIsChain ==
  ASSUME NEW U, NEW L, NEW C, Inv(U, L, C), NEW i \in Levels
  PROVE  Linked(i) = C[i]
<1>1. TypeInv /\ Cardinality(Nodes) \in Nat /\ IsFiniteSet(Nodes)
  BY NodesAssumption, FS_CardinalityType DEF Inv
<1>2. PICK N : N = Cardinality(Nodes) + 1
  OBVIOUS
<1>3. PICK f : Rounds(f, N, Towers, Moves(i), {Head}) /\ Linked(i) = f[N]
  BY <1>1, <1>2, LinkedRounds
<1>4. PICK r : IsChain(C[i], r, Nexts(i), Head, Tail)
  BY ChainOf
<1>5. /\ Head \in C[i] /\ Tail \in C[i] /\ C[i] \subseteq Towers
      /\ \A n \in Towers : Nexts(i)[n] = Ref(n, i)
      /\ Ref(Tail, i) = Nil /\ N \in Nat
  BY <1>1, <1>2, ChainOf DEF Inv, MemoryInv, SentinelsAreFixed
<1>6. \A n \in C[i] \ {Tail} : Ref(n, i) \in C[i]
  BY <1>4, <1>5 DEF IsChain
<1>7. f[N] \subseteq C[i]
  <2>1. Stays(C[i], Towers, Moves(i))
    BY <1>5, <1>6, NameFacts, NodesAssumption DEF Stays, Moves, Towers
  <2>2. {Head} \subseteq C[i]
    BY <1>5
  <2> QED
    BY <1>3, <1>5, <2>1, <2>2, RoundsStay
<1>8. C[i] \subseteq f[N]
  <2>1. PICK S : S = Nodes \union {Tail}
    OBVIOUS
  <2>2. S \subseteq Towers /\ IsFiniteSet(S) /\ Cardinality(S) <= N
    <3>1. Tail \notin Nodes
      BY NodesAssumption
    <3>2. IsFiniteSet(Nodes \union {Tail}) /\ Cardinality(Nodes \union {Tail}) = Cardinality(Nodes) + 1
      BY <1>1, <3>1, FS_AddElement
    <3> QED
      BY <1>2, <1>5, <2>1, <3>2 DEF Towers
  <2>3. Onward(Towers, S, Moves(i), {Head})
    BY <2>1 DEF Onward, Towers
  <2>4. Keeps(f[N], S, Moves(i))
    BY <1>3, <1>5, <2>2, <2>3, RoundsExhaust
  <2>5. Head \in f[N] /\ f[N] \subseteq Towers
    BY <1>3, <1>5, RoundsGrow
  <2>6. \A c \in (C[i] \intersect f[N]) \ {Tail} : Nexts(i)[c] \in f[N]
    <3> SUFFICES ASSUME NEW c \in C[i] \intersect f[N], c # Tail PROVE Nexts(i)[c] \in f[N]
      OBVIOUS
    <3>1. Nexts(i)[c] = Ref(c, i) /\ Ref(c, i) \in C[i] /\ c \in Towers
      BY <1>5, <1>6
    <3>2. <<c, Ref(c, i)>> \in Moves(i)
      BY <1>5, <3>1 DEF Moves
    <3>3. Ref(c, i) = Head \/ Ref(c, i) \in S
      BY <1>5, <2>1, <3>1 DEF Towers
    <3> QED
      BY <2>4, <2>5, <3>1, <3>2, <3>3 DEF Keeps
  <2> QED
    <3>1. PICK X, P, nx : X = f[N] /\ P = C[i] /\ nx = Nexts(i)
      OBVIOUS
    <3>2. IsChain(P, r, nx, Head, Tail) /\ Head \in X /\ \A c \in (P \intersect X) \ {Tail} : nx[c] \in X
      BY <1>4, <2>5, <2>6, <3>1
    <3>3. P \subseteq X
      BY <3>2, ChainInside
    <3> QED
      BY <3>1, <3>3
<1> QED
  BY <1>3, <1>7, <1>8

(* The same as a formula, to be had of the next state too. *)
LevelsAreChains == \A U, L, C : Inv(U, L, C) => \A i \in Levels : Linked(i) = C[i]

(* It holds in every state, of whatever behaviour. *)
LEMMA AlwaysChains == LevelsAreChains
BY LinkedIsChain DEF LevelsAreChains

-----------------------------------------------------------------------------
(* What the invariant is for. *)

(* The invariant implies TowersStandOnTheList: a node that is not DELETED    *)
(* above is INSERTED on level 0, and there only DELETED nodes are off the    *)
(* chain.                                                                    *)
LEMMA TowersStand ==
  ASSUME IInv
  PROVE  TowersStandOnTheList
<1>1. PICK U, L, C : Inv(U, L, C)
  BY DEF IInv
<1>2. 0 \in Levels /\ \A i \in Levels : Linked(i) = C[i]
  BY <1>1, LinkedIsChain, LevelFacts
<1> SUFFICES ASSUME NEW i \in Levels \ {0}, NEW n \in C[i], State(n, i) # DELETED
             PROVE  State(n, i) = INSERTED /\ n \in C[0] /\ State(n, 0) = INSERTED
  BY <1>2 DEF TowersStandOnTheList
<1>3. CASE n \in {Head, Tail}
  BY <1>1, <1>2, <1>3, ChainOf DEF Inv, MemoryInv, SentinelsAreFixed
<1>4. CASE n \in L[i]
  <2>1. /\ n \in U /\ n \in L[0] /\ n \in Towers /\ i < mem[n].topLevel
        /\ TowerIsRight(L, n) /\ TypeInv
    <3>1. 0 <= i
      BY LevelFacts
    <3> QED
      BY <1>1, <1>2, <1>4, <3>1, LevelIsTower DEF Inv, HistoryInv, MemoryInv
  <2>2. State(n, 0) \in States /\ State(n, 0) \notin {INTEND_TO_INSERT, INTEND_TO_DELETE, DELETED}
    BY <1>2, <1>4, <2>1, Fields DEF TowerIsRight
  <2>3. State(n, i) = INSERTED
    BY <1>4, <2>1 DEF TowerIsRight
  <2>4. State(n, 0) = INSERTED /\ State(n, 0) # DELETED
    BY <2>2, StateFacts
  <2>5. n \in C[0]
    BY <1>1, <1>2, <2>1, <2>4 DEF Inv, MemoryInv, LiveNodesAreLinked
  <2> QED
    BY <2>3, <2>4, <2>5
<1> QED
  BY <1>1, <1>3, <1>4, ChainOf

(* The invariant implies PersistedKeysAreUnique: a member in NVM is on level *)
(* 0, whose keys differ.                                                     *)
LEMMA PersistedKeysDiffer ==
  ASSUME IInv
  PROVE  PersistedKeysAreUnique
<1>1. PICK U, L, C : Inv(U, L, C)
  BY DEF IInv
<1>2. ASSUME NEW n \in Nodes, nvm[n] # Nil
      PROVE  n \in C[0] /\ nvm[n] = Key(n)
  <2>1. isValid(mem[n]) /\ nvm[n] = Key(n) /\ n \in U /\ TypeInv /\ n \in Towers /\ 0 \in Levels
    BY <1>1, <1>2, NameFacts, LevelFacts DEF Inv, MemoryInv, NVMIsRight
  <2>2. BitsAreRight(L, n)
    BY <1>1, <2>1 DEF Inv, MemoryInv
  <2>3. n \in L[0] /\ State(n, 0) # DELETED
    BY <2>1, <2>2, Fields DEF BitsAreRight, isValid
  <2> QED
    BY <1>1, <2>1, <2>3 DEF Inv, MemoryInv, LiveNodesAreLinked
<1>3. IsChain(C[0], KeyOf, Nexts(0), Head, Tail) /\ \A n \in Nodes : KeyOf[n] = Key(n)
  BY <1>1, NameFacts DEF Inv, ChainsInv, KeyOf
<1> SUFFICES ASSUME NEW m \in Nodes, NEW n \in Nodes, nvm[m] # Nil, nvm[m] = nvm[n]
             PROVE  m = n
  BY DEF PersistedKeysAreUnique
<1>4. m \in C[0] /\ n \in C[0] /\ KeyOf[m] = KeyOf[n]
  BY <1>2, <1>3
<1> QED
  BY <1>3, <1>4 DEF IsChain

-----------------------------------------------------------------------------
(* What a step does to the links that a walk meets. *)

(* How a state may move on level i. *)
Ways(i) ==
  {<<s, s>> : s \in States} \union
  {<<INTEND_TO_INSERT, INSERTED>>, <<INSERTED, INTEND_TO_DELETE>>, <<INTEND_TO_DELETE, DELETED>>}
  \union (IF i = 0 THEN {} ELSE {<<INSERTED, DELETED>>})

(* What StatesOnlyAdvance says of one link. *)
Advances(n, i) ==
  /\ <<State(n, i), State(n, i)'>> \in Ways(i)
  /\ State(n, i) = DELETED => Ref(n, i)' = Ref(n, i)

(* Links that a step does not change. *)
LEMMA SameLinkAdvances ==
  ASSUME TypeInv, NEW n \in Towers, NEW i \in Levels, mem'[n].link = mem[n].link
  PROVE  Advances(n, i)
<1>1. State(n, i) \in States /\ State(n, i)' = State(n, i) /\ Ref(n, i)' = Ref(n, i)
  BY Fields DEF State, Ref
<1> QED
  BY <1>1 DEF Advances, Ways

(* A store of another reference with the state the link has, which is not    *)
(* DELETED.                                                                  *)
LEMMA StoreAdvances ==
  ASSUME TypeInv, NEW p \in Towers, NEW k \in Levels, NEW w \in Links, Stored(p, k, w),
         w.state = State(p, k), State(p, k) # DELETED,
         NEW n \in Towers, NEW i \in Levels
  PROVE  Advances(n, i)
<1>1. IF n = p /\ i = k
      THEN Ref(n, i)' = w.to /\ State(n, i)' = w.state
      ELSE Ref(n, i)' = Ref(n, i) /\ State(n, i)' = State(n, i)
  BY LinkStored
<1>2. State(n, i) \in States /\ State(n, i)' = State(n, i)
  BY <1>1, Fields
<1>3. State(n, i) = DELETED => Ref(n, i)' = Ref(n, i)
  BY <1>1
<1> QED
  BY <1>2, <1>3 DEF Advances, Ways

(* A store of the next state. *)
LEMMA StateAdvances ==
  ASSUME TypeInv, NEW p \in Towers, NEW k \in Levels, NEW s \in States, StateIsStored(p, k, s),
         <<State(p, k), s>> \in Ways(k),
         NEW n \in Towers, NEW i \in Levels
  PROVE  Advances(n, i)
<1>1. To(Ref(p, k), s) \in Links /\ Stored(p, k, To(Ref(p, k), s))
  BY StateStored
<1>2. IF n = p /\ i = k
      THEN Ref(n, i)' = To(Ref(p, k), s).to /\ State(n, i)' = To(Ref(p, k), s).state
      ELSE Ref(n, i)' = Ref(n, i) /\ State(n, i)' = State(n, i)
  BY <1>1, LinkStored
<1>3. To(Ref(p, k), s).to = Ref(p, k) /\ To(Ref(p, k), s).state = s
  BY DEF To
<1>4. State(n, i) \in States
  BY Fields
<1>5. CASE n = p /\ i = k
  BY <1>2, <1>3, <1>5 DEF Advances
<1>6. CASE ~(n = p /\ i = k)
  BY <1>2, <1>4, <1>6 DEF Advances, Ways
<1> QED
  BY <1>5, <1>6

(* A compare-and-swap that expects a state that is not DELETED. *)
LEMMA CASAdvances ==
  ASSUME TypeInv, NEW p \in Towers, NEW k \in Levels, NEW a, NEW b \in Towers,
         NEW s \in States \ {DELETED}, CAS(p, k, To(a, s), To(b, s)),
         NEW n \in Towers, NEW i \in Levels
  PROVE  Advances(n, i)
<1>1. PICK w : w = To(b, s)
  OBVIOUS
<1>2. w \in Links /\ w.state = s
  BY <1>1 DEF To, Links
<1>3. Stored(p, k, w) /\ State(p, k) = s
  BY <1>1 DEF CAS, Stored, State, To
<1> QED
  BY <1>2, <1>3, StoreAdvances

(* Node::stateCAS from a state to the next. *)
LEMMA StateCASAdvances ==
  ASSUME TypeInv, NEW p \in Towers, NEW a \in States, NEW b \in States, stateCAS(p, a, b),
         <<a, b>> \in Ways(0),
         NEW n \in Towers, NEW i \in Levels
  PROVE  Advances(n, i)
<1>1. PICK s \in States : s = (IF State(p, 0) = a THEN b ELSE State(p, 0)) /\ StateIsStored(p, 0, s)
  BY StateCASStores
<1>2. State(p, 0) \in States /\ 0 \in Levels
  BY Fields, LevelFacts
<1>3. <<State(p, 0), s>> \in Ways(0)
  BY <1>1, <1>2 DEF Ways
<1> QED
  BY <1>1, <1>2, <1>3, StateAdvances

(* insert makes a node: none of those a walk meets. *)
LEMMA MadeAdvances ==
  ASSUME NEW U, NEW L, NEW C, Inv(U, L, C), NEW t \in Threads, InsertMiss(t),
         NEW i \in Levels, NEW n \in C[i]
  PROVE  Advances(n, i)
<1>1. PICK V, M : /\ Inv(V, M, C) /\ V = U \intersect Referenced
                  /\ \A k \in Levels : C[k] \subseteq M[k] \union {Head, Tail}
  BY ForgetUnreferenced
<1>2. PICK m \in Nodes, top \in Heights : Allocatable(m) /\ mem' = [mem EXCEPT ![m] = NewNode(t, m, top)]
  BY DEF InsertMiss
<1>3. m \notin V /\ m \notin {Head, Tail}
  BY <1>1, <1>2, NameFacts DEF Allocatable
<1>4. n # m /\ n \in Towers
  BY <1>1, <1>3, LevelIsTower, ChainOf
<1>5. mem'[n] = mem[n] /\ TypeInv
  BY <1>1, <1>2, <1>4 DEF Inv, TypeInv
<1> QED
  BY <1>4, <1>5, SameLinkAdvances

(* Every step, one case for each kind of change. *)
LEMMA StepAdvances ==
  ASSUME NEW U, NEW L, NEW C, Inv(U, L, C), [Next]_vars,
         NEW i \in Levels, NEW n \in C[i]
  PROVE  Advances(n, i)
<1>1. TypeInv /\ n \in Towers /\ 0 \in Levels
  BY ChainOf, LevelFacts DEF Inv
<1>2. CASE UNCHANGED mem
  BY <1>1, <1>2, SameLinkAdvances
<1>3. CASE UNCHANGED vars
  BY <1>2, <1>3 DEF vars
<1> SUFFICES ASSUME NEW t \in Threads, (\E c \in DS!Calls : Invoke(t, c)) \/ Step(t)
             PROVE  Advances(n, i)
  BY <1>3 DEF Next
<1> SUFFICES ASSUME NEW l, l = local[t]
             PROVE  Advances(n, i)
  OBVIOUS
<1>4. l \in Locals /\ ThreadInv(U, L, l, call[t])
  BY DEF Inv, TypeInv
<1>5. CASE \/ \E c \in DS!Calls : Invoke(t, c)
           \/ WalkOn(t) \/ WalkStep(t) \/ WalkDown(t) \/ WalkAnswers(t)
           \/ InsertHelps(t) \/ InsertFound(t) \/ RemoveMiss(t) \/ RemoveFound(t)
           \/ FindLevel(t) \/ FindOn(t) \/ FindStop(t) \/ RaiseStops(t) \/ LinkUpperFails(t)
  <2>1. UNCHANGED mem
    BY <1>5 DEF Invoke, WalkOn, WalkStep, WalkDown, WalkAnswers, InsertHelps, InsertFound, RemoveMiss,
                RemoveFound, FindLevel, FindOn, FindStop, RaiseStops, LinkUpperFails, CASFails
  <2> QED
    BY <1>2, <2>1
<1>6. CASE Cut(t)
  <2>1. CASE CAS(l.pred, l.lvl, To(l.from, l.predState), To(l.curr, l.predState))
    <3>1. l.pc = "cut" /\ l.predState \in States \ {DELETED} /\ l.lvl \in Levels
      BY <1>4, <1>6, LocalFields DEF Cut, At
    <3>2. l.pred \in Towers /\ l.curr \in Towers
      BY <1>4, <3>1, LevelIsTower, NameFacts DEF ThreadInv, FindInv, Finding
    <3> QED
      BY <1>1, <2>1, <3>1, <3>2, CASAdvances
  <2> QED
    BY <1>2, <1>6, <2>1 DEF Cut, CASFails
<1>7. CASE LinkNode(t)
  <2>1. CASE CAS(l.preds[0], 0, To(l.succs[0], l.predState), To(l.node, l.predState))
    <3>1. l.pc = "link" /\ l.predState \in States \ {DELETED}
      BY <1>4, <1>7, LocalFields DEF LinkNode, At
    <3>2. Owner(l, call[t]) /\ Height(l) = 0
      BY <3>1 DEF Owner, Height
    <3>3. l.node \in U /\ \A k \in Levels : 0 <= k /\ k < mem[l.node].topLevel => Kept(L, l, k)
      BY <1>4, <3>1, <3>2 DEF ThreadInv, OwnerInv
    <3>4. l.node \in Towers /\ 0 < mem[l.node].topLevel
      BY <3>3, NameFacts DEF Inv, HistoryInv, MemoryInv, TowerIsRight
    <3>5. l.preds[0] \in Towers
      BY <1>1, <3>3, <3>4, LevelIsTower, NameFacts DEF Kept
    <3> QED
      BY <1>1, <2>1, <3>1, <3>4, <3>5, CASAdvances
  <2> QED
    BY <1>2, <1>7, <2>1 DEF LinkNode, CASFails
<1>8. CASE InsertMiss(t)
  BY <1>8, MadeAdvances
<1>9. CASE RaiseLink(t) \/ LinkUpper(t)
  <2>1. l.pc \in {"raise", "linkUpper"}
    BY <1>9 DEF RaiseLink, LinkUpper, At
  <2>2. /\ l.node \in Towers /\ l.up \in Levels
        /\ Kept(L, l, l.up) /\ State(l.node, l.up) \in {INSERTED, DELETED}
    BY <2>1, RaiserFacts
  <2>3. l.preds[l.up] \in Towers /\ l.succs[l.up] \in Towers
    BY <2>2, LevelIsTower, NameFacts DEF Kept
  <2>4. INSERTED \in States \ {DELETED}
    BY StateFacts
  <2>5. CASE LinkUpper(t)
    <3>1. CAS(l.preds[l.up], l.up, To(l.succs[l.up], INSERTED), To(l.node, INSERTED))
      BY <2>5 DEF LinkUpper
    <3> QED
      BY <1>1, <2>2, <2>3, <2>4, <3>1, CASAdvances
  <2>6. CASE RaiseLink(t)
    <3>1. PICK w : w = To(l.succs[l.up], INSERTED)
      OBVIOUS
    <3>2. w \in Links /\ w.state = INSERTED
      BY <2>3, <2>4, <3>1 DEF To, Links
    <3>3. Stored(l.node, l.up, w) /\ State(l.node, l.up) # DELETED
      BY <2>6, <3>1 DEF RaiseLink, Stored
    <3> QED
      BY <1>1, <2>2, <3>2, <3>3, StoreAdvances
  <2> QED
    BY <1>9, <2>5, <2>6
<1>10. CASE Publish(t)
  <2>1. l.node \in L[0] /\ stateCAS(l.node, INTEND_TO_INSERT, INSERTED)
    BY <1>4, <1>10 DEF ThreadInv, HelpInv, Publish, At
  <2>2. l.node \in Towers /\ <<INTEND_TO_INSERT, INSERTED>> \in Ways(0)
        /\ INTEND_TO_INSERT \in States /\ INSERTED \in States
    BY <1>1, <2>1, LevelIsTower, StateFacts DEF Ways
  <2> QED
    BY <1>1, <2>1, <2>2, StateCASAdvances
<1>11. CASE Help(t)
  <2>1. l.node \in L[0] /\ mem' = [mem EXCEPT ![l.node].validEnd = mem[l.node].pValidity]
    BY <1>4, <1>11 DEF ThreadInv, HelpInv, Help, At
  <2>2. mem'[n].link = mem[n].link
    BY <1>1, <2>1, Fields DEF NodeFields, TypeInv
  <2> QED
    BY <1>1, <2>2, SameLinkAdvances
<1>12. CASE Mark(t) \/ Claim(t) \/ Destroy(t) \/ Bury(t) \/ FreeRemoved(t)
  <2>1. l.pc \in {"mark", "destroy", "bury", "free"}
    BY <1>12 DEF Mark, Claim, Destroy, Bury, FreeRemoved, At
  <2>2. /\ l.node \in Towers /\ RemoveInv(L, l, call[t]) /\ TowerIsRight(L, l.node) /\ l.lvl \in Levels
    BY <1>4, <2>1, RemoverFacts, LocalFields
  <2>3. CASE Mark(t)
    <3>1. l.pc = "mark" /\ 0 < l.lvl /\ StateIsStored(l.node, l.lvl, DELETED)
      BY <2>3 DEF Mark, At, StateIsStored
    <3>2. State(l.node, l.lvl) \in {INSERTED, DELETED}
      BY <2>2, <3>1, LevelFacts DEF RemoveInv, TowerIsRight
    <3>3. <<State(l.node, l.lvl), DELETED>> \in Ways(l.lvl) /\ DELETED \in States
      BY <3>1, <3>2, StateFacts DEF Ways
    <3> QED
      BY <1>1, <2>2, <3>1, <3>3, StateAdvances
  <2>4. CASE Claim(t)
    <3>1. stateCAS(l.node, INSERTED, INTEND_TO_DELETE) /\ <<INSERTED, INTEND_TO_DELETE>> \in Ways(0)
          /\ INSERTED \in States /\ INTEND_TO_DELETE \in States
      BY <2>4, StateFacts DEF Claim, Ways
    <3> QED
      BY <1>1, <2>2, <3>1, StateCASAdvances
  <2>5. CASE Bury(t)
    <3>1. stateCAS(l.node, INTEND_TO_DELETE, DELETED) /\ <<INTEND_TO_DELETE, DELETED>> \in Ways(0)
          /\ DELETED \in States /\ INTEND_TO_DELETE \in States
      BY <2>5, StateFacts DEF Bury, Ways
    <3> QED
      BY <1>1, <2>2, <3>1, StateCASAdvances
  <2>6. CASE Destroy(t)
    <3>1. mem'[n].link = mem[n].link
      BY <1>1, <2>2, <2>6, Fields DEF NodeFields, TypeInv, Destroy
    <3> QED
      BY <1>1, <3>1, SameLinkAdvances
  <2>7. CASE FreeRemoved(t)
    <3>1. mem'[n].link = mem[n].link
      <4>1. mem' = [mem EXCEPT ![l.node] = Freed(mem[l.node])] /\ mem[l.node] \in NodeFields
        BY <1>1, <2>2, <2>7, Fields DEF FreeRemoved
      <4>2. Freed(mem[l.node]).link = mem[l.node].link
        BY <4>1 DEF Freed, NodeFields
      <4> QED
        BY <1>1, <4>1, <4>2 DEF TypeInv
    <3> QED
      BY <1>1, <3>1, SameLinkAdvances
  <2> QED
    BY SMTT(30), <1>12, <2>3, <2>4, <2>5, <2>6, <2>7
<1>13. CASE UndoInsert(t)
  <2>1. mem'[n].link = mem[n].link
    <3>1. PICK p, y, x : /\ p = l.node /\ y = ~mem[p].pValidity
                         /\ x = [mem[p] EXCEPT !.validStart = y]
      OBVIOUS
    <3>2. mem' = [mem EXCEPT ![p] = Freed(x)]
      BY <1>13, <3>1 DEF UndoInsert
    <3>3. CASE n = p
      <4>1. x \in NodeFields /\ x.link = mem[p].link
        <5>1. mem[p] \in NodeFields /\ mem[p].pValidity \in BOOLEAN
          BY <1>1, <3>3, Fields
        <5>2. PICK b \in BOOLEAN : b = ~mem[p].pValidity
          OBVIOUS
        <5>3. x = [mem[p] EXCEPT !.validStart = b]
          BY <3>1, <5>2
        <5> QED
          BY <5>1, <5>3 DEF NodeFields
      <4>2. Freed(x).link = x.link
        BY <4>1 DEF Freed, NodeFields
      <4> QED
        BY <1>1, <3>2, <3>3, <4>1, <4>2 DEF TypeInv
    <3> QED
      BY <1>1, <3>2, <3>3 DEF TypeInv
  <2> QED
    BY <1>1, <2>1, SameLinkAdvances
<1> QED
  BY <1>5, <1>6, <1>7, <1>8, <1>9, <1>10, <1>11, <1>12, <1>13 DEF Step

-----------------------------------------------------------------------------
(* The properties. *)

(* The variables have their types in every state of every behaviour. *)
THEOREM TypesAreRight == Spec => []TypeInv
<1>1. IInv => TypeInv
  BY DEF IInv, Inv
<1> QED
  BY <1>1, InvariantHolds, PTL

(* The short cuts can be trusted: a node that is not DELETED on an upper     *)
(* level is a member of the set, however many threads link, mark and cut its *)
(* levels.                                                                   *)
THEOREM TowersHold == Spec => []TowersStandOnTheList
BY InvariantHolds, TowersStand, PTL

(* NVM never holds two members with one key, at whatever moment a crash      *)
(* comes.                                                                    *)
THEOREM KeysStayUnique == Spec => []PersistedKeysAreUnique
BY InvariantHolds, PersistedKeysDiffer, PTL

(* The state of a linked node moves one step of its life at a time, and a    *)
(* DELETED link is frozen.                                                   *)
THEOREM StatesAdvance == Spec => StatesOnlyAdvance
<1>1. IInv /\ [Next]_vars =>
        [\A i \in Levels : \A n \in Linked(i) :
       /\ <<State(n, i), State(n, i)'>> \in
            {<<s, s>> : s \in States} \union
            {<<INTEND_TO_INSERT, INSERTED>>, <<INSERTED, INTEND_TO_DELETE>>,
             <<INTEND_TO_DELETE, DELETED>>}
            \union (IF i = 0 THEN {} ELSE {<<INSERTED, DELETED>>})
       /\ State(n, i) = DELETED => Ref(n, i)' = Ref(n, i)]_vars
  <2> SUFFICES ASSUME IInv, [Next]_vars, NEW i \in Levels, NEW n \in Linked(i)
               PROVE  Advances(n, i)
    BY DEF Advances, Ways
  <2>1. PICK U, L, C : Inv(U, L, C)
    BY DEF IInv
  <2> QED
    BY <2>1, LinkedIsChain, StepAdvances
<1> QED
  BY <1>1, InvariantHolds, PTL DEF Spec, StatesOnlyAdvance

(* No compare-and-swap drops a node that is not DELETED from a level. *)
THEOREM LiveNodesStay == Spec => LiveNodesStayLinked
<1>1. IInv /\ LevelsAreChains /\ LevelsAreChains' /\ [Next]_vars =>
        [\A i \in Levels : \A n \in Linked(i) :
       State(n, i) # DELETED => State(n, i)' = DELETED \/ n \in Linked(i)']_vars
  <2> SUFFICES ASSUME IInv, LevelsAreChains', [Next]_vars,
                      NEW i \in Levels, NEW n \in Linked(i), State(n, i)' # DELETED
               PROVE  n \in Linked(i)'
    OBVIOUS
  <2>1. PICK U, L, C : Inv(U, L, C)
    BY DEF IInv
  <2>2. n \in C[i]
    BY <2>1, LinkedIsChain
  <2>3. PICK V, M, B : Inv(V, M, B)' /\ \A k \in Levels : C[k] \subseteq M[k] \union {Head, Tail}
    BY <2>1, StepMove
  <2>4. Linked(i)' = B[i]
    BY <2>3 DEF LevelsAreChains
  <2>5. /\ Head \in B[i] /\ Tail \in B[i]
        /\ \A m \in M[i] : State(m, i)' # DELETED => m \in B[i]
    BY <2>3 DEF Inv, ChainsInv, IsChain, MemoryInv, LiveNodesAreLinked
  <2> QED
    BY <2>2, <2>3, <2>4, <2>5
<1>2. LevelsAreChains
  BY AlwaysChains
<1> QED
  BY <1>1, <1>2, InvariantHolds, PTL DEF Spec, LiveNodesStayLinked
=============================================================================
