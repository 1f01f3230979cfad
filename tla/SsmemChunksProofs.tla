------------------------- MODULE SsmemChunksProofs -------------------------
(***************************************************************************)
(* The proof that recovery finds every object, for any number of chunks of *)
(* any size. Recovered is a recursive function, so the proof exhibits the  *)
(* list as a sequence without repetition and follows it by induction       *)
(* (Recursion).                                                            *)
(***************************************************************************)
EXTENDS SsmemChunks, Recursion

(* The chunks on the list: those with a written node, but for the node that  *)
(* new_mem_chunks_node has written and nothing points to yet.                *)
Listed ==
  {c \in Chunks : next[c] # "stale"} \ (IF pc \in {"flushNode", "link"} THEN {mem} ELSE {})

(* s is the list in the order of allocation, the latest chunk last. *)
IsList(n, s) ==
  /\ s \in Injection(1..n, Chunks)
  /\ Listed = {s[k] : k \in 1..n}
  /\ mem_chunks = IF n = 0 THEN Nil ELSE s[n]
  /\ \A k \in 1..n : next[s[k]] = IF k = 1 THEN Nil ELSE s[k-1]

ChunksTypeOK ==
  /\ line \in [Chunks -> [Lines -> {"stale", "zero", "data"}]]
  /\ next \in [Chunks -> Chunks \union {Nil, "stale"}]
  /\ nvmNext \in [Chunks -> Chunks \union {Nil, "stale"}]
  /\ mem \in Chunks \union {Nil}
  /\ mem_curr \in Nat
  /\ pc \in {"ready", "zero", "flush", "node", "flushNode", "link", "flushHead"}

(* The chunk in use is on the list before it hands out an object.            *)
ChunkInUse ==
  /\ pc = "ready" => \/ mem_curr = mem_size
                     \/ mem \in Listed
  /\ pc # "ready" => mem \in Chunks
  /\ pc \in {"zero", "flush", "node"} => next[mem] = "stale"
  /\ pc \in {"flushNode", "link"} => next[mem] = mem_chunks
  /\ pc = "link" => nvmNext[mem] = next[mem]
  /\ pc = "flushHead" => mem_chunks = mem

(* What NVM has of the list: every node, and a head that is at most the new  *)
(* chunk late.                                                               *)
ListInNVM ==
  /\ \A c \in Listed : nvmNext[c] = next[c]
  /\ \/ nvmHead = mem_chunks
     \/ pc = "flushHead" /\ nvmHead = next[mem]

ObjectsAreListed ==
  \A c \in Chunks, l \in Lines :
    line[c][l] = "data" => c \in Listed /\ (pc = "flushHead" => c # mem)

ChunksInv ==
  /\ ChunksTypeOK
  /\ \E n \in Nat : \E s \in [1..n -> Chunks] : IsList(n, s)
  /\ ChunkInUse
  /\ ListInNVM
  /\ ObjectsAreListed
-----------------------------------------------------------------------------
(* A step that leaves the nodes, the head of the list and the chunk that is  *)
(* being added where they are leaves the list as it is.                      *)
LEMMA ListStays ==
  ASSUME NEW n \in Nat, NEW s \in [1..n -> Chunks], IsList(n, s),
         UNCHANGED <<next, mem_chunks>>, Listed' = Listed
  PROVE  IsList(n, s)'
BY DEF IsList

(* Recovered is the last of the sets f[k] of what a walk reaches in k links. *)
LEMMA Walk ==
  ASSUME ChunksInv
  PROVE  LET N == Cardinality(Chunks)
         IN  \E f :
               /\ f[0] = {nvmHead} \ {Nil}
               /\ \A k \in 1..N :
                    f[k] = f[k-1] \union ({nvmNext[c] : c \in f[k-1] \intersect Chunks} \ {Nil})
               /\ Recovered = f[N]
<1> DEFINE N == Cardinality(Chunks)
           D == SUBSET (Chunks \union {Nil, "stale", nvmHead})
           G(x) == x \union ({nvmNext[c] : c \in x \intersect Chunks} \ {Nil})
           F == [x \in D |-> G(x)]
           x0 == {nvmHead} \ {Nil}
           Rec(f) == f = [k \in 0..N |-> IF k = 0 THEN x0 ELSE G(f[k-1])]
<1>1. N \in Nat
  BY ChunksAssumption, FS_CardinalityType
<1>2. F \in [D -> D] /\ x0 \in D
  BY DEF ChunksInv, ChunksTypeOK
<1>3. PICK g : Iterates(g, N, D, F, x0)
  <2> HIDE DEF N, F, D, x0
  <2> QED
    BY <1>1, <1>2, IteratesExist
<1>4. \A x \in D : F[x] = G(x)
  OBVIOUS
<1>5. \A k \in 1..N : g[k] = G(g[k-1])
  <2> HIDE DEF N, F, D, G
  <2> QED
    BY <1>1, <1>3, <1>4 DEF Iterates
<1>6. Rec(g)
  <2> HIDE DEF D, G, x0
  <2>1. \A k \in 0..N : g[k] = IF k = 0 THEN x0 ELSE G(g[k-1])
    BY <1>1, <1>3, <1>5 DEF Iterates
  <2> QED
    BY <1>3, <2>1 DEF Iterates
<1>7. PICK f : Rec(f) /\ Recovered = f[N]
  <2>1. Rec(CHOOSE f : Rec(f))
    BY <1>6
  <2>2. Recovered = (CHOOSE f : Rec(f))[N]
    BY DEF Recovered
  <2> QED
    BY <2>1, <2>2
<1>8. f[0] = x0 /\ \A k \in 1..N : f[k] = G(f[k-1])
  <2> HIDE DEF G, x0
  <2> QED
    BY <1>1, <1>7
<1> QED
  BY <1>7, <1>8

(* What recovery would meet is on the list, and it is the whole list, but for *)
(* a new chunk whose pointer is not in NVM yet.                              *)
LEMMA RecoveredIsListed ==
  ASSUME ChunksInv
  PROVE  /\ Recovered \subseteq Listed
         /\ \A c \in Listed : c \in Recovered \/ (pc = "flushHead" /\ c = mem)
<1> DEFINE N == Cardinality(Chunks)
<1>1. N \in Nat
  BY ChunksAssumption, FS_CardinalityType
<1>2. PICK f : /\ f[0] = {nvmHead} \ {Nil}
               /\ \A k \in 1..N :
                    f[k] = f[k-1] \union ({nvmNext[c] : c \in f[k-1] \intersect Chunks} \ {Nil})
               /\ Recovered = f[N]
  BY Walk
<1> HIDE DEF N
<1>3. PICK n \in Nat : \E s \in [1..n -> Chunks] : IsList(n, s)
  BY DEF ChunksInv
<1>4. PICK s \in [1..n -> Chunks] : IsList(n, s)
  BY <1>3
<1>5. \A k \in 1..n : s[k] \in Listed /\ nvmNext[s[k]] = IF k = 1 THEN Nil ELSE s[k-1]
  BY <1>4 DEF IsList, ChunksInv, ListInNVM
<1>6. n <= N
  <2>1. s \in Injection(1..n, Chunks)
    BY <1>4 DEF IsList
  <2>2. IsFiniteSet(Chunks)
    BY ChunksAssumption
  <2>3. Cardinality(1..n) <= N
    BY <2>1, <2>2, FS_Injection DEF N
  <2>4. Cardinality(1..n) = n
    BY FS_Interval
  <2> QED
    BY <2>3, <2>4
<1>7. PICK m \in 0..n : /\ nvmHead = IF m = 0 THEN Nil ELSE s[m]
                        /\ m = n \/ (m = n - 1 /\ pc = "flushHead" /\ s[n] = mem)
  <2>1. CASE nvmHead = mem_chunks
    BY <2>1, <1>4 DEF IsList
  <2>2. CASE pc = "flushHead" /\ nvmHead = next[mem]
    <3>1. mem_chunks = mem /\ mem \in Chunks
      BY <2>2 DEF ChunksInv, ChunkInUse
    <3>2. n # 0 /\ s[n] = mem
      BY <3>1, <1>4, ChunksAssumption DEF IsList
    <3>3. nvmHead = IF n = 1 THEN Nil ELSE s[n-1]
      BY <2>2, <3>2, <1>4 DEF IsList
    <3>4. n - 1 \in 0..n
      BY <3>2
    <3> QED
      BY <2>2, <3>2, <3>3, <3>4
  <2> QED
    BY <2>1, <2>2 DEF ChunksInv, ListInNVM
<1>8. Listed = {s[k] : k \in 1..n} /\ Listed \subseteq Chunks /\ Nil \notin Chunks
  BY <1>4, ChunksAssumption DEF IsList, Listed
<1>9. \A k \in 0..N : f[k] \subseteq Listed
  <2> DEFINE I == {k \in Nat : k \in 0..N => f[k] \subseteq Listed}
  <2>1. 0 \in I
    BY <1>2, <1>5, <1>7
  <2>2. ASSUME NEW k \in Nat, k \in I
        PROVE  k + 1 \in I
    <3> SUFFICES ASSUME k + 1 \in 0..N, NEW c \in f[k+1] PROVE c \in Listed
      OBVIOUS
    <3>1. f[k] \subseteq Listed
      BY <2>2, <1>1
    <3>2. f[k+1] = f[k] \union ({nvmNext[b] : b \in f[k] \intersect Chunks} \ {Nil})
      BY <1>1, <1>2
    <3>3. CASE c \in f[k]
      BY <3>1, <3>3
    <3>4. CASE \E b \in f[k] : c = nvmNext[b] /\ c # Nil
      <4>1. PICK j \in 1..n : c = nvmNext[s[j]] /\ c # Nil
        BY <3>1, <3>4, <1>8
      <4>2. j # 1 /\ c = s[j-1] /\ j - 1 \in 1..n
        BY <4>1, <1>5
      <4> QED
        BY <4>2, <1>5
    <3> QED
      BY <3>2, <3>3, <3>4
  <2> HIDE DEF I
  <2>3. Nat \subseteq I
    BY <2>1, <2>2, SetInduction
  <2> QED
    BY <2>3, <1>1 DEF I
<1>10. \A k \in 0..N : \A j \in 1..m : j >= m - k => s[j] \in f[k]
  <2> DEFINE I == {k \in Nat : k \in 0..N => \A j \in 1..m : j >= m - k => s[j] \in f[k]}
  <2>1. 0 \in I
    <3>1. m # 0 => s[m] \in f[0]
      BY <1>2, <1>7, <1>5, <1>8
    <3>2. \A j \in 1..m : j >= m - 0 => j = m /\ m # 0
      OBVIOUS
    <3> QED
      BY <3>1, <3>2
  <2>2. ASSUME NEW k \in Nat, k \in I
        PROVE  k + 1 \in I
    <3> SUFFICES ASSUME k + 1 \in 0..N, NEW j \in 1..m, j >= m - (k + 1) PROVE s[j] \in f[k+1]
      OBVIOUS
    <3>1. \A l \in 1..m : l >= m - k => s[l] \in f[k]
      BY <2>2, <1>1
    <3>2. f[k+1] = f[k] \union ({nvmNext[b] : b \in f[k] \intersect Chunks} \ {Nil})
      BY <1>1, <1>2
    <3>3. CASE j >= m - k
      BY <3>1, <3>2, <3>3
    <3>4. CASE j = m - k - 1
      <4>1. j + 1 \in 1..m /\ j + 1 >= m - k /\ j + 1 \in 1..n /\ j + 1 # 1 /\ j \in 1..n
        BY <3>4
      <4>2. nvmNext[s[j+1]] = s[(j+1)-1]
        BY <4>1, <1>5
      <4>3. s[j+1] \in f[k] /\ s[j+1] \in Chunks /\ s[j] # Nil
        BY <4>1, <3>1, <1>8
      <4>4. (j+1) - 1 = j
        OBVIOUS
      <4> QED
        BY <4>2, <4>3, <4>4, <3>2
    <3> QED
      BY <3>3, <3>4
  <2> HIDE DEF I
  <2>3. Nat \subseteq I
    BY <2>1, <2>2, SetInduction
  <2> QED
    BY <2>3, <1>1 DEF I
<1>11. \A j \in 1..m : s[j] \in Recovered
  BY <1>1, <1>2, <1>6, <1>10
<1>12. \A j \in 1..n : j \in 1..m \/ (j = n /\ pc = "flushHead" /\ s[n] = mem)
  BY <1>7
<1> QED
  BY <1>1, <1>2, <1>8, <1>9, <1>11, <1>12

(* The list is the one ListStays keeps, or gains the chunk in preparation.   *)
LEMMA ChunksInvInductive ==
  ASSUME ChunksInv, [Next]_vars
  PROVE  ChunksInv'
<1> USE DEF ChunksInv
<1>0. PICK n \in Nat : \E s \in [1..n -> Chunks] : IsList(n, s)
  OBVIOUS
<1>1. PICK s \in [1..n -> Chunks] : IsList(n, s)
  BY <1>0
<1>2. mem_chunks \in Listed \union {Nil} /\ \A c \in Listed : next[c] \in Listed \union {Nil}
  <2>1. \A k \in 1..n : s[k] \in Listed
    BY <1>1 DEF IsList
  <2>2. \A k \in 1..n : next[s[k]] \in Listed \union {Nil}
    BY <1>1, <2>1 DEF IsList
  <2> QED
    BY <1>1, <2>1, <2>2 DEF IsList
<1>3. ASSUME UNCHANGED <<next, mem_chunks>>, Listed' = Listed
      PROVE  \E k \in Nat : \E r \in [1..k -> Chunks] : IsList(k, r)'
  BY <1>1, <1>3, ListStays
<1>4. CASE \E c \in Chunks : GetMemory(c)
  <2>1. Listed' = Listed
    BY <1>4 DEF GetMemory, Listed, volatile
  <2>2. ChunksTypeOK' /\ ChunkInUse' /\ ListInNVM' /\ ObjectsAreListed'
    BY <1>4, <2>1 DEF GetMemory, ChunksTypeOK, ChunkInUse, ListInNVM, ObjectsAreListed,
         volatile, nvm, Fresh
  <2> QED
    BY <1>3, <1>4, <2>1, <2>2 DEF GetMemory, volatile
<1>5. CASE ZeroMemory
  <2>1. Listed' = Listed
    BY <1>5 DEF ZeroMemory, Listed
  <2>2. mem \in Chunks /\ mem \notin Listed
    BY <1>5 DEF ZeroMemory, ChunkInUse, Listed
  <2>3. \A c \in Chunks, l \in Lines : line'[c][l] = "data" => line[c][l] = "data"
    BY <1>5, <2>2 DEF ZeroMemory, ChunksTypeOK
  <2>4. ObjectsAreListed'
    BY <1>5, <2>1, <2>3 DEF ZeroMemory, ObjectsAreListed
  <2>5. ChunksTypeOK'
    BY <1>5 DEF ZeroMemory, ChunksTypeOK, nvm
  <2>6. ChunkInUse' /\ ListInNVM'
    BY <1>5, <2>1 DEF ZeroMemory, ChunkInUse, ListInNVM, nvm
  <2> QED
    BY <1>3, <1>5, <2>1, <2>4, <2>5, <2>6 DEF ZeroMemory
<1>6. CASE FlushMemory
  <2>1. Listed' = Listed
    BY <1>6 DEF FlushMemory, Listed, volatile
  <2>2. ChunksTypeOK' /\ ChunkInUse' /\ ListInNVM' /\ ObjectsAreListed'
    BY <1>6, <2>1 DEF FlushMemory, ChunksTypeOK, ChunkInUse, ListInNVM, ObjectsAreListed, volatile
  <2> QED
    BY <1>3, <1>6, <2>1, <2>2 DEF FlushMemory, volatile
<1>7. CASE NewListNode
  <2>1. mem \in Chunks /\ mem \notin Listed
    BY <1>7 DEF NewListNode, ChunkInUse, Listed
  <2>2. Listed' = Listed
    BY <1>7, <2>1 DEF NewListNode, Listed, ChunksTypeOK
  <2>3. \A c \in Listed : next'[c] = next[c]
    BY <1>7, <2>1 DEF NewListNode, Listed, ChunksTypeOK
  <2>4. IsList(n, s)'
    BY <1>1, <1>7, <2>2, <2>3 DEF IsList, NewListNode
  <2>5. mem_chunks \in Chunks \union {Nil}
    BY <1>2 DEF Listed
  <2>6. ChunksTypeOK' /\ ChunkInUse' /\ ListInNVM' /\ ObjectsAreListed'
    BY <1>7, <2>1, <2>2, <2>3, <2>5
    DEF NewListNode, ChunksTypeOK, ChunkInUse, ListInNVM, ObjectsAreListed, nvm
  <2> QED
    BY <2>4, <2>6
<1>8. CASE FlushListNode
  <2>1. Listed' = Listed
    BY <1>8 DEF FlushListNode, Listed, volatile
  <2>2. ChunksTypeOK' /\ ChunkInUse' /\ ListInNVM' /\ ObjectsAreListed'
    BY <1>8, <2>1 DEF FlushListNode, ChunksTypeOK, ChunkInUse, ListInNVM, ObjectsAreListed, volatile
  <2> QED
    BY <1>3, <1>8, <2>1, <2>2 DEF FlushListNode, volatile
<1>9. CASE LinkChunk
  <2>1. mem \in Chunks /\ mem \notin Listed /\ next[mem] = mem_chunks /\ nvmNext[mem] = next[mem]
    BY <1>9 DEF LinkChunk, ChunkInUse, Listed
  <2>2. next[mem] # "stale"
    BY <1>2, <2>1, ChunksAssumption DEF Listed
  <2>3. Listed' = Listed \union {mem}
    BY <1>9, <2>1, <2>2 DEF LinkChunk, Listed
  <2>4. PICK r \in [1..(n+1) -> Chunks] : r[n+1] = mem /\ \A k \in 1..n : r[k] = s[k]
    <3> DEFINE r == [k \in 1..(n+1) |-> IF k = n + 1 THEN mem ELSE s[k]]
    <3>1. r \in [1..(n+1) -> Chunks] /\ r[n+1] = mem /\ \A k \in 1..n : r[k] = s[k]
      BY <2>1
    <3> HIDE DEF r
    <3> QED
      BY <3>1
  <2>5. \A k \in 1..n : s[k] \in Listed
    BY <1>1 DEF IsList
  <2>6. r \in Injection(1..(n+1), Chunks)
    <3>1. \A k, l \in 1..n : s[k] = s[l] => k = l
      BY <1>1 DEF IsList, Injection, IsInjective
    <3>2. \A k \in 1..n : r[k] # mem
      BY <2>1, <2>4, <2>5
    <3>3. \A k \in 1..(n+1) : k \in 1..n \/ k = n + 1
      OBVIOUS
    <3>4. \A k, l \in 1..(n+1) : r[k] = r[l] => k = l
      BY <2>4, <3>1, <3>2, <3>3
    <3> QED
      BY <2>4, <3>4 DEF Injection, IsInjective
  <2>7. Listed' = {r[k] : k \in 1..(n+1)}
    BY <1>1, <2>3, <2>4 DEF IsList
  <2>8. \A k \in 1..(n+1) : next'[r[k]] = IF k = 1 THEN Nil ELSE r[k-1]
    <3>1. next' = next
      BY <1>9 DEF LinkChunk
    <3>2. ASSUME NEW k \in 1..n PROVE next[r[k]] = IF k = 1 THEN Nil ELSE r[k-1]
      BY <1>1, <2>4 DEF IsList
    <3>3. next[r[n+1]] = IF n + 1 = 1 THEN Nil ELSE r[(n+1)-1]
      BY <1>1, <2>1, <2>4 DEF IsList
    <3>4. \A k \in 1..(n+1) : k \in 1..n \/ k = n + 1
      OBVIOUS
    <3> QED
      BY <3>1, <3>2, <3>3, <3>4
  <2>9. IsList(n + 1, r)'
    <3>1. mem_chunks' = r[n+1] /\ n + 1 # 0
      BY <1>9, <2>4 DEF LinkChunk
    <3> QED
      BY <2>6, <2>7, <2>8, <3>1 DEF IsList
  <2>10. \A c \in Chunks, l \in Lines : line[c][l] = "data" => c # mem
    BY <2>1 DEF ObjectsAreListed
  <2>11. ChunksTypeOK' /\ ChunkInUse' /\ ListInNVM' /\ ObjectsAreListed'
    BY <1>9, <2>1, <2>3, <2>10
    DEF LinkChunk, ChunksTypeOK, ChunkInUse, ListInNVM, ObjectsAreListed, nvm
  <2>12. \E k \in Nat : \E q \in [1..k -> Chunks] : IsList(k, q)'
    <3>1. n + 1 \in Nat
      OBVIOUS
    <3> QED
      BY <2>4, <2>9, <3>1, Zenon
  <2> QED
    BY <2>11, <2>12
<1>10. CASE FlushHead
  <2>1. Listed' = Listed
    BY <1>10 DEF FlushHead, Listed, volatile
  <2>2. mem \in Listed
    BY <1>2, <1>10, ChunksAssumption DEF FlushHead, ChunkInUse
  <2>3. ChunksTypeOK' /\ ChunkInUse' /\ ListInNVM' /\ ObjectsAreListed'
    BY <1>10, <2>1, <2>2
    DEF FlushHead, ChunksTypeOK, ChunkInUse, ListInNVM, ObjectsAreListed, volatile
  <2> QED
    BY <1>3, <1>10, <2>1, <2>3 DEF FlushHead, volatile
<1>11. CASE AllocObject
  <2>1. Listed' = Listed
    BY <1>11 DEF AllocObject, Listed
  <2>2. mem \in Listed
    BY <1>11, SizeAssumption DEF AllocObject, ChunkInUse, ChunksTypeOK
  <2>3. mem_curr + CACHE_LINE_SIZE \in Nat
    BY SizeAssumption DEF ChunksTypeOK
  <2>4. \A c \in Chunks, l \in Lines : line'[c][l] = "data" => line[c][l] = "data" \/ c = mem
    BY <1>11 DEF AllocObject, ChunksTypeOK
  <2>5. ObjectsAreListed'
    BY <1>11, <2>1, <2>2, <2>4 DEF AllocObject, ObjectsAreListed
  <2>6. ChunksTypeOK' /\ ChunkInUse' /\ ListInNVM'
    BY <1>11, <2>1, <2>2, <2>3 DEF AllocObject, ChunksTypeOK, ChunkInUse, ListInNVM
  <2> QED
    BY <1>3, <1>11, <2>1, <2>5, <2>6 DEF AllocObject
<1>12. CASE Evict
  <2>1. UNCHANGED <<volatile, mem, mem_curr, pc, i>>
    BY <1>12 DEF Evict
  <2>2. Listed' = Listed /\ UNCHANGED <<next, mem_chunks, line>>
    BY <2>1 DEF Listed, volatile
  <2>3. /\ nvmHead' \in {nvmHead, mem_chunks}
        /\ nvmNext' \in [Chunks -> Chunks \union {Nil, "stale"}]
        /\ \A c \in Chunks : nvmNext'[c] \in {nvmNext[c], next[c]}
    BY <1>12 DEF Evict, ChunksTypeOK
  <2>4. ChunksTypeOK' /\ ChunkInUse' /\ ObjectsAreListed'
    BY <2>1, <2>2, <2>3 DEF ChunksTypeOK, ChunkInUse, ObjectsAreListed
  <2>5. ListInNVM'
    BY <2>1, <2>2, <2>3 DEF ListInNVM, Listed
  <2> QED
    BY <1>3, <2>2, <2>4, <2>5
<1>13. CASE UNCHANGED vars
  <2>1. UNCHANGED <<line, next, mem_chunks, nvmNext, nvmHead, mem, mem_curr, pc, i>>
    BY <1>13 DEF vars, volatile, nvm
  <2>2. Listed' = Listed
    BY <2>1 DEF Listed
  <2>3. ChunksTypeOK' /\ ChunkInUse' /\ ListInNVM' /\ ObjectsAreListed'
    BY <2>1, <2>2 DEF ChunksTypeOK, ChunkInUse, ListInNVM, ObjectsAreListed
  <2> QED
    BY <1>3, <2>1, <2>2, <2>3
<1> QED
  BY <1>4, <1>5, <1>6, <1>7, <1>8, <1>9, <1>10, <1>11, <1>12, <1>13 DEF Next

(* At the start there is no list and no object. *)
LEMMA ChunksInvInit == Init => ChunksInv
<1> SUFFICES ASSUME Init PROVE ChunksInv
  OBVIOUS
<1> USE DEF Init
<1>1. Listed = {} /\ mem_chunks = Nil
  BY DEF Listed
<1> DEFINE r == [k \in 1..0 |-> Nil]
<1>2. r \in [1..0 -> Chunks] /\ 1..0 = {}
  OBVIOUS
<1> HIDE DEF r
<1>3. IsList(0, r)
  BY <1>1, <1>2 DEF IsList, Injection, IsInjective
<1>4. ChunksTypeOK /\ ChunkInUse /\ ListInNVM /\ ObjectsAreListed
  BY <1>1, SizeAssumption DEF ChunksTypeOK, ChunkInUse, ListInNVM, ObjectsAreListed
<1> QED
  BY <1>2, <1>3, <1>4 DEF ChunksInv

(* Whenever the machine stops, the list in NVM leads to no unwritten node, and *)
(* to every chunk that holds an object: a chunk is flushed before the pointer *)
(* to it (ssmem.c:111-115 and 455-459), whatever lines are evicted in between.           *)
THEOREM ObjectsAreAlwaysRecoverable == Spec => []ObjectsAreRecoverable
<1>1. ChunksInv => ObjectsAreRecoverable
  BY RecoveredIsListed DEF ObjectsAreRecoverable, ChunksInv, ObjectsAreListed, Listed
<1>2. ChunksInv /\ [Next]_vars => ChunksInv'
  BY ChunksInvInductive
<1> QED
  BY <1>1, <1>2, ChunksInvInit, PTL DEF Spec
=============================================================================
