---------------------------- MODULE SsmemChunks ----------------------------
(***************************************************************************)
(* How an allocator of ssmem (include/ssmem.c) gets a chunk of memory and  *)
(* puts it on mem_chunks, the list that recover() and recovery() walk      *)
(* after a crash: what of the chunk and of the list is in NVM, and when.   *)
(*                                                                         *)
(* An object is taken for one cache line (a node fills half of one). A     *)
(* step is a store, or a flush with its fence; any line may be evicted at  *)
(* any moment.                                                             *)
(***************************************************************************)
EXTENDS Integers, FiniteSets

CONSTANTS
  Chunks,    (* the memory aligned_alloc may return, each with its list node *)
  Nil,
  mem_size,  (* bytes of a chunk *)
  CACHE_LINE_SIZE

ASSUME ChunksAssumption ==
  IsFiniteSet(Chunks) /\ Nil \notin Chunks /\ "stale" \notin Chunks \union {Nil}

ASSUME SizeAssumption ==
  /\ mem_size \in Nat \ {0} /\ CACHE_LINE_SIZE \in Nat \ {0}
  /\ mem_size % CACHE_LINE_SIZE = 0

Lines == 0..((mem_size \div CACHE_LINE_SIZE) - 1)

VARIABLES
  line,        (* of a chunk: "stale" as it came, "zero", or "data" of an object *)
  next,        (* of a chunk's list node: Nil, a chunk, or "stale" *)
  mem_chunks,
  nvmLine, nvmNext, nvmHead,  (* their persistent copies *)
  mem,         (* the chunk in use, or in preparation *)
  mem_curr,    (* offset of the next object *)
  pc, i

volatile == <<line, next, mem_chunks>>
nvm == <<nvmLine, nvmNext, nvmHead>>
vars == <<volatile, nvm, mem, mem_curr, pc, i>>

Fresh(c) == next[c] = "stale"

FlushedLine(c, l) == nvmLine' = [nvmLine EXCEPT ![c][l] = line[c][l]]

-----------------------------------------------------------------------------
Init ==
  /\ line = [c \in Chunks |-> [l \in Lines |-> "stale"]]
  /\ next = [c \in Chunks |-> "stale"]
  /\ mem_chunks = Nil
  /\ nvmLine = line
  /\ nvmNext = next
  /\ nvmHead = Nil
  /\ mem = Nil
  /\ mem_curr = mem_size
  /\ pc = "ready"
  /\ i = 0

(* The first chunk (ssmem_alloc_init_fs_size), or one more when the last      *)
(* cannot hold another object.                                               *)
GetMemory(c) ==
  /\ pc = "ready"
  /\ mem_curr + CACHE_LINE_SIZE >= mem_size
  /\ Fresh(c)
  /\ mem' = c
  /\ mem_curr' = 0
  /\ pc' = "zero"
  /\ UNCHANGED <<volatile, nvm, i>>

(* ssmem_zero_memory: memset, then the loop of flushes. *)
ZeroMemory ==
  /\ pc = "zero"
  /\ line' = [line EXCEPT ![mem] = [l \in Lines |-> "zero"]]
  /\ i' = 0
  /\ pc' = "flush"
  /\ UNCHANGED <<next, mem_chunks, nvm, mem, mem_curr>>

FlushMemory ==
  /\ pc = "flush"
  /\ IF i < mem_size \div CACHE_LINE_SIZE
     THEN /\ FlushedLine(mem, i \div CACHE_LINE_SIZE)
          /\ i' = i + CACHE_LINE_SIZE
          /\ UNCHANGED pc
     ELSE /\ pc' = "node"
          /\ i' = 0
          /\ UNCHANGED nvmLine
  /\ UNCHANGED <<volatile, nvmNext, nvmHead, mem, mem_curr>>

NewListNode ==
  /\ pc = "node"
  /\ next' = [next EXCEPT ![mem] = mem_chunks]
  /\ pc' = "flushNode"
  /\ UNCHANGED <<line, mem_chunks, nvm, mem, mem_curr, i>>

(* Fault: the list is extended before its new node is in NVM. *)
FlushListNodeLate ==
  /\ pc = "flushNode"
  /\ pc' = "link"
  /\ UNCHANGED <<volatile, nvm, mem, mem_curr, i>>

FlushListNode ==
  /\ pc = "flushNode"
  /\ nvmNext' = [nvmNext EXCEPT ![mem] = next[mem]]
  /\ pc' = "link"
  /\ UNCHANGED <<volatile, nvmLine, nvmHead, mem, mem_curr, i>>

LinkChunk ==
  /\ pc = "link"
  /\ mem_chunks' = mem
  /\ pc' = "flushHead"
  /\ UNCHANGED <<line, next, nvm, mem, mem_curr, i>>

FlushHead ==
  /\ pc = "flushHead"
  /\ nvmHead' = mem_chunks
  /\ pc' = "ready"
  /\ UNCHANGED <<volatile, nvmLine, nvmNext, mem, mem_curr, i>>

(* ssmem_alloc hands out an object, which its user writes and persists.      *)
AllocObject ==
  /\ pc = "ready"
  /\ mem_curr + CACHE_LINE_SIZE < mem_size
  /\ line' = [line EXCEPT ![mem][mem_curr \div CACHE_LINE_SIZE] = "data"]
  /\ nvmLine' = [nvmLine EXCEPT ![mem][mem_curr \div CACHE_LINE_SIZE] = "data"]
  /\ mem_curr' = mem_curr + CACHE_LINE_SIZE
  /\ UNCHANGED <<next, mem_chunks, nvmNext, nvmHead, mem, pc, i>>

Evict ==
  \/ /\ \E c \in Chunks, l \in Lines : nvmLine[c][l] # line[c][l] /\ FlushedLine(c, l)
     /\ UNCHANGED <<volatile, nvmNext, nvmHead, mem, mem_curr, pc, i>>
  \/ /\ nvmNext # next
     /\ \E c \in Chunks : nvmNext' = [nvmNext EXCEPT ![c] = next[c]]
     /\ UNCHANGED <<volatile, nvmLine, nvmHead, mem, mem_curr, pc, i>>
  \/ /\ nvmHead # mem_chunks
     /\ nvmHead' = mem_chunks
     /\ UNCHANGED <<volatile, nvmLine, nvmNext, mem, mem_curr, pc, i>>

Next ==
  \/ \E c \in Chunks : GetMemory(c)
  \/ ZeroMemory \/ FlushMemory \/ NewListNode \/ FlushListNode \/ LinkChunk \/ FlushHead
  \/ AllocObject
  \/ Evict

Spec == Init /\ [][Next]_vars

-----------------------------------------------------------------------------
(* What a walk of mem_chunks would meet after a crash. *)
Recovered ==
  LET f[n \in 0..Cardinality(Chunks)] ==
        IF n = 0 THEN {nvmHead} \ {Nil}
        ELSE f[n-1] \union ({nvmNext[c] : c \in f[n-1] \intersect Chunks} \ {Nil})
  IN  f[Cardinality(Chunks)]

(* Whenever a crash comes, the persisted list leads to no unwritten node, and *)
(* to every chunk that holds an object: recovery misses no member.           *)
ObjectsAreRecoverable ==
  /\ Recovered \subseteq Chunks
  /\ \A c \in Chunks : (\E l \in Lines : line[c][l] = "data") => c \in Recovered

(* "Initialize allocated memory to 0" (ssmem.h:43), which recovery relies on  *)
(* to tell an object that was never used: no chunk that it can meet holds in  *)
(* NVM what was in the memory before.                                        *)
RecoveredMemoryIsInitialized ==
  \A c \in Recovered \intersect Chunks, l \in Lines : nvmLine[c][l] # "stale"
=============================================================================
