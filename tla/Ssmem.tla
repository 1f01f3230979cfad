------------------------------- MODULE Ssmem -------------------------------
(***************************************************************************)
(* The memory manager (include/ssmem.c) as the sets use it: allocators of  *)
(* one thread each, whose freed objects wait in free sets until the        *)
(* timestamps of all threads show that nobody holds them any more.         *)
(*                                                                         *)
(* A step is one access to what threads share (the list of timestamps, its *)
(* length, the versions) with the local computation around it. The chunks  *)
(* new objects come from are module SsmemChunks; ssmem_alloc_term and      *)
(* ssmem_term, the end of the program, are left out.                       *)
(***************************************************************************)
EXTENDS Integers, Sequences, FiniteSets

CONSTANTS
  Threads,     (* the ids of the threads that register *)
  Objects,     (* what ssmem_alloc hands out *)
  Blocks,      (* memory of the operating system, for ssmem_release *)
  fs_size,     (* fs_size[a]: the objects in a free set of an allocator *)
  SSMEM_GC_RLSE_SET_SIZE,  (* blocks an allocator waits for *)
  PerThread    (* allocators of a thread: one, or SOFT's two *)

Allocators == Threads \X (1..PerThread)
Owner(a) == a[1]

ASSUME ThreadsAssumption ==
  IsFiniteSet(Threads) /\ Threads = 0..(Cardinality(Threads) - 1)

ASSUME SizesAssumption ==
  /\ {PerThread, SSMEM_GC_RLSE_SET_SIZE} \subseteq Nat \ {0}
  /\ fs_size \in [Allocators -> Nat \ {0}]

(* An object is no block: ssmem carves objects out of chunks of its own. *)
ASSUME MemoryAssumption == Objects \intersect Blocks = {}

VARIABLES
  ssmem_ts_list,      (* the registered threads, the last one first *)
  ssmem_ts_list_len,
  version,
  free_set_list, collected_set_list, available_set_list,  (* of an allocator *)
  released_mem_list,
  mem,      (* objects no allocator has handed out yet *)
  inUse,    (* objects and blocks the program has *)
  returned, (* blocks the operating system has back *)
  pc,
  crossing, waiting,  (* init_barrier, see Barrier *)
  freeing,  (* the allocator and the object of a running ssmem_free or ssmem_release *)
  cur,      (* the timestamps a running ssmem_ts_set_collect has yet to read *)
  holders   (* history: the threads with no ssmem_ts_next since the free *)

sets == <<free_set_list, collected_set_list, available_set_list>>
barrier == <<crossing, waiting>>
registry == <<ssmem_ts_list, ssmem_ts_list_len, barrier>>
released == <<released_mem_list, returned>>
vars == <<registry, version, sets, released, mem, inUse, pc, freeing, cur, holders>>

init_barrier == INSTANCE Barrier WITH count <- Cardinality(Threads)

-----------------------------------------------------------------------------
(* Free sets. size is the room of the array ts_set, 0 while it is nullptr;   *)
(* which object is taken from a set first is left open.                      *)

NoStamps == [u \in Threads |-> 0]

ssmem_free_set_new == [set |-> {}, ts_set |-> NoStamps, size |-> 0]

(* A set reused for newly freed objects keeps its array. *)
ssmem_free_set_get_avail(a) ==
  IF available_set_list[a] # <<>> THEN Head(available_set_list[a]) ELSE ssmem_free_set_new

(* Fault: timestamps that are equal count as newer. *)
ssmem_ts_compare_weak(s_new, s_old) ==
  \A u \in Threads : u < ssmem_ts_list_len => s_new[u] >= s_old[u]

ssmem_ts_compare(s_new, s_old) ==
  \A u \in Threads : u < ssmem_ts_list_len => s_new[u] > s_old[u]

-----------------------------------------------------------------------------
(* ssmem_mem_reclaim: if every thread has moved on between the stamps of the  *)
(* two latest blocks, all blocks but the latest go, and likewise the sets.   *)
(* The latest set may be one that is filled again: then its stamps are old.  *)
(* The loop over the blocks reads the link of a node it has freed (line 526): *)
(* here free leaves it there, as glibc does.                                 *)

ReleasedIsNewer(a) ==
  LET rl == released_mem_list[a]
  IN  Len(rl) > 1 /\ ssmem_ts_compare(rl[1].ts_set, rl[2].ts_set)

SetIsNewer(a) ==
  LET fs == free_set_list[a]
  IN  Len(fs) > 1 /\ fs[1].size # 0 /\ ssmem_ts_compare(fs[1].ts_set, fs[2].ts_set)

(* Fault: the list of free sets is not cut. *)
KeptSetsUncut(a) == free_set_list[a]

KeptSets(a) ==
  IF SetIsNewer(a) THEN <<Head(free_set_list[a])>> ELSE free_set_list[a]

(* Fault: the latest set is collected with the older ones. *)
ReclaimedSetsAll(a) == IF SetIsNewer(a) THEN free_set_list[a] ELSE <<>>

ReclaimedSets(a) == IF SetIsNewer(a) THEN Tail(free_set_list[a]) ELSE <<>>

ssmem_mem_reclaim(a) ==
  /\ IF ReleasedIsNewer(a)
     THEN LET rl == released_mem_list[a] IN
          /\ released_mem_list' = [released_mem_list EXCEPT ![a] = <<Head(@)>>]
          /\ returned' = returned \union {rl[i].mem : i \in 2..Len(rl)}
     ELSE UNCHANGED released
  /\ collected_set_list' = [collected_set_list EXCEPT ![a] = @ \o ReclaimedSets(a)]

-----------------------------------------------------------------------------
(* ssmem_gc_thread_init: the timestamp is pushed, then counted.              *)

Register(t) ==
  /\ pc[t] = "new"
  /\ ssmem_ts_list' = <<t>> \o ssmem_ts_list
  /\ pc' = [pc EXCEPT ![t] = "pushed"]
  /\ UNCHANGED <<ssmem_ts_list_len, barrier, version, sets, released, mem, inUse, freeing, cur,
                 holders>>

Count(t) ==
  /\ pc[t] = "pushed"
  /\ ssmem_ts_list_len' = ssmem_ts_list_len + 1
  /\ pc' = [pc EXCEPT ![t] = "registered"]
  /\ UNCHANGED <<ssmem_ts_list, barrier, version, sets, released, mem, inUse, freeing, cur,
                 holders>>

(* Nobody works before all have registered and crossed init_barrier. (In the  *)
(* benchmarks main has registered before it starts the others, and waits for  *)
(* nobody here; it does not use ssmem after that.)                            *)
Cross(t) ==
  /\ pc[t] = "registered"
  /\ \/ init_barrier!ArriveAndWait(t) /\ pc' = [pc EXCEPT ![t] = "waiting"]
     \/ init_barrier!ArriveLast /\ pc' = [pc EXCEPT ![t] = "idle"]
  /\ UNCHANGED <<ssmem_ts_list, ssmem_ts_list_len, version, sets, released, mem, inUse,
                 freeing, cur, holders>>

Leave(t) ==
  /\ pc[t] = "waiting" /\ t \notin waiting
  /\ pc' = [pc EXCEPT ![t] = "idle"]
  /\ UNCHANGED <<registry, version, sets, released, mem, inUse, freeing, cur, holders>>

-----------------------------------------------------------------------------
(* ssmem_alloc: from the first collected set, or from the chunk.             *)

AllocCollected(a, o) ==
  /\ pc[Owner(a)] = "idle"
  /\ collected_set_list[a] # <<>>
  /\ LET cs == Head(collected_set_list[a])
         left == [cs EXCEPT !.set = @ \ {o}]
     IN  /\ o \in cs.set
         /\ IF left.set = {}
            THEN /\ collected_set_list' = [collected_set_list EXCEPT ![a] = Tail(@)]
                 /\ available_set_list' = [available_set_list EXCEPT ![a] = <<left>> \o @]
            ELSE /\ collected_set_list' = [collected_set_list EXCEPT ![a] = <<left>> \o Tail(@)]
                 /\ UNCHANGED available_set_list
  /\ inUse' = inUse \union {o}
  /\ UNCHANGED <<registry, version, free_set_list, released, mem, pc, freeing, cur, holders>>

AllocNew(a, o) ==
  /\ pc[Owner(a)] = "idle"
  /\ collected_set_list[a] = <<>>
  /\ o \in mem
  /\ mem' = mem \ {o}
  /\ inUse' = inUse \union {o}
  /\ UNCHANGED <<registry, version, sets, released, pc, freeing, cur, holders>>

-----------------------------------------------------------------------------
(* ssmem_free, by a thread that found the object unlinked by itself.         *)

(* A full set is first stamped: its array is allocated if it has none.       *)
FreeCall(a, o) ==
  /\ pc[Owner(a)] = "idle"
  /\ o \in inUse \intersect Objects
  /\ inUse' = inUse \ {o}
  /\ freeing' = [freeing EXCEPT ![Owner(a)] = <<a, o>>]
  /\ holders' = [holders EXCEPT ![o] = Threads]
  /\ LET fs == Head(free_set_list[a])
         room == IF fs.size = 0 THEN ssmem_ts_list_len ELSE fs.size
     IN  IF Cardinality(fs.set) = fs_size[a]
         THEN /\ pc' = [pc EXCEPT ![Owner(a)] = "collect"]
              /\ cur' = [cur EXCEPT ![Owner(a)] = ssmem_ts_list]
              /\ free_set_list' =
                   [free_set_list EXCEPT ![a] = <<[fs EXCEPT !.size = room]>> \o Tail(@)]
         ELSE /\ pc' = [pc EXCEPT ![Owner(a)] = "put"]
              /\ UNCHANGED <<cur, free_set_list>>
  /\ UNCHANGED <<registry, version, collected_set_list, available_set_list, released, mem>>

(* ssmem_ts_set_collect reads one version after the other. *)
CollectOne(t) ==
  /\ pc[t] = "collect" /\ cur[t] # <<>>
  /\ LET a == freeing[t][1]
         u == Head(cur[t])
         fs == Head(free_set_list[a])
     IN  free_set_list' =
           [free_set_list EXCEPT ![a] =
              <<[fs EXCEPT !.ts_set = [@ EXCEPT ![u] = version[u]]]>> \o Tail(@)]
  /\ cur' = [cur EXCEPT ![t] = Tail(@)]
  /\ UNCHANGED <<registry, version, collected_set_list, available_set_list, released, mem,
                 inUse, pc, freeing, holders>>

(* The object's set is put in front of those that are left. *)
Reclaim(t) ==
  /\ pc[t] = "collect" /\ cur[t] = <<>>
  /\ LET a == freeing[t][1] IN
     /\ ssmem_mem_reclaim(a)
     /\ free_set_list' =
          [free_set_list EXCEPT ![a] = <<ssmem_free_set_get_avail(a)>> \o KeptSets(a)]
     /\ available_set_list' =
          [available_set_list EXCEPT ![a] = IF @ # <<>> THEN Tail(@) ELSE @]
  /\ pc' = [pc EXCEPT ![t] = "put"]
  /\ UNCHANGED <<registry, version, mem, inUse, freeing, cur, holders>>

(* The quiescent point: t holds no reference any more. *)
ssmem_ts_next(t) ==
  /\ version' = [version EXCEPT ![t] = @ + 1]
  /\ holders' = [o \in Objects \union Blocks |-> holders[o] \ {t}]

(* A thread may also say so by itself (ssmem.h). *)
SSMEM_SAFE_TO_RECLAIM(t) ==
  /\ pc[t] = "idle"
  /\ ssmem_ts_next(t)
  /\ UNCHANGED <<registry, sets, released, mem, inUse, pc, freeing, cur>>

(* The object goes into the set, and ssmem_ts_next. *)
Put(t) ==
  /\ pc[t] = "put"
  /\ LET a == freeing[t][1]
         fs == Head(free_set_list[a])
     IN  free_set_list' =
           [free_set_list EXCEPT ![a] =
              <<[fs EXCEPT !.set = @ \union {freeing[t][2]}]>> \o Tail(@)]
  /\ ssmem_ts_next(t)
  /\ freeing' = [freeing EXCEPT ![t] = <<>>]
  /\ pc' = [pc EXCEPT ![t] = "idle"]
  /\ UNCHANGED <<registry, collected_set_list, available_set_list, released, mem, inUse, cur>>

-----------------------------------------------------------------------------
(* ssmem_release: every block is stamped, and given back to the operating    *)
(* system by the stamp of a younger one.                                     *)
ReleaseCall(a, b) ==
  /\ pc[Owner(a)] = "idle"
  /\ b \in inUse \intersect Blocks
  /\ inUse' = inUse \ {b}
  /\ holders' = [holders EXCEPT ![b] = Threads]
  /\ released_mem_list' =
       [released_mem_list EXCEPT ![a] =
          <<[mem |-> b, ts_set |-> NoStamps, size |-> ssmem_ts_list_len]>> \o @]
  /\ freeing' = [freeing EXCEPT ![Owner(a)] = <<a, b>>]
  /\ cur' = [cur EXCEPT ![Owner(a)] = ssmem_ts_list]
  /\ pc' = [pc EXCEPT ![Owner(a)] = "stamp"]
  /\ UNCHANGED <<registry, version, sets, returned, mem>>

StampOne(t) ==
  /\ pc[t] = "stamp" /\ cur[t] # <<>>
  /\ LET a == freeing[t][1]
         u == Head(cur[t])
     IN  released_mem_list' =
           [released_mem_list EXCEPT ![a] =
              <<[Head(@) EXCEPT !.ts_set[u] = version[u]]>> \o Tail(@)]
  /\ cur' = [cur EXCEPT ![t] = Tail(@)]
  /\ UNCHANGED <<registry, version, sets, returned, mem, inUse, pc, freeing, holders>>

ReleaseDone(t) ==
  /\ pc[t] = "stamp" /\ cur[t] = <<>>
  /\ LET a == freeing[t][1] IN
     IF Len(released_mem_list[a]) >= SSMEM_GC_RLSE_SET_SIZE
     THEN /\ ssmem_mem_reclaim(a)
          /\ free_set_list' = [free_set_list EXCEPT ![a] = KeptSets(a)]
     ELSE UNCHANGED <<released, collected_set_list, free_set_list>>
  /\ freeing' = [freeing EXCEPT ![t] = <<>>]
  /\ pc' = [pc EXCEPT ![t] = "idle"]
  /\ UNCHANGED <<registry, version, available_set_list, mem, inUse, cur, holders>>

-----------------------------------------------------------------------------
Init ==
  /\ ssmem_ts_list = <<>>
  /\ ssmem_ts_list_len = 0
  /\ version = [t \in Threads |-> 0]
  /\ free_set_list = [a \in Allocators |-> <<ssmem_free_set_new>>]
  /\ collected_set_list = [a \in Allocators |-> <<>>]
  /\ available_set_list = [a \in Allocators |-> <<>>]
  /\ released_mem_list = [a \in Allocators |-> <<>>]
  /\ returned = {}
  /\ mem = Objects
  /\ inUse = Blocks
  /\ pc = [t \in Threads |-> "new"]
  /\ init_barrier!barrier_init
  /\ freeing = [t \in Threads |-> <<>>]
  /\ cur = [t \in Threads |-> <<>>]
  /\ holders = [o \in Objects \union Blocks |-> {}]

Next ==
  \/ \E t \in Threads : \/ Register(t) \/ Count(t) \/ Cross(t) \/ Leave(t)
                        \/ CollectOne(t) \/ Reclaim(t) \/ Put(t)
                        \/ StampOne(t) \/ ReleaseDone(t) \/ SSMEM_SAFE_TO_RECLAIM(t)
  \/ \E a \in Allocators, o \in Objects : AllocCollected(a, o) \/ AllocNew(a, o) \/ FreeCall(a, o)
  \/ \E a \in Allocators, b \in Blocks : ReleaseCall(a, b)

Spec == Init /\ [][Next]_vars

-----------------------------------------------------------------------------
(* ssmem hands memory out again, or gives it back, only when every thread has *)
(* passed a quiescent point since it was freed: although the stamps are read  *)
(* one by one, while the threads move on, and although whole runs of sets and *)
(* blocks go by the stamp of the youngest.                                   *)
Memory == INSTANCE Reclaimer WITH
  Objects <- Objects \union Blocks,
  status <- [o \in Objects \union Blocks |->
               CASE o \in mem -> "unused"
                 [] o \in inUse -> "inUse"
                 [] o \in returned -> "returned"
                 [] OTHER -> "freed"]

ReclaimsWhenQuiescent == Memory!Spec

(* No access to an array of stamps is out of its bounds: not the stores of    *)
(* ssmem_ts_set_collect, at the ids of the threads on the list, nor the loads *)
(* of ssmem_ts_compare, at all ids below the length of the list.             *)
StampsAreInBounds ==
  \A a \in Allocators :
    /\ pc[Owner(a)] = "collect" /\ freeing[Owner(a)][1] = a =>
         \A i \in 1..Len(cur[Owner(a)]) :
           cur[Owner(a)][i] < Head(free_set_list[a]).size
    /\ pc[Owner(a)] = "stamp" /\ freeing[Owner(a)][1] = a =>
         \A i \in 1..Len(cur[Owner(a)]) :
           cur[Owner(a)][i] < Head(released_mem_list[a]).size
    /\ \A i \in 1..Len(free_set_list[a]) :
         free_set_list[a][i].size = 0 \/ ssmem_ts_list_len <= free_set_list[a][i].size
    /\ \A i \in 1..Len(released_mem_list[a]) :
         ssmem_ts_list_len <= released_mem_list[a][i].size

(* Where an object is: with the program, in a chunk, in the hands of a thread *)
(* inside ssmem_free, in a set, or back in the operating system.             *)
Places(o) ==
  LET in(lists) ==
        UNION {{<<a, i>> : i \in {j \in 1..Len(lists[a]) : o \in lists[a][j].set}} :
               a \in Allocators}
  IN  {<<"freed", p>> : p \in in(free_set_list)}
      \union {<<"collected", p>> : p \in in(collected_set_list)}
      \union {<<"available", p>> : p \in in(available_set_list)}
      \union {<<"released", a>> : a \in
                {b \in Allocators : \E i \in 1..Len(released_mem_list[b]) :
                                      released_mem_list[b][i].mem = o}}
      \union {<<"freeing", t>> : t \in
                {u \in Threads : pc[u] \in {"collect", "put"} /\ freeing[u][2] = o}}
      \union {<<"returned", o>> : p \in {o} \intersect returned}
      \union {<<"in use", o>> : p \in {o} \intersect inUse}
      \union {<<"in memory", o>> : p \in {o} \intersect mem}

(* However sets are moved between the lists, no object is lost or is in two   *)
(* places, from which it could be handed out twice.                          *)
ObjectsHaveOnePlace ==
  \A o \in Objects \union Blocks : Cardinality(Places(o)) = 1

(* A registered thread that never frees holds all memory back. In the         *)
(* benchmarks main is such a thread: nothing they free is ever reused.       *)
IdleThreadStopsReclamation ==
  (\E t \in Threads : version[t] = 0) =>
    returned = {} /\ \A a \in Allocators : collected_set_list[a] = <<>>
=============================================================================
