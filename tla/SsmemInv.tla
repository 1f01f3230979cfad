------------------------------ MODULE SsmemInv ------------------------------
(***************************************************************************)
(* The inductive invariant behind Ssmem's properties: what the timestamps  *)
(* kept with the free sets and the released blocks tell of the threads     *)
(* that may still hold what is in them.                                    *)
(***************************************************************************)
EXTENDS Ssmem

Length == Cardinality(Threads)
Memories == Objects \union Blocks

Stamps == [Threads -> Nat]
FreeSets == [set : SUBSET Objects, ts_set : Stamps, size : {0, Length}]
ReleasedMem == [mem : Blocks, ts_set : Stamps, size : {Length}]

Registering == {"new", "pushed", "registered"}
Labels == Registering \union {"waiting", "idle", "collect", "put", "stamp"}

(* The variables have their types; sizes are those of all threads, for nobody *)
(* stamps a set before all have registered.                                  *)
TypeOK ==
  /\ ssmem_ts_list \in Seq(Threads)
  /\ ssmem_ts_list_len \in Nat
  /\ version \in Stamps
  /\ free_set_list \in [Allocators -> Seq(FreeSets) \ {<<>>}]
  /\ collected_set_list \in [Allocators -> Seq(FreeSets)]
  /\ available_set_list \in [Allocators -> Seq(FreeSets)]
  /\ released_mem_list \in [Allocators -> Seq(ReleasedMem)]
  /\ mem \subseteq Objects /\ inUse \subseteq Memories /\ returned \subseteq Blocks
  /\ pc \in [Threads -> Labels]
  /\ crossing \in Nat /\ waiting \subseteq Threads
  /\ freeing \in [Threads -> {<<>>} \union (Allocators \X Memories)]
  /\ cur \in [Threads -> Seq(Threads)]
  /\ holders \in [Memories -> SUBSET Threads]

(* The barrier opens when everyone has registered and been counted.          *)
RegistryIsRight ==
  /\ \A t \in Threads :
       pc[t] # "new" => \E i \in 1..Len(ssmem_ts_list) : ssmem_ts_list[i] = t
  /\ ssmem_ts_list_len = Cardinality({t \in Threads : pc[t] \notin {"new", "pushed"}})
  /\ \/ /\ \A t \in Threads : pc[t] \in Registering \union {"waiting"}
        /\ waiting = {t \in Threads : pc[t] = "waiting"}
        /\ crossing = Cardinality(waiting)
     \/ /\ \A t \in Threads : pc[t] \notin Registering
        /\ waiting = {} /\ crossing = 0

(* What a thread inside ssmem_free or ssmem_release works on.                *)
ThreadInv(t) ==
  /\ pc[t] \in {"collect", "put", "stamp"} =>
       freeing[t] \in Allocators \X Memories /\ Owner(freeing[t][1]) = t
  /\ pc[t] \in {"collect", "put"} => freeing[t][2] \in Objects
  /\ pc[t] = "collect" => free_set_list[freeing[t][1]][1].size = Length
  /\ pc[t] = "stamp" => released_mem_list[freeing[t][1]] # <<>>

-----------------------------------------------------------------------------
(* The timestamps. *)

Collecting(a) == pc[Owner(a)] = "collect" /\ freeing[Owner(a)][1] = a
Stamping(a) == pc[Owner(a)] = "stamp" /\ freeing[Owner(a)][1] = a

(* The threads whose version is yet to be read into the stamps at work.       *)
Unread(t) == {cur[t][i] : i \in 1..Len(cur[t])}

NotAfter(x, y, u) == x.ts_set[u] <= y.ts_set[u]

(* u has not passed a quiescent point after it was stamped if it may hold o.  *)
StampCovers(o, x, u) == u \in holders[o] => version[u] <= x.ts_set[u]

(* No stamp is from the future. *)
StampsArePast(a) ==
  \A u \in Threads :
    /\ \A i \in 1..Len(free_set_list[a]) : free_set_list[a][i].ts_set[u] <= version[u]
    /\ \A i \in 1..Len(collected_set_list[a]) : collected_set_list[a][i].ts_set[u] <= version[u]
    /\ \A i \in 1..Len(available_set_list[a]) : available_set_list[a][i].ts_set[u] <= version[u]
    /\ \A i \in 1..Len(released_mem_list[a]) : released_mem_list[a][i].ts_set[u] <= version[u]

(* All sets of a but the latest were stamped when they were full, the second  *)
(* last: whoever has moved on since then has dropped what is in it.           *)
FullSetsAreCovered(a) ==
  LET fs == free_set_list[a] IN
  \A u \in Threads :
    /\ \A i \in 2..Len(fs) :
         /\ \A o \in fs[i].set : StampCovers(o, fs[i], u)
         /\ NotAfter(fs[i], fs[2], u)
    /\ Collecting(a) /\ u \notin Unread(Owner(a)) =>
         \A o \in fs[1].set : StampCovers(o, fs[1], u)

(* No set has younger stamps than the set that was stamped last: the latest   *)
(* while it is being stamped, otherwise the one after it.                    *)
LastStampedIsYoungest(a) ==
  LET fs == free_set_list[a]
      last == IF Collecting(a) THEN 1 ELSE 2
  IN  \A u \in Threads :
        Len(fs) >= last /\ (Collecting(a) => u \notin Unread(Owner(a))) =>
          /\ \A i \in 1..Len(fs) : NotAfter(fs[i], fs[last], u)
          /\ \A i \in 1..Len(collected_set_list[a]) : NotAfter(collected_set_list[a][i], fs[last], u)
          /\ \A i \in 1..Len(available_set_list[a]) : NotAfter(available_set_list[a][i], fs[last], u)

(* Released blocks are stamped one by one, and their stamps grow.            *)
ReleasedAreCovered(a) ==
  LET rl == released_mem_list[a] IN
  \A u \in Threads : \A i \in 1..Len(rl) :
    i > 1 \/ (Stamping(a) => u \notin Unread(Owner(a))) =>
      /\ StampCovers(rl[i].mem, rl[i], u)
      /\ \A j \in i..Len(rl) : NotAfter(rl[j], rl[i], u)

(* What can be handed out is held by nobody. *)
CollectedIsUnheld(a) ==
  /\ \A i \in 1..Len(collected_set_list[a]) :
       \A o \in collected_set_list[a][i].set : holders[o] = {}
  /\ \A i \in 1..Len(available_set_list[a]) : available_set_list[a][i].set = {}

StampInv(a) ==
  /\ StampsArePast(a)
  /\ FullSetsAreCovered(a)
  /\ LastStampedIsYoungest(a)
  /\ ReleasedAreCovered(a)
  /\ CollectedIsUnheld(a)

-----------------------------------------------------------------------------
(* Where memory is. *)

InFree(o, a, i) == i \in 1..Len(free_set_list[a]) /\ o \in free_set_list[a][i].set
InCollected(o, a, i) == i \in 1..Len(collected_set_list[a]) /\ o \in collected_set_list[a][i].set
InReleased(o, a, i) == i \in 1..Len(released_mem_list[a]) /\ o = released_mem_list[a][i].mem
InHand(o, t) == pc[t] \in {"collect", "put"} /\ o = freeing[t][2]

Idle(o) == o \in mem \/ o \in inUse \/ o \in returned
Freed(o) == \E a \in Allocators, i \in Nat : InFree(o, a, i)
Collected(o) == \E a \in Allocators, i \in Nat : InCollected(o, a, i)
Released(o) == \E a \in Allocators, i \in Nat : InReleased(o, a, i)
Handed(o) == \E t \in Threads : InHand(o, t)

(* Nothing is in two places of one kind. *)
PlacedOnce(o) ==
  /\ \A a, b \in Allocators : \A i, j \in Nat :
       /\ InFree(o, a, i) /\ InFree(o, b, j) => a = b /\ i = j
       /\ InCollected(o, a, i) /\ InCollected(o, b, j) => a = b /\ i = j
       /\ InReleased(o, a, i) /\ InReleased(o, b, j) => a = b /\ i = j
  /\ \A t, u \in Threads : InHand(o, t) /\ InHand(o, u) => t = u

(* Nor in places of two kinds, nor in none. *)
OneKindOfPlace(o) ==
  /\ o \in mem => o \notin inUse /\ o \notin returned
  /\ o \in inUse => o \notin returned
  /\ Idle(o) => ~Freed(o) /\ ~Collected(o) /\ ~Released(o) /\ ~Handed(o)
  /\ Freed(o) => ~Collected(o) /\ ~Released(o) /\ ~Handed(o)
  /\ Collected(o) => ~Released(o) /\ ~Handed(o)
  /\ Released(o) => ~Handed(o)
  /\ Idle(o) \/ Freed(o) \/ Collected(o) \/ Released(o) \/ Handed(o)

PlaceInv ==
  /\ \A o \in Memories : PlacedOnce(o) /\ OneKindOfPlace(o)
  /\ \A o \in mem : holders[o] = {}

IInv ==
  /\ TypeOK
  /\ RegistryIsRight
  /\ \A t \in Threads : ThreadInv(t)
  /\ \A a \in Allocators : StampInv(a)
  /\ PlaceInv
  /\ IdleThreadStopsReclamation
=============================================================================
