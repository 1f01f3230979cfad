---------------------------- MODULE SsmemProofs ----------------------------
(***************************************************************************)
(* The proof that IInv (SsmemInv) is an invariant of Ssmem, and what        *)
(* follows from it: the properties of Ssmem's run, for any number of        *)
(* threads, allocators and objects, and any of the sizes the code is built  *)
(* with; and that Ssmem implements Reclaimer.                               *)
(***************************************************************************)
EXTENDS SsmemInv, TLAPS, FiniteSetTheorems, SequenceTheorems

-----------------------------------------------------------------------------
(* The lists of an allocator are changed at their head. *)

(* The head of a list is replaced. *)
LEMMA HeadReplaced ==
  ASSUME NEW S, NEW s \in Seq(S), s # <<>>, NEW x \in S
  PROVE  LET r == <<x>> \o Tail(s)
         IN  /\ r \in Seq(S) /\ r # <<>> /\ Len(r) = Len(s) /\ Len(s) \in Nat \ {0}
             /\ r[1] = x /\ Head(s) = s[1] /\ s[1] \in S
             /\ \A i \in 2..Len(s) : r[i] = s[i]
<1> DEFINE r == <<x>> \o Tail(s)
<1>1. Tail(s) \in Seq(S) /\ Len(Tail(s)) = Len(s) - 1 /\ Len(s) \in Nat \ {0}
      /\ \A i \in 1..Len(Tail(s)) : Tail(s)[i] = s[i + 1]
  BY HeadTailProperties, EmptySeq
<1>2. <<x>> \in Seq(S) /\ Len(<<x>>) = 1 /\ <<x>>[1] = x
  OBVIOUS
<1>3. r \in Seq(S) /\ Len(r) = Len(s)
  BY <1>1, <1>2, ConcatProperties
<1>4. \A i \in 1..Len(s) : r[i] = IF i <= 1 THEN x ELSE Tail(s)[i - 1]
  BY <1>1, <1>2, ConcatProperties
<1>5. \A i \in 2..Len(s) : r[i] = s[i]
  BY <1>1, <1>4
<1>6. r # <<>>
  BY <1>1, <1>3, EmptySeq
<1> QED
  BY <1>1, <1>3, <1>4, <1>5, <1>6

(* An element is put in front of a list. *)
LEMMA Pushed ==
  ASSUME NEW S, NEW s \in Seq(S), NEW x \in S
  PROVE  LET r == <<x>> \o s
         IN  /\ r \in Seq(S) /\ r # <<>> /\ Len(r) = Len(s) + 1 /\ Len(s) \in Nat
             /\ r[1] = x
             /\ \A i \in 2..(Len(s) + 1) : r[i] = s[i - 1]
<1> DEFINE r == <<x>> \o s
<1>1. <<x>> \in Seq(S) /\ Len(<<x>>) = 1 /\ <<x>>[1] = x /\ Len(s) \in Nat
  BY LenProperties
<1>2. r \in Seq(S) /\ Len(r) = Len(s) + 1
  BY <1>1, ConcatProperties
<1>3. \A i \in 1..(Len(s) + 1) : r[i] = IF i <= 1 THEN x ELSE s[i - 1]
  BY <1>1, ConcatProperties
<1>4. r # <<>>
  BY <1>1, <1>2, EmptySeq
<1> QED
  BY <1>1, <1>2, <1>3, <1>4

(* The head of a list is taken off. *)
LEMMA Popped ==
  ASSUME NEW S, NEW s \in Seq(S), s # <<>>
  PROVE  /\ Tail(s) \in Seq(S) /\ Len(s) \in Nat \ {0} /\ Len(Tail(s)) = Len(s) - 1
         /\ Head(s) = s[1] /\ s[1] \in S
         /\ \A i \in 1..(Len(s) - 1) : Tail(s)[i] = s[i + 1]
BY HeadTailProperties, EmptySeq

(* The lists of all allocators are values; what is read of them has its type. *)
LEMMA Entries ==
  ASSUME TypeOK, NEW a \in Allocators
  PROVE  /\ free_set_list[a] \in Seq(FreeSets) /\ free_set_list[a] # <<>>
         /\ Len(free_set_list[a]) \in Nat \ {0}
         /\ Head(free_set_list[a]) = free_set_list[a][1]
         /\ collected_set_list[a] \in Seq(FreeSets) /\ Len(collected_set_list[a]) \in Nat
         /\ available_set_list[a] \in Seq(FreeSets) /\ Len(available_set_list[a]) \in Nat
         /\ released_mem_list[a] \in Seq(ReleasedMem) /\ Len(released_mem_list[a]) \in Nat
         /\ \A i \in 1..Len(free_set_list[a]) : free_set_list[a][i] \in FreeSets
         /\ \A i \in 1..Len(collected_set_list[a]) : collected_set_list[a][i] \in FreeSets
         /\ \A i \in 1..Len(available_set_list[a]) : available_set_list[a][i] \in FreeSets
         /\ \A i \in 1..Len(released_mem_list[a]) : released_mem_list[a][i] \in ReleasedMem
<1>1. /\ free_set_list[a] \in Seq(FreeSets) /\ free_set_list[a] # <<>>
      /\ collected_set_list[a] \in Seq(FreeSets) /\ available_set_list[a] \in Seq(FreeSets)
      /\ released_mem_list[a] \in Seq(ReleasedMem)
  BY DEF TypeOK
<1> QED
  BY <1>1, EmptySeq, LenProperties, ElementOfSeq

(* What the assumptions say of threads, memory and allocators. *)
LEMMA Lengths ==
  /\ IsFiniteSet(Threads) /\ Length \in Nat
  /\ \A t \in Threads : t \in Nat /\ t < Length
  /\ Objects \intersect Blocks = {}
  /\ \A a \in Allocators : Owner(a) \in Threads
BY ThreadsAssumption, MemoryAssumption, FS_CardinalityType DEF Length, Allocators, Owner

-----------------------------------------------------------------------------
(* Registration. *)

Working == {"idle", "collect", "put", "stamp"}

(* Once a thread works, all have registered: the barrier has let them go.     *)
LEMMA AllRegistered ==
  ASSUME TypeOK, RegistryIsRight, NEW t \in Threads, pc[t] \in Working
  PROVE  /\ \A u \in Threads : pc[u] \notin Registering
         /\ ssmem_ts_list_len = Length
         /\ waiting = {} /\ crossing = 0
         /\ \A u \in Threads : \E i \in 1..Len(ssmem_ts_list) : ssmem_ts_list[i] = u
<1>1. /\ \A u \in Threads : pc[u] \notin Registering
      /\ waiting = {} /\ crossing = 0
  BY DEF RegistryIsRight, Working, Registering
<1>2. {u \in Threads : pc[u] \notin {"new", "pushed"}} = Threads
  BY <1>1 DEF Registering
<1> QED
  BY <1>1, <1>2 DEF RegistryIsRight, Length, Registering

(* A thread at work changes nothing about who is registered. *)
LEMMA RegistryKept ==
  ASSUME TypeOK, RegistryIsRight, NEW t \in Threads,
         pc[t] \in Working, pc'[t] \in Working, \A u \in Threads \ {t} : pc'[u] = pc[u],
         UNCHANGED registry
  PROVE  RegistryIsRight'
<1>1. \A u \in Threads : pc'[u] \notin Registering
  BY AllRegistered DEF Working, Registering
<1>2. {u \in Threads : pc'[u] \notin {"new", "pushed"}} = Threads
  BY <1>1 DEF Registering
<1> QED
  BY <1>1, <1>2, AllRegistered DEF RegistryIsRight, registry, barrier, Length

(* Registering moves nothing that anybody works on. *)
Quiet(t) ==
  /\ UNCHANGED <<version, sets, released, mem, inUse, freeing, cur, holders>>
  /\ pc[t] \notin {"collect", "put", "stamp"} /\ pc'[t] \notin {"collect", "put", "stamp"}
  /\ \A u \in Threads \ {t} : pc'[u] = pc[u]

(* A step of the registration or of the barrier leaves all memory alone. *)
LEMMA QuietStep ==
  ASSUME IInv, NEW t \in Threads, Quiet(t), TypeOK', RegistryIsRight'
  PROVE  IInv'
<1> USE DEF IInv, Quiet, sets, released
<1>1. \A u \in Threads : (pc'[u] = pc[u])
                         \/ (pc[u] \notin {"collect", "put", "stamp"}
                             /\ pc'[u] \notin {"collect", "put", "stamp"})
  OBVIOUS
<1>2. ASSUME NEW u \in Threads PROVE ThreadInv(u)'
  BY <1>1, <1>2 DEF ThreadInv
<1>3. ASSUME NEW a \in Allocators PROVE StampInv(a)'
  <2>1. Collecting(a)' = Collecting(a) /\ Stamping(a)' = Stamping(a)
    BY <1>1, Lengths DEF Collecting, Stamping
  <2>2. Unread(Owner(a))' = Unread(Owner(a))
    BY DEF Unread
  <2>3. StampInv(a)
    OBVIOUS
  <2> QED
    BY <2>1, <2>2, <2>3 DEF StampInv, StampsArePast, FullSetsAreCovered, LastStampedIsYoungest,
                   ReleasedAreCovered, CollectedIsUnheld, StampCovers, NotAfter
<1>4. PlaceInv'
  <2>1. \A o, u : u \in Threads => InHand(o, u)' = InHand(o, u)
    BY <1>1 DEF InHand
  <2>2. \A o, a, i : InFree(o, a, i)' = InFree(o, a, i) /\ InCollected(o, a, i)' = InCollected(o, a, i)
                     /\ InReleased(o, a, i)' = InReleased(o, a, i)
    BY DEF InFree, InCollected, InReleased
  <2>3. \A o : Idle(o)' = Idle(o)
    BY DEF Idle
  <2>4. PlaceInv
    OBVIOUS
  <2>5. \A o \in Memories : PlacedOnce(o)'
    BY <2>1, <2>2, <2>4 DEF PlaceInv, PlacedOnce
  <2>6. \A o \in Memories : OneKindOfPlace(o)'
    BY <2>1, <2>2, <2>3, <2>4 DEF PlaceInv, OneKindOfPlace, Freed, Collected, Released, Handed
  <2> QED
    BY <2>4, <2>5, <2>6 DEF PlaceInv
<1>5. IdleThreadStopsReclamation'
  BY DEF IdleThreadStopsReclamation
<1> QED
  BY <1>2, <1>3, <1>4, <1>5

(* ssmem_gc_thread_init puts the timestamp on the list. *)
LEMMA Registers ==
  ASSUME IInv, NEW t \in Threads, Register(t)
  PROVE  IInv'
<1> USE DEF IInv
<1>1. TypeOK'
  <2>1. ssmem_ts_list' \in Seq(Threads)
    BY Pushed DEF Register, TypeOK
  <2> QED
    BY <2>1 DEF Register, TypeOK, barrier, sets, released, Labels, Registering
<1>2. RegistryIsRight'
  <2>1. \A u \in Threads : pc'[u] # "new" =>
          \E i \in 1..Len(ssmem_ts_list') : ssmem_ts_list'[i] = u
    <3> SUFFICES ASSUME NEW u \in Threads, pc'[u] # "new"
                 PROVE  \E i \in 1..Len(ssmem_ts_list') : ssmem_ts_list'[i] = u
      OBVIOUS
    <3>1. /\ Len(ssmem_ts_list') = Len(ssmem_ts_list) + 1 /\ Len(ssmem_ts_list) \in Nat
          /\ ssmem_ts_list'[1] = t
          /\ \A i \in 2..(Len(ssmem_ts_list) + 1) : ssmem_ts_list'[i] = ssmem_ts_list[i - 1]
      BY Pushed DEF Register, TypeOK
    <3>2. CASE u = t
      BY <3>1, <3>2
    <3>3. CASE u # t
      <4>1. pc[u] # "new"
        BY <3>3 DEF Register, TypeOK
      <4>2. PICK i \in 1..Len(ssmem_ts_list) : ssmem_ts_list[i] = u
        BY <4>1 DEF RegistryIsRight
      <4>3. i + 1 \in 2..(Len(ssmem_ts_list) + 1) /\ ssmem_ts_list'[i + 1] = ssmem_ts_list[(i + 1) - 1]
            /\ (i + 1) - 1 = i
        BY <3>1, <4>2
      <4> QED
        BY <3>1, <4>2, <4>3
    <3> QED
      BY <3>2, <3>3
  <2>2. {u \in Threads : pc'[u] \notin {"new", "pushed"}}
          = {u \in Threads : pc[u] \notin {"new", "pushed"}}
    BY DEF Register, TypeOK
  <2>3. {u \in Threads : pc'[u] = "waiting"} = {u \in Threads : pc[u] = "waiting"}
    BY DEF Register, TypeOK
  <2> QED
    BY ZenonT(40), <2>1, <2>2, <2>3 DEF Register, RegistryIsRight, barrier, Registering, TypeOK
<1> QED
  BY <1>1, <1>2, QuietStep DEF Register, Quiet, TypeOK

(* ssmem_gc_thread_init counts the timestamp. *)
LEMMA Counts ==
  ASSUME IInv, NEW t \in Threads, Count(t)
  PROVE  IInv'
<1> USE DEF IInv
<1>1. TypeOK'
  BY DEF Count, TypeOK, barrier, sets, released, Labels, Registering
<1>2. RegistryIsRight'
  <2> DEFINE Counted == {u \in Threads : pc[u] \notin {"new", "pushed"}}
  <2>1. {u \in Threads : pc'[u] \notin {"new", "pushed"}} = Counted \union {t}
    BY DEF Count, TypeOK
  <2>2. t \notin Counted /\ IsFiniteSet(Counted)
    BY Lengths, FS_Subset DEF Count
  <2>3. Cardinality(Counted \union {t}) = Cardinality(Counted) + 1
    BY <2>2, FS_AddElement
  <2>4. {u \in Threads : pc'[u] = "waiting"} = {u \in Threads : pc[u] = "waiting"}
    BY DEF Count, TypeOK
  <2>5. ssmem_ts_list_len' = Cardinality({u \in Threads : pc'[u] \notin {"new", "pushed"}})
    BY <2>1, <2>3 DEF Count, RegistryIsRight
  <2> QED
    BY <2>4, <2>5 DEF Count, RegistryIsRight, barrier, Registering, TypeOK
<1> QED
  BY <1>1, <1>2, QuietStep DEF Count, Quiet, TypeOK

(* A thread arrives at the barrier, and the last one opens it. *)
LEMMA Crosses ==
  ASSUME IInv, NEW t \in Threads, Cross(t)
  PROVE  IInv'
<1> USE DEF IInv
<1>0. /\ \A u \in Threads : pc[u] \in Registering \union {"waiting"}
      /\ waiting = {u \in Threads : pc[u] = "waiting"} /\ t \notin waiting
      /\ crossing = Cardinality(waiting) /\ IsFiniteSet(waiting)
  <2>1. /\ \A u \in Threads : pc[u] \in Registering \union {"waiting"}
        /\ waiting = {u \in Threads : pc[u] = "waiting"} /\ crossing = Cardinality(waiting)
    BY DEF Cross, RegistryIsRight, Registering
  <2> QED
    BY <2>1, Lengths, FS_Subset DEF Cross
<1>1. {u \in Threads : pc'[u] \notin {"new", "pushed"}}
        = {u \in Threads : pc[u] \notin {"new", "pushed"}}
  BY DEF Cross, TypeOK
<1>2. CASE init_barrier!ArriveAndWait(t) /\ pc' = [pc EXCEPT ![t] = "waiting"]
  <2>1. TypeOK'
    BY <1>2 DEF Cross, TypeOK, sets, released, Labels, Registering, init_barrier!ArriveAndWait
  <2>2. crossing' = Cardinality(waiting \union {t}) /\ waiting' = waiting \union {t}
    BY <1>0, <1>2, FS_AddElement DEF init_barrier!ArriveAndWait
  <2>3. waiting' = {u \in Threads : pc'[u] = "waiting"}
    BY <1>0, <1>2, <2>2 DEF TypeOK
  <2>4. \A u \in Threads : pc'[u] \in Registering \union {"waiting"}
    BY <1>0, <1>2 DEF TypeOK
  <2>5. RegistryIsRight'
    BY <1>1, <2>2, <2>3, <2>4 DEF RegistryIsRight, Cross, TypeOK
  <2> QED
    BY <1>2, <2>1, <2>5, QuietStep DEF Cross, Quiet, TypeOK
<1>3. CASE init_barrier!ArriveLast /\ pc' = [pc EXCEPT ![t] = "idle"]
  <2>1. TypeOK'
    BY <1>3 DEF Cross, TypeOK, sets, released, Labels, Registering, init_barrier!ArriveLast
  <2>2. waiting \subseteq Threads \ {t} /\ IsFiniteSet(Threads \ {t})
        /\ Cardinality(Threads \ {t}) = Length - 1
    BY <1>0, Lengths, FS_RemoveElement DEF Length
  <2>3. Cardinality(waiting) >= Length - 1 /\ Cardinality(waiting) \in Nat
    BY <1>0, <1>3, Lengths, FS_CardinalityType
       DEF init_barrier!ArriveLast, init_barrier!AllHere, Length
  <2>4. waiting = Threads \ {t}
    BY <2>2, <2>3, FS_Subset, Lengths
  <2>5. \A u \in Threads : pc'[u] \notin Registering
    BY <1>0, <1>3, <2>4 DEF TypeOK, Registering
  <2>6. RegistryIsRight'
    BY <1>1, <1>3, <2>5 DEF RegistryIsRight, Cross, TypeOK, init_barrier!ArriveLast, Registering
  <2> QED
    BY <1>3, <2>1, <2>6, QuietStep DEF Cross, Quiet, TypeOK
<1> QED
  BY <1>2, <1>3 DEF Cross

(* A thread leaves the barrier. *)
LEMMA Leaves ==
  ASSUME IInv, NEW t \in Threads, Leave(t)
  PROVE  IInv'
<1> USE DEF IInv
<1>1. TypeOK'
  BY DEF Leave, TypeOK, registry, barrier, sets, released, Labels, Registering
<1>2. RegistryIsRight'
  <2>1. (\A u \in Threads : pc[u] \notin Registering) /\ waiting = {} /\ crossing = 0
    BY DEF Leave, RegistryIsRight
  <2>2. {u \in Threads : pc'[u] \notin {"new", "pushed"}}
          = {u \in Threads : pc[u] \notin {"new", "pushed"}}
    BY DEF Leave, TypeOK
  <2> QED
    BY <2>1, <2>2 DEF Leave, RegistryIsRight, registry, barrier, Registering, TypeOK
<1> QED
  BY <1>1, <1>2, QuietStep DEF Leave, Quiet, TypeOK

(* IInv holds at the start. *)
LEMMA InitIInv ==
  ASSUME Init
  PROVE  IInv
<1> USE DEF Init
<1>0. NoStamps \in Stamps /\ ssmem_free_set_new \in FreeSets
  BY Lengths DEF NoStamps, Stamps, FreeSets, ssmem_free_set_new
<1>1. TypeOK
  <2>1. <<ssmem_free_set_new>> \in Seq(FreeSets) \ {<<>>}
    BY <1>0
  <2> QED
    BY <1>0, <2>1 DEF TypeOK, Stamps, Memories, Labels, Registering, init_barrier!barrier_init
<1>2. RegistryIsRight
  <2>1. {u \in Threads : pc[u] \notin {"new", "pushed"}} = {}
        /\ {u \in Threads : pc[u] = "waiting"} = {}
    OBVIOUS
  <2> QED
    BY <2>1, FS_EmptySet DEF RegistryIsRight, Registering, init_barrier!barrier_init
<1>3. \A t \in Threads : ThreadInv(t)
  BY DEF ThreadInv
<1>4. ASSUME NEW a \in Allocators PROVE StampInv(a)
  <2>1. /\ free_set_list[a] = <<ssmem_free_set_new>> /\ Len(<<ssmem_free_set_new>>) = 1
        /\ collected_set_list[a] = <<>> /\ available_set_list[a] = <<>>
        /\ released_mem_list[a] = <<>> /\ Len(<<>>) = 0
        /\ ~Collecting(a) /\ Owner(a) \in Threads
    BY Lengths DEF Collecting
  <2>2. \A u \in Threads : free_set_list[a][1].ts_set[u] = 0 /\ version[u] = 0
    BY <2>1 DEF ssmem_free_set_new, NoStamps
  <2> QED
    BY <2>1, <2>2 DEF StampInv, StampsArePast, FullSetsAreCovered, LastStampedIsYoungest,
                   ReleasedAreCovered, CollectedIsUnheld
<1>5. PlaceInv
  <2>1. \A o, a, i : a \in Allocators /\ i \in Nat =>
          ~InFree(o, a, i) /\ ~InCollected(o, a, i) /\ ~InReleased(o, a, i)
    BY DEF InFree, InCollected, InReleased, ssmem_free_set_new
  <2>2. \A o, u : u \in Threads => ~InHand(o, u)
    BY DEF InHand
  <2>3. \A o \in Memories : PlacedOnce(o)
    BY <2>1, <2>2 DEF PlacedOnce
  <2>4. \A o \in Memories : OneKindOfPlace(o)
    BY <2>1, <2>2, Lengths DEF OneKindOfPlace, Freed, Collected, Released, Handed, Idle, Memories
  <2> QED
    BY <2>3, <2>4 DEF PlaceInv, Memories
<1>6. IdleThreadStopsReclamation
  BY DEF IdleThreadStopsReclamation
<1> QED
  BY <1>1, <1>2, <1>3, <1>4, <1>5, <1>6 DEF IInv

-----------------------------------------------------------------------------
(* The steps of a thread that works. *)

ActsFor(t) ==
  /\ UNCHANGED registry
  /\ pc[t] \in Working /\ pc'[t] \in Working
  /\ \A u \in Threads \ {t} :
       pc'[u] = pc[u] /\ freeing'[u] = freeing[u] /\ cur'[u] = cur[u]

SameLists(a) ==
  /\ free_set_list'[a] = free_set_list[a]
  /\ collected_set_list'[a] = collected_set_list[a]
  /\ available_set_list'[a] = available_set_list[a]
  /\ released_mem_list'[a] = released_mem_list[a]

(* At most the set that is being filled is another one. *)
SameStamps(a) ==
  /\ Len(free_set_list'[a]) = Len(free_set_list[a])
  /\ \A i \in 1..Len(free_set_list[a]) :
       /\ free_set_list'[a][i].ts_set = free_set_list[a][i].ts_set
       /\ i > 1 \/ Collecting(a) => free_set_list'[a][i].set = free_set_list[a][i].set
  /\ collected_set_list'[a] = collected_set_list[a]
  /\ available_set_list'[a] = available_set_list[a]
  /\ released_mem_list'[a] = released_mem_list[a]

(* Of what is not in use, a thread lets go when it moves on, and gets no hold. *)
MovesOn ==
  /\ \A u \in Threads : version[u] <= version'[u]
  /\ \A o \in Memories \ inUse : \A u \in holders'[o] :
       u \in holders[o] /\ version'[u] = version[u]

(* What an allocator keeps is not in use. *)
LEMMA KeptIsNotInUse ==
  ASSUME IInv, NEW a \in Allocators
  PROVE  /\ \A i \in 1..Len(free_set_list[a]) :
              \A o \in free_set_list[a][i].set : o \in Memories \ inUse
         /\ \A i \in 1..Len(collected_set_list[a]) :
              \A o \in collected_set_list[a][i].set : o \in Memories \ inUse
         /\ \A i \in 1..Len(released_mem_list[a]) :
              released_mem_list[a][i].mem \in Memories \ inUse
<1> USE DEF IInv
<1>1. ASSUME NEW i \in 1..Len(free_set_list[a]), NEW o \in free_set_list[a][i].set
      PROVE  o \in Memories \ inUse
  <2>1. o \in Memories
    BY <1>1, Entries DEF FreeSets, Memories
  <2>2. i \in Nat /\ Freed(o)
    BY <1>1, Entries DEF Freed, InFree
  <2> QED
    BY <2>1, <2>2 DEF PlaceInv, OneKindOfPlace, Idle
<1>2. ASSUME NEW i \in 1..Len(collected_set_list[a]), NEW o \in collected_set_list[a][i].set
      PROVE  o \in Memories \ inUse
  <2>1. o \in Memories
    BY <1>2, Entries DEF FreeSets, Memories
  <2>2. i \in Nat /\ Collected(o)
    BY <1>2, Entries DEF Collected, InCollected
  <2> QED
    BY <2>1, <2>2 DEF PlaceInv, OneKindOfPlace, Idle
<1>3. ASSUME NEW i \in 1..Len(released_mem_list[a])
      PROVE  released_mem_list[a][i].mem \in Memories \ inUse
  <2> DEFINE o == released_mem_list[a][i].mem
  <2>1. o \in Memories
    BY <1>3, Entries DEF ReleasedMem, Memories
  <2>2. i \in Nat /\ Released(o)
    BY <1>3, Entries DEF Released, InReleased
  <2> QED
    BY <2>1, <2>2 DEF PlaceInv, OneKindOfPlace, Idle
<1> QED
  BY <1>1, <1>2, <1>3

(* What covered an object still does when threads move on. *)
LEMMA StillCovered ==
  ASSUME TypeOK, TypeOK', MovesOn, NEW o \in Memories \ inUse, NEW u \in Threads,
         NEW x, NEW y, StampCovers(o, x, u), y.ts_set[u] = x.ts_set[u]
  PROVE  u \in holders'[o] => version'[u] <= y.ts_set[u]
BY DEF StampCovers, MovesOn

(* The stamps of sets and blocks are numbers. *)
LEMMA StampsAreNumbers ==
  /\ \A x \in FreeSets : x.ts_set \in Stamps /\ \A u \in Threads : x.ts_set[u] \in Nat
  /\ \A x \in ReleasedMem : x.ts_set \in Stamps /\ \A u \in Threads : x.ts_set[u] \in Nat
BY DEF FreeSets, ReleasedMem, Stamps

(* What an allocator's stamps tell stays true while versions grow. *)
LEMMA StampInvKept ==
  ASSUME IInv, TypeOK', MovesOn, NEW a \in Allocators, SameStamps(a),
         Collecting(a)' = Collecting(a), Stamping(a)' = Stamping(a),
         Collecting(a) \/ Stamping(a) => Unread(Owner(a))' = Unread(Owner(a))
  PROVE  StampInv(a)'
<1> USE DEF IInv, SameStamps
<1>0. StampInv(a) /\ TypeOK /\ Owner(a) \in Threads
  BY Lengths
<1>a. 1 \in 1..Len(free_set_list[a])
      /\ \A i \in 2..Len(free_set_list[a]) : i \in 1..Len(free_set_list[a]) /\ i > 1
      /\ Len(free_set_list[a]) >= 2 => 2 \in 1..Len(free_set_list[a])
  BY Entries
<1>1. StampsArePast(a)'
  <2>1. \A u \in Threads : version[u] \in Nat /\ version'[u] \in Nat /\ version[u] <= version'[u]
    BY DEF TypeOK, Stamps, MovesOn
  <2>2. \A u \in Threads :
          /\ \A i \in 1..Len(free_set_list[a]) : free_set_list[a][i].ts_set[u] \in Nat
          /\ \A i \in 1..Len(collected_set_list[a]) : collected_set_list[a][i].ts_set[u] \in Nat
          /\ \A i \in 1..Len(available_set_list[a]) : available_set_list[a][i].ts_set[u] \in Nat
          /\ \A i \in 1..Len(released_mem_list[a]) : released_mem_list[a][i].ts_set[u] \in Nat
    BY <1>0, Entries, StampsAreNumbers
  <2>3. StampsArePast(a)
    BY <1>0 DEF StampInv
  <2>4. \A u \in Threads :
          /\ \A i \in 1..Len(free_set_list[a]) : free_set_list'[a][i].ts_set[u] <= version'[u]
          /\ \A i \in 1..Len(collected_set_list[a]) : collected_set_list[a][i].ts_set[u] <= version'[u]
          /\ \A i \in 1..Len(available_set_list[a]) : available_set_list[a][i].ts_set[u] <= version'[u]
          /\ \A i \in 1..Len(released_mem_list[a]) : released_mem_list[a][i].ts_set[u] <= version'[u]
    <3> SUFFICES ASSUME NEW u \in Threads
                 PROVE  /\ \A i \in 1..Len(free_set_list[a]) : free_set_list'[a][i].ts_set[u] <= version'[u]
                        /\ \A i \in 1..Len(collected_set_list[a]) : collected_set_list[a][i].ts_set[u] <= version'[u]
                        /\ \A i \in 1..Len(available_set_list[a]) : available_set_list[a][i].ts_set[u] <= version'[u]
                        /\ \A i \in 1..Len(released_mem_list[a]) : released_mem_list[a][i].ts_set[u] <= version'[u]
      OBVIOUS
    <3>1. version[u] \in Nat /\ version'[u] \in Nat /\ version[u] <= version'[u]
      BY <2>1
    <3>2. \A i \in 1..Len(free_set_list[a]) : free_set_list'[a][i].ts_set = free_set_list[a][i].ts_set
      BY <1>a
    <3>3. ASSUME NEW i \in 1..Len(free_set_list[a])
          PROVE  free_set_list[a][i].ts_set[u] <= version'[u]
      <4>1. free_set_list[a][i].ts_set[u] \in Nat /\ free_set_list[a][i].ts_set[u] <= version[u]
        BY <2>2, <2>3 DEF StampsArePast
      <4> QED
        BY <3>1, <4>1
    <3>4. ASSUME NEW i \in 1..Len(collected_set_list[a])
          PROVE  collected_set_list[a][i].ts_set[u] <= version'[u]
      <4>1. collected_set_list[a][i].ts_set[u] \in Nat /\ collected_set_list[a][i].ts_set[u] <= version[u]
        BY <2>2, <2>3 DEF StampsArePast
      <4> QED
        BY <3>1, <4>1
    <3>5. ASSUME NEW i \in 1..Len(available_set_list[a])
          PROVE  available_set_list[a][i].ts_set[u] <= version'[u]
      <4>1. available_set_list[a][i].ts_set[u] \in Nat /\ available_set_list[a][i].ts_set[u] <= version[u]
        BY <2>2, <2>3 DEF StampsArePast
      <4> QED
        BY <3>1, <4>1
    <3>6. ASSUME NEW i \in 1..Len(released_mem_list[a])
          PROVE  released_mem_list[a][i].ts_set[u] <= version'[u]
      <4>1. released_mem_list[a][i].ts_set[u] \in Nat /\ released_mem_list[a][i].ts_set[u] <= version[u]
        BY <2>2, <2>3 DEF StampsArePast
      <4> QED
        BY <3>1, <4>1
    <3> QED
      BY <3>2, <3>3, <3>4, <3>5, <3>6
  <2> QED
    BY <2>4 DEF StampsArePast
<1>2. FullSetsAreCovered(a)'
  <2> SUFFICES ASSUME NEW u \in Threads
      PROVE  /\ \A i \in 2..Len(free_set_list[a]) :
                  /\ \A o \in free_set_list[a][i].set :
                       u \in holders'[o] => version'[u] <= free_set_list[a][i].ts_set[u]
                  /\ NotAfter(free_set_list[a][i], free_set_list[a][2], u)
             /\ Collecting(a) /\ u \notin Unread(Owner(a)) =>
                  \A o \in free_set_list[a][1].set :
                    u \in holders'[o] => version'[u] <= free_set_list[a][1].ts_set[u]
    <3>1. \A i \in 2..Len(free_set_list[a]) :
            /\ free_set_list'[a][i].set = free_set_list[a][i].set
            /\ free_set_list'[a][i].ts_set = free_set_list[a][i].ts_set
            /\ free_set_list'[a][2].ts_set = free_set_list[a][2].ts_set
      BY <1>a, Entries
    <3>2. free_set_list'[a][1].ts_set = free_set_list[a][1].ts_set
          /\ (Collecting(a) => free_set_list'[a][1].set = free_set_list[a][1].set)
      BY <1>a
    <3> QED
      BY <3>1, <3>2 DEF FullSetsAreCovered, StampCovers, NotAfter
  <2>1. FullSetsAreCovered(a)
    BY <1>0 DEF StampInv
  <2>2. ASSUME NEW i \in 1..Len(free_set_list[a]), NEW o \in free_set_list[a][i].set,
               StampCovers(o, free_set_list[a][i], u)
        PROVE  u \in holders'[o] => version'[u] <= free_set_list[a][i].ts_set[u]
    BY <2>2, StillCovered, KeptIsNotInUse
  <2>3. 1 \in 1..Len(free_set_list[a]) /\ \A i \in 2..Len(free_set_list[a]) :
          i \in 1..Len(free_set_list[a])
    BY Entries
  <2> QED
    BY <2>1, <2>2, <2>3 DEF FullSetsAreCovered
<1>3. LastStampedIsYoungest(a)'
  <2> SUFFICES ASSUME NEW u \in Threads, NEW last, last = IF Collecting(a) THEN 1 ELSE 2,
                      Len(free_set_list[a]) >= last,
                      Collecting(a) => u \notin Unread(Owner(a))
               PROVE  /\ \A i \in 1..Len(free_set_list[a]) : NotAfter(free_set_list'[a][i], free_set_list'[a][last], u)
                      /\ \A i \in 1..Len(collected_set_list[a]) :
                           NotAfter(collected_set_list[a][i], free_set_list'[a][last], u)
                      /\ \A i \in 1..Len(available_set_list[a]) :
                           NotAfter(available_set_list[a][i], free_set_list'[a][last], u)
    BY ZenonT(60) DEF LastStampedIsYoungest, NotAfter
  <2>1. /\ \A i \in 1..Len(free_set_list[a]) : NotAfter(free_set_list[a][i], free_set_list[a][last], u)
        /\ \A i \in 1..Len(collected_set_list[a]) : NotAfter(collected_set_list[a][i], free_set_list[a][last], u)
        /\ \A i \in 1..Len(available_set_list[a]) : NotAfter(available_set_list[a][i], free_set_list[a][last], u)
    BY <1>0 DEF StampInv, LastStampedIsYoungest
  <2>2. last \in 1..Len(free_set_list[a])
    BY <1>a
  <2>3. \A i \in 1..Len(free_set_list[a]) : free_set_list'[a][i].ts_set = free_set_list[a][i].ts_set
    BY <1>a
  <2> QED
    BY <2>1, <2>2, <2>3 DEF NotAfter
<1>4. ReleasedAreCovered(a)'
  <2> DEFINE rl == released_mem_list[a]
  <2> SUFFICES ASSUME NEW u \in Threads, NEW i \in 1..Len(rl),
                      i > 1 \/ (Stamping(a) => u \notin Unread(Owner(a)))
               PROVE  /\ u \in holders'[rl[i].mem] => version'[u] <= rl[i].ts_set[u]
                      /\ \A j \in i..Len(rl) : NotAfter(rl[j], rl[i], u)
    BY DEF ReleasedAreCovered, StampCovers, NotAfter
  <2>1. StampCovers(rl[i].mem, rl[i], u) /\ \A j \in i..Len(rl) : NotAfter(rl[j], rl[i], u)
    BY <1>0 DEF StampInv, ReleasedAreCovered
  <2> QED
    BY <2>1, StillCovered, KeptIsNotInUse
<1>5. CollectedIsUnheld(a)'
  <2>1. CollectedIsUnheld(a)
    BY <1>0 DEF StampInv
  <2>2. \A o \in Memories \ inUse : holders[o] = {} => holders'[o] = {}
    BY DEF MovesOn
  <2> QED
    BY <2>1, <2>2, KeptIsNotInUse DEF CollectedIsUnheld
<1> QED
  BY <1>1, <1>2, <1>3, <1>4, <1>5 DEF StampInv

(* A thread's step on one of its allocators: what is left to be shown of it.  *)
LEMMA WorkStep ==
  ASSUME IInv, TypeOK', MovesOn, NEW a \in Allocators, NEW t, t = Owner(a), ActsFor(t),
         \A b \in Allocators \ {a} : SameLists(b),
         pc[t] \in {"collect", "stamp"} => freeing[t][1] = a,
         pc'[t] \in {"collect", "stamp"} => freeing'[t][1] = a,
         ThreadInv(t)', StampInv(a)', PlaceInv', IdleThreadStopsReclamation'
  PROVE  IInv'
<1> USE DEF IInv
<1>0. t \in Threads /\ \A b \in Allocators : Owner(b) \in Threads
  BY Lengths
<1>1. RegistryIsRight'
  BY <1>0, RegistryKept DEF ActsFor
<1>2. ASSUME NEW u \in Threads, u # t PROVE ThreadInv(u)'
  <2>1. ThreadInv(u) /\ pc'[u] = pc[u] /\ freeing'[u] = freeing[u]
    BY <1>2 DEF ActsFor
  <2>2. pc[u] \in {"collect", "put", "stamp"} =>
          freeing[u][1] \in Allocators /\ freeing[u][1] # a
    BY <1>2, <2>1 DEF ThreadInv
  <2> QED
    BY <2>1, <2>2 DEF ThreadInv, SameLists
<1>3. ASSUME NEW b \in Allocators, b # a PROVE StampInv(b)'
  <2>1. CASE Owner(b) = t
    <3>1. /\ ~Collecting(b) /\ ~Stamping(b)
          /\ Collecting(b)' = Collecting(b) /\ Stamping(b)' = Stamping(b)
      BY <1>3, <2>1 DEF Collecting, Stamping
    <3> QED
      BY <1>3, <3>1, StampInvKept DEF SameLists, SameStamps
  <2>2. CASE Owner(b) # t
    <3>1. pc'[Owner(b)] = pc[Owner(b)] /\ freeing'[Owner(b)] = freeing[Owner(b)]
          /\ cur'[Owner(b)] = cur[Owner(b)]
      BY <1>0, <2>2 DEF ActsFor
    <3>2. Collecting(b)' = Collecting(b) /\ Stamping(b)' = Stamping(b)
          /\ Unread(Owner(b))' = Unread(Owner(b))
      BY <3>1 DEF Collecting, Stamping, Unread
    <3> QED
      BY <1>3, <3>2, StampInvKept DEF SameLists, SameStamps
  <2> QED
    BY <2>1, <2>2
<1> QED
  BY <1>1, <1>2, <1>3

(* Nothing is moved. *)
LEMMA SamePlaces ==
  ASSUME PlaceInv, UNCHANGED <<mem, inUse, returned>>,
         \A o \in Memories, a \in Allocators, i \in Nat :
           /\ InFree(o, a, i)' = InFree(o, a, i)
           /\ InCollected(o, a, i)' = InCollected(o, a, i)
           /\ InReleased(o, a, i)' = InReleased(o, a, i),
         \A o \in Memories, u \in Threads : InHand(o, u)' = InHand(o, u),
         \A o \in mem : holders[o] = {} => holders'[o] = {}
  PROVE  PlaceInv'
<1>1. \A o \in Memories : PlacedOnce(o)'
  BY DEF PlaceInv, PlacedOnce
<1>2. \A o \in Memories : Idle(o)' = Idle(o)
  BY DEF Idle
<1>3. \A o \in Memories : OneKindOfPlace(o)'
  BY <1>2 DEF PlaceInv, OneKindOfPlace, Freed, Collected, Released, Handed
<1> QED
  BY <1>1, <1>3 DEF PlaceInv

(* Nothing is collected or returned by a step that leaves both alone. *)
LEMMA IdleKept ==
  ASSUME TypeOK, TypeOK', IdleThreadStopsReclamation, MovesOn,
         UNCHANGED <<returned, collected_set_list>>
  PROVE  IdleThreadStopsReclamation'
<1>1. \A u \in Threads : version[u] \in Nat /\ version'[u] \in Nat
  BY DEF TypeOK, Stamps
<1>2. \A u \in Threads : version'[u] = 0 => version[u] = 0
  BY <1>1 DEF MovesOn
<1> QED
  BY <1>2 DEF IdleThreadStopsReclamation

(* ssmem_ts_next. *)
LEMMA NextMoves ==
  ASSUME TypeOK, NEW t \in Threads, ssmem_ts_next(t)
  PROVE  /\ MovesOn
         /\ version' \in Stamps /\ holders' \in [Memories -> SUBSET Threads]
         /\ \A o \in Memories : holders'[o] = holders[o] \ {t}
BY DEF TypeOK, Stamps, MovesOn, ssmem_ts_next, Memories

(* SSMEM_SAFE_TO_RECLAIM only moves its thread on. *)
LEMMA SafeToReclaim ==
  ASSUME IInv, NEW t \in Threads, SSMEM_SAFE_TO_RECLAIM(t)
  PROVE  IInv'
<1> USE DEF IInv, SSMEM_SAFE_TO_RECLAIM
<1>1. MovesOn /\ TypeOK'
  <2>1. MovesOn /\ version' \in Stamps /\ holders' \in [Memories -> SUBSET Threads]
    BY NextMoves
  <2> QED
    BY <2>1 DEF TypeOK, registry, barrier, sets, released
<1>2. RegistryIsRight'
  BY RegistryKept DEF Working
<1>3. \A u \in Threads : ThreadInv(u)'
  BY DEF ThreadInv, sets, released
<1>4. \A a \in Allocators : StampInv(a)'
  BY <1>1, StampInvKept DEF SameStamps, Collecting, Stamping, Unread, sets, released
<1>5. PlaceInv'
  <2>1. \A o \in mem : holders[o] = {} => holders'[o] = {}
    BY NextMoves DEF TypeOK, Memories
  <2> QED
    BY <2>1, SamePlaces DEF InFree, InCollected, InReleased, InHand, sets, released
<1>6. IdleThreadStopsReclamation'
  BY <1>1, IdleKept DEF sets, released
<1> QED
  BY <1>1, <1>2, <1>3, <1>4, <1>5, <1>6

(* The allocator that a thread inside ssmem_free or ssmem_release works on.   *)
LEMMA AtWork ==
  ASSUME IInv, NEW t \in Threads, pc[t] \in {"collect", "put", "stamp"}
  PROVE  /\ freeing[t][1] \in Allocators /\ Owner(freeing[t][1]) = t
         /\ freeing[t][2] \in Memories
         /\ pc[t] \in {"collect", "put"} => freeing[t][2] \in Objects
         /\ pc[t] = "collect" => free_set_list[freeing[t][1]][1].size = Length
BY DEF IInv, ThreadInv

(* One version less is left to read. *)
LEMMA OneRead ==
  ASSUME TypeOK, NEW t \in Threads, cur[t] # <<>>, cur'[t] = Tail(cur[t])
  PROVE  /\ Head(cur[t]) \in Threads
         /\ cur'[t] \in Seq(Threads)
         /\ \A u : u \notin Unread(t)' => u = Head(cur[t]) \/ u \notin Unread(t)
<1>1. cur[t] \in Seq(Threads)
  BY DEF TypeOK
<1>2. /\ Tail(cur[t]) \in Seq(Threads) /\ Len(cur[t]) \in Nat \ {0}
      /\ Len(Tail(cur[t])) = Len(cur[t]) - 1
      /\ Head(cur[t]) = cur[t][1] /\ cur[t][1] \in Threads
      /\ \A i \in 1..(Len(cur[t]) - 1) : Tail(cur[t])[i] = cur[t][i + 1]
  BY <1>1, Popped
<1>3. ASSUME NEW u, u \in Unread(t), u # Head(cur[t]) PROVE u \in Unread(t)'
  <2>1. PICK i \in 1..Len(cur[t]) : cur[t][i] = u
    BY <1>3 DEF Unread
  <2>2. i # 1
    BY <1>2, <1>3, <2>1
  <2>3. i - 1 \in 1..(Len(cur[t]) - 1) /\ (i - 1) + 1 = i
    BY <1>2, <2>1, <2>2
  <2>4. cur'[t][i - 1] = u /\ i - 1 \in 1..Len(cur'[t])
    BY <1>2, <2>1, <2>3
  <2> QED
    BY <2>4 DEF Unread
<1> QED
  BY <1>2, <1>3

-----------------------------------------------------------------------------
(* ssmem_free. *)

(* One timestamp is read into the stamps of the full set. *)
LEMMA CollectsOne ==
  ASSUME IInv, NEW t \in Threads, CollectOne(t)
  PROVE  IInv'
<1> USE DEF IInv
<1>a. pc[t] = "collect" /\ cur[t] # <<>>
  BY DEF CollectOne
<1>u. UNCHANGED <<ssmem_ts_list, ssmem_ts_list_len, crossing, waiting, version,
                  collected_set_list, available_set_list, released_mem_list, returned, mem, inUse,
                  pc, freeing, holders>>
  BY DEF CollectOne, registry, barrier, released
<1>b. PICK a \in Allocators : a = freeing[t][1]
  BY <1>a, AtWork
<1>c. PICK fs : fs = free_set_list[a]
  OBVIOUS
<1>d. cur'[t] = Tail(cur[t])
  BY DEF CollectOne, TypeOK
<1>e. PICK v \in Threads : v = Head(cur[t])
  BY <1>a, <1>d, OneRead
<1>f. PICK new : new = [fs[1] EXCEPT !.ts_set = [@ EXCEPT ![v] = version[v]]]
  OBVIOUS
<1>1. /\ Owner(a) = t /\ fs[1].size = Length /\ freeing[t][2] \in Objects
      /\ freeing'[t] = freeing[t] /\ pc'[t] = "collect"
  BY <1>a, <1>b, <1>c, AtWork DEF CollectOne
<1>2. fs \in Seq(FreeSets) /\ fs # <<>> /\ Len(fs) \in Nat \ {0} /\ Head(fs) = fs[1]
      /\ fs[1] \in FreeSets
  BY <1>c, Entries, ElementOfSeq
<1>3. /\ new \in FreeSets /\ new.set = fs[1].set /\ new.size = fs[1].size
      /\ new.ts_set[v] = version[v]
      /\ \A u \in Threads : u # v => new.ts_set[u] = fs[1].ts_set[u]
  BY <1>1, <1>2, <1>f DEF FreeSets, Stamps, TypeOK
<1>g. PICK r : r = <<new>> \o Tail(fs)
  OBVIOUS
<1>h. PICK rest : rest = Tail(cur[t])
  OBVIOUS
<1>4. /\ free_set_list' = [free_set_list EXCEPT ![a] = r]
      /\ cur' = [cur EXCEPT ![t] = rest]
  BY <1>2, <1>b, <1>c, <1>e, <1>f, <1>g, <1>h DEF CollectOne
<1>5. /\ r \in Seq(FreeSets) /\ r # <<>> /\ free_set_list'[a] = r
      /\ Len(free_set_list'[a]) = Len(fs) /\ free_set_list'[a][1] = new
      /\ \A i \in 2..Len(fs) : free_set_list'[a][i] = fs[i]
      /\ \A b \in Allocators \ {a} : free_set_list'[b] = free_set_list[b]
  BY <1>2, <1>3, <1>4, <1>g, HeadReplaced DEF TypeOK
<1>6. /\ rest \in Seq(Threads)
      /\ \A u : u \notin Unread(t)' => u = v \/ u \notin Unread(t)
  BY <1>a, <1>d, <1>e, <1>h, OneRead
<1>7. TypeOK'
  BY <1>1, <1>4, <1>5, <1>6, <1>u DEF TypeOK
<1>8. MovesOn
  BY <1>u DEF MovesOn, TypeOK, Stamps
<1>9. ActsFor(t)
  BY <1>1, <1>4, <1>a, <1>u DEF ActsFor, Working, TypeOK, registry, barrier
<1>10. ThreadInv(t)'
  <2>1. freeing[t] \in Allocators \X Memories
    BY <1>a DEF ThreadInv
  <2> QED
    BY <1>1, <1>3, <1>5, <1>b, <2>1 DEF ThreadInv
<1>11. StampInv(a)'
  <2>0. /\ StampInv(a) /\ Collecting(a) /\ ~Stamping(a)
        /\ Collecting(a)' /\ ~Stamping(a)'
    BY <1>1, <1>a, <1>b DEF Collecting, Stamping
  <2>a. \A i \in 1..Len(fs) : fs[i] \in FreeSets
    BY <1>c, Entries
  <2>1. /\ \A u \in Threads : version[u] \in Nat
        /\ \A i \in 1..Len(fs) : \A u \in Threads : fs[i].ts_set[u] \in Nat
        /\ \A i \in 2..Len(fs) : i \in 1..Len(fs)
        /\ 1 \in 1..Len(fs)
    BY <1>2, <2>a, StampsAreNumbers DEF TypeOK, Stamps
  <2>2. StampsArePast(a)'
    <3>1. StampsArePast(a)
      BY <2>0 DEF StampInv
    <3>2. \A u \in Threads : \A i \in 1..Len(fs) : fs[i].ts_set[u] <= version[u]
      BY <1>c, <3>1 DEF StampsArePast
    <3>3. \A u \in Threads : new.ts_set[u] <= version[u]
      BY <1>3, <2>1, <3>2
    <3>4. \A u \in Threads : \A i \in 1..Len(fs) : free_set_list'[a][i].ts_set[u] <= version[u]
      BY <1>5, <2>1, <3>2, <3>3
    <3> QED
      BY <1>5, <1>u, <3>1, <3>4 DEF StampsArePast
  <2>3. FullSetsAreCovered(a)'
    <3>1. FullSetsAreCovered(a) /\ StampsArePast(a)
      BY <2>0 DEF StampInv
    <3> SUFFICES ASSUME NEW u \in Threads
        PROVE  /\ \A i \in 2..Len(fs) :
                    /\ \A o \in fs[i].set : u \in holders[o] => version[u] <= fs[i].ts_set[u]
                    /\ fs[i].ts_set[u] <= fs[2].ts_set[u]
               /\ u \notin Unread(t)' =>
                    \A o \in new.set : u \in holders[o] => version[u] <= new.ts_set[u]
      BY SMTT(30), <1>1, <1>5, <2>0, <1>u DEF FullSetsAreCovered, StampCovers, NotAfter, Unread
    <3>2. \A i \in 2..Len(fs) :
            /\ \A o \in fs[i].set : u \in holders[o] => version[u] <= fs[i].ts_set[u]
            /\ fs[i].ts_set[u] <= fs[2].ts_set[u]
      BY <3>1, <1>c DEF FullSetsAreCovered, StampCovers, NotAfter
    <3>3. CASE u = v
      BY <1>3, <2>1, <3>2, <3>3
    <3>4. CASE u # v
      <4>1. u \notin Unread(t)' =>
              \A o \in fs[1].set : u \in holders[o] => version[u] <= fs[1].ts_set[u]
        BY <1>1, <1>6, <1>c, <2>0, <3>1, <3>4 DEF FullSetsAreCovered, StampCovers
      <4> QED
        BY <1>3, <3>2, <3>4, <4>1
    <3> QED
      BY <3>3, <3>4
  <2>4. LastStampedIsYoungest(a)'
    <3>1. LastStampedIsYoungest(a) /\ StampsArePast(a)
      BY <2>0 DEF StampInv
    <3> SUFFICES ASSUME NEW u \in Threads, u \notin Unread(t)'
        PROVE  /\ \A i \in 1..Len(fs) : free_set_list'[a][i].ts_set[u] <= new.ts_set[u]
               /\ \A i \in 1..Len(collected_set_list[a]) :
                    collected_set_list[a][i].ts_set[u] <= new.ts_set[u]
               /\ \A i \in 1..Len(available_set_list[a]) :
                    available_set_list[a][i].ts_set[u] <= new.ts_set[u]
      BY <1>1, <1>5, <2>0, <1>u DEF LastStampedIsYoungest, NotAfter
    <3>2. CASE u = v
      BY SMTT(30), <1>3, <1>5, <1>c, <2>1, <3>1, <3>2 DEF StampsArePast
    <3>3. CASE u # v
      <4>1. u \notin Unread(t)
        BY <1>6, <3>3
      <4>2. /\ \A i \in 1..Len(fs) : fs[i].ts_set[u] <= fs[1].ts_set[u]
            /\ \A i \in 1..Len(collected_set_list[a]) :
                 collected_set_list[a][i].ts_set[u] <= fs[1].ts_set[u]
            /\ \A i \in 1..Len(available_set_list[a]) :
                 available_set_list[a][i].ts_set[u] <= fs[1].ts_set[u]
        BY <1>1, <1>2, <1>c, <2>0, <3>1, <4>1 DEF LastStampedIsYoungest, NotAfter
      <4> QED
        BY <1>3, <1>5, <2>1, <3>3, <4>2
    <3> QED
      BY <3>2, <3>3
  <2>5. ReleasedAreCovered(a)'
    BY <2>0 DEF StampInv, ReleasedAreCovered, StampCovers, NotAfter, CollectOne, released
  <2>6. CollectedIsUnheld(a)'
    BY <2>0 DEF StampInv, CollectedIsUnheld, CollectOne
  <2> QED
    BY <2>2, <2>3, <2>4, <2>5, <2>6 DEF StampInv
<1>12. PlaceInv'
  <2>1. \A o \in Memories, b \in Allocators, i \in Nat : InFree(o, b, i)' = InFree(o, b, i)
    <3> SUFFICES ASSUME NEW o \in Memories, NEW b \in Allocators, NEW i \in Nat
                 PROVE  InFree(o, b, i)' = InFree(o, b, i)
      OBVIOUS
    <3>1. CASE b = a
      <4>1. CASE i = 1
        BY <1>2, <1>3, <1>5, <1>c, <3>1, <4>1 DEF InFree
      <4>2. CASE i # 1
        BY <1>2, <1>5, <1>c, <3>1, <4>2 DEF InFree
      <4> QED
        BY <4>1, <4>2
    <3>2. CASE b # a
      BY <1>5, <3>2 DEF InFree
    <3> QED
      BY <3>1, <3>2
  <2> QED
    BY <2>1, SamePlaces, <1>u DEF InCollected, InReleased, InHand
<1>13. IdleThreadStopsReclamation'
  BY <1>7, <1>8, IdleKept, <1>u DEF released
<1>14. \A b \in Allocators \ {a} : SameLists(b)
  BY <1>5, <1>u DEF SameLists
<1>15. a \in Allocators /\ t = Owner(a)
       /\ (pc[t] \in {"collect", "stamp"} => freeing[t][1] = a)
       /\ (pc'[t] \in {"collect", "stamp"} => freeing'[t][1] = a)
  BY <1>1, <1>b, <1>u DEF CollectOne
<1> QED
  BY <1>7, <1>8, <1>9, <1>10, <1>12, <1>13, <1>11, <1>14, <1>15, WorkStep

(* The freed object is put into the set in front. *)
LEMMA Puts ==
  ASSUME IInv, NEW t \in Threads, Put(t)
  PROVE  IInv'
<1> USE DEF IInv
<1>a. pc[t] = "put"
  BY DEF Put
<1>b. PICK a \in Allocators : a = freeing[t][1]
  BY <1>a, AtWork
<1>c. PICK fs : fs = free_set_list[a]
  OBVIOUS
<1>d. PICK x \in Objects : x = freeing[t][2]
  BY <1>a, AtWork
<1>e. PICK new : new = [fs[1] EXCEPT !.set = @ \union {x}]
  OBVIOUS
<1>f. PICK r : r = <<new>> \o Tail(fs)
  OBVIOUS
<1>1. /\ UNCHANGED <<ssmem_ts_list, ssmem_ts_list_len, crossing, waiting, collected_set_list,
                     available_set_list, released_mem_list, returned, mem, inUse, cur>>
      /\ freeing' = [freeing EXCEPT ![t] = <<>>] /\ pc' = [pc EXCEPT ![t] = "idle"]
      /\ ssmem_ts_next(t) /\ Owner(a) = t
  BY <1>a, <1>b, AtWork DEF Put, registry, barrier, released
<1>2. /\ fs \in Seq(FreeSets) /\ fs # <<>> /\ Len(fs) \in Nat \ {0} /\ Head(fs) = fs[1]
      /\ fs[1] \in FreeSets
  BY <1>c, Entries, ElementOfSeq
<1>3. /\ new \in FreeSets /\ new.set = fs[1].set \union {x}
      /\ new.size = fs[1].size /\ new.ts_set = fs[1].ts_set
  BY SMTT(30), <1>2, <1>d, <1>e DEF FreeSets
<1>4. free_set_list' = [free_set_list EXCEPT ![a] = r]
  BY <1>2, <1>b, <1>c, <1>d, <1>e, <1>f DEF Put
<1>5. /\ r \in Seq(FreeSets) /\ r # <<>> /\ free_set_list'[a] = r
      /\ Len(r) = Len(fs) /\ r[1] = new
      /\ \A i \in 2..Len(fs) : r[i] = fs[i]
      /\ \A b \in Allocators \ {a} : free_set_list'[b] = free_set_list[b]
  BY <1>2, <1>3, <1>4, <1>f, HeadReplaced DEF TypeOK
<1>6. MovesOn /\ version' \in Stamps /\ holders' \in [Memories -> SUBSET Threads]
      /\ \A o \in Memories : holders'[o] = holders[o] \ {t}
  BY <1>1, NextMoves
<1>7. TypeOK'
  BY <1>1, <1>4, <1>5, <1>6 DEF TypeOK, Labels, Registering
<1>8. ActsFor(t)
  BY <1>1, <1>a DEF ActsFor, Working, TypeOK, registry, barrier
<1>9. ThreadInv(t)'
  BY <1>1 DEF ThreadInv, TypeOK
<1>10. StampInv(a)'
  <2>1. /\ ~Collecting(a) /\ ~Stamping(a)
        /\ Collecting(a)' = Collecting(a) /\ Stamping(a)' = Stamping(a)
    BY <1>1, <1>a DEF Collecting, Stamping, TypeOK
  <2>2. \A i \in 1..Len(fs) : i = 1 \/ i \in 2..Len(fs)
    BY <1>2
  <2>3. SameStamps(a)
    BY <1>1, <1>3, <1>5, <1>c, <2>1, <2>2 DEF SameStamps
  <2> QED
    BY <1>6, <1>7, <2>1, <2>3, StampInvKept
<1>11. PlaceInv'
  <2>1. \A o \in Memories, b \in Allocators, i \in Nat :
          /\ InFree(o, b, i)' <=> InFree(o, b, i) \/ (b = a /\ i = 1 /\ o = x)
          /\ InCollected(o, b, i)' = InCollected(o, b, i)
          /\ InReleased(o, b, i)' = InReleased(o, b, i)
    <3> SUFFICES ASSUME NEW o \in Memories, NEW b \in Allocators, NEW i \in Nat
                 PROVE  InFree(o, b, i)' <=> InFree(o, b, i) \/ (b = a /\ i = 1 /\ o = x)
      BY <1>1 DEF InCollected, InReleased
    <3>1. CASE b = a
      <4>1. CASE i = 1
        BY <1>2, <1>3, <1>5, <1>c, <3>1, <4>1 DEF InFree
      <4>2. CASE i # 1
        BY <1>2, <1>5, <1>c, <3>1, <4>2 DEF InFree
      <4> QED
        BY <4>1, <4>2
    <3>2. CASE b # a
      BY <1>5, <3>2 DEF InFree
    <3> QED
      BY <3>1, <3>2
  <2>2. \A o \in Memories, u \in Threads : InHand(o, u)' <=> InHand(o, u) /\ u # t
    BY <1>1 DEF InHand, TypeOK
  <2>3. x \in Memories /\ InHand(x, t) /\ \A o \in Memories : Idle(o)' = Idle(o)
    BY <1>1, <1>a, <1>d DEF InHand, Idle, Memories
  <2>4. \A u \in Threads : InHand(x, u) => u = t
    BY <2>3 DEF PlaceInv, PlacedOnce
  <2>5. ~Idle(x) /\ ~Freed(x) /\ ~Collected(x) /\ ~Released(x)
    BY <2>3 DEF PlaceInv, OneKindOfPlace, Handed
  <2>6. /\ \A o \in Memories : Collected(o)' = Collected(o) /\ Released(o)' = Released(o)
        /\ \A o \in Memories \ {x} : Freed(o)' = Freed(o) /\ Handed(o)' = Handed(o)
        /\ Freed(x)' /\ ~Handed(x)'
    <3>1. \A o \in Memories \ {x} : InHand(o, t) => FALSE
      BY <1>d DEF InHand
    <3>2. \A o \in Memories : Collected(o)' = Collected(o) /\ Released(o)' = Released(o)
      BY <2>1 DEF Collected, Released
    <3>3. \A o \in Memories \ {x} : Freed(o)' = Freed(o)
      BY <2>1 DEF Freed
    <3>4. \A o \in Memories \ {x} : Handed(o)' = Handed(o)
      BY <2>2, <3>1 DEF Handed
    <3>5. InFree(x, a, 1)'
      BY <2>1, <2>3
    <3>6. ~Handed(x)'
      BY <2>2, <2>3, <2>4 DEF Handed
    <3> QED
      BY <3>2, <3>3, <3>4, <3>5, <3>6 DEF Freed
  <2>7. ASSUME NEW o \in Memories PROVE PlacedOnce(o)'
    <3>1. PlacedOnce(o)
      BY DEF PlaceInv
    <3>2. CASE o = x
      <4>1. \A b \in Allocators, i \in Nat : ~InFree(o, b, i)
        BY <2>5, <3>2 DEF Freed
      <4> QED
        BY <2>1, <2>2, <3>1, <4>1 DEF PlacedOnce
    <3>3. CASE o # x
      BY <2>1, <2>2, <3>1, <3>3 DEF PlacedOnce
    <3> QED
      BY <3>2, <3>3
  <2>8. ASSUME NEW o \in Memories PROVE OneKindOfPlace(o)'
    <3>1. OneKindOfPlace(o)
      BY DEF PlaceInv
    <3>2. CASE o = x
      BY <1>1, <2>3, <2>5, <2>6, <3>1, <3>2 DEF OneKindOfPlace
    <3>3. CASE o # x
      BY <1>1, <2>3, <2>6, <3>1, <3>3 DEF OneKindOfPlace
    <3> QED
      BY <3>2, <3>3
  <2>9. \A o \in mem' : holders'[o] = {}
    BY <1>1, <1>6 DEF PlaceInv, TypeOK, Memories
  <2> QED
    BY <2>7, <2>8, <2>9 DEF PlaceInv
<1>12. IdleThreadStopsReclamation'
  BY <1>1, <1>6, <1>7, IdleKept
<1>13. \A b \in Allocators \ {a} : SameLists(b)
  BY <1>1, <1>5 DEF SameLists
<1>14. /\ t = Owner(a) /\ pc[t] \notin {"collect", "stamp"} /\ pc'[t] \notin {"collect", "stamp"}
  BY <1>1, <1>a DEF TypeOK
<1> QED
  BY <1>6, <1>7, <1>8, <1>9, <1>10, <1>11, <1>12, <1>13, <1>14, WorkStep

(* The lists hold what they held, and one object in use goes into t's hands.  *)
LEMMA TakenInHand ==
  ASSUME IInv, NEW t \in Threads, NEW x \in inUse,
         inUse' = inUse \ {x}, mem' = mem, returned' = returned,
         \A o \in Memories, a \in Allocators, i \in Nat :
           /\ InFree(o, a, i)' = InFree(o, a, i)
           /\ InCollected(o, a, i)' = InCollected(o, a, i)
           /\ InReleased(o, a, i)' = InReleased(o, a, i),
         \A o \in Memories, u \in Threads : InHand(o, u)' <=> InHand(o, u) \/ (o = x /\ u = t),
         \A o \in mem : holders'[o] = holders[o]
  PROVE  PlaceInv'
<1> USE DEF IInv
<1>1. x \in Memories /\ PlaceInv /\ x \notin mem /\ x \notin returned
  BY DEF TypeOK, PlaceInv, OneKindOfPlace
<1>2. /\ Idle(x) /\ ~Handed(x) /\ \A u \in Threads : ~InHand(x, u)
  BY <1>1 DEF Idle, PlaceInv, OneKindOfPlace, Handed
<1>3. \A o \in Memories : PlacedOnce(o)'
  BY <1>1, <1>2 DEF PlaceInv, PlacedOnce
<1>4. /\ \A o \in Memories : /\ Freed(o)' = Freed(o) /\ Collected(o)' = Collected(o)
                             /\ Released(o)' = Released(o)
      /\ \A o \in Memories \ {x} : Idle(o)' = Idle(o)
      /\ ~Idle(x)'
  BY <1>1 DEF Freed, Collected, Released, Idle
<1>5. (\A o \in Memories \ {x} : Handed(o)' = Handed(o)) /\ Handed(x)'
  BY <1>1 DEF Handed
<1>6. ASSUME NEW o \in Memories PROVE OneKindOfPlace(o)'
  <2>1. OneKindOfPlace(o)
    BY <1>1 DEF PlaceInv
  <2>2. CASE o = x
    BY <1>1, <1>2, <1>4, <1>5, <2>1, <2>2 DEF OneKindOfPlace
  <2>3. CASE o # x
    BY <1>4, <1>5, <2>1, <2>3 DEF OneKindOfPlace
  <2> QED
    BY <2>2, <2>3
<1> QED
  BY <1>1, <1>3, <1>6 DEF PlaceInv

(* ssmem_free takes the object from its caller. *)
LEMMA FreesCall ==
  ASSUME IInv, NEW a \in Allocators, NEW x \in Objects, FreeCall(a, x)
  PROVE  IInv'
<1> USE DEF IInv
<1>a. PICK t \in Threads : t = Owner(a)
  BY Lengths
<1>b. PICK fs : fs = free_set_list[a]
  OBVIOUS
<1>c. PICK new : new = [fs[1] EXCEPT !.size = IF fs[1].size = 0 THEN ssmem_ts_list_len ELSE fs[1].size]
  OBVIOUS
<1>d. PICK r : r = <<new>> \o Tail(fs)
  OBVIOUS
<1>1. /\ UNCHANGED <<ssmem_ts_list, ssmem_ts_list_len, crossing, waiting, version,
                     collected_set_list, available_set_list, released_mem_list, returned, mem>>
      /\ freeing' = [freeing EXCEPT ![t] = <<a, x>>] /\ inUse' = inUse \ {x} /\ x \in inUse
      /\ pc[t] = "idle" /\ holders' = [holders EXCEPT ![x] = Threads]
  BY <1>a DEF FreeCall, registry, barrier, released
<1>2. /\ fs \in Seq(FreeSets) /\ fs # <<>> /\ Len(fs) \in Nat \ {0} /\ Head(fs) = fs[1]
      /\ fs[1] \in FreeSets
  BY <1>b, Entries, ElementOfSeq
<1>3. ssmem_ts_list_len = Length /\ \A u \in Threads : \E i \in 1..Len(ssmem_ts_list) : ssmem_ts_list[i] = u
  BY <1>1, AllRegistered DEF Working
<1>4. new \in FreeSets /\ new.set = fs[1].set /\ new.ts_set = fs[1].ts_set /\ new.size = Length
  BY <1>2, <1>3, <1>c DEF FreeSets
<1>5. \/ /\ free_set_list' = [free_set_list EXCEPT ![a] = r]
         /\ pc' = [pc EXCEPT ![t] = "collect"] /\ cur' = [cur EXCEPT ![t] = ssmem_ts_list]
      \/ /\ free_set_list' = free_set_list /\ cur' = cur
         /\ pc' = [pc EXCEPT ![t] = "put"]
  BY <1>2, <1>a, <1>b, <1>c, <1>d DEF FreeCall
<1>6. /\ r \in Seq(FreeSets) /\ r # <<>> /\ Len(r) = Len(fs) /\ r[1] = new
      /\ \A i \in 2..Len(fs) : r[i] = fs[i]
  BY <1>2, <1>4, <1>d, HeadReplaced
<1>7. TypeOK'
  <2>1. x \in Memories /\ <<a, x>> \in Allocators \X Memories
    BY DEF Memories
  <2>2. holders' \in [Memories -> SUBSET Threads] /\ inUse' \subseteq Memories
        /\ freeing' \in [Threads -> {<<>>} \union (Allocators \X Memories)]
    BY <1>1, <2>1 DEF TypeOK
  <2>3. pc' \in [Threads -> Labels] /\ cur' \in [Threads -> Seq(Threads)]
        /\ free_set_list' \in [Allocators -> Seq(FreeSets) \ {<<>>}]
    <3>1. r \in Seq(FreeSets) \ {<<>>} /\ ssmem_ts_list \in Seq(Threads)
      BY <1>6 DEF TypeOK
    <3>2. pc \in [Threads -> Labels] /\ "collect" \in Labels /\ "put" \in Labels
          /\ cur \in [Threads -> Seq(Threads)]
          /\ free_set_list \in [Allocators -> Seq(FreeSets) \ {<<>>}]
      BY DEF TypeOK, Labels
    <3>3. pc' \in [Threads -> Labels]
      BY <1>5, <3>2
    <3>4. cur' \in [Threads -> Seq(Threads)]
      BY <1>5, <3>1, <3>2
    <3>5. free_set_list' \in [Allocators -> Seq(FreeSets) \ {<<>>}]
      BY <1>5, <3>1, <3>2
    <3> QED
      BY <3>3, <3>4, <3>5
  <2> QED
    BY <1>1, <2>2, <2>3 DEF TypeOK
<1>8. MovesOn
  BY <1>1 DEF MovesOn, TypeOK, Stamps
<1>9. ActsFor(t)
  BY <1>1, <1>5 DEF ActsFor, Working, TypeOK, registry, barrier
<1>10. \A b \in Allocators \ {a} : SameLists(b)
  BY <1>1, <1>5 DEF SameLists, TypeOK
<1>11. /\ Len(free_set_list'[a]) = Len(fs) /\ free_set_list'[a][1].set = fs[1].set
       /\ free_set_list'[a][1].ts_set = fs[1].ts_set
       /\ \A i \in 2..Len(fs) : free_set_list'[a][i] = fs[i]
       /\ pc'[t] = "collect" => free_set_list'[a][1].size = Length
  BY <1>1, <1>4, <1>5, <1>6, <1>b DEF TypeOK
<1>12. ThreadInv(t)'
  <2>1. pc'[t] \in {"collect", "put"} /\ freeing'[t] = <<a, x>>
    BY <1>1, <1>5 DEF TypeOK
  <2>2. <<a, x>>[1] = a /\ <<a, x>>[2] = x /\ <<a, x>> \in Allocators \X Memories
    BY DEF Memories
  <2> QED
    BY <1>11, <1>a, <2>1, <2>2 DEF ThreadInv
<1>13. \A i \in 1..Len(fs) : i = 1 \/ i \in 2..Len(fs)
  BY <1>2
<1>14. SameStamps(a)
  BY <1>1, <1>11, <1>13, <1>b DEF SameStamps
<1>15. StampInv(a)'
  <2>1. ~Collecting(a) /\ ~Stamping(a) /\ Stamping(a)' = Stamping(a)
    BY <1>1, <1>5, <1>a DEF Collecting, Stamping, TypeOK
  <2>2. CASE pc'[t] = "put"
    <3>1. Collecting(a)' = Collecting(a)
      BY <1>a, <2>1, <2>2 DEF Collecting
    <3> QED
      BY <1>7, <1>8, <1>14, <2>1, <3>1, StampInvKept
  <2>3. CASE pc'[t] # "put"
    <3>1. cur'[t] = ssmem_ts_list
      BY <1>5, <2>3 DEF TypeOK
    <3>2. \A u \in Threads : u \in Unread(t)'
      BY <1>1, <1>3, <3>1 DEF Unread
    <3>3. StampInv(a) /\ Collecting(a)'
      BY <1>1, <1>5, <1>a, <2>3 DEF Collecting, TypeOK
    <3>4. StampsArePast(a)'
      <4>1. \A u \in Threads : \A i \in 1..Len(fs) :
              free_set_list'[a][i].ts_set[u] = fs[i].ts_set[u]
        BY <1>11, <1>13
      <4> QED
        BY <1>1, <1>11, <1>b, <3>3, <4>1 DEF StampInv, StampsArePast
    <3>5. FullSetsAreCovered(a)'
      <4>1. \A u \in Threads : \A i \in 2..Len(fs) :
              /\ \A o \in fs[i].set : u \in holders'[o] => version'[u] <= fs[i].ts_set[u]
              /\ NotAfter(fs[i], fs[2], u)
        <5> SUFFICES ASSUME NEW u \in Threads, NEW i \in 2..Len(fs)
            PROVE  /\ \A o \in fs[i].set : u \in holders'[o] => version'[u] <= fs[i].ts_set[u]
                   /\ NotAfter(fs[i], fs[2], u)
          OBVIOUS
        <5>1. /\ \A o \in fs[i].set : StampCovers(o, fs[i], u)
              /\ NotAfter(fs[i], fs[2], u) /\ i \in 1..Len(fs)
          BY <1>2, <1>b, <3>3 DEF StampInv, FullSetsAreCovered
        <5> QED
          BY <1>7, <1>8, <1>b, <5>1, StillCovered, KeptIsNotInUse
      <4>2. \A i \in 2..Len(fs) : free_set_list'[a][i] = fs[i] /\ free_set_list'[a][2] = fs[2]
        BY <1>2, <1>11
      <4> QED
        BY <1>11, <1>a, <3>2, <4>1, <4>2 DEF FullSetsAreCovered, StampCovers, NotAfter, Unread
    <3>6. LastStampedIsYoungest(a)'
      BY <1>a, <3>2, <3>3 DEF LastStampedIsYoungest, Unread
    <3>7. ReleasedAreCovered(a)'
      <4> SUFFICES ASSUME NEW u \in Threads, NEW i \in 1..Len(released_mem_list[a])
                   PROVE  /\ u \in holders'[released_mem_list[a][i].mem] =>
                               version'[u] <= released_mem_list[a][i].ts_set[u]
                          /\ \A j \in i..Len(released_mem_list[a]) :
                               NotAfter(released_mem_list[a][j], released_mem_list[a][i], u)
        BY <1>1 DEF ReleasedAreCovered, StampCovers, NotAfter
      <4>1. /\ StampCovers(released_mem_list[a][i].mem, released_mem_list[a][i], u)
            /\ \A j \in i..Len(released_mem_list[a]) :
                 NotAfter(released_mem_list[a][j], released_mem_list[a][i], u)
        BY <2>1, <3>3 DEF StampInv, ReleasedAreCovered
      <4> QED
        BY <1>7, <1>8, <4>1, StillCovered, KeptIsNotInUse
    <3>8. CollectedIsUnheld(a)'
      <4>1. \A o \in Memories \ inUse : holders[o] = {} => holders'[o] = {}
        BY <1>8 DEF MovesOn
      <4> QED
        BY <1>1, <3>3, <4>1, KeptIsNotInUse DEF StampInv, CollectedIsUnheld
    <3> QED
      BY <3>4, <3>5, <3>6, <3>7, <3>8 DEF StampInv
  <2> QED
    BY <2>2, <2>3
<1>16. PlaceInv'
  <2>1. \A o \in Memories, b \in Allocators, i \in Nat :
          /\ InFree(o, b, i)' = InFree(o, b, i)
          /\ InCollected(o, b, i)' = InCollected(o, b, i)
          /\ InReleased(o, b, i)' = InReleased(o, b, i)
    <3> SUFFICES ASSUME NEW o \in Memories, NEW b \in Allocators, NEW i \in Nat
                 PROVE  InFree(o, b, i)' = InFree(o, b, i)
      BY <1>1 DEF InCollected, InReleased
    <3>1. CASE b = a
      BY <1>11, <1>13, <1>b, <3>1 DEF InFree
    <3>2. CASE b # a
      BY <1>10, <3>2 DEF InFree, SameLists
    <3> QED
      BY <3>1, <3>2
  <2>2. pc'[t] \in {"collect", "put"} /\ freeing'[t] = <<a, x>> /\ <<a, x>>[2] = x
    BY <1>1, <1>5 DEF TypeOK
  <2>3. \A o \in Memories, u \in Threads : InHand(o, u)' <=> InHand(o, u) \/ (o = x /\ u = t)
    BY <1>1, <1>9, <2>2 DEF InHand, ActsFor
  <2>4. \A o \in mem : holders'[o] = holders[o]
    BY <1>1 DEF TypeOK, PlaceInv, OneKindOfPlace, Memories
  <2> QED
    BY <1>1, <2>1, <2>3, <2>4, TakenInHand
<1>17. IdleThreadStopsReclamation'
  BY <1>1, <1>7, <1>8, IdleKept
<1>18. /\ pc[t] \notin {"collect", "stamp"} /\ freeing'[t][1] = a
  BY <1>1 DEF TypeOK
<1> QED
  BY <1>7, <1>8, <1>9, <1>10, <1>12, <1>15, <1>16, <1>17, <1>18, <1>a, WorkStep

(* ssmem_alloc hands out an object of a chunk. *)
LEMMA AllocatesNew ==
  ASSUME IInv, NEW a \in Allocators, NEW x \in Objects, AllocNew(a, x)
  PROVE  IInv'
<1> USE DEF IInv
<1>a. PICK t \in Threads : t = Owner(a)
  BY Lengths
<1>1. /\ UNCHANGED <<ssmem_ts_list, ssmem_ts_list_len, crossing, waiting, version, free_set_list,
                     collected_set_list, available_set_list, released_mem_list, returned, pc,
                     freeing, cur, holders>>
      /\ x \in mem /\ mem' = mem \ {x} /\ inUse' = inUse \union {x}
      /\ pc[t] = "idle"
  BY <1>a DEF AllocNew, registry, barrier, released, sets
<1>2. TypeOK' /\ MovesOn
  BY <1>1 DEF TypeOK, MovesOn, Stamps, Memories
<1>3. ActsFor(t) /\ \A b \in Allocators : SameLists(b) /\ SameStamps(b)
  BY <1>1 DEF ActsFor, SameLists, SameStamps, Working, registry, barrier
<1>4. ThreadInv(t)'
  BY <1>1 DEF ThreadInv
<1>5. StampInv(a)'
  BY <1>1, <1>2, <1>3, StampInvKept DEF Collecting, Stamping, Unread
<1>6. PlaceInv'
  <2>1. \A o, b, i : InFree(o, b, i)' = InFree(o, b, i) /\ InCollected(o, b, i)' = InCollected(o, b, i)
                     /\ InReleased(o, b, i)' = InReleased(o, b, i)
    BY <1>1 DEF InFree, InCollected, InReleased
  <2>2. \A o, u : InHand(o, u)' = InHand(o, u)
    BY <1>1 DEF InHand
  <2>3. \A o : Idle(o)' <=> Idle(o)
    BY <1>1 DEF Idle
  <2>4. \A o \in Memories : PlacedOnce(o)'
    BY <2>1, <2>2 DEF PlaceInv, PlacedOnce
  <2>5. \A o \in Memories : OneKindOfPlace(o)'
    BY <1>1, <2>1, <2>2, <2>3 DEF PlaceInv, OneKindOfPlace, Freed, Collected, Released, Handed
  <2> QED
    BY <1>1, <2>4, <2>5 DEF PlaceInv
<1>7. IdleThreadStopsReclamation'
  BY <1>1, <1>2, IdleKept
<1>8. pc[t] \notin {"collect", "stamp"} /\ pc'[t] \notin {"collect", "stamp"}
  BY <1>1
<1> QED
  BY <1>2, <1>3, <1>4, <1>5, <1>6, <1>7, <1>8, <1>a, WorkStep

(* The first collected set gives up an object; empty, it becomes available.   *)
LEMMA AllocatesCollected ==
  ASSUME IInv, NEW a \in Allocators, NEW x \in Objects, AllocCollected(a, x)
  PROVE  IInv'
<1> USE DEF IInv
<1>a. PICK t \in Threads : t = Owner(a)
  BY Lengths
<1>b. PICK cs : cs = collected_set_list[a]
  OBVIOUS
<1>c. PICK av : av = available_set_list[a]
  OBVIOUS
<1>d. PICK left : left = [cs[1] EXCEPT !.set = @ \ {x}]
  OBVIOUS
<1>e. PICK tail : tail = Tail(cs)
  OBVIOUS
<1>f. PICK pushed : pushed = <<left>> \o av
  OBVIOUS
<1>g. PICK r : r = <<left>> \o tail
  OBVIOUS
<1>1. /\ UNCHANGED <<ssmem_ts_list, ssmem_ts_list_len, crossing, waiting, version, free_set_list,
                     released_mem_list, returned, mem, pc, freeing, cur, holders>>
      /\ pc[t] = "idle" /\ cs # <<>> /\ inUse' = inUse \union {x}
  BY <1>a, <1>b DEF AllocCollected, registry, barrier, released
<1>2. /\ cs \in Seq(FreeSets) /\ Len(cs) \in Nat \ {0} /\ Head(cs) = cs[1] /\ cs[1] \in FreeSets
      /\ av \in Seq(FreeSets) /\ Len(av) \in Nat
      /\ tail \in Seq(FreeSets) /\ Len(tail) = Len(cs) - 1
      /\ \A i \in 1..(Len(cs) - 1) : tail[i] = cs[i + 1]
  BY <1>1, <1>b, <1>c, <1>e, Entries, Popped
<1>3. left \in FreeSets /\ left.set = cs[1].set \ {x} /\ left.ts_set = cs[1].ts_set
  BY <1>2, <1>d DEF FreeSets
<1>4. /\ pushed \in Seq(FreeSets) /\ Len(pushed) = Len(av) + 1 /\ pushed[1] = left
      /\ \A i \in 2..(Len(av) + 1) : pushed[i] = av[i - 1]
  <2>1. av \in Seq(FreeSets) /\ left \in FreeSets
    BY <1>2, <1>3
  <2> QED
    BY <2>1, <1>f, Pushed
<1>5. /\ r \in Seq(FreeSets) /\ Len(r) = Len(cs) /\ r[1] = left
      /\ \A i \in 2..Len(cs) : r[i] = cs[i]
  BY <1>1, <1>2, <1>3, <1>e, <1>g, HeadReplaced
<1>6. /\ x \in cs[1].set
      /\ \/ /\ left.set = {}
            /\ collected_set_list' = [collected_set_list EXCEPT ![a] = tail]
            /\ available_set_list' = [available_set_list EXCEPT ![a] = pushed]
         \/ /\ collected_set_list' = [collected_set_list EXCEPT ![a] = r]
            /\ available_set_list' = available_set_list
  BY <1>2, <1>b, <1>c, <1>d, <1>e, <1>f, <1>g DEF AllocCollected
<1>7. TypeOK'
  <2>1. inUse' \subseteq Memories
    BY <1>1 DEF TypeOK, Memories
  <2>2. collected_set_list' \in [Allocators -> Seq(FreeSets)]
        /\ available_set_list' \in [Allocators -> Seq(FreeSets)]
    <3>1. {tail, r, pushed} \subseteq Seq(FreeSets)
      BY <1>2, <1>4, <1>5
    <3>2. /\ collected_set_list \in [Allocators -> Seq(FreeSets)]
          /\ available_set_list \in [Allocators -> Seq(FreeSets)]
      BY DEF TypeOK
    <3> QED
      BY ZenonT(60), <1>6, <3>1, <3>2
  <2> QED
    BY <1>1, <2>1, <2>2 DEF TypeOK
<1>8. MovesOn
  BY <1>1 DEF MovesOn, TypeOK, Stamps
<1>9. ActsFor(t) /\ \A b \in Allocators \ {a} : SameLists(b)
  BY <1>1, <1>6 DEF ActsFor, SameLists, Working, registry, barrier, TypeOK
<1>10. ThreadInv(t)'
  BY <1>1 DEF ThreadInv
<1>11. \/ /\ left.set = {} /\ collected_set_list'[a] = tail /\ available_set_list'[a] = pushed
       \/ /\ collected_set_list'[a] = r /\ available_set_list'[a] = av
  BY <1>6, <1>c DEF TypeOK
<1>12. /\ \A i \in 1..Len(collected_set_list'[a]) : \E j \in 1..Len(cs) :
            /\ collected_set_list'[a][i].ts_set = cs[j].ts_set
            /\ collected_set_list'[a][i].set \subseteq cs[j].set
       /\ \A i \in 1..Len(available_set_list'[a]) :
            \/ /\ available_set_list'[a][i].ts_set = cs[1].ts_set
               /\ available_set_list'[a][i].set = {}
            \/ \E j \in 1..Len(av) : available_set_list'[a][i] = av[j]
  <2>1. \A i \in 1..Len(tail) : i + 1 \in 1..Len(cs) /\ tail[i] = cs[i + 1]
    BY <1>2
  <2>2. \A i \in 1..Len(r) : i \in 1..Len(cs) /\ r[i].ts_set = cs[i].ts_set /\ r[i].set \subseteq cs[i].set
    BY <1>2, <1>3, <1>5
  <2>3. ASSUME NEW i \in 1..Len(pushed), i # 1
        PROVE  i - 1 \in 1..Len(av) /\ pushed[i] = av[i - 1]
    <3>1. Len(av) \in Nat /\ Len(pushed) = Len(av) + 1
      BY <1>2, <1>4
    <3>2. i \in 2..(Len(av) + 1) /\ i - 1 \in 1..Len(av)
      BY <2>3, <3>1
    <3> QED
      BY <1>4, <3>2
  <2>4. \A i \in 1..Len(collected_set_list'[a]) : \E j \in 1..Len(cs) :
          /\ collected_set_list'[a][i].ts_set = cs[j].ts_set
          /\ collected_set_list'[a][i].set \subseteq cs[j].set
    BY <1>11, <2>1, <2>2
  <2>5. ASSUME left.set = {}, available_set_list'[a] = pushed,
               NEW i \in 1..Len(available_set_list'[a])
        PROVE  \/ /\ available_set_list'[a][i].ts_set = cs[1].ts_set
                  /\ available_set_list'[a][i].set = {}
               \/ \E j \in 1..Len(av) : available_set_list'[a][i] = av[j]
    <3>1. CASE i = 1
      BY <1>3, <1>4, <2>5, <3>1
    <3>2. CASE i # 1
      BY <2>3, <2>5, <3>2
    <3> QED
      BY <3>1, <3>2
  <2> QED
    BY <1>11, <2>4, <2>5
<1>13. StampInv(a)'
  <2>1. /\ ~Collecting(a) /\ ~Stamping(a) /\ ~Collecting(a)' /\ ~Stamping(a)' /\ StampInv(a)
    BY <1>1, <1>a DEF Collecting, Stamping
  <2>2. 1 \in 1..Len(cs)
    BY <1>2
  <2>3. StampsArePast(a)'
    BY <1>1, <1>12, <1>b, <1>c, <2>1, <2>2 DEF StampInv, StampsArePast
  <2>4. FullSetsAreCovered(a)'
    BY <1>1, <2>1 DEF StampInv, FullSetsAreCovered, StampCovers, NotAfter
  <2>5. LastStampedIsYoungest(a)'
    BY <1>1, <1>12, <1>b, <1>c, <2>1, <2>2 DEF StampInv, LastStampedIsYoungest, NotAfter
  <2>6. ReleasedAreCovered(a)'
    BY <1>1, <2>1 DEF StampInv, ReleasedAreCovered, StampCovers, NotAfter
  <2>7. CollectedIsUnheld(a)'
    <3>1. CollectedIsUnheld(a)
      BY <2>1 DEF StampInv
    <3> QED
      BY <1>1, <1>12, <1>b, <1>c, <3>1 DEF CollectedIsUnheld
  <2> QED
    BY <2>3, <2>4, <2>5, <2>6, <2>7 DEF StampInv
<1>14. PlaceInv'
  <2>1. \A o, b, i : /\ InFree(o, b, i)' = InFree(o, b, i)
                     /\ InReleased(o, b, i)' = InReleased(o, b, i)
    BY <1>1 DEF InFree, InReleased
  <2>2. \A o, u : InHand(o, u)' = InHand(o, u)
    BY <1>1 DEF InHand
  <2>3. \A o : Idle(o)' <=> Idle(o) \/ o = x
    BY <1>1 DEF Idle
  <2>4. x \in Memories /\ InCollected(x, a, 1) /\ \A o \in cs[1].set : InCollected(o, a, 1)
    BY <1>2, <1>6, <1>b DEF Memories, InCollected
  <2>5. \A b \in Allocators, i \in Nat : InCollected(x, b, i) => b = a /\ i = 1
    BY <2>4 DEF PlaceInv, PlacedOnce
  <2>6. /\ Collected(x) /\ ~Idle(x) /\ ~Freed(x) /\ ~Released(x) /\ ~Handed(x)
    BY <2>4 DEF PlaceInv, OneKindOfPlace, Collected
  <2>7. \/ /\ \A o \in Memories, b \in Allocators, i \in Nat :
                InCollected(o, b, i)' <=> IF b = a THEN i > 0 /\ InCollected(o, a, i + 1)
                                                  ELSE InCollected(o, b, i)
           /\ \A o : InCollected(o, a, 1) => o = x
        \/ \A o \in Memories, b \in Allocators, i \in Nat :
             InCollected(o, b, i)' <=> InCollected(o, b, i) /\ o # x
    <3>1. ASSUME collected_set_list'[a] = tail, NEW o \in Memories, NEW b \in Allocators, NEW i \in Nat
          PROVE  InCollected(o, b, i)' <=> IF b = a THEN i > 0 /\ InCollected(o, a, i + 1)
                                                    ELSE InCollected(o, b, i)
      <4>1. CASE b = a
        <5>1. i \in 1..Len(tail) <=> i > 0 /\ i + 1 \in 1..Len(cs)
          BY <1>2
        <5>2. i \in 1..Len(tail) => tail[i] = cs[i + 1]
          BY <1>2
        <5> QED
          BY <1>b, <3>1, <4>1, <5>1, <5>2 DEF InCollected
      <4>2. CASE b # a
        BY <1>9, <4>2 DEF InCollected, SameLists
      <4> QED
        BY <4>1, <4>2
    <3>2. ASSUME collected_set_list'[a] = r, NEW o \in Memories, NEW b \in Allocators, NEW i \in Nat
          PROVE  InCollected(o, b, i)' <=> InCollected(o, b, i) /\ o # x
      <4>1. CASE b = a /\ i = 1
        BY <1>2, <1>3, <1>5, <1>b, <3>2, <4>1 DEF InCollected
      <4>2. CASE b = a /\ i # 1
        <5>1. InCollected(o, b, i) => o # x
          BY <2>5, <4>2
        <5>2. i \in 1..Len(cs) => r[i] = cs[i]
          BY <1>2, <1>5, <4>2
        <5> QED
          BY <1>2, <1>5, <1>b, <3>2, <4>2, <5>1, <5>2 DEF InCollected
      <4>3. CASE b # a
        <5>1. InCollected(o, b, i) => o # x
          BY <2>5, <4>3
        <5> QED
          BY <1>9, <4>3, <5>1 DEF InCollected, SameLists
      <4> QED
        BY <4>1, <4>2, <4>3
    <3>3. left.set = {} => \A o : InCollected(o, a, 1) => o = x
      BY <1>2, <1>3, <1>b DEF InCollected
    <3> QED
      BY <1>11, <3>1, <3>2, <3>3
  <2>8. \A o \in Memories, b, c \in Allocators, i, j \in Nat :
          InCollected(o, b, i) /\ InCollected(o, c, j) => b = c /\ i = j
    BY DEF PlaceInv, PlacedOnce
  <2>9. /\ \A o \in Memories, b, c \in Allocators, i, j \in Nat :
             InCollected(o, b, i)' /\ InCollected(o, c, j)' => b = c /\ i = j
        /\ \A b \in Allocators, i \in Nat : ~InCollected(x, b, i)'
        /\ \A o \in Memories \ {x} : Collected(o)' <=> Collected(o)
    <3>1. CASE /\ \A o \in Memories, b \in Allocators, i \in Nat :
                    InCollected(o, b, i)' <=> IF b = a THEN i > 0 /\ InCollected(o, a, i + 1)
                                                      ELSE InCollected(o, b, i)
               /\ \A o : InCollected(o, a, 1) => o = x
      <4>1. ASSUME NEW o \in Memories, NEW b \in Allocators, NEW i \in Nat, InCollected(o, b, i)'
            PROVE  InCollected(o, b, IF b = a THEN i + 1 ELSE i) /\ (b = a => i > 0)
                   /\ (IF b = a THEN i + 1 ELSE i) \in Nat
        BY <3>1, <4>1
      <4>2. ASSUME NEW o \in Memories, NEW b \in Allocators, NEW c \in Allocators,
                   NEW i \in Nat, NEW j \in Nat, InCollected(o, b, i)', InCollected(o, c, j)'
            PROVE  b = c /\ i = j
        <5>1. b = c /\ (IF b = a THEN i + 1 ELSE i) = (IF c = a THEN j + 1 ELSE j)
          BY <2>8, <4>1, <4>2
        <5> QED
          BY <5>1
      <4>3. ASSUME NEW b \in Allocators, NEW i \in Nat, InCollected(x, b, i)'
            PROVE  FALSE
        <5>1. b = a /\ (IF b = a THEN i + 1 ELSE i) = 1 /\ (b = a => i > 0)
          BY <2>4, <2>5, <4>1, <4>3
        <5> QED
          BY <5>1
      <4>4. ASSUME NEW o \in Memories \ {x} PROVE Collected(o)' <=> Collected(o)
        <5>1. Collected(o)' => Collected(o)
          BY <4>1 DEF Collected
        <5>2. ASSUME NEW b \in Allocators, NEW i \in Nat, InCollected(o, b, i)
              PROVE  \E j \in Nat : InCollected(o, b, j)'
          <6>1. CASE b = a
            <7>1. i # 1 /\ i > 0
              BY <3>1, <5>2, <6>1 DEF InCollected
            <7>2. i - 1 \in Nat /\ i - 1 > 0 /\ (i - 1) + 1 = i
              BY <7>1
            <7>3. InCollected(o, b, i - 1)'
              BY <3>1, <5>2, <6>1, <7>2
            <7> QED
              BY <7>2, <7>3
          <6>2. CASE b # a
            BY <3>1, <5>2, <6>2
          <6> QED
            BY <6>1, <6>2
        <5>3. Collected(o) => Collected(o)'
          BY <5>2 DEF Collected
        <5> QED
          BY <5>1, <5>3
      <4> QED
        BY <4>2, <4>3, <4>4
    <3>2. CASE \A o \in Memories, b \in Allocators, i \in Nat :
                 InCollected(o, b, i)' <=> InCollected(o, b, i) /\ o # x
      BY <2>4, <2>8, <3>2 DEF Collected
    <3> QED
      BY <2>7, <3>1, <3>2
  <2>10. \A o \in Memories : PlacedOnce(o)'
    BY <2>1, <2>2, <2>9 DEF PlaceInv, PlacedOnce
  <2>11. ASSUME NEW o \in Memories PROVE OneKindOfPlace(o)'
    <3>1. OneKindOfPlace(o)
      BY DEF PlaceInv
    <3>2. Freed(o)' = Freed(o) /\ Released(o)' = Released(o) /\ Handed(o)' = Handed(o)
      BY <2>1, <2>2 DEF Freed, Released, Handed
    <3>3. CASE o = x
      <4>1. ~Collected(x)'
        BY <2>9 DEF Collected
      <4>2. x \notin mem /\ x \notin returned
        BY <2>6 DEF Idle
      <4> QED
        BY <1>1, <2>3, <2>6, <3>1, <3>2, <3>3, <4>1, <4>2 DEF OneKindOfPlace
    <3>4. CASE o # x
      <4>1. Collected(o)' = Collected(o) /\ Idle(o)' = Idle(o)
        BY <2>3, <2>9, <3>4 DEF Collected, Idle
      <4> QED
        BY <1>1, <3>1, <3>2, <3>4, <4>1 DEF OneKindOfPlace
    <3> QED
      BY <3>3, <3>4
  <2> QED
    BY <1>1, <2>10, <2>11 DEF PlaceInv
<1>15. IdleThreadStopsReclamation'
  <2>1. (\E u \in Threads : version[u] = 0) => collected_set_list[a] = <<>>
    BY DEF IdleThreadStopsReclamation
  <2> QED
    BY <1>1, <1>b, <2>1 DEF IdleThreadStopsReclamation
<1>16. pc[t] \notin {"collect", "stamp"} /\ pc'[t] \notin {"collect", "stamp"}
  BY <1>1
<1> QED
  BY <1>7, <1>8, <1>9, <1>10, <1>13, <1>14, <1>15, <1>16, <1>a, WorkStep

-----------------------------------------------------------------------------
(* ssmem_release. *)

(* The free sets of an allocator that is not stamping one of them. *)
LEMMA SetsKept ==
  ASSUME IInv, TypeOK', MovesOn, NEW a \in Allocators, ~Collecting(a), ~Collecting(a)',
         free_set_list'[a] = free_set_list[a], collected_set_list'[a] = collected_set_list[a],
         available_set_list'[a] = available_set_list[a]
  PROVE  FullSetsAreCovered(a)' /\ LastStampedIsYoungest(a)' /\ CollectedIsUnheld(a)'
<1> USE DEF IInv
<1>1. StampInv(a) /\ Len(free_set_list[a]) \in Nat
  BY Entries
<1>2. FullSetsAreCovered(a)'
  <2>1. ASSUME NEW u \in Threads, NEW i \in 2..Len(free_set_list[a])
        PROVE  /\ \A o \in free_set_list[a][i].set :
                    u \in holders'[o] => version'[u] <= free_set_list[a][i].ts_set[u]
               /\ NotAfter(free_set_list[a][i], free_set_list[a][2], u)
    <3>1. /\ \A o \in free_set_list[a][i].set : StampCovers(o, free_set_list[a][i], u)
          /\ NotAfter(free_set_list[a][i], free_set_list[a][2], u) /\ i \in 1..Len(free_set_list[a])
      BY <1>1 DEF StampInv, FullSetsAreCovered
    <3> QED
      BY <3>1, StillCovered, KeptIsNotInUse
  <2> QED
    BY <2>1 DEF FullSetsAreCovered, StampCovers, NotAfter
<1>3. LastStampedIsYoungest(a)'
  BY <1>1 DEF StampInv, LastStampedIsYoungest, NotAfter
<1>4. CollectedIsUnheld(a)'
  <2>1. \A o \in Memories \ inUse : holders[o] = {} => holders'[o] = {}
    BY DEF MovesOn
  <2> QED
    BY <1>1, <2>1, KeptIsNotInUse DEF StampInv, CollectedIsUnheld
<1> QED
  BY <1>2, <1>3, <1>4

(* ssmem_release puts a block in front of those that wait. *)
LEMMA ReleasesCall ==
  ASSUME IInv, NEW a \in Allocators, NEW x \in Blocks, ReleaseCall(a, x)
  PROVE  IInv'
<1> USE DEF IInv
<1>a. PICK t \in Threads : t = Owner(a)
  BY Lengths
<1>b. PICK rl : rl = released_mem_list[a]
  OBVIOUS
<1>c. PICK new : new = [mem |-> x, ts_set |-> NoStamps, size |-> ssmem_ts_list_len]
  OBVIOUS
<1>d. PICK r : r = <<new>> \o rl
  OBVIOUS
<1>1. /\ UNCHANGED <<ssmem_ts_list, ssmem_ts_list_len, crossing, waiting, version, free_set_list,
                     collected_set_list, available_set_list, returned, mem>>
      /\ freeing' = [freeing EXCEPT ![t] = <<a, x>>] /\ inUse' = inUse \ {x} /\ x \in inUse
      /\ cur' = [cur EXCEPT ![t] = ssmem_ts_list] /\ pc' = [pc EXCEPT ![t] = "stamp"]
      /\ pc[t] = "idle" /\ holders' = [holders EXCEPT ![x] = Threads]
  BY <1>a DEF ReleaseCall, registry, barrier, sets
<1>2. rl \in Seq(ReleasedMem) /\ Len(rl) \in Nat /\ \A i \in 1..Len(rl) : rl[i] \in ReleasedMem
  BY <1>b, Entries
<1>3. ssmem_ts_list_len = Length /\ \A u \in Threads : \E i \in 1..Len(ssmem_ts_list) : ssmem_ts_list[i] = u
  BY <1>1, AllRegistered DEF Working
<1>4. new \in ReleasedMem /\ new.mem = x /\ \A u \in Threads : new.ts_set[u] = 0
  BY <1>3, <1>c DEF ReleasedMem, NoStamps, Stamps
<1>5. released_mem_list' = [released_mem_list EXCEPT ![a] = r]
  BY <1>b, <1>c, <1>d DEF ReleaseCall
<1>6. /\ r \in Seq(ReleasedMem) /\ Len(r) = Len(rl) + 1 /\ r[1] = new /\ r # <<>>
      /\ \A i \in 2..(Len(rl) + 1) : r[i] = rl[i - 1]
  <2>1. rl \in Seq(ReleasedMem) /\ new \in ReleasedMem
    BY <1>2, <1>4
  <2> QED
    BY <2>1, <1>d, Pushed
<1>7. TypeOK'
  <2>1. x \in Memories /\ <<a, x>> \in Allocators \X Memories
    BY DEF Memories
  <2>2. holders' \in [Memories -> SUBSET Threads] /\ inUse' \subseteq Memories
        /\ freeing' \in [Threads -> {<<>>} \union (Allocators \X Memories)]
    BY <1>1, <2>1 DEF TypeOK
  <2>3. pc' \in [Threads -> Labels] /\ cur' \in [Threads -> Seq(Threads)]
    BY <1>1 DEF TypeOK, Labels
  <2>4. released_mem_list' \in [Allocators -> Seq(ReleasedMem)]
    BY <1>5, <1>6 DEF TypeOK
  <2> QED
    BY <1>1, <2>2, <2>3, <2>4 DEF TypeOK
<1>8. MovesOn
  BY <1>1 DEF MovesOn, TypeOK, Stamps
<1>9. ActsFor(t) /\ \A b \in Allocators \ {a} : SameLists(b)
  BY <1>1, <1>5 DEF ActsFor, SameLists, Working, TypeOK, registry, barrier
<1>10. /\ released_mem_list'[a] = r /\ pc'[t] = "stamp" /\ freeing'[t] = <<a, x>>
       /\ cur'[t] = ssmem_ts_list
  BY <1>1, <1>5 DEF TypeOK
<1>11. ThreadInv(t)'
  <2>1. <<a, x>>[1] = a /\ <<a, x>>[2] = x /\ <<a, x>> \in Allocators \X Memories
    BY DEF Memories
  <2> QED
    BY <1>6, <1>10, <1>a, <2>1 DEF ThreadInv
<1>12. StampInv(a)'
  <2>1. /\ ~Collecting(a) /\ ~Stamping(a) /\ ~Collecting(a)' /\ Stamping(a)' /\ StampInv(a)
    BY <1>1, <1>10, <1>a DEF Collecting, Stamping
  <2>2. \A u \in Threads : u \in Unread(t)'
    BY <1>1, <1>3, <1>10 DEF Unread
  <2>3. \A i \in 1..Len(r) : i = 1 \/ (i \in 2..(Len(rl) + 1) /\ i - 1 \in 1..Len(rl) /\ r[i] = rl[i - 1])
    <3>1. \A i \in 1..Len(r) : i = 1 \/ (i \in 2..(Len(rl) + 1) /\ i - 1 \in 1..Len(rl))
      BY <1>2, <1>6
    <3> QED
      BY <1>6, <3>1
  <2>4. StampsArePast(a)'
    <3>1. StampsArePast(a) /\ \A u \in Threads : version[u] \in Nat
      BY <2>1 DEF StampInv, TypeOK, Stamps
    <3>2. \A u \in Threads : \A i \in 1..Len(r) : r[i].ts_set[u] <= version[u]
      <4> SUFFICES ASSUME NEW u \in Threads, NEW i \in 1..Len(r)
                   PROVE  r[i].ts_set[u] <= version[u]
        OBVIOUS
      <4>1. CASE i = 1
        BY <1>4, <1>6, <3>1, <4>1
      <4>2. CASE i # 1
        BY <1>b, <2>3, <3>1, <4>2 DEF StampsArePast
      <4> QED
        BY <4>1, <4>2
    <3> QED
      BY <1>1, <1>10, <3>1, <3>2 DEF StampsArePast
  <2>5. FullSetsAreCovered(a)' /\ LastStampedIsYoungest(a)' /\ CollectedIsUnheld(a)'
    BY <1>1, <1>7, <1>8, <2>1, SetsKept
  <2>6. ReleasedAreCovered(a)'
    <3>1. ASSUME NEW u \in Threads, NEW i \in 1..Len(r), i > 1
          PROVE  /\ u \in holders'[r[i].mem] => version'[u] <= r[i].ts_set[u]
                 /\ \A j \in i..Len(r) : r[j].ts_set[u] <= r[i].ts_set[u]
      <4>1. i - 1 \in 1..Len(rl) /\ r[i] = rl[i - 1]
        BY <2>3, <3>1
      <4>2. /\ StampCovers(rl[i - 1].mem, rl[i - 1], u)
            /\ \A j \in (i - 1)..Len(rl) : NotAfter(rl[j], rl[i - 1], u)
        BY <1>b, <2>1, <4>1 DEF StampInv, ReleasedAreCovered
      <4>3. u \in holders'[r[i].mem] => version'[u] <= r[i].ts_set[u]
        BY <1>7, <1>8, <1>b, <4>1, <4>2, StillCovered, KeptIsNotInUse
      <4>4. ASSUME NEW j \in i..Len(r) PROVE r[j].ts_set[u] <= r[i].ts_set[u]
        <5>1. j \in 1..Len(r) /\ j # 1 /\ j - 1 \in (i - 1)..Len(rl)
          BY <1>2, <1>6, <3>1
        <5> QED
          BY <2>3, <4>1, <4>2, <5>1 DEF NotAfter
      <4> QED
        BY <4>3, <4>4
    <3> QED
      BY <1>10, <1>a, <2>1, <2>2, <3>1 DEF ReleasedAreCovered, StampCovers, NotAfter, Unread
  <2> QED
    BY <2>4, <2>5, <2>6 DEF StampInv
<1>13. PlaceInv'
  <2>1. \A o, b, i : /\ InFree(o, b, i)' = InFree(o, b, i)
                     /\ InCollected(o, b, i)' = InCollected(o, b, i)
    BY <1>1 DEF InFree, InCollected
  <2>2. \A o, u : u \in Threads => InHand(o, u)' = InHand(o, u)
    BY <1>1, <1>9, <1>10 DEF InHand, ActsFor
  <2>3. x \in Memories /\ Idle(x) /\ x \notin mem /\ x \notin returned
    BY <1>1 DEF Memories, Idle, PlaceInv, OneKindOfPlace
  <2>4. ~Freed(x) /\ ~Collected(x) /\ ~Released(x) /\ ~Handed(x)
    BY <2>3 DEF PlaceInv, OneKindOfPlace
  <2>5. ASSUME NEW o \in Memories, NEW b \in Allocators, NEW i \in Nat
        PROVE  InReleased(o, b, i)' <=> \/ b # a /\ InReleased(o, b, i)
                                        \/ b = a /\ i = 1 /\ o = x
                                        \/ b = a /\ i > 1 /\ InReleased(o, a, i - 1)
    <3>1. CASE b # a
      BY <1>9, <3>1 DEF InReleased, SameLists
    <3>2. CASE b = a /\ i = 1
      <4>1. 1 \in 1..Len(r)
        BY <1>2, <1>6
      <4> QED
        BY <1>4, <1>6, <1>10, <3>2, <4>1 DEF InReleased
    <3>3. CASE b = a /\ i > 1
      <4>1. (i \in 1..Len(r) <=> i - 1 \in 1..Len(rl)) /\ (i \in 1..Len(r) => i \in 2..(Len(rl) + 1))
        BY <1>2, <1>6, <3>3
      <4> QED
        BY <1>6, <1>10, <1>b, <3>3, <4>1 DEF InReleased
    <3>4. CASE b = a /\ i = 0
      BY <3>4 DEF InReleased
    <3> QED
      BY <3>1, <3>2, <3>3, <3>4
  <2>6. /\ \A o \in Memories \ {x} : Released(o)' <=> Released(o)
        /\ Released(x)' /\ \A b \in Allocators, i \in Nat : InReleased(x, b, i)' => b = a /\ i = 1
    <3>1. ASSUME NEW o \in Memories \ {x} PROVE Released(o)' => Released(o)
      <4>1. ASSUME NEW b \in Allocators, NEW i \in Nat, InReleased(o, b, i)' PROVE Released(o)
        <5>1. CASE b # a
          BY <2>5, <4>1, <5>1 DEF Released
        <5>2. CASE b = a
          <6>1. InReleased(o, a, i - 1) /\ i - 1 \in Nat
            BY <2>5, <4>1, <5>2
          <6> QED
            BY <6>1 DEF Released
        <5> QED
          BY <5>1, <5>2
      <4> QED
        BY <4>1 DEF Released
    <3>2. ASSUME NEW o \in Memories \ {x} PROVE Released(o) => Released(o)'
      <4>1. ASSUME NEW b \in Allocators, NEW i \in Nat, InReleased(o, b, i)
            PROVE  \E j \in Nat : InReleased(o, b, j)'
        <5>1. CASE b # a
          BY <2>5, <4>1, <5>1
        <5>2. CASE b = a
          <6>1. i \in 1..Len(rl)
            BY <1>b, <4>1, <5>2 DEF InReleased
          <6>2. i + 1 \in Nat /\ i + 1 > 1 /\ (i + 1) - 1 = i
            BY <1>2, <6>1
          <6>3. InReleased(o, b, i + 1)'
            BY <2>5, <4>1, <5>2, <6>2
          <6> QED
            BY <6>2, <6>3
        <5> QED
          BY <5>1, <5>2
      <4> QED
        BY <4>1 DEF Released
    <3>3. InReleased(x, a, 1)'
      BY <2>3, <2>5
    <3>4. ASSUME NEW b \in Allocators, NEW i \in Nat, InReleased(x, b, i)' PROVE b = a /\ i = 1
      <4>1. \A c \in Allocators, j \in Nat : ~InReleased(x, c, j)
        BY <2>4 DEF Released
      <4>2. i > 1 => i - 1 \in Nat
        OBVIOUS
      <4> QED
        BY <2>3, <2>5, <3>4, <4>1, <4>2
    <3> QED
      BY <3>1, <3>2, <3>3, <3>4 DEF Released
  <2>7. ASSUME NEW o \in Memories, NEW b \in Allocators, NEW c \in Allocators, NEW i \in Nat,
               NEW j \in Nat, InReleased(o, b, i)', InReleased(o, c, j)'
        PROVE  b = c /\ i = j
    <3>1. CASE o = x
      BY <2>6, <2>7, <3>1
    <3>2. CASE o # x
      <4>1. /\ InReleased(o, b, IF b = a THEN i - 1 ELSE i) /\ (IF b = a THEN i - 1 ELSE i) \in Nat
            /\ InReleased(o, c, IF c = a THEN j - 1 ELSE j) /\ (IF c = a THEN j - 1 ELSE j) \in Nat
        BY <2>5, <2>7, <3>2
      <4>2. b = c /\ (IF b = a THEN i - 1 ELSE i) = (IF c = a THEN j - 1 ELSE j)
        BY <4>1 DEF PlaceInv, PlacedOnce
      <4> QED
        BY <4>2
    <3> QED
      BY <3>1, <3>2
  <2>8. \A o \in Memories : PlacedOnce(o)'
    BY <2>1, <2>2, <2>7 DEF PlaceInv, PlacedOnce
  <2>9. ASSUME NEW o \in Memories PROVE OneKindOfPlace(o)'
    <3>1. OneKindOfPlace(o)
      BY DEF PlaceInv
    <3>2. Freed(o)' = Freed(o) /\ Collected(o)' = Collected(o) /\ Handed(o)' = Handed(o)
      BY <2>1, <2>2 DEF Freed, Collected, Handed
    <3>3. CASE o = x
      <4>1. ~Idle(x)'
        BY <1>1, <2>3 DEF Idle
      <4> QED
        BY <1>1, <2>3, <2>4, <2>6, <3>1, <3>2, <3>3, <4>1 DEF OneKindOfPlace
    <3>4. CASE o # x
      <4>1. (Released(o)' <=> Released(o)) /\ (Idle(o)' <=> Idle(o))
        BY <1>1, <2>6, <3>4 DEF Idle
      <4> QED
        BY <1>1, <3>1, <3>2, <3>4, <4>1 DEF OneKindOfPlace
    <3> QED
      BY <3>3, <3>4
  <2>10. \A o \in mem' : holders'[o] = {}
    BY <1>1, <2>3 DEF PlaceInv, TypeOK, Memories
  <2> QED
    BY <2>8, <2>9, <2>10 DEF PlaceInv
<1>14. IdleThreadStopsReclamation'
  BY <1>1, <1>7, <1>8, IdleKept
<1>15. pc[t] \notin {"collect", "stamp"} /\ freeing'[t][1] = a
  BY <1>1, <1>10
<1> QED
  BY <1>7, <1>8, <1>9, <1>11, <1>12, <1>13, <1>14, <1>15, <1>a, WorkStep

(* One timestamp is read into the stamps of the released block. *)
LEMMA StampsOne ==
  ASSUME IInv, NEW t \in Threads, StampOne(t)
  PROVE  IInv'
<1> USE DEF IInv
<1>a. pc[t] = "stamp" /\ cur[t] # <<>>
  BY DEF StampOne
<1>b. PICK a \in Allocators : a = freeing[t][1]
  BY <1>a, AtWork
<1>c. PICK rl : rl = released_mem_list[a]
  OBVIOUS
<1>d. cur'[t] = Tail(cur[t])
  BY DEF StampOne, TypeOK
<1>e. PICK v \in Threads : v = Head(cur[t])
  BY <1>a, <1>d, OneRead
<1>f. PICK new : new = [rl[1] EXCEPT !.ts_set[v] = version[v]]
  OBVIOUS
<1>g. PICK r : r = <<new>> \o Tail(rl)
  OBVIOUS
<1>h. PICK rest : rest = Tail(cur[t])
  OBVIOUS
<1>1. /\ UNCHANGED <<ssmem_ts_list, ssmem_ts_list_len, crossing, waiting, version, free_set_list,
                     collected_set_list, available_set_list, returned, mem, inUse, pc, freeing,
                     holders>>
      /\ Owner(a) = t /\ rl # <<>>
  <2>1. rl # <<>>
    BY <1>a, <1>b, <1>c DEF ThreadInv
  <2> QED
    BY <1>a, <1>b, <2>1, AtWork DEF StampOne, registry, barrier, sets
<1>2. rl \in Seq(ReleasedMem) /\ Len(rl) \in Nat \ {0} /\ Head(rl) = rl[1] /\ rl[1] \in ReleasedMem
      /\ \A i \in 1..Len(rl) : rl[i] \in ReleasedMem
  BY <1>1, <1>c, Entries, Popped
<1>3. /\ new \in ReleasedMem /\ new.mem = rl[1].mem /\ new.ts_set[v] = version[v]
      /\ \A u \in Threads : u # v => new.ts_set[u] = rl[1].ts_set[u]
  BY <1>2, <1>f DEF ReleasedMem, Stamps, TypeOK
<1>4. /\ released_mem_list' = [released_mem_list EXCEPT ![a] = r]
      /\ cur' = [cur EXCEPT ![t] = rest]
  BY <1>2, <1>b, <1>c, <1>e, <1>f, <1>g, <1>h DEF StampOne
<1>5. /\ r \in Seq(ReleasedMem) /\ r # <<>> /\ Len(r) = Len(rl) /\ r[1] = new
      /\ \A i \in 2..Len(rl) : r[i] = rl[i]
  BY <1>1, <1>2, <1>3, <1>g, HeadReplaced
<1>6. /\ rest \in Seq(Threads)
      /\ \A u : u \notin Unread(t)' => u = v \/ u \notin Unread(t)
  BY <1>a, <1>d, <1>e, <1>h, OneRead
<1>7. TypeOK'
  BY <1>1, <1>4, <1>5, <1>6 DEF TypeOK
<1>8. MovesOn
  BY <1>1 DEF MovesOn, TypeOK, Stamps
<1>9. ActsFor(t) /\ \A b \in Allocators \ {a} : SameLists(b)
  BY <1>1, <1>4, <1>a DEF ActsFor, SameLists, Working, TypeOK, registry, barrier
<1>10. released_mem_list'[a] = r
  BY <1>4 DEF TypeOK
<1>11. ThreadInv(t)'
  <2>1. freeing[t] \in Allocators \X Memories
    BY <1>a DEF ThreadInv
  <2> QED
    BY <1>1, <1>5, <1>10, <1>a, <1>b, <2>1 DEF ThreadInv
<1>12. \A i \in 1..Len(rl) : i = 1 \/ i \in 2..Len(rl)
  BY <1>2
<1>13. StampInv(a)'
  <2>1. /\ ~Collecting(a) /\ Stamping(a) /\ ~Collecting(a)' /\ Stamping(a)' /\ StampInv(a)
    BY <1>1, <1>a, <1>b DEF Collecting, Stamping
  <2>2. /\ \A u \in Threads : version[u] \in Nat
        /\ \A u \in Threads : \A i \in 1..Len(rl) : rl[i].ts_set[u] \in Nat /\ rl[i].ts_set[u] <= version[u]
    BY <1>2, <1>c, <2>1, StampsAreNumbers DEF StampInv, StampsArePast, TypeOK, Stamps
  <2>3. StampsArePast(a)'
    <3>1. \A u \in Threads : \A i \in 1..Len(rl) : r[i].ts_set[u] <= version[u]
      <4> SUFFICES ASSUME NEW u \in Threads, NEW i \in 1..Len(rl)
                   PROVE  r[i].ts_set[u] <= version[u]
        OBVIOUS
      <4>1. CASE i = 1
        BY <1>3, <1>5, <2>2, <4>1
      <4>2. CASE i # 1
        BY <1>5, <1>12, <2>2, <4>2
      <4> QED
        BY <4>1, <4>2
    <3> QED
      BY <1>1, <1>5, <1>10, <2>1, <3>1 DEF StampInv, StampsArePast
  <2>4. FullSetsAreCovered(a)' /\ LastStampedIsYoungest(a)' /\ CollectedIsUnheld(a)'
    BY <1>1, <1>7, <1>8, <2>1, SetsKept
  <2>5. ReleasedAreCovered(a)'
    <3> SUFFICES ASSUME NEW u \in Threads, NEW i \in 1..Len(rl), i > 1 \/ u \notin Unread(t)'
                 PROVE  /\ u \in holders[r[i].mem] => version[u] <= r[i].ts_set[u]
                        /\ \A j \in i..Len(rl) : r[j].ts_set[u] <= r[i].ts_set[u]
      BY <1>1, <1>5, <1>10, <2>1 DEF ReleasedAreCovered, StampCovers, NotAfter, Unread
    <3>1. i > 1 \/ u \notin Unread(t) =>
            /\ u \in holders[rl[i].mem] => version[u] <= rl[i].ts_set[u]
            /\ \A j \in i..Len(rl) : rl[j].ts_set[u] <= rl[i].ts_set[u]
      BY <1>1, <1>c, <2>1 DEF StampInv, ReleasedAreCovered, StampCovers, NotAfter
    <3>2. CASE i > 1
      <4>1. r[i] = rl[i] /\ \A j \in i..Len(rl) : j \in 2..Len(rl) /\ r[j] = rl[j]
        BY <1>2, <1>5, <3>2
      <4> QED
        BY <3>1, <3>2, <4>1
    <3>3. CASE i = 1 /\ u = v
      <4>1. \A j \in 1..Len(rl) : r[j].ts_set[u] <= version[u]
        BY <1>1, <1>5, <1>10, <2>3, <3>3 DEF StampsArePast
      <4> QED
        BY <1>3, <1>5, <2>2, <3>3, <4>1
    <3>4. CASE i = 1 /\ u # v
      <4>1. u \notin Unread(t)
        BY <1>6, <3>4
      <4>2. \A j \in 1..Len(rl) : r[j].ts_set[u] = rl[j].ts_set[u]
        BY <1>3, <1>5, <1>12, <3>4
      <4> QED
        BY <1>3, <1>5, <3>1, <3>4, <4>1, <4>2
    <3> QED
      BY <3>2, <3>3, <3>4
  <2> QED
    BY <2>3, <2>4, <2>5 DEF StampInv
<1>14. PlaceInv'
  <2>1. \A o, b, i : /\ InFree(o, b, i)' = InFree(o, b, i)
                     /\ InCollected(o, b, i)' = InCollected(o, b, i)
    BY <1>1 DEF InFree, InCollected
  <2>2. \A o, u : InHand(o, u)' = InHand(o, u)
    BY <1>1 DEF InHand
  <2>3. ASSUME NEW o \in Memories, NEW b \in Allocators, NEW i \in Nat
        PROVE  InReleased(o, b, i)' = InReleased(o, b, i)
    <3>1. \A j \in 1..Len(rl) : r[j].mem = rl[j].mem
      BY <1>3, <1>5, <1>12
    <3>2. CASE b = a
      BY <1>5, <1>10, <1>c, <3>1, <3>2 DEF InReleased
    <3>3. CASE b # a
      BY <1>9, <3>3 DEF InReleased, SameLists
    <3> QED
      BY <3>2, <3>3
  <2> QED
    BY <1>1, <2>1, <2>2, <2>3, SamePlaces
<1>15. IdleThreadStopsReclamation'
  BY <1>1, <1>7, <1>8, IdleKept
<1>16. freeing[t][1] = a /\ freeing'[t][1] = a
  BY <1>1, <1>b
<1> QED
  BY <1>1, <1>7, <1>8, <1>9, <1>11, <1>13, <1>14, <1>15, <1>16, WorkStep

-----------------------------------------------------------------------------
(* ssmem_mem_reclaim. *)

(* What is older than stamps that are younger for every thread, nobody holds. *)
LEMMA OlderBlocksAreUnheld ==
  ASSUME IInv, NEW a \in Allocators, ssmem_ts_list_len = Length, ReleasedIsNewer(a)
  PROVE  LET rl == released_mem_list[a]
         IN  /\ Len(rl) > 1
             /\ \A i \in 2..Len(rl) : holders[rl[i].mem] = {}
             /\ \A u \in Threads : version[u] > 0
<1> USE DEF IInv
<1>1. PICK rl : rl = released_mem_list[a]
  OBVIOUS
<1>2. /\ Len(rl) \in Nat /\ Len(rl) > 1 /\ StampInv(a)
      /\ \A u \in Threads : rl[1].ts_set[u] > rl[2].ts_set[u]
  BY <1>1, Entries, Lengths DEF ReleasedIsNewer, ssmem_ts_compare
<1>3. \A i \in 1..Len(rl) : \A u \in Threads :
        rl[i].ts_set[u] \in Nat /\ version[u] \in Nat /\ rl[i].ts_set[u] <= version[u]
  BY <1>1, <1>2, Entries, StampsAreNumbers DEF StampInv, StampsArePast, TypeOK, Stamps
<1>4. ASSUME NEW i \in 2..Len(rl), NEW u \in Threads PROVE u \notin holders[rl[i].mem]
  <2>1. i \in 1..Len(rl) /\ i > 1 /\ 2 \in 1..Len(rl) /\ i \in 2..Len(rl) /\ 1 \in 1..Len(rl) /\ 2 > 1
    BY <1>2
  <2>2. u \in holders[rl[i].mem] => version[u] <= rl[i].ts_set[u]
    BY <1>1, <1>2, <2>1 DEF StampInv, ReleasedAreCovered, StampCovers
  <2>3. rl[i].ts_set[u] <= rl[2].ts_set[u]
    BY <1>1, <1>2, <2>1 DEF StampInv, ReleasedAreCovered, NotAfter
  <2> QED
    BY <1>2, <1>3, <2>1, <2>2, <2>3
<1>5. \A i \in 2..Len(rl) : holders[rl[i].mem] = {}
  <2>1. \A i \in 2..Len(rl) : i \in 1..Len(rl)
    BY <1>2
  <2>2. \A i \in 1..Len(rl) : rl[i].mem \in Memories
    BY <1>1, KeptIsNotInUse
  <2> QED
    BY <1>4, <2>1, <2>2 DEF TypeOK
<1>6. \A u \in Threads : version[u] > 0
  <2>1. 1 \in 1..Len(rl) /\ 2 \in 1..Len(rl)
    BY <1>2
  <2> QED
    BY <1>2, <1>3, <2>1
<1> QED
  BY <1>1, <1>2, <1>5, <1>6

(* When the set in front is newer than the next for all threads, all behind it are free of holders. *)
LEMMA OlderSetsAreUnheld ==
  ASSUME IInv, NEW a \in Allocators, ssmem_ts_list_len = Length, SetIsNewer(a)
  PROVE  LET fs == free_set_list[a]
         IN  /\ Len(fs) > 1
             /\ \A i \in 2..Len(fs) : \A o \in fs[i].set : holders[o] = {}
             /\ \A u \in Threads : version[u] > 0 /\ fs[1].ts_set[u] > fs[2].ts_set[u]
<1> USE DEF IInv
<1>1. PICK fs : fs = free_set_list[a]
  OBVIOUS
<1>2. /\ Len(fs) \in Nat /\ Len(fs) > 1 /\ StampInv(a)
      /\ \A u \in Threads : fs[1].ts_set[u] > fs[2].ts_set[u]
  BY <1>1, Entries, Lengths DEF SetIsNewer, ssmem_ts_compare
<1>3. \A i \in 1..Len(fs) : \A u \in Threads :
        fs[i].ts_set[u] \in Nat /\ version[u] \in Nat /\ fs[i].ts_set[u] <= version[u]
  BY <1>1, <1>2, Entries, StampsAreNumbers DEF StampInv, StampsArePast, TypeOK, Stamps
<1>4. ASSUME NEW i \in 2..Len(fs), NEW o \in fs[i].set, NEW u \in Threads PROVE u \notin holders[o]
  <2>1. i \in 1..Len(fs) /\ 2 \in 1..Len(fs) /\ 1 \in 1..Len(fs)
    BY <1>2
  <2>2. (u \in holders[o] => version[u] <= fs[i].ts_set[u]) /\ fs[i].ts_set[u] <= fs[2].ts_set[u]
    BY <1>1, <1>2 DEF StampInv, FullSetsAreCovered, StampCovers, NotAfter
  <2> QED
    BY <1>2, <1>3, <2>1, <2>2
<1>5. \A i \in 2..Len(fs) : \A o \in fs[i].set : holders[o] = {}
  <2>1. \A i \in 2..Len(fs) : i \in 1..Len(fs)
    BY <1>2
  <2>2. \A i \in 1..Len(fs) : \A o \in fs[i].set : o \in Memories
    BY <1>1, KeptIsNotInUse
  <2> QED
    BY <1>4, <2>1, <2>2 DEF TypeOK
<1>6. \A u \in Threads : version[u] > 0
  <2>1. 1 \in 1..Len(fs) /\ 2 \in 1..Len(fs)
    BY <1>2
  <2> QED
    BY <1>2, <1>3, <2>1
<1> QED
  BY <1>1, <1>2, <1>5, <1>6

(* Unless it is being stamped, the latest set has no younger stamps: it is an *)
(* old one filled again, or was not stamped at all.                          *)
LEMMA UnstampedIsNotNewer ==
  ASSUME IInv, NEW a \in Allocators, ssmem_ts_list_len = Length, ~Collecting(a)
  PROVE  ~SetIsNewer(a)
<1> SUFFICES ASSUME SetIsNewer(a) PROVE FALSE
  OBVIOUS
<1>1. PICK fs : fs = free_set_list[a]
  OBVIOUS
<1>2. Len(fs) > 1 /\ Len(fs) \in Nat /\ \A u \in Threads : fs[1].ts_set[u] > fs[2].ts_set[u]
  BY <1>1, OlderSetsAreUnheld, Entries DEF IInv
<1>3. PICK u \in Threads : u = Owner(a)
  BY Lengths
<1>4. 1 \in 1..Len(fs) /\ 2 \in 1..Len(fs) /\ Len(fs) >= 2
  BY <1>2
<1>5. fs[1].ts_set[u] <= fs[2].ts_set[u]
  BY <1>1, <1>4 DEF IInv, StampInv, LastStampedIsYoungest, NotAfter
<1>6. fs[1].ts_set[u] \in Nat /\ fs[2].ts_set[u] \in Nat
  BY <1>1, <1>4, Entries, StampsAreNumbers DEF IInv
<1> QED
  BY <1>2, <1>5, <1>6

(* Reclamation moves the sets after the first to the n collected ones if K,   *)
(* and gives the blocks after the first back if R; push new sets come first.  *)
ReclaimMoves(a, K, R, push, n) ==
  /\ \A o \in Memories, u \in Threads : InHand(o, u)' = InHand(o, u)
  /\ \A o \in Memories :
       o \in returned' <=> \/ o \in returned
                           \/ R /\ \E i \in Nat : i > 1 /\ InReleased(o, a, i)
  /\ \A o \in Memories, b \in Allocators, i \in Nat :
       /\ InReleased(o, b, i)' <=> InReleased(o, b, i) /\ (b = a /\ R => i = 1)
       /\ InFree(o, b, i)' <=> IF b = a THEN /\ i > push /\ InFree(o, a, i - push)
                                             /\ K => i - push = 1
                                        ELSE InFree(o, b, i)
       /\ InCollected(o, b, i)' <=> \/ InCollected(o, b, i)
                                    \/ b = a /\ K /\ i > n /\ InFree(o, a, i - n + 1)

(* ssmem_mem_reclaim moves whole runs, and leaves each object in one place. *)
LEMMA ReclaimPlaces ==
  ASSUME IInv, NEW a \in Allocators, NEW K \in BOOLEAN, NEW R \in BOOLEAN, NEW push \in {0, 1},
         NEW n \in Nat, ReclaimMoves(a, K, R, push, n),
         UNCHANGED <<mem, inUse, holders>>
  PROVE  PlaceInv'
<1> USE DEF IInv, ReclaimMoves
<1>1. ASSUME NEW o \in Memories, NEW b \in Allocators, NEW i \in Nat, InFree(o, b, i)'
      PROVE  /\ InFree(o, b, IF b = a THEN i - push ELSE i)
             /\ (IF b = a THEN i - push ELSE i) \in Nat
             /\ b = a /\ K => i - push = 1
  BY <1>1
<1>2. ASSUME NEW o \in Memories, NEW b \in Allocators, NEW i \in Nat, InCollected(o, b, i)'
      PROVE  \/ InCollected(o, b, i)
             \/ b = a /\ K /\ InFree(o, a, i - n + 1) /\ i - n + 1 \in Nat /\ i - n + 1 > 1
  BY <1>2
<1>3. ASSUME NEW o \in Memories PROVE Freed(o)' => Freed(o)
  BY <1>1 DEF Freed
<1>4. ASSUME NEW o \in Memories PROVE Collected(o)' => Collected(o) \/ Freed(o)
  BY <1>2 DEF Freed, Collected
<1>5. ASSUME NEW o \in Memories PROVE Released(o)' => Released(o)
  BY DEF Released
<1>6. ASSUME NEW o \in Memories
      PROVE  /\ Idle(o) => Idle(o)'
             /\ Idle(o)' => Idle(o) \/ Released(o)
             /\ o \in returned' => o \in returned \/ Released(o)
  BY DEF Idle, Released
<1>7. ASSUME NEW o \in Memories PROVE PlacedOnce(o)'
  <2>0. PlacedOnce(o) /\ (Freed(o) => ~Collected(o))
    BY DEF PlaceInv, OneKindOfPlace
  <2>1. ASSUME NEW b \in Allocators, NEW c \in Allocators, NEW i \in Nat, NEW j \in Nat,
               InFree(o, b, i)', InFree(o, c, j)'
        PROVE  b = c /\ i = j
    <3>1. b = c /\ (IF b = a THEN i - push ELSE i) = (IF c = a THEN j - push ELSE j)
      BY <1>1, <2>0, <2>1 DEF PlacedOnce
    <3> QED
      BY <3>1
  <2>2. ASSUME NEW b \in Allocators, NEW c \in Allocators, NEW i \in Nat, NEW j \in Nat,
               InCollected(o, b, i)', InCollected(o, c, j)'
        PROVE  b = c /\ i = j
    <3>1. CASE InCollected(o, b, i) /\ InCollected(o, c, j)
      BY <2>0, <3>1 DEF PlacedOnce
    <3>2. CASE ~InCollected(o, b, i) /\ ~InCollected(o, c, j)
      <4>1. b = a /\ c = a /\ i - n + 1 = j - n + 1
        BY <1>2, <2>0, <2>2, <3>2 DEF PlacedOnce
      <4> QED
        BY <4>1
    <3>3. CASE InCollected(o, b, i) /\ ~InCollected(o, c, j)
      BY <1>2, <2>0, <2>2, <3>3 DEF Freed, Collected
    <3>4. CASE ~InCollected(o, b, i) /\ InCollected(o, c, j)
      BY <1>2, <2>0, <2>2, <3>4 DEF Freed, Collected
    <3> QED
      BY <3>1, <3>2, <3>3, <3>4
  <2> QED
    BY <2>0, <2>1, <2>2 DEF PlacedOnce
<1>8. ASSUME NEW o \in Memories PROVE OneKindOfPlace(o)'
  <2>1. OneKindOfPlace(o) /\ PlacedOnce(o)
    BY DEF PlaceInv
  <2>2. Handed(o)' = Handed(o)
    BY DEF Handed
  <2>3. ~(Freed(o)' /\ Collected(o)')
    <3> SUFFICES ASSUME Freed(o)', Collected(o)' PROVE FALSE
      OBVIOUS
    <3>1. Freed(o) /\ ~Collected(o)
      BY <1>3, <2>1 DEF OneKindOfPlace
    <3>2. PICK b \in Allocators, i \in Nat : InFree(o, b, i)'
      BY DEF Freed
    <3>3. PICK c \in Allocators, j \in Nat : InCollected(o, c, j)'
      BY DEF Collected
    <3>4. K /\ InFree(o, a, j - n + 1) /\ j - n + 1 \in Nat /\ j - n + 1 > 1
      BY <1>2, <3>1, <3>3 DEF Collected
    <3>5. InFree(o, b, IF b = a THEN i - push ELSE i) /\ (IF b = a THEN i - push ELSE i) \in Nat
          /\ (b = a => i - push = 1)
      BY <1>1, <3>2, <3>4
    <3>6. b = a /\ j - n + 1 = (IF b = a THEN i - push ELSE i)
      BY <2>1, <3>4, <3>5 DEF PlacedOnce
    <3> QED
      BY <3>4, <3>5, <3>6
  <2>4. ~(Idle(o)' /\ Released(o)')
    <3> SUFFICES ASSUME Idle(o)', Released(o)' PROVE FALSE
      OBVIOUS
    <3>1. Released(o) /\ ~Idle(o)
      BY <1>5, <2>1 DEF OneKindOfPlace
    <3>2. PICK i \in Nat : R /\ i > 1 /\ InReleased(o, a, i)
      BY <3>1 DEF Idle
    <3>3. PICK c \in Allocators, j \in Nat : InReleased(o, c, j)'
      BY DEF Released
    <3>4. InReleased(o, c, j) /\ (c = a => j = 1)
      BY <3>2, <3>3
    <3> QED
      BY <2>1, <3>2, <3>4 DEF PlacedOnce
  <2>5. Freed(o) => Freed(o)' \/ Collected(o)'
    <3> SUFFICES ASSUME NEW b \in Allocators, NEW i \in Nat, InFree(o, b, i)
                 PROVE  Freed(o)' \/ Collected(o)'
      BY DEF Freed
    <3>0. i > 0
      BY DEF InFree
    <3>1. CASE b # a
      BY <3>1 DEF Freed
    <3>2. CASE b = a /\ (K => i = 1)
      <4>1. i + push \in Nat /\ i + push > push /\ (i + push) - push = i
        BY <3>0
      <4>2. InFree(o, a, i + push)'
        BY <3>2, <4>1
      <4> QED
        BY <4>1, <4>2 DEF Freed
    <3>3. CASE b = a /\ K /\ i # 1
      <4>1. i + n - 1 \in Nat /\ i + n - 1 > n /\ (i + n - 1) - n + 1 = i
        BY <3>0, <3>3
      <4>2. InCollected(o, a, i + n - 1)'
        BY <3>3, <4>1
      <4> QED
        BY <4>1, <4>2 DEF Collected
    <3> QED
      BY <3>1, <3>2, <3>3
  <2>6. Collected(o) => Collected(o)'
    BY DEF Collected
  <2>7. Released(o) => Released(o)' \/ Idle(o)'
    <3> SUFFICES ASSUME NEW b \in Allocators, NEW i \in Nat, InReleased(o, b, i)
                 PROVE  Released(o)' \/ Idle(o)'
      BY DEF Released
    <3>0. i > 0
      BY DEF InReleased
    <3>1. CASE b = a /\ R /\ i > 1
      BY <3>1 DEF Idle
    <3>2. CASE ~(b = a /\ R /\ i > 1)
      BY <3>0, <3>2 DEF Released
    <3> QED
      BY <3>1, <3>2
  <2> QED
    BY <1>3, <1>4, <1>5, <1>6, <2>1, <2>2, <2>3, <2>4, <2>5, <2>6, <2>7 DEF OneKindOfPlace, Idle
<1> QED
  BY <1>7, <1>8 DEF PlaceInv

(* What reclamation leaves of the released blocks. *)
LEMMA BlocksReclaimed ==
  ASSUME IInv, NEW a \in Allocators, ssmem_ts_list_len = Length, ssmem_mem_reclaim(a)
  PROVE  LET rl == released_mem_list[a]
             R == ReleasedIsNewer(a)
         IN  /\ released_mem_list' \in [Allocators -> Seq(ReleasedMem)]
             /\ returned' \subseteq Blocks
             /\ Len(released_mem_list'[a]) = IF R THEN 1 ELSE Len(rl)
             /\ \A i \in 1..Len(released_mem_list'[a]) :
                  i \in 1..Len(rl) /\ released_mem_list'[a][i] = rl[i]
             /\ \A b \in Allocators \ {a} : released_mem_list'[b] = released_mem_list[b]
             /\ \A o \in Memories :
                  o \in returned' <=> \/ o \in returned
                                      \/ R /\ \E i \in Nat : i > 1 /\ InReleased(o, a, i)
             /\ \A o \in Memories, b \in Allocators, i \in Nat :
                  InReleased(o, b, i)' <=> InReleased(o, b, i) /\ (b = a /\ R => i = 1)
             /\ (\E u \in Threads : version[u] = 0) => returned' = {}
<1> USE DEF IInv
<1>1. PICK rl : rl = released_mem_list[a]
  OBVIOUS
<1>2. rl \in Seq(ReleasedMem) /\ Len(rl) \in Nat /\ \A i \in 1..Len(rl) : rl[i] \in ReleasedMem
  BY <1>1, Entries
<1>3. (\E u \in Threads : version[u] = 0) => returned = {}
  BY DEF IdleThreadStopsReclamation
<1>4. CASE ReleasedIsNewer(a)
  <2>1. PICK r : r = <<rl[1]>>
    OBVIOUS
  <2>2. Len(rl) > 1 /\ \A u \in Threads : version[u] > 0
    BY <1>1, <1>4, OlderBlocksAreUnheld
  <2>3. rl[1] \in ReleasedMem /\ 1 \in 1..Len(rl) /\ rl # <<>>
    BY <1>2, <2>2, EmptySeq
  <2>4. Head(rl) = rl[1]
    BY <1>2, <2>3, Popped
  <2>5. r \in Seq(ReleasedMem) /\ Len(r) = 1 /\ r[1] = rl[1]
    BY <2>1, <2>3
  <2>6. /\ released_mem_list' = [released_mem_list EXCEPT ![a] = r]
        /\ returned' = returned \union {rl[i].mem : i \in 2..Len(rl)}
    BY <1>1, <1>4, <2>1, <2>4 DEF ssmem_mem_reclaim
  <2>7. \A i \in 2..Len(rl) : i \in 1..Len(rl) /\ i \in Nat /\ i > 1 /\ rl[i].mem \in Blocks
    BY <1>2 DEF ReleasedMem
  <2>8. released_mem_list' \in [Allocators -> Seq(ReleasedMem)] /\ returned' \subseteq Blocks
        /\ released_mem_list'[a] = r
        /\ \A b \in Allocators \ {a} : released_mem_list'[b] = released_mem_list[b]
    BY <2>5, <2>6, <2>7 DEF TypeOK
  <2>9. \A i \in 1..Len(r) : i = 1
    BY <2>5
  <2>10. ASSUME NEW o \in Memories
         PROVE  o \in returned' <=> o \in returned \/ \E i \in Nat : i > 1 /\ InReleased(o, a, i)
    <3>1. \A i \in Nat : i > 1 /\ InReleased(o, a, i) <=> i \in 2..Len(rl) /\ o = rl[i].mem
      BY <1>1, <1>2 DEF InReleased
    <3> QED
      BY <2>6, <2>7, <3>1
  <2>11. ASSUME NEW o \in Memories, NEW b \in Allocators, NEW i \in Nat
         PROVE  InReleased(o, b, i)' <=> InReleased(o, b, i) /\ (b = a => i = 1)
    <3>1. CASE b = a
      <4>0. i \in 1..Len(r) <=> i = 1
        BY <2>5
      <4>1. InReleased(o, b, i)' <=> i = 1 /\ o = rl[1].mem
        BY <2>5, <2>8, <3>1, <4>0 DEF InReleased
      <4>2. InReleased(o, b, i) /\ i = 1 <=> i = 1 /\ o = rl[1].mem
        BY <1>1, <2>3, <3>1 DEF InReleased
      <4> QED
        BY <3>1, <4>1, <4>2
    <3>2. CASE b # a
      BY <2>8, <3>2 DEF InReleased
    <3> QED
      BY <3>1, <3>2
  <2>12. ~\E u \in Threads : version[u] = 0
    BY <2>2
  <2> QED
    BY <1>1, <1>4, <2>3, <2>5, <2>8, <2>9, <2>10, <2>11, <2>12
<1>5. CASE ~ReleasedIsNewer(a)
  <2>1. released_mem_list' = released_mem_list /\ returned' = returned
    BY <1>5 DEF ssmem_mem_reclaim, released
  <2>2. \A o \in Memories, b \in Allocators, i \in Nat : InReleased(o, b, i)' = InReleased(o, b, i)
    BY <2>1 DEF InReleased
  <2> QED
    BY <1>3, <1>5, <2>1, <2>2 DEF TypeOK
<1> QED
  BY <1>4, <1>5

(* ssmem_free reclaims, and puts a new set in front. *)
LEMMA Reclaims ==
  ASSUME IInv, NEW t \in Threads, Reclaim(t)
  PROVE  IInv'
<1> USE DEF IInv
<1>a. pc[t] = "collect" /\ cur[t] = <<>>
  BY DEF Reclaim
<1>b. PICK a \in Allocators : a = freeing[t][1]
  BY <1>a, AtWork
<1>c. PICK fs : fs = free_set_list[a]
  OBVIOUS
<1>d. PICK cs : cs = collected_set_list[a]
  OBVIOUS
<1>e. PICK av : av = available_set_list[a]
  OBVIOUS
<1>f. PICK K \in BOOLEAN : K <=> SetIsNewer(a)
  OBVIOUS
<1>g. PICK got : got = ssmem_free_set_get_avail(a)
  OBVIOUS
<1>h. PICK kept : kept = KeptSets(a)
  OBVIOUS
<1>i. PICK moved : moved = ReclaimedSets(a)
  OBVIOUS
<1>j. PICK r : r = <<got>> \o kept
  OBVIOUS
<1>k. PICK col : col = cs \o moved
  OBVIOUS
<1>l. PICK left : left = IF av # <<>> THEN Tail(av) ELSE av
  OBVIOUS
<1>1. /\ UNCHANGED <<ssmem_ts_list, ssmem_ts_list_len, crossing, waiting, version, mem, inUse,
                     freeing, cur, holders>>
      /\ pc' = [pc EXCEPT ![t] = "put"] /\ Owner(a) = t /\ ssmem_mem_reclaim(a)
      /\ free_set_list' = [free_set_list EXCEPT ![a] = r]
      /\ collected_set_list' = [collected_set_list EXCEPT ![a] = col]
      /\ available_set_list' = [available_set_list EXCEPT ![a] = left]
  <2>1. /\ UNCHANGED <<ssmem_ts_list, ssmem_ts_list_len, crossing, waiting, version, mem, inUse,
                       freeing, cur, holders>>
        /\ pc' = [pc EXCEPT ![t] = "put"] /\ Owner(a) = t /\ ssmem_mem_reclaim(a)
        /\ free_set_list' = [free_set_list EXCEPT ![a] = <<got>> \o kept]
    BY <1>a, <1>b, <1>g, <1>h, AtWork DEF Reclaim, registry, barrier
  <2>2. collected_set_list' = [collected_set_list EXCEPT ![a] = cs \o moved]
    BY <2>1, <1>d, <1>i DEF ssmem_mem_reclaim
  <2>3. available_set_list' = [available_set_list EXCEPT ![a] = left]
    BY <1>b, <1>e, <1>l DEF Reclaim
  <2> QED
    BY <1>j, <1>k, <2>1, <2>2, <2>3
<1>2. /\ fs \in Seq(FreeSets) /\ fs # <<>> /\ Len(fs) \in Nat \ {0} /\ Head(fs) = fs[1]
      /\ \A i \in 1..Len(fs) : fs[i] \in FreeSets
      /\ cs \in Seq(FreeSets) /\ Len(cs) \in Nat /\ \A i \in 1..Len(cs) : cs[i] \in FreeSets
      /\ av \in Seq(FreeSets) /\ Len(av) \in Nat /\ \A i \in 1..Len(av) : av[i] \in FreeSets
      /\ 1 \in 1..Len(fs)
  BY <1>c, <1>d, <1>e, Entries
<1>3. /\ ssmem_ts_list_len = Length
      /\ Collecting(a) /\ ~Stamping(a) /\ ~Collecting(a)' /\ ~Stamping(a)'
      /\ \A u : u \notin Unread(t)
      /\ StampInv(a) /\ \A u \in Threads : version[u] \in Nat
  <2>1. pc'[t] = "put"
    BY <1>1 DEF TypeOK
  <2>2. Collecting(a) /\ ~Stamping(a) /\ ~Collecting(a)' /\ ~Stamping(a)'
    BY <1>1, <1>a, <1>b, <2>1 DEF Collecting, Stamping
  <2>3. \A u : u \notin Unread(t)
    BY <1>a DEF Unread
  <2>4. ssmem_ts_list_len = Length
    BY <1>a, AllRegistered DEF Working
  <2> QED
    BY <2>2, <2>3, <2>4 DEF TypeOK, Stamps
<1>4. /\ got \in FreeSets /\ got.set = {}
      /\ \/ \A u \in Threads : got.ts_set[u] = 0
         \/ 1 \in 1..Len(av) /\ got.ts_set = av[1].ts_set
  <2>1. CASE av = <<>>
    BY <1>e, <1>g, <2>1, Lengths
       DEF ssmem_free_set_get_avail, ssmem_free_set_new, FreeSets, Stamps, NoStamps
  <2>2. CASE av # <<>>
    <3>1. 1 \in 1..Len(av) /\ got = av[1]
      BY <1>2, <1>e, <1>g, <2>2, Popped DEF ssmem_free_set_get_avail
    <3> QED
      BY <1>2, <1>3, <1>e, <3>1 DEF StampInv, CollectedIsUnheld
  <2> QED
    BY <2>1, <2>2
<1>5. /\ kept \in Seq(FreeSets) /\ Len(kept) = IF K THEN 1 ELSE Len(fs)
      /\ \A i \in 1..Len(kept) : i \in 1..Len(fs) /\ kept[i] = fs[i]
  BY <1>2, <1>c, <1>f, <1>h DEF KeptSets
<1>6. /\ moved \in Seq(FreeSets) /\ Len(moved) = IF K THEN Len(fs) - 1 ELSE 0
      /\ \A i \in 1..Len(moved) : K /\ i + 1 \in 2..Len(fs) /\ moved[i] = fs[i + 1]
  BY <1>2, <1>c, <1>f, <1>i, Popped DEF ReclaimedSets
<1>7. /\ r \in Seq(FreeSets) /\ r # <<>> /\ Len(r) = Len(kept) + 1 /\ r[1] = got
      /\ \A i \in 2..(Len(kept) + 1) : r[i] = kept[i - 1]
  <2>1. kept \in Seq(FreeSets) /\ got \in FreeSets
    BY <1>4, <1>5
  <2> QED
    BY <2>1, <1>j, Pushed
<1>8. /\ col \in Seq(FreeSets) /\ Len(col) = Len(cs) + Len(moved)
      /\ \A i \in 1..(Len(cs) + Len(moved)) :
           col[i] = IF i <= Len(cs) THEN cs[i] ELSE moved[i - Len(cs)]
  <2>1. cs \in Seq(FreeSets) /\ moved \in Seq(FreeSets)
    BY <1>2, <1>6
  <2> QED
    BY <2>1, <1>k, ConcatProperties
<1>9. left \in Seq(FreeSets)
      /\ \A i \in 1..Len(left) : \E j \in 1..Len(av) : left[i] = av[j]
  <2>1. CASE av = <<>>
    BY <1>2, <1>l, <2>1
  <2>2. CASE av # <<>>
    <3>1. left \in Seq(FreeSets) /\ Len(left) = Len(av) - 1
          /\ \A i \in 1..(Len(av) - 1) : left[i] = av[i + 1]
      BY <1>2, <1>l, <2>2, Popped
    <3>2. \A i \in 1..(Len(av) - 1) : i + 1 \in 1..Len(av)
      BY <1>2
    <3> QED
      BY <3>1, <3>2
  <2> QED
    BY <2>1, <2>2
<1>10. /\ \A i \in 1..Len(r) : i = 1 \/ (i - 1 \in 1..Len(kept) /\ i - 1 \in 1..Len(fs) /\ r[i] = fs[i - 1])
       /\ Len(r) >= 2 /\ r[2] = fs[1]
  <2>1. Len(kept) \in Nat \ {0}
    BY <1>2, <1>5
  <2>2. \A i \in 1..Len(r) : i # 1 => i \in 2..(Len(kept) + 1) /\ i - 1 \in 1..Len(kept)
    BY <1>7, <2>1
  <2>3. 2 \in 2..(Len(kept) + 1) /\ 1 \in 1..Len(kept)
    BY <2>1
  <2>4. r[2] = fs[1]
    BY <1>5, <1>7, <2>3
  <2> QED
    BY <1>5, <1>7, <2>1, <2>2, <2>4
<1>11. \A i \in 1..Len(col) : \/ i \in 1..Len(cs) /\ col[i] = cs[i]
                              \/ /\ i > Len(cs) /\ K /\ i - Len(cs) + 1 \in 2..Len(fs)
                                 /\ col[i] = fs[i - Len(cs) + 1]
  <2> SUFFICES ASSUME NEW i \in 1..Len(col)
      PROVE  \/ i \in 1..Len(cs) /\ col[i] = cs[i]
             \/ /\ i > Len(cs) /\ K /\ i - Len(cs) + 1 \in 2..Len(fs)
                /\ col[i] = fs[i - Len(cs) + 1]
    OBVIOUS
  <2>1. i \in 1..(Len(cs) + Len(moved)) /\ Len(moved) \in Nat
    BY <1>2, <1>6, <1>8
  <2>2. CASE i <= Len(cs)
    BY <1>2, <1>8, <2>1, <2>2
  <2>3. CASE i > Len(cs)
    <3>1. i - Len(cs) \in 1..Len(moved)
      BY <1>2, <2>1, <2>3
    <3>2. col[i] = moved[i - Len(cs)]
      BY <1>2, <1>8, <2>1, <2>3
    <3> QED
      BY <1>6, <2>3, <3>1, <3>2
  <2> QED
    BY <1>2, <2>2, <2>3
<1>12. /\ released_mem_list' \in [Allocators -> Seq(ReleasedMem)] /\ returned' \subseteq Blocks
       /\ \A b \in Allocators \ {a} : released_mem_list'[b] = released_mem_list[b]
       /\ \A i \in 1..Len(released_mem_list'[a]) :
            i \in 1..Len(released_mem_list[a]) /\ released_mem_list'[a][i] = released_mem_list[a][i]
  BY <1>1, <1>3, BlocksReclaimed
<1>13. TypeOK'
  BY <1>1, <1>7, <1>8, <1>9, <1>12 DEF TypeOK, Labels
<1>14. MovesOn
  BY <1>1 DEF MovesOn, TypeOK, Stamps
<1>15. ActsFor(t) /\ \A b \in Allocators \ {a} : SameLists(b)
  BY <1>1, <1>12, <1>a DEF ActsFor, SameLists, Working, TypeOK, registry, barrier
<1>16. /\ free_set_list'[a] = r /\ collected_set_list'[a] = col /\ available_set_list'[a] = left
       /\ pc'[t] = "put" /\ freeing'[t] = freeing[t]
  BY <1>1 DEF TypeOK
<1>17. ThreadInv(t)'
  BY <1>16, <1>a DEF ThreadInv
<1>18. StampInv(a)'
  <2>1. /\ \A u \in Threads : \A i \in 1..Len(fs) : fs[i].ts_set[u] \in Nat /\ fs[i].ts_set[u] <= version[u]
        /\ \A u \in Threads : \A i \in 1..Len(cs) : cs[i].ts_set[u] \in Nat /\ cs[i].ts_set[u] <= version[u]
        /\ \A u \in Threads : \A i \in 1..Len(av) : av[i].ts_set[u] \in Nat /\ av[i].ts_set[u] <= version[u]
        /\ \A u \in Threads : \A i \in 1..Len(released_mem_list[a]) :
             released_mem_list[a][i].ts_set[u] <= version[u]
    BY <1>2, <1>3, <1>c, <1>d, <1>e, StampsAreNumbers DEF StampInv, StampsArePast
  <2>2. \A u \in Threads :
          /\ \A i \in 1..Len(fs) : fs[i].ts_set[u] <= fs[1].ts_set[u]
          /\ \A i \in 1..Len(cs) : cs[i].ts_set[u] <= fs[1].ts_set[u]
          /\ \A i \in 1..Len(av) : av[i].ts_set[u] <= fs[1].ts_set[u]
    BY <1>1, <1>2, <1>3, <1>c, <1>d, <1>e DEF StampInv, LastStampedIsYoungest, NotAfter
  <2>3. \A u \in Threads : got.ts_set[u] <= fs[1].ts_set[u] /\ fs[1].ts_set[u] <= version[u]
                           /\ got.ts_set[u] <= version[u]
    BY <1>2, <1>3, <1>4, <2>1, <2>2
  <2>4. \A u \in Threads :
          /\ \A i \in 1..Len(r) : r[i].ts_set[u] <= fs[1].ts_set[u] /\ r[i].ts_set[u] <= version[u]
          /\ \A i \in 1..Len(col) : col[i].ts_set[u] <= fs[1].ts_set[u] /\ col[i].ts_set[u] <= version[u]
          /\ \A i \in 1..Len(left) : left[i].ts_set[u] <= fs[1].ts_set[u] /\ left[i].ts_set[u] <= version[u]
    <3> SUFFICES ASSUME NEW u \in Threads
        PROVE  /\ \A i \in 1..Len(r) : r[i].ts_set[u] <= fs[1].ts_set[u] /\ r[i].ts_set[u] <= version[u]
               /\ \A i \in 1..Len(col) : col[i].ts_set[u] <= fs[1].ts_set[u] /\ col[i].ts_set[u] <= version[u]
               /\ \A i \in 1..Len(left) : left[i].ts_set[u] <= fs[1].ts_set[u] /\ left[i].ts_set[u] <= version[u]
      OBVIOUS
    <3>1. ASSUME NEW i \in 1..Len(r)
          PROVE  r[i].ts_set[u] <= fs[1].ts_set[u] /\ r[i].ts_set[u] <= version[u]
      <4>1. CASE i = 1
        BY <1>7, <2>3, <4>1
      <4>2. CASE i # 1
        BY <1>10, <2>1, <2>2, <4>2
      <4> QED
        BY <4>1, <4>2
    <3>2. ASSUME NEW i \in 1..Len(col)
          PROVE  col[i].ts_set[u] <= fs[1].ts_set[u] /\ col[i].ts_set[u] <= version[u]
      <4>1. CASE i \in 1..Len(cs) /\ col[i] = cs[i]
        BY <2>1, <2>2, <4>1
      <4>2. CASE i - Len(cs) + 1 \in 2..Len(fs) /\ col[i] = fs[i - Len(cs) + 1]
        <5>1. i - Len(cs) + 1 \in 1..Len(fs)
          BY <1>2, <4>2
        <5> QED
          BY <2>1, <2>2, <4>2, <5>1
      <4> QED
        BY <1>11, <4>1, <4>2
    <3>3. ASSUME NEW i \in 1..Len(left)
          PROVE  left[i].ts_set[u] <= fs[1].ts_set[u] /\ left[i].ts_set[u] <= version[u]
      BY <1>9, <2>1, <2>2
    <3> QED
      BY <3>1, <3>2, <3>3
  <2>5. StampsArePast(a)'
    BY <1>1, <1>12, <1>16, <2>1, <2>4 DEF StampsArePast
  <2>6. FullSetsAreCovered(a)'
    <3>1. ASSUME NEW u \in Threads, NEW i \in 1..Len(fs), NEW o \in fs[i].set
          PROVE  u \in holders[o] => version[u] <= fs[i].ts_set[u]
      <4>1. CASE i = 1
        BY <1>1, <1>3, <1>c, <3>1, <4>1 DEF StampInv, FullSetsAreCovered, StampCovers
      <4>2. CASE i # 1
        <5>1. i \in 2..Len(fs)
          BY <1>2, <4>2
        <5> QED
          BY <1>3, <1>c, <3>1, <5>1 DEF StampInv, FullSetsAreCovered, StampCovers
      <4> QED
        BY <4>1, <4>2
    <3>2. \A i \in 2..Len(r) : i \in 1..Len(r) /\ i - 1 \in 1..Len(fs) /\ r[i] = fs[i - 1]
      BY <1>5, <1>7, <1>10
    <3> QED
      BY SMTT(30), <1>1, <1>3, <1>10, <1>16, <2>4, <3>1, <3>2 DEF FullSetsAreCovered, StampCovers, NotAfter
  <2>7. LastStampedIsYoungest(a)'
    BY <1>3, <1>10, <1>16, <2>4 DEF LastStampedIsYoungest, NotAfter
  <2>8. ReleasedAreCovered(a)'
    <3>1. \A i \in 1..Len(released_mem_list'[a]) : \A j \in i..Len(released_mem_list'[a]) :
            j \in i..Len(released_mem_list[a]) /\ released_mem_list'[a][j] = released_mem_list[a][j]
      <4>1. Len(released_mem_list'[a]) \in Nat
        BY <1>12, LenProperties
      <4>2. ASSUME NEW i \in 1..Len(released_mem_list'[a]), NEW j \in i..Len(released_mem_list'[a])
            PROVE  j \in i..Len(released_mem_list[a]) /\ released_mem_list'[a][j] = released_mem_list[a][j]
        <5>1. j \in 1..Len(released_mem_list'[a])
          BY <4>1, <4>2
        <5> QED
          BY <1>12, <5>1
      <4> QED
        BY <4>2
    <3>2. \A u \in Threads : \A i \in 1..Len(released_mem_list[a]) :
            /\ u \in holders[released_mem_list[a][i].mem] => version[u] <= released_mem_list[a][i].ts_set[u]
            /\ \A j \in i..Len(released_mem_list[a]) :
                 released_mem_list[a][j].ts_set[u] <= released_mem_list[a][i].ts_set[u]
      BY <1>3 DEF StampInv, ReleasedAreCovered, StampCovers, NotAfter
    <3> QED
      BY <1>1, <1>12, <3>1, <3>2 DEF ReleasedAreCovered, StampCovers, NotAfter
  <2>9. CollectedIsUnheld(a)'
    <3>1. CollectedIsUnheld(a)
      BY <1>3 DEF StampInv
    <3>2. ASSUME NEW i \in 1..Len(col), NEW o \in col[i].set PROVE holders[o] = {}
      <4>1. CASE i \in 1..Len(cs) /\ col[i] = cs[i]
        BY <1>d, <3>1, <3>2, <4>1 DEF CollectedIsUnheld
      <4>2. CASE K /\ i - Len(cs) + 1 \in 2..Len(fs) /\ col[i] = fs[i - Len(cs) + 1]
        BY <1>3, <1>c, <1>f, <3>2, <4>2, OlderSetsAreUnheld
      <4> QED
        BY <1>11, <4>1, <4>2
    <3>3. \A i \in 1..Len(left) : left[i].set = {}
      BY <1>9, <1>e, <3>1 DEF CollectedIsUnheld
    <3> QED
      BY <1>1, <1>16, <3>2, <3>3 DEF CollectedIsUnheld
  <2> QED
    BY <2>5, <2>6, <2>7, <2>8, <2>9 DEF StampInv
<1>19. PlaceInv'
  <2>1. PICK R \in BOOLEAN : R <=> ReleasedIsNewer(a)
    OBVIOUS
  <2>2. /\ \A o \in Memories :
             o \in returned' <=> \/ o \in returned
                                 \/ R /\ \E i \in Nat : i > 1 /\ InReleased(o, a, i)
        /\ \A o \in Memories, b \in Allocators, i \in Nat :
             InReleased(o, b, i)' <=> InReleased(o, b, i) /\ (b = a /\ R => i = 1)
    BY <1>1, <1>3, <2>1, BlocksReclaimed
  <2>3. \A o \in Memories, u \in Threads : InHand(o, u)' = InHand(o, u)
    BY <1>1, <1>15, <1>16, <1>a DEF InHand, ActsFor
  <2>4. ASSUME NEW o \in Memories, NEW b \in Allocators, NEW i \in Nat
        PROVE  InFree(o, b, i)' <=> IF b = a THEN /\ i > 1 /\ InFree(o, a, i - 1)
                                                  /\ K => i - 1 = 1
                                             ELSE InFree(o, b, i)
    <3>1. CASE b # a
      BY <1>15, <3>1 DEF InFree, SameLists
    <3>2. CASE b = a /\ i <= 1
      <4>1. i = 0 \/ i = 1
        BY <3>2
      <4> QED
        BY <1>4, <1>7, <1>16, <3>2, <4>1 DEF InFree
    <3>3. CASE b = a /\ i > 1
      <4>1. Len(r) = Len(kept) + 1 /\ Len(kept) = (IF K THEN 1 ELSE Len(fs)) /\ Len(fs) \in Nat \ {0}
        BY <1>2, <1>5, <1>7
      <4>2. i \in 1..Len(r) <=> i - 1 \in 1..Len(fs) /\ (K => i - 1 = 1)
        BY <3>3, <4>1
      <4>3. i \in 1..Len(r) => r[i] = fs[i - 1]
        BY <1>10, <3>3
      <4> QED
        BY <1>16, <1>c, <3>3, <4>2, <4>3 DEF InFree
    <3> QED
      BY <3>1, <3>2, <3>3
  <2>5. ASSUME NEW o \in Memories, NEW b \in Allocators, NEW i \in Nat
        PROVE  InCollected(o, b, i)' <=> \/ InCollected(o, b, i)
                                         \/ b = a /\ K /\ i > Len(cs) /\ InFree(o, a, i - Len(cs) + 1)
    <3>1. CASE b # a
      BY <1>15, <3>1 DEF InCollected, SameLists
    <3>0. InCollected(o, a, i) <=> i \in 1..Len(cs) /\ o \in cs[i].set
      BY <1>d DEF InCollected
    <3>2. CASE b = a /\ i <= Len(cs)
      <4>1. i \in 1..Len(col) <=> i \in 1..Len(cs)
        BY <1>2, <1>6, <1>8, <3>2
      <4>2. i \in 1..Len(cs) => col[i] = cs[i]
        BY <1>2, <1>11, <3>2, <4>1
      <4>3. InCollected(o, a, i)' <=> i \in 1..Len(cs) /\ o \in cs[i].set
        BY <1>16, <4>1, <4>2 DEF InCollected
      <4>4. ~(i > Len(cs))
        BY <1>2, <3>2
      <4> QED
        BY <3>0, <3>2, <4>3, <4>4
    <3>3. CASE b = a /\ i > Len(cs)
      <4>1. i \in 1..Len(col) <=> K /\ i - Len(cs) + 1 \in 1..Len(fs)
        BY <1>2, <1>6, <1>8, <3>3
      <4>2. i \in 1..Len(col) => col[i] = fs[i - Len(cs) + 1]
        BY <1>2, <1>11, <3>3
      <4>3. i \notin 1..Len(cs)
        BY <1>2, <3>3
      <4>4. i - Len(cs) + 1 \in Nat
        BY <1>2, <3>3
      <4>5. InFree(o, a, i - Len(cs) + 1) <=>
              i - Len(cs) + 1 \in 1..Len(fs) /\ o \in fs[i - Len(cs) + 1].set
        BY <1>c, <4>4 DEF InFree
      <4>6. InCollected(o, a, i)' <=> i \in 1..Len(col) /\ o \in col[i].set
        BY <1>16 DEF InCollected
      <4> QED
        BY <3>0, <3>3, <4>1, <4>2, <4>3, <4>5, <4>6
    <3> QED
      BY <1>2, <3>1, <3>2, <3>3
  <2>6. ReclaimMoves(a, K, R, 1, Len(cs))
    BY <2>2, <2>3, <2>4, <2>5 DEF ReclaimMoves
  <2> QED
    BY <1>1, <1>2, <2>6, ReclaimPlaces
<1>20. IdleThreadStopsReclamation'
  <2> SUFFICES ASSUME \E u \in Threads : version[u] = 0
               PROVE  returned' = {} /\ \A b \in Allocators : collected_set_list'[b] = <<>>
    BY <1>1 DEF IdleThreadStopsReclamation
  <2>1. returned' = {} /\ ~K /\ \A b \in Allocators : collected_set_list[b] = <<>>
    BY <1>1, <1>3, <1>f, BlocksReclaimed, OlderSetsAreUnheld DEF IdleThreadStopsReclamation
  <2>2. Len(cs) = 0 /\ Len(moved) = 0
    BY <1>6, <1>d, <2>1
  <2>3. col = <<>>
    BY <1>8, <2>2, EmptySeq
  <2> QED
    BY <1>15, <1>16, <2>1, <2>3 DEF SameLists
<1>21. freeing[t][1] = a /\ pc'[t] \notin {"collect", "stamp"}
  BY <1>16, <1>b
<1> QED
  BY <1>1, <1>13, <1>14, <1>15, <1>17, <1>18, <1>19, <1>20, <1>21, WorkStep

(* Here no set is stamped, so that none is reclaimed. *)
LEMMA ReleasesDone ==
  ASSUME IInv, NEW t \in Threads, ReleaseDone(t)
  PROVE  IInv'
<1> USE DEF IInv
<1>a. pc[t] = "stamp" /\ cur[t] = <<>>
  BY DEF ReleaseDone
<1>b. PICK a \in Allocators : a = freeing[t][1]
  BY <1>a, AtWork
<1>c. PICK rl : rl = released_mem_list[a]
  OBVIOUS
<1>d. PICK n : n = Len(collected_set_list[a])
  OBVIOUS
<1>1. /\ Owner(a) = t /\ ssmem_ts_list_len = Length
      /\ ~Collecting(a) /\ Stamping(a) /\ StampInv(a) /\ \A u : u \notin Unread(t)
  <2>1. Owner(a) = t /\ ssmem_ts_list_len = Length
    BY <1>a, <1>b, AtWork, AllRegistered DEF Working
  <2>2. ~Collecting(a) /\ Stamping(a)
    BY <1>a, <1>b, <2>1 DEF Collecting, Stamping
  <2> QED
    BY <1>a, <2>1, <2>2 DEF Unread
<1>2. ~SetIsNewer(a)
  BY <1>1, UnstampedIsNotNewer
<1>3. /\ UNCHANGED <<ssmem_ts_list, ssmem_ts_list_len, crossing, waiting, version,
                     available_set_list, mem, inUse, cur, holders>>
      /\ freeing' = [freeing EXCEPT ![t] = <<>>] /\ pc' = [pc EXCEPT ![t] = "idle"]
      /\ ssmem_mem_reclaim(a) \/ UNCHANGED released
  BY <1>b DEF ReleaseDone, registry, barrier
<1>4. free_set_list' = free_set_list /\ collected_set_list' = collected_set_list
  <2>1. CASE ssmem_mem_reclaim(a) /\ free_set_list' = [free_set_list EXCEPT ![a] = KeptSets(a)]
    <3>1. KeptSets(a) = free_set_list[a] /\ ReclaimedSets(a) = <<>>
      BY <1>2 DEF KeptSets, ReclaimedSets
    <3>2. collected_set_list[a] \o <<>> = collected_set_list[a]
      BY Entries, ConcatEmptySeq
    <3>3. collected_set_list' = [collected_set_list EXCEPT ![a] = collected_set_list[a]]
      BY <2>1, <3>1, <3>2 DEF ssmem_mem_reclaim
    <3> QED
      BY <2>1, <3>1, <3>3 DEF TypeOK
  <2>2. CASE UNCHANGED <<released, collected_set_list, free_set_list>>
    BY <2>2
  <2> QED
    BY <1>b, <2>1, <2>2 DEF ReleaseDone
<1>5. PICK R \in BOOLEAN :
        /\ released_mem_list' \in [Allocators -> Seq(ReleasedMem)]
        /\ returned' \subseteq Blocks
        /\ \A i \in 1..Len(released_mem_list'[a]) :
             i \in 1..Len(rl) /\ released_mem_list'[a][i] = rl[i]
        /\ \A b \in Allocators \ {a} : released_mem_list'[b] = released_mem_list[b]
        /\ \A o \in Memories :
             o \in returned' <=> \/ o \in returned
                                 \/ R /\ \E i \in Nat : i > 1 /\ InReleased(o, a, i)
        /\ \A o \in Memories, b \in Allocators, i \in Nat :
             InReleased(o, b, i)' <=> InReleased(o, b, i) /\ (b = a /\ R => i = 1)
        /\ (\E u \in Threads : version[u] = 0) => returned' = {}
  <2>1. CASE ssmem_mem_reclaim(a)
    <3>1. ReleasedIsNewer(a) \in BOOLEAN
      BY DEF ReleasedIsNewer, ssmem_ts_compare
    <3> QED
      BY <1>1, <1>c, <2>1, <3>1, BlocksReclaimed
  <2>2. CASE UNCHANGED released
    <3>1. released_mem_list' = released_mem_list /\ returned' = returned
      BY <2>2 DEF released
    <3>2. \A o, b, i : InReleased(o, b, i)' = InReleased(o, b, i)
      BY <3>1 DEF InReleased
    <3>3. (\E u \in Threads : version[u] = 0) => returned = {}
      BY DEF IdleThreadStopsReclamation
    <3> WITNESS FALSE \in BOOLEAN
    <3> QED
      BY <1>c, <3>1, <3>2, <3>3 DEF TypeOK
  <2> QED
    BY <1>3, <2>1, <2>2
<1>6. TypeOK'
  BY <1>3, <1>4, <1>5 DEF TypeOK, Labels, Registering
<1>7. MovesOn
  BY <1>3 DEF MovesOn, TypeOK, Stamps
<1>8. ActsFor(t) /\ \A b \in Allocators \ {a} : SameLists(b)
  BY <1>3, <1>4, <1>5, <1>a DEF ActsFor, SameLists, Working, TypeOK, registry, barrier
<1>9. pc'[t] = "idle"
  BY <1>3 DEF TypeOK
<1>10. ThreadInv(t)'
  BY <1>9 DEF ThreadInv
<1>11. StampInv(a)'
  <2>1. ~Collecting(a)' /\ ~Stamping(a)'
    BY <1>1, <1>9 DEF Collecting, Stamping
  <2>2. FullSetsAreCovered(a)' /\ LastStampedIsYoungest(a)' /\ CollectedIsUnheld(a)'
    BY <1>1, <1>3, <1>4, <1>6, <1>7, <2>1, SetsKept
  <2>3. StampsArePast(a)'
    BY <1>1, <1>3, <1>4, <1>5, <1>c DEF StampInv, StampsArePast
  <2>4. ReleasedAreCovered(a)'
    <3>1. \A i \in 1..Len(released_mem_list'[a]) : \A j \in i..Len(released_mem_list'[a]) :
            j \in i..Len(rl) /\ released_mem_list'[a][j] = rl[j]
      <4>1. Len(released_mem_list'[a]) \in Nat
        BY <1>5, LenProperties
      <4>2. ASSUME NEW i \in 1..Len(released_mem_list'[a]), NEW j \in i..Len(released_mem_list'[a])
            PROVE  j \in i..Len(rl) /\ released_mem_list'[a][j] = rl[j]
        <5>1. j \in 1..Len(released_mem_list'[a])
          BY <4>1, <4>2
        <5> QED
          BY <1>5, <5>1
      <4> QED
        BY <4>2
    <3>2. \A u \in Threads : \A i \in 1..Len(rl) :
            /\ u \in holders[rl[i].mem] => version[u] <= rl[i].ts_set[u]
            /\ \A j \in i..Len(rl) : rl[j].ts_set[u] <= rl[i].ts_set[u]
      BY <1>1, <1>c DEF StampInv, ReleasedAreCovered, StampCovers, NotAfter
    <3> QED
      BY <1>3, <1>5, <3>1, <3>2 DEF ReleasedAreCovered, StampCovers, NotAfter
  <2> QED
    BY <2>2, <2>3, <2>4 DEF StampInv
<1>12. PlaceInv'
  <2>1. \A o \in Memories, u \in Threads : InHand(o, u)' = InHand(o, u)
    BY <1>3, <1>8, <1>9, <1>a DEF InHand, ActsFor
  <2>2. ASSUME NEW o \in Memories, NEW b \in Allocators, NEW i \in Nat
        PROVE  /\ InFree(o, b, i)' <=> IF b = a THEN /\ i > 0 /\ InFree(o, a, i - 0)
                                                     /\ FALSE => i - 0 = 1
                                                ELSE InFree(o, b, i)
               /\ InCollected(o, b, i)' <=> \/ InCollected(o, b, i)
                                            \/ b = a /\ FALSE /\ i > n /\ InFree(o, a, i - n + 1)
    <3>1. i - 0 = i /\ (InFree(o, b, i) => i > 0)
      BY DEF InFree
    <3>2. InFree(o, b, i)' = InFree(o, b, i) /\ InCollected(o, b, i)' = InCollected(o, b, i)
      BY <1>4 DEF InFree, InCollected
    <3> QED
      BY <3>1, <3>2
  <2>3. ReclaimMoves(a, FALSE, R, 0, n)
    BY <1>5, <2>1, <2>2 DEF ReclaimMoves
  <2>4. n \in Nat
    BY <1>d, Entries
  <2> QED
    BY <1>3, <2>3, <2>4, ReclaimPlaces
<1>13. IdleThreadStopsReclamation'
  BY <1>3, <1>4, <1>5 DEF IdleThreadStopsReclamation
<1>14. freeing[t][1] = a /\ pc'[t] \notin {"collect", "stamp"}
  BY <1>9, <1>b
<1> QED
  BY <1>1, <1>6, <1>7, <1>8, <1>10, <1>11, <1>12, <1>13, <1>14, WorkStep

-----------------------------------------------------------------------------
(* IInv is about the variables of the specification. *)
LEMMA Stutters ==
  ASSUME IInv, UNCHANGED vars
  PROVE  IInv'
<1> USE DEF IInv, vars, registry, barrier, sets, released
<1>1. TypeOK' /\ RegistryIsRight' /\ IdleThreadStopsReclamation'
  BY DEF TypeOK, RegistryIsRight, IdleThreadStopsReclamation
<1>2. \A t \in Threads : ThreadInv(t)'
  BY DEF ThreadInv
<1>3. MovesOn /\ \A a \in Allocators : SameStamps(a)
  BY DEF MovesOn, SameStamps, TypeOK, Stamps
<1>4. \A a \in Allocators : StampInv(a)'
  BY <1>1, <1>3, StampInvKept DEF Collecting, Stamping, Unread
<1>5. PlaceInv'
  BY SamePlaces DEF InFree, InCollected, InReleased, InHand
<1> QED
  BY <1>1, <1>2, <1>4, <1>5

(* Every step keeps IInv. *)
LEMMA NextIInv ==
  ASSUME IInv, [Next]_vars
  PROVE  IInv'
<1>1. CASE \E t \in Threads : Register(t) \/ Count(t) \/ Cross(t) \/ Leave(t)
  BY <1>1, Registers, Counts, Crosses, Leaves
<1>2. CASE \E t \in Threads : CollectOne(t) \/ Reclaim(t) \/ Put(t)
  BY <1>2, CollectsOne, Reclaims, Puts
<1>3. CASE \E t \in Threads : StampOne(t) \/ ReleaseDone(t) \/ SSMEM_SAFE_TO_RECLAIM(t)
  BY <1>3, StampsOne, ReleasesDone, SafeToReclaim
<1>4. CASE \E a \in Allocators, o \in Objects :
             AllocCollected(a, o) \/ AllocNew(a, o) \/ FreeCall(a, o)
  BY <1>4, AllocatesCollected, AllocatesNew, FreesCall
<1>5. CASE \E a \in Allocators, b \in Blocks : ReleaseCall(a, b)
  BY <1>5, ReleasesCall
<1>6. CASE UNCHANGED vars
  BY <1>6, Stutters
<1> QED
  BY <1>1, <1>2, <1>3, <1>4, <1>5, <1>6 DEF Next

(* IInv holds in every state that Ssmem reaches. *)
THEOREM Invariance == Spec => []IInv
BY InitIInv, NextIInv, PTL DEF Spec

(* A thread that never passes a quiescent point, such as the main thread of   *)
(* the benchmarks, holds all memory back, whatever the others do.            *)
THEOREM IdleThreadHoldsMemoryBack == Spec => []IdleThreadStopsReclamation
BY Invariance, PTL DEF IInv

(* The arrays of timestamps are large enough for every access, because nobody *)
(* stamps anything before all threads have registered.                       *)
THEOREM StampArraysAreLargeEnough == Spec => []StampsAreInBounds
<1>1. IInv => StampsAreInBounds
  <2> SUFFICES ASSUME IInv, NEW a \in Allocators
      PROVE  /\ pc[Owner(a)] = "collect" /\ freeing[Owner(a)][1] = a =>
                  \A i \in 1..Len(cur[Owner(a)]) :
                    cur[Owner(a)][i] < Head(free_set_list[a]).size
             /\ pc[Owner(a)] = "stamp" /\ freeing[Owner(a)][1] = a =>
                  \A i \in 1..Len(cur[Owner(a)]) :
                    cur[Owner(a)][i] < Head(released_mem_list[a]).size
             /\ \A i \in 1..Len(free_set_list[a]) :
                  free_set_list[a][i].size = 0 \/ ssmem_ts_list_len <= free_set_list[a][i].size
             /\ \A i \in 1..Len(released_mem_list[a]) :
                  ssmem_ts_list_len <= released_mem_list[a][i].size
    BY DEF StampsAreInBounds
  <2>1. PICK t \in Threads : t = Owner(a)
    BY Lengths
  <2>2. \A i \in 1..Len(cur[t]) : cur[t][i] < Length
    <3>1. cur[t] \in Seq(Threads)
      BY DEF IInv, TypeOK
    <3> QED
      BY <3>1, ElementOfSeq, Lengths
  <2>3. pc[t] = "collect" /\ freeing[t][1] = a => Head(free_set_list[a]).size = Length
    BY Entries, AtWork DEF IInv
  <2>4. pc[t] = "stamp" /\ freeing[t][1] = a => Head(released_mem_list[a]).size = Length
    <3> SUFFICES ASSUME pc[t] = "stamp", freeing[t][1] = a
                 PROVE  Head(released_mem_list[a]).size = Length
      OBVIOUS
    <3>1. released_mem_list[a] # <<>> /\ released_mem_list[a] \in Seq(ReleasedMem)
      BY Entries DEF IInv, ThreadInv
    <3>2. Head(released_mem_list[a]) \in ReleasedMem
      BY <3>1, Popped
    <3> QED
      BY <3>2 DEF ReleasedMem
  <2>5. ssmem_ts_list_len <= Length
    <3>1. {u \in Threads : pc[u] \notin {"new", "pushed"}} \in SUBSET Threads
      OBVIOUS
    <3> QED
      BY <3>1, Lengths, FS_Subset DEF IInv, RegistryIsRight, Length
  <2>6. \A i \in 1..Len(free_set_list[a]) : free_set_list[a][i].size \in {0, Length}
    BY Entries DEF IInv, FreeSets
  <2>7. \A i \in 1..Len(released_mem_list[a]) : released_mem_list[a][i].size = Length
    BY Entries DEF IInv, ReleasedMem
  <2> QED
    BY <2>1, <2>2, <2>3, <2>4, <2>5, <2>6, <2>7
<1> QED
  BY <1>1, Invariance, PTL

(* Places, read off the lists one by one. *)
LEMMA PlacesAre ==
  ASSUME TypeOK, NEW o \in Memories, NEW p
  PROVE  p \in Places(o) <=>
           \/ \E a \in Allocators, i \in Nat : p = <<"freed", <<a, i>>>> /\ InFree(o, a, i)
           \/ \E a \in Allocators, i \in Nat : p = <<"collected", <<a, i>>>> /\ InCollected(o, a, i)
           \/ \E a \in Allocators : \E i \in 1..Len(available_set_list[a]) :
                p = <<"available", <<a, i>>>> /\ o \in available_set_list[a][i].set
           \/ \E a \in Allocators, i \in Nat : p = <<"released", a>> /\ InReleased(o, a, i)
           \/ \E t \in Threads : p = <<"freeing", t>> /\ InHand(o, t)
           \/ p = <<"returned", o>> /\ o \in returned
           \/ p = <<"in use", o>> /\ o \in inUse
           \/ p = <<"in memory", o>> /\ o \in mem
<1> DEFINE In(lists) == UNION {{<<a, i>> : i \in {j \in 1..Len(lists[a]) : o \in lists[a][j].set}} :
                                 a \in Allocators}
<1>1. \A x : x \in In(free_set_list) <=> \E a \in Allocators, i \in Nat : x = <<a, i>> /\ InFree(o, a, i)
  BY Entries DEF InFree
<1>2. \A x : x \in In(collected_set_list) <=>
             \E a \in Allocators, i \in Nat : x = <<a, i>> /\ InCollected(o, a, i)
  BY Entries DEF InCollected
<1>3. \A x : x \in In(available_set_list) <=>
             \E a \in Allocators : \E i \in 1..Len(available_set_list[a]) :
               x = <<a, i>> /\ o \in available_set_list[a][i].set
  OBVIOUS
<1>4. \A a \in Allocators : (\E i \in 1..Len(released_mem_list[a]) : released_mem_list[a][i].mem = o)
                            <=> \E i \in Nat : InReleased(o, a, i)
  BY Entries DEF InReleased
<1>5. Places(o) = {<<"freed", x>> : x \in In(free_set_list)}
                  \union {<<"collected", x>> : x \in In(collected_set_list)}
                  \union {<<"available", x>> : x \in In(available_set_list)}
                  \union {<<"released", a>> : a \in
                            {b \in Allocators : \E i \in 1..Len(released_mem_list[b]) :
                                                  released_mem_list[b][i].mem = o}}
                  \union {<<"freeing", t>> : t \in
                            {u \in Threads : pc[u] \in {"collect", "put"} /\ freeing[u][2] = o}}
                  \union {<<"returned", o>> : x \in {o} \intersect returned}
                  \union {<<"in use", o>> : x \in {o} \intersect inUse}
                  \union {<<"in memory", o>> : x \in {o} \intersect mem}
  BY DEF Places
<1> HIDE DEF In
<1>6. p \in {<<"freed", x>> : x \in In(free_set_list)} <=>
        \E a \in Allocators, i \in Nat : p = <<"freed", <<a, i>>>> /\ InFree(o, a, i)
  BY <1>1
<1>7. p \in {<<"collected", x>> : x \in In(collected_set_list)} <=>
        \E a \in Allocators, i \in Nat : p = <<"collected", <<a, i>>>> /\ InCollected(o, a, i)
  BY <1>2
<1>8. p \in {<<"available", x>> : x \in In(available_set_list)} <=>
        \E a \in Allocators : \E i \in 1..Len(available_set_list[a]) :
          p = <<"available", <<a, i>>>> /\ o \in available_set_list[a][i].set
  BY <1>3
<1>9. p \in {<<"released", a>> : a \in
               {b \in Allocators : \E i \in 1..Len(released_mem_list[b]) :
                                     released_mem_list[b][i].mem = o}} <=>
        \E a \in Allocators, i \in Nat : p = <<"released", a>> /\ InReleased(o, a, i)
  BY <1>4
<1>10. p \in {<<"freeing", t>> : t \in
                {u \in Threads : pc[u] \in {"collect", "put"} /\ freeing[u][2] = o}} <=>
         \E t \in Threads : p = <<"freeing", t>> /\ InHand(o, t)
  BY DEF InHand
<1> QED
  BY <1>5, <1>6, <1>7, <1>8, <1>9, <1>10

(* Wherever ssmem moves it, an object is always in exactly one place.         *)
THEOREM NothingIsLostOrDoubled == Spec => []ObjectsHaveOnePlace
<1>1. ASSUME IInv, NEW o \in Memories PROVE \E p : Places(o) = {p}
  <2>1. TypeOK /\ PlacedOnce(o) /\ OneKindOfPlace(o)
    BY <1>1 DEF IInv, PlaceInv
  <2>2. \A a \in Allocators : \A i \in 1..Len(available_set_list[a]) : o \notin available_set_list[a][i].set
    BY <1>1 DEF IInv, StampInv, CollectedIsUnheld
  <2>3. \A p : p \in Places(o) <=>
           \/ \E a \in Allocators, i \in Nat : p = <<"freed", <<a, i>>>> /\ InFree(o, a, i)
           \/ \E a \in Allocators, i \in Nat : p = <<"collected", <<a, i>>>> /\ InCollected(o, a, i)
           \/ \E a \in Allocators, i \in Nat : p = <<"released", a>> /\ InReleased(o, a, i)
           \/ \E t \in Threads : p = <<"freeing", t>> /\ InHand(o, t)
           \/ p = <<"returned", o>> /\ o \in returned
           \/ p = <<"in use", o>> /\ o \in inUse
           \/ p = <<"in memory", o>> /\ o \in mem
    BY <2>1, <2>2, PlacesAre
  <2>4. CASE Idle(o)
    <3>1. ~Freed(o) /\ ~Collected(o) /\ ~Released(o) /\ ~Handed(o)
      BY <2>1, <2>4 DEF OneKindOfPlace
    <3>2. \A p : p \in Places(o) <=> \/ p = <<"returned", o>> /\ o \in returned
                                     \/ p = <<"in use", o>> /\ o \in inUse
                                     \/ p = <<"in memory", o>> /\ o \in mem
      BY <2>3, <3>1 DEF Freed, Collected, Released, Handed
    <3>3. \/ o \in returned /\ o \notin inUse /\ o \notin mem
          \/ o \notin returned /\ o \in inUse /\ o \notin mem
          \/ o \notin returned /\ o \notin inUse /\ o \in mem
      BY <2>1, <2>4 DEF OneKindOfPlace, Idle
    <3>4. CASE o \in returned /\ o \notin inUse /\ o \notin mem
      <4>1. \A p : p \in Places(o) <=> p = <<"returned", o>>
        BY <3>2, <3>4
      <4>2. Places(o) = {<<"returned", o>>}
        BY <4>1
      <4> QED
        BY <4>2
    <3>5. CASE o \notin returned /\ o \in inUse /\ o \notin mem
      <4>1. \A p : p \in Places(o) <=> p = <<"in use", o>>
        BY <3>2, <3>5
      <4>2. Places(o) = {<<"in use", o>>}
        BY <4>1
      <4> QED
        BY <4>2
    <3>6. CASE o \notin returned /\ o \notin inUse /\ o \in mem
      <4>1. \A p : p \in Places(o) <=> p = <<"in memory", o>>
        BY <3>2, <3>6
      <4>2. Places(o) = {<<"in memory", o>>}
        BY <4>1
      <4> QED
        BY <4>2
    <3> QED
      BY <3>3, <3>4, <3>5, <3>6
  <2>5. CASE Freed(o)
    <3>1. ~Idle(o) /\ ~Collected(o) /\ ~Released(o) /\ ~Handed(o)
      BY <2>1, <2>5 DEF OneKindOfPlace
    <3>2. /\ o \notin returned
          /\ o \notin inUse
          /\ o \notin mem
          /\ \A b \in Allocators, j \in Nat : ~InCollected(o, b, j)
          /\ \A b \in Allocators, j \in Nat : ~InReleased(o, b, j)
          /\ \A u \in Threads : ~InHand(o, u)
      BY <3>1 DEF Idle, Collected, Released, Handed
    <3>3. PICK a \in Allocators, i \in Nat : InFree(o, a, i)
      BY <2>5 DEF Freed
    <3>4. \A b \in Allocators, j \in Nat : InFree(o, b, j) => b = a /\ j = i
      BY <2>1, <3>3 DEF PlacedOnce
    <3>5. \A p : p \in Places(o) <=> p = <<"freed", <<a, i>>>>
      BY <2>3, <3>2, <3>3, <3>4
    <3>6. Places(o) = {<<"freed", <<a, i>>>>}
      BY <3>5
    <3> QED
      BY <3>6
  <2>6. CASE Collected(o)
    <3>1. ~Idle(o) /\ ~Freed(o) /\ ~Released(o) /\ ~Handed(o)
      BY <2>1, <2>6 DEF OneKindOfPlace
    <3>2. /\ o \notin returned
          /\ o \notin inUse
          /\ o \notin mem
          /\ \A b \in Allocators, j \in Nat : ~InFree(o, b, j)
          /\ \A b \in Allocators, j \in Nat : ~InReleased(o, b, j)
          /\ \A u \in Threads : ~InHand(o, u)
      BY <3>1 DEF Idle, Freed, Released, Handed
    <3>3. PICK a \in Allocators, i \in Nat : InCollected(o, a, i)
      BY <2>6 DEF Collected
    <3>4. \A b \in Allocators, j \in Nat : InCollected(o, b, j) => b = a /\ j = i
      BY <2>1, <3>3 DEF PlacedOnce
    <3>5. \A p : p \in Places(o) <=> p = <<"collected", <<a, i>>>>
      BY <2>3, <3>2, <3>3, <3>4
    <3>6. Places(o) = {<<"collected", <<a, i>>>>}
      BY <3>5
    <3> QED
      BY <3>6
  <2>7. CASE Released(o)
    <3>1. ~Idle(o) /\ ~Freed(o) /\ ~Collected(o) /\ ~Handed(o)
      BY <2>1, <2>7 DEF OneKindOfPlace
    <3>2. /\ o \notin returned
          /\ o \notin inUse
          /\ o \notin mem
          /\ \A b \in Allocators, j \in Nat : ~InFree(o, b, j)
          /\ \A b \in Allocators, j \in Nat : ~InCollected(o, b, j)
          /\ \A u \in Threads : ~InHand(o, u)
      BY <3>1 DEF Idle, Freed, Collected, Handed
    <3>3. PICK a \in Allocators, i \in Nat : InReleased(o, a, i)
      BY <2>7 DEF Released
    <3>4. \A b \in Allocators, j \in Nat : InReleased(o, b, j) => b = a /\ j = i
      BY <2>1, <3>3 DEF PlacedOnce
    <3>5. \A p : p \in Places(o) <=> p = <<"released", a>>
      BY <2>3, <3>2, <3>3, <3>4
    <3>6. Places(o) = {<<"released", a>>}
      BY <3>5
    <3> QED
      BY <3>6
  <2>8. CASE Handed(o)
    <3>1. ~Idle(o) /\ ~Freed(o) /\ ~Collected(o) /\ ~Released(o)
      BY <2>1, <2>8 DEF OneKindOfPlace
    <3>2. /\ o \notin returned
          /\ o \notin inUse
          /\ o \notin mem
          /\ \A b \in Allocators, j \in Nat : ~InFree(o, b, j)
          /\ \A b \in Allocators, j \in Nat : ~InCollected(o, b, j)
          /\ \A b \in Allocators, j \in Nat : ~InReleased(o, b, j)
      BY <3>1 DEF Idle, Freed, Collected, Released
    <3>3. PICK t \in Threads : InHand(o, t)
      BY <2>8 DEF Handed
    <3>4. \A u \in Threads : InHand(o, u) => u = t
      BY <2>1, <3>3 DEF PlacedOnce
    <3>5. \A p : p \in Places(o) <=> p = <<"freeing", t>>
      BY <2>3, <3>2, <3>3, <3>4
    <3>6. Places(o) = {<<"freeing", t>>}
      BY <3>5
    <3> QED
      BY <3>6
  <2> QED
    BY <2>1, <2>4, <2>5, <2>6, <2>7, <2>8 DEF OneKindOfPlace
<1>2. IInv => ObjectsHaveOnePlace
  BY <1>1, FS_Singleton DEF ObjectsHaveOnePlace, Memories
<1> QED
  BY <1>2, Invariance, PTL

-----------------------------------------------------------------------------
(* Ssmem implements Reclaimer. The status of an object as Ssmem maps it:     *)

StatusOf(o) ==
  CASE o \in mem -> "unused"
    [] o \in inUse -> "inUse"
    [] o \in returned -> "returned"
    [] OTHER -> "freed"

(* The status of the abstract object tells where the object is. *)
LEMMA StatusIs ==
  ASSUME IInv, NEW o \in Memories
  PROVE  /\ StatusOf(o) = "unused" <=> o \in mem
         /\ StatusOf(o) = "inUse" <=> o \in inUse
         /\ StatusOf(o) = "returned" <=> o \in returned
         /\ StatusOf(o) = "freed" <=> ~Idle(o)
<1>1. /\ o \in mem => o \notin inUse /\ o \notin returned
      /\ o \in inUse => o \notin returned
  BY DEF IInv, PlaceInv, OneKindOfPlace
<1> QED
  BY <1>1 DEF StatusOf, Idle

(* An object nobody holds may be handed out. *)
LEMMA AbstractAlloc ==
  ASSUME NEW o \in Memories, StatusOf(o) \in {"unused", "freed"}, holders[o] = {},
         UNCHANGED holders,
         \A p \in Memories : StatusOf(p)' = IF p = o THEN "inUse" ELSE StatusOf(p)
  PROVE  Memory!Alloc(o)
BY DEF Memory!Alloc, StatusOf, Memories

(* A free makes every thread a holder. *)
LEMMA AbstractFree ==
  ASSUME NEW o \in Memories, StatusOf(o) = "inUse",
         holders' = [holders EXCEPT ![o] = Threads],
         \A p \in Memories : StatusOf(p)' = IF p = o THEN "freed" ELSE StatusOf(p)
  PROVE  Memory!Free(o)
BY DEF Memory!Free, StatusOf, Memories

(* Blocks that nobody holds may be returned, any number at once. *)
LEMMA AbstractReturn ==
  ASSUME NEW S \in SUBSET Memories,
         \A o \in S : StatusOf(o) = "freed" /\ holders[o] = {},
         UNCHANGED holders,
         \A p \in Memories : StatusOf(p)' = IF p \in S THEN "returned" ELSE StatusOf(p)
  PROVE  Memory!Next
<1>1. S \in SUBSET Memory!Unreferenced /\ Memory!Return(S)
  BY DEF Memory!Return, Memory!Unreferenced, StatusOf, Memories
<1> QED
  BY <1>1 DEF Memory!Next

(* A thread that moves on holds nothing any more. *)
LEMMA AbstractQuiesce ==
  ASSUME NEW t \in Threads, ssmem_ts_next(t), UNCHANGED <<mem, inUse, returned>>
  PROVE  Memory!Quiesce(t)
BY DEF Memory!Quiesce, ssmem_ts_next

(* What moves inside ssmem is not seen outside. *)
LEMMA AbstractStutter ==
  ASSUME UNCHANGED <<mem, inUse, returned, holders>>
  PROVE  UNCHANGED Memory!vars
BY DEF Memory!vars

(* ssmem_alloc implements Alloc. *)
LEMMA AllocRefines ==
  ASSUME IInv, NEW a \in Allocators, NEW o \in Objects, AllocCollected(a, o) \/ AllocNew(a, o)
  PROVE  Memory!Alloc(o)
<1>1. o \in Memories /\ UNCHANGED <<returned, holders>> /\ inUse' = inUse \union {o}
  BY DEF Memories, AllocCollected, AllocNew, released
<1>2. CASE AllocNew(a, o)
  <2>1. o \in mem /\ mem' = mem \ {o}
    BY <1>2 DEF AllocNew
  <2>2. holders[o] = {} /\ StatusOf(o) = "unused"
    BY <1>1, <2>1, StatusIs DEF IInv, PlaceInv
  <2>3. o \notin returned
    BY <1>1, <2>1 DEF IInv, PlaceInv, OneKindOfPlace
  <2>4. \A p \in Memories : StatusOf(p)' = IF p = o THEN "inUse" ELSE StatusOf(p)
    BY <1>1, <2>1, <2>3 DEF StatusOf
  <2> QED
    BY <1>1, <2>2, <2>4, AbstractAlloc
<1>3. CASE AllocCollected(a, o)
  <2>1. UNCHANGED mem /\ collected_set_list[a] # <<>> /\ o \in Head(collected_set_list[a]).set
    BY <1>3 DEF AllocCollected
  <2>2. 1 \in 1..Len(collected_set_list[a]) /\ o \in collected_set_list[a][1].set
    <3>1. collected_set_list[a] \in Seq(FreeSets)
      BY Entries DEF IInv
    <3> QED
      BY <2>1, <3>1, Popped
  <2>3. holders[o] = {}
    BY <2>2 DEF IInv, StampInv, CollectedIsUnheld
  <2>4. ~Idle(o)
    <3>1. Collected(o)
      BY <2>2 DEF Collected, InCollected
    <3> QED
      BY <1>1, <3>1 DEF IInv, PlaceInv, OneKindOfPlace
  <2>5. StatusOf(o) = "freed"
    BY <1>1, <2>4, StatusIs
  <2>6. \A p \in Memories : StatusOf(p)' = IF p = o THEN "inUse" ELSE StatusOf(p)
    BY <1>1, <2>1, <2>4 DEF StatusOf, Idle
  <2> QED
    BY <1>1, <2>3, <2>5, <2>6, AbstractAlloc
<1> QED
  BY <1>2, <1>3

(* ssmem_free and ssmem_release, to their first step, implement Free. *)
LEMMA FreeRefines ==
  ASSUME IInv, NEW a \in Allocators, NEW o \in Memories, FreeCall(a, o) \/ ReleaseCall(a, o)
  PROVE  Memory!Free(o)
<1>1. /\ o \in inUse /\ inUse' = inUse \ {o} /\ UNCHANGED <<mem, returned>>
      /\ holders' = [holders EXCEPT ![o] = Threads]
  BY DEF FreeCall, ReleaseCall, released
<1>2. o \notin mem /\ o \notin returned
  BY <1>1 DEF IInv, PlaceInv, OneKindOfPlace
<1>3. StatusOf(o) = "inUse"
  BY <1>1, StatusIs
<1>4. \A p \in Memories : StatusOf(p)' = IF p = o THEN "freed" ELSE StatusOf(p)
  BY <1>1, <1>2 DEF StatusOf
<1> QED
  BY <1>1, <1>3, <1>4, AbstractFree

(* ssmem_mem_reclaim returns blocks that nobody holds, or nothing that is seen. *)
LEMMA ReclaimRefines ==
  ASSUME IInv, NEW a \in Allocators, ssmem_ts_list_len = Length, ssmem_mem_reclaim(a),
         UNCHANGED <<mem, inUse, holders>>
  PROVE  Memory!Next
<1> DEFINE gone == {o \in Memories : ReleasedIsNewer(a) /\ \E i \in Nat : i > 1 /\ InReleased(o, a, i)}
<1>1. ASSUME NEW o \in gone PROVE StatusOf(o) = "freed" /\ holders[o] = {} /\ o \notin mem /\ o \notin inUse
  <2>1. ReleasedIsNewer(a) /\ o \in Memories
    OBVIOUS
  <2>2. PICK i \in Nat : i > 1 /\ InReleased(o, a, i)
    OBVIOUS
  <2>3. ~Idle(o)
    <3>1. Released(o)
      BY <2>2 DEF Released
    <3> QED
      BY <2>1, <3>1 DEF IInv, PlaceInv, OneKindOfPlace
  <2>4. i \in 2..Len(released_mem_list[a]) /\ o = released_mem_list[a][i].mem
    <3>1. Len(released_mem_list[a]) \in Nat
      BY Entries DEF IInv
    <3> QED
      BY <2>2, <3>1 DEF InReleased
  <2>5. holders[o] = {}
    BY <2>1, <2>4, OlderBlocksAreUnheld
  <2> QED
    BY <2>1, <2>3, <2>5, StatusIs DEF Idle
<1>2. \A o \in Memories : o \in returned' <=> o \in returned \/ o \in gone
  BY SMTT(30), BlocksReclaimed
<1>3. gone \in SUBSET Memories
  OBVIOUS
<1> HIDE DEF gone
<1>4. \A p \in Memories : StatusOf(p)' = IF p \in gone THEN "returned" ELSE StatusOf(p)
  BY <1>1, <1>2 DEF StatusOf
<1>5. \A o \in gone : StatusOf(o) = "freed" /\ holders[o] = {}
  BY <1>1
<1> QED
  BY <1>3, <1>4, <1>5, AbstractReturn

(* Every step of ssmem is a step of Reclaimer, or a stutter. *)
LEMMA StepRefines ==
  ASSUME IInv, [Next]_vars
  PROVE  [Memory!Next]_(Memory!vars)
<1>1. CASE \E t \in Threads : \/ Register(t) \/ Count(t) \/ Cross(t) \/ Leave(t)
                              \/ CollectOne(t) \/ StampOne(t)
  <2>1. UNCHANGED <<mem, inUse, returned, holders>>
    BY <1>1 DEF Register, Count, Cross, Leave, CollectOne, StampOne, released
  <2> QED
    BY <2>1, AbstractStutter
<1>2. CASE \E t \in Threads : SSMEM_SAFE_TO_RECLAIM(t) \/ Put(t)
  <2>1. PICK t \in Threads : SSMEM_SAFE_TO_RECLAIM(t) \/ Put(t)
    BY <1>2
  <2>2. ssmem_ts_next(t) /\ UNCHANGED <<mem, inUse, returned>>
    BY <2>1 DEF SSMEM_SAFE_TO_RECLAIM, Put, released
  <2>3. Memory!Quiesce(t)
    BY <2>2, AbstractQuiesce
  <2> QED
    BY <2>3 DEF Memory!Next
<1>3. CASE \E t \in Threads : Reclaim(t) \/ ReleaseDone(t)
  <2>1. PICK t \in Threads : Reclaim(t) \/ ReleaseDone(t)
    BY <1>3
  <2>2. /\ pc[t] \in {"collect", "stamp"} /\ UNCHANGED <<mem, inUse, holders>>
        /\ ssmem_mem_reclaim(freeing[t][1]) \/ UNCHANGED returned
    BY <2>1 DEF Reclaim, ReleaseDone, released
  <2>3. freeing[t][1] \in Allocators /\ ssmem_ts_list_len = Length
    BY <2>2, AtWork, AllRegistered DEF Working, IInv
  <2>4. CASE ssmem_mem_reclaim(freeing[t][1])
    BY <2>2, <2>3, <2>4, ReclaimRefines
  <2>5. CASE UNCHANGED returned
    BY <2>2, <2>5, AbstractStutter
  <2> QED
    BY <2>2, <2>4, <2>5
<1>4. CASE \E a \in Allocators, o \in Objects : AllocCollected(a, o) \/ AllocNew(a, o)
  <2>1. PICK o \in Objects : Memory!Alloc(o)
    BY <1>4, AllocRefines
  <2> QED
    BY <2>1 DEF Memory!Next
<1>5. CASE \/ \E a \in Allocators, o \in Objects : FreeCall(a, o)
           \/ \E a \in Allocators, b \in Blocks : ReleaseCall(a, b)
  <2>1. PICK o \in Memories : Memory!Free(o)
    BY <1>5, FreeRefines DEF Memories
  <2> QED
    BY <2>1 DEF Memory!Next, Memories
<1>6. CASE UNCHANGED vars
  BY <1>6, AbstractStutter DEF vars, released
<1> QED
  BY <1>1, <1>2, <1>3, <1>4, <1>5, <1>6 DEF Next

(* ssmem keeps the promise of Reclaimer: nothing is handed out again, or given *)
(* back to the operating system, while a thread may hold it.                 *)
THEOREM ReclaimsOnlyTheUnheld == Spec => ReclaimsWhenQuiescent
<1>1. Init => Memory!Init
  BY DEF Init, Memory!Init
<1>2. IInv /\ [Next]_vars => [Memory!Next]_(Memory!vars)
  BY StepRefines
<1> QED
  BY <1>1, <1>2, Invariance, PTL DEF Spec, ReclaimsWhenQuiescent, Memory!Spec
=============================================================================
