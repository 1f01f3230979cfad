----------------------------- MODULE Recursion -----------------------------
(***************************************************************************)
(* Induction and recursion over the natural numbers, stated with sets and  *)
(* functions. The proofs use them for the functions that the models define *)
(* by recursion: what a walk of a list in NVM reaches after n links.       *)
(*                                                                         *)
(* And chains: the nodes from one sentinel to another, each leading to the *)
(* next. A chain is stated without a sequence, by an order of its nodes in *)
(* which each leads to the next one, so that insertion and deletion are    *)
(* facts of first-order logic.                                             *)
(***************************************************************************)
EXTENDS Integers, FiniteSets, FiniteSetTheorems, TLAPS

(* A set of numbers that is not empty has a least one. *)
LEMMA LeastNumber ==
  ASSUME NEW T \in SUBSET Nat, T # {}
  PROVE  \E m \in T : \A k \in T : m <= k
<1>1. PICK n \in T : TRUE
  OBVIOUS
<1> DEFINE S == 0..n
          F == {0..k : k \in {j \in T : j <= n}}
<1>2. IsFiniteSet(S)
  BY <1>1, FS_Interval
<1>3. F \subseteq FiniteSubsetsOf(S) /\ F # {}
  <2>1. \A k \in T : k <= n => 0..k \subseteq S
    BY <1>1
  <2>2. \A k \in T : k <= n => IsFiniteSet(0..k)
    BY <1>1, FS_Interval
  <2> QED
    BY <2>1, <2>2, <1>1 DEF FiniteSubsetsOf
<1>4. IsWellFoundedOn(StrictSubsetOrdering(S), FiniteSubsetsOf(S))
  BY FS_StrictSubsetOrderingWellFounded
<1>5. PICK x \in F : \A y \in F : ~(<<y, x>> \in StrictSubsetOrdering(S))
  <2> HIDE DEF F, S
  <2> QED
    BY <1>3, <1>4, WFMin
<1>6. PICK m \in T : m <= n /\ x = 0..m
  BY <1>5
<1>7. \A k \in T : m <= k
  <2> SUFFICES ASSUME NEW k \in T, k < m PROVE FALSE
    BY <1>6
  <2>1. 0..k \in F
    BY <1>6
  <2>2. <<0..k, 0..m>> \in StrictSubsetOrdering(S)
    BY <1>1, <1>6 DEF StrictSubsetOrdering
  <2> QED
    BY <2>1, <2>2, <1>5, <1>6
<1> QED
  BY <1>6, <1>7

(* Induction over the numbers, for the set of those that have a property. *)
LEMMA SetInduction ==
  ASSUME NEW I, 0 \in I, \A n \in Nat : n \in I => n + 1 \in I
  PROVE  Nat \subseteq I
<1> SUFFICES ASSUME Nat \ I # {} PROVE FALSE
  OBVIOUS
<1>1. PICK m \in Nat \ I : \A k \in Nat \ I : m <= k
  BY LeastNumber
<1>2. m # 0 /\ m - 1 \in Nat /\ m - 1 \in I
  BY <1>1
<1> QED
  BY <1>1, <1>2

(* f is the sequence x, F[x], F[F[x]], ... of elements of D, up to the N-th.  *)
Iterates(f, N, D, F, x) ==
  /\ f \in [0..N -> D]
  /\ f[0] = x
  /\ \A k \in 1..N : f[k] = F[f[k-1]]

(* Such a sequence exists: a recursion over the numbers has a solution. *)
LEMMA IteratesExist ==
  ASSUME NEW D, NEW F, NEW x, NEW N, F \in [D -> D], x \in D, N \in Nat
  PROVE  \E f : Iterates(f, N, D, F, x)
<1> DEFINE I == {n \in Nat : \E f : Iterates(f, n, D, F, x)}
<1>1. 0 \in I
  <2> DEFINE g == [k \in 0..0 |-> x]
  <2>1. g \in [0..0 -> D] /\ g[0] = x
    OBVIOUS
  <2>2. \A k \in 1..0 : g[k] = F[g[k-1]]
    OBVIOUS
  <2> HIDE DEF g
  <2> QED
    BY <2>1, <2>2 DEF Iterates
<1>2. ASSUME NEW n \in Nat, n \in I
      PROVE  n + 1 \in I
  <2>1. PICK f : Iterates(f, n, D, F, x)
    BY <1>2
  <2> DEFINE g == [k \in 0..(n+1) |-> IF k = n + 1 THEN F[f[n]] ELSE f[k]]
  <2>2. g \in [0..(n+1) -> D] /\ g[0] = x
    BY <2>1 DEF Iterates
  <2>3. \A k \in 1..(n+1) : g[k] = F[g[k-1]]
    BY <2>1 DEF Iterates
  <2> HIDE DEF g
  <2> QED
    BY <2>2, <2>3 DEF Iterates
<1> HIDE DEF I
<1>3. N \in I
  BY <1>1, <1>2, SetInduction
<1> QED
  BY <1>3 DEF I

-----------------------------------------------------------------------------
(* f[k] is what k rounds of Move reach from o, a part of D.                  *)
OneRound(x, D, Move) == x \union {h \in D : \E g \in x : <<g, h>> \in Move}

Rounds(f, N, D, Move, o) ==
  /\ f \in [0..N -> SUBSET D]
  /\ f[0] = o
  /\ \A k \in 1..N : f[k] = OneRound(f[k-1], D, Move)

(* Any set can be the start. *)
LEMMA RoundsExist ==
  ASSUME NEW D, NEW Move, NEW o, NEW N, o \in SUBSET D, N \in Nat
  PROVE  \E f : Rounds(f, N, D, Move, o)
<1> DEFINE E == SUBSET D
           F == [x \in E |-> OneRound(x, D, Move)]
<1>1. F \in [E -> E] /\ o \in E
  BY DEF OneRound
<1>2. PICK f : Iterates(f, N, E, F, o)
  <2> HIDE DEF E, F
  <2> QED
    BY <1>1, IteratesExist
<1>3. f \in [0..N -> E] /\ f[0] = o /\ \A k \in 1..N : f[k] = F[f[k-1]]
  BY <1>2 DEF Iterates
<1>4. \A x \in E : F[x] = OneRound(x, D, Move)
  OBVIOUS
<1>5. \A k \in 1..N : f[k] = OneRound(f[k-1], D, Move)
  <2> HIDE DEF F
  <2> SUFFICES ASSUME NEW k \in 1..N PROVE f[k] = OneRound(f[k-1], D, Move)
    OBVIOUS
  <2>1. k - 1 \in 0..N /\ f[k-1] \in E
    BY <1>3
  <2> QED
    BY <1>3, <1>4, <2>1
<1> QED
  BY <1>3, <1>5 DEF Rounds

(* A function defined by the recursion is such a sequence. *)
LEMMA RoundsOfRecursion ==
  ASSUME NEW D, NEW Move, NEW o, NEW N \in Nat, NEW f,
         f = [k \in 0..N |-> f[k]], f[0] = o, o \in SUBSET D,
         \A k \in 1..N : f[k-1] \in SUBSET D => f[k] = OneRound(f[k-1], D, Move)
  PROVE  Rounds(f, N, D, Move, o)
<1> DEFINE I == {k \in Nat : k \in 0..N => f[k] \in SUBSET D}
<1>1. 0 \in I
  BY DEF Rounds
<1>2. ASSUME NEW k \in Nat, k \in I
      PROVE  k + 1 \in I
  <2> SUFFICES ASSUME k + 1 \in 0..N PROVE f[k+1] \in SUBSET D
    OBVIOUS
  <2>1. f[k] \in SUBSET D /\ k + 1 \in 1..N /\ (k + 1) - 1 = k
    BY <1>2
  <2>2. f[k+1] = OneRound(f[k], D, Move)
    BY <2>1
  <2> QED
    BY <2>1, <2>2 DEF OneRound
<1> HIDE DEF I
<1>3. Nat \subseteq I
  BY <1>1, <1>2, SetInduction
<1>4. \A k \in 0..N : f[k] \in SUBSET D
  BY <1>3 DEF I
<1>5. f \in [0..N -> SUBSET D]
  BY <1>4
<1>6. \A k \in 1..N : k - 1 \in 0..N
  OBVIOUS
<1> QED
  BY <1>4, <1>5, <1>6 DEF Rounds

(* Nothing is lost, and a set that Move does not leave is not left. *)
LEMMA RoundsGrow ==
  ASSUME NEW D, NEW Move, NEW o, NEW N \in Nat, NEW f, Rounds(f, N, D, Move, o)
  PROVE  o \subseteq f[N] /\ f[N] \subseteq D
<1> DEFINE I == {k \in Nat : k \in 0..N => o \subseteq f[k]}
<1>1. 0 \in I
  BY DEF Rounds
<1>2. ASSUME NEW k \in Nat, k \in I
      PROVE  k + 1 \in I
  <2> SUFFICES ASSUME k + 1 \in 0..N PROVE o \subseteq f[k+1]
    OBVIOUS
  <2>1. o \subseteq f[k] /\ k + 1 \in 1..N /\ (k + 1) - 1 = k
    BY <1>2
  <2>2. f[k+1] = OneRound(f[k], D, Move)
    BY <2>1 DEF Rounds
  <2> QED
    BY <2>1, <2>2 DEF OneRound
<1> HIDE DEF I
<1>3. N \in I
  BY <1>1, <1>2, SetInduction
<1> QED
  BY <1>3 DEF I, Rounds

Stays(T, D, Move) == \A g \in T : \A h \in D : <<g, h>> \in Move => h \in T

LEMMA RoundsStay ==
  ASSUME NEW D, NEW Move, NEW o, NEW N, NEW f, NEW T,
         N \in Nat, Rounds(f, N, D, Move, o), o \subseteq T, Stays(T, D, Move)
  PROVE  f[N] \subseteq T
<1> DEFINE I == {k \in Nat : k \in 0..N => f[k] \subseteq T}
<1>1. 0 \in I
  BY DEF Rounds
<1>2. ASSUME NEW k \in Nat, k \in I
      PROVE  k + 1 \in I
  <2> SUFFICES ASSUME k + 1 \in 0..N PROVE f[k+1] \subseteq T
    OBVIOUS
  <2>1. f[k] \subseteq T /\ k + 1 \in 1..N /\ (k + 1) - 1 = k
    BY <1>2
  <2>2. f[k+1] = OneRound(f[k], D, Move)
    BY <2>1 DEF Rounds
  <2> QED
    BY <2>1, <2>2 DEF OneRound, Stays
<1> HIDE DEF I
<1>3. N \in I
  BY <1>1, <1>2, SetInduction
<1> QED
  BY <1>3 DEF I

(* If each step raises a rank that is at most N, N rounds are enough. *)
LEMMA RoundsClose ==
  ASSUME NEW D, NEW Move, NEW o, NEW N \in Nat, NEW f, Rounds(f, N, D, Move, o),
         NEW r \in [D -> 0..N],
         \A g, h \in D : <<g, h>> \in Move => r[g] < r[h]
  PROVE  \A g \in f[N] : \A h \in D : <<g, h>> \in Move => h \in f[N]
<1> DEFINE New(k) == \A g \in f[k] : k = 0 \/ g \in f[k-1] \/ r[g] >= k
           I == {k \in Nat : k \in 0..N => New(k)}
<1>1. 0 \in I
  BY DEF Rounds
<1>2. ASSUME NEW k \in Nat, k \in I
      PROVE  k + 1 \in I
  <2> SUFFICES ASSUME k + 1 \in 0..N, NEW g \in f[k+1] PROVE g \in f[(k+1)-1] \/ r[g] >= k + 1
    OBVIOUS
  <2>1. New(k) /\ k + 1 \in 1..N /\ (k + 1) - 1 = k /\ k \in 0..N
    BY <1>2
  <2>2. f[k+1] = OneRound(f[k], D, Move) /\ f[k] \subseteq D
    BY <2>1 DEF Rounds
  <2> SUFFICES ASSUME g \notin f[k] PROVE r[g] >= k + 1
    BY <2>1
  <2>3. PICK b \in f[k] : <<b, g>> \in Move /\ g \in D /\ b \in D
    BY <2>2 DEF OneRound
  <2>4. r[b] < r[g] /\ r[b] \in 0..N /\ r[g] \in 0..N
    BY <2>3
  <2>5. CASE k = 0
    BY <2>4, <2>5
  <2>6. CASE k # 0
    <3>1. k \in 1..N /\ k - 1 \in 0..N
      BY <2>1, <2>6
    <3>2. f[k] = OneRound(f[k-1], D, Move)
      BY <3>1 DEF Rounds
    <3>3. b \notin f[k-1]
      BY <3>2, <2>3 DEF OneRound
    <3>4. r[b] >= k
      BY <2>1, <2>3, <2>6, <3>3
    <3> QED
      BY <2>4, <3>4
  <2> QED
    BY <2>5, <2>6
<1>3. Nat \subseteq I
  <2> HIDE DEF I
  <2> QED
    BY <1>1, <1>2, SetInduction
<1>4. New(N)
  BY <1>3
<1> SUFFICES ASSUME NEW g \in f[N], NEW h \in D, <<g, h>> \in Move PROVE h \in f[N]
  OBVIOUS
<1>5. g \in D /\ r[g] < r[h] /\ r[g] \in 0..N /\ r[h] \in 0..N
  BY DEF Rounds
<1>6. N # 0
  BY <1>5
<1>7. g \in f[N-1]
  BY <1>4, <1>5, <1>6
<1>8. f[N] = OneRound(f[N-1], D, Move)
  BY <1>6 DEF Rounds
<1> QED
  BY <1>7, <1>8 DEF OneRound

-----------------------------------------------------------------------------
(* Rounds and chains. *)

(* If only members of S, a set of at most N, are reached beyond o, or lead   *)
(* there, N rounds are enough.                                               *)
Onward(D, S, Move, o) == \A g \in D : \A h \in S : <<g, h>> \in Move => g \in o \union S

(* No move leads from x to a member of S outside x. *)
Keeps(x, S, Move) == \A g \in x : \A h \in S : <<g, h>> \in Move => h \in x

(* Each round that is not the last adds a member of S: N rounds reach all    *)
(* that can be reached.                                                      *)
LEMMA RoundsExhaust ==
  ASSUME NEW D, NEW Move, NEW o, NEW N \in Nat, NEW f, Rounds(f, N, D, Move, o),
         NEW S, S \subseteq D, IsFiniteSet(S), Cardinality(S) <= N,
         Onward(D, S, Move, o)
  PROVE  Keeps(f[N], S, Move)
<1> USE DEF Onward, Keeps
<1> DEFINE Closed(x) == \A g \in x : \A h \in S : <<g, h>> \in Move => h \in x
           I == {k \in Nat : k \in 0..N =>
                   o \subseteq f[k] /\ (Closed(f[k]) \/ Cardinality(f[k] \cap S) >= k)}
<1>1. \A x : IsFiniteSet(x \cap S) /\ Cardinality(x \cap S) \in Nat
  BY FS_Subset, FS_CardinalityType
<1>2. 0 \in I
  <2>1. f[0] = o /\ Cardinality(f[0] \cap S) \in Nat
    BY <1>1 DEF Rounds
  <2> QED
    BY <2>1
<1>3. ASSUME NEW k \in Nat, k \in I
      PROVE  k + 1 \in I
  <2> SUFFICES ASSUME k + 1 \in 0..N
               PROVE  o \subseteq f[k+1] /\ (Closed(f[k+1]) \/ Cardinality(f[k+1] \cap S) >= k + 1)
    OBVIOUS
  <2>1. k + 1 \in 1..N /\ (k + 1) - 1 = k /\ k \in 0..N
    OBVIOUS
  <2>2. o \subseteq f[k] /\ (Closed(f[k]) \/ Cardinality(f[k] \cap S) >= k)
    BY <1>3, <2>1
  <2>3. f[k+1] = OneRound(f[k], D, Move) /\ f[k] \subseteq D
    BY <2>1 DEF Rounds
  <2>4. f[k] \subseteq f[k+1] /\ f[k+1] \subseteq D
    BY <2>3 DEF OneRound
  <2>5. CASE Closed(f[k])
    <3> SUFFICES ASSUME NEW g \in f[k+1], NEW h \in S, <<g, h>> \in Move PROVE h \in f[k+1]
      BY <2>2, <2>4
    <3>1. g \in o \union S
      BY <2>4
    <3>2. g \in f[k]
      <4>1. CASE g \in o
        BY <2>2, <4>1
      <4>2. CASE g \in S
        BY <2>3, <2>5, <4>2 DEF OneRound
      <4> QED
        BY <3>1, <4>1, <4>2
    <3> QED
      BY <2>4, <2>5, <3>2
  <2>6. CASE ~Closed(f[k])
    <3>1. PICK g \in f[k], h \in S : <<g, h>> \in Move /\ h \notin f[k]
      BY <2>6
    <3>2. h \in f[k+1]
      BY <2>3, <3>1 DEF OneRound
    <3>3. (f[k] \cap S) \union {h} \subseteq f[k+1] \cap S /\ h \notin f[k] \cap S
      BY <2>4, <3>1, <3>2
    <3>4. Cardinality((f[k] \cap S) \union {h}) = Cardinality(f[k] \cap S) + 1
      BY <1>1, <3>3, FS_AddElement
    <3>5. Cardinality((f[k] \cap S) \union {h}) <= Cardinality(f[k+1] \cap S)
      BY <1>1, <3>3, FS_Subset
    <3>6. Cardinality(f[k] \cap S) >= k
      BY <2>2, <2>6
    <3> HIDE DEF Closed
    <3> QED
      BY <1>1, <2>2, <2>4, <3>4, <3>5, <3>6
  <2> QED
    BY <2>5, <2>6
<1> HIDE DEF I
<1>4. Nat \subseteq I
  BY <1>2, <1>3, SetInduction
<1>5. Closed(f[N]) \/ Cardinality(f[N] \cap S) >= N
  BY <1>4 DEF I
<1>6. CASE Cardinality(f[N] \cap S) >= N
  <2>1. Cardinality(f[N] \cap S) = Cardinality(S) /\ Cardinality(S) \in Nat
    BY <1>1, <1>6, FS_Subset, FS_CardinalityType
  <2>2. f[N] \cap S = S
    BY <2>1, FS_Subset
  <2> QED
    BY <2>2
<1> QED
  BY <1>5, <1>6

-----------------------------------------------------------------------------
(* C is the chain of links nx from a to z, in the order of r. *)
IsChain(C, r, nx, a, z) ==
  /\ a \in C /\ z \in C
  /\ \A c \in C : r[c] \in Int /\ r[a] <= r[c] /\ r[c] <= r[z]
  /\ \A c \in C \ {z} : nx[c] \in C /\ r[c] < r[nx[c]]
  /\ \A c, d \in C : (r[c] < r[d] => r[nx[c]] <= r[d]) /\ (r[c] = r[d] => c = d)

(* Of numbers below b one is the greatest. *)
LEMMA GreatestBelow ==
  ASSUME NEW Y, NEW r, NEW b \in Int, Y # {}, \A y \in Y : r[y] \in Int /\ r[y] < b
  PROVE  \E y \in Y : \A x \in Y : r[x] <= r[y]
<1> DEFINE T == {b - r[y] : y \in Y}
<1>1. T \in SUBSET Nat /\ T # {}
  OBVIOUS
<1>2. PICK m \in T : \A k \in T : m <= k
  <2> HIDE DEF T
  <2> QED
    BY <1>1, LeastNumber
<1>3. PICK y \in Y : m = b - r[y]
  BY <1>2
<1>4. \A x \in Y : b - r[x] \in T
  OBVIOUS
<1>5. \A x \in Y : r[x] <= r[y]
  <2> HIDE DEF T
  <2> QED
    BY <1>2, <1>3, <1>4
<1> QED
  BY <1>5

(* A set with a that no link leaves contains the chain up to any point: the   *)
(* members of F lead to members of F unless they are beyond e.               *)
LEMMA ChainUpTo ==
  ASSUME NEW C, NEW r, NEW nx, NEW a, NEW z, IsChain(C, r, nx, a, z),
         NEW F, NEW s \in C, s \in F, NEW e \in C,
         \A c \in C \cap F : r[s] <= r[c] /\ r[c] < r[e] => nx[c] \in F
  PROVE  \A c \in C : r[s] <= r[c] /\ r[c] <= r[e] => c \in F
<1> SUFFICES ASSUME NEW c \in C, r[s] <= r[c], r[c] <= r[e], c \notin F PROVE FALSE
  OBVIOUS
<1> DEFINE Y == {y \in C \cap F : r[s] <= r[y] /\ r[y] < r[c]}
<1>1. \A y \in C : r[y] \in Int
  BY DEF IsChain
<1>2. s \in Y
  BY <1>1 DEF IsChain
<1>3. PICK y \in Y : \A x \in Y : r[x] <= r[y]
  <2>1. \A y \in Y : r[y] \in Int /\ r[y] < r[c]
    BY <1>1
  <2> HIDE DEF Y
  <2> QED
    BY <1>1, <1>2, <2>1, GreatestBelow
<1>4. y # z /\ nx[y] \in F
  BY <1>1, <1>3 DEF IsChain
<1>5. nx[y] \in C /\ r[y] < r[nx[y]] /\ r[nx[y]] <= r[c]
  BY <1>3, <1>4 DEF IsChain
<1>6. nx[y] # c /\ r[nx[y]] # r[c]
  BY <1>4, <1>5 DEF IsChain
<1>7. nx[y] \in Y
  BY <1>1, <1>4, <1>5, <1>6
<1> QED
  BY <1>1, <1>3, <1>5, <1>7

(* A set with a that no link of the chain leaves contains the chain. *)
LEMMA ChainInside ==
  ASSUME NEW C, NEW r, NEW nx, NEW a, NEW z, IsChain(C, r, nx, a, z),
         NEW F, a \in F, \A c \in (C \cap F) \ {z} : nx[c] \in F
  PROVE  C \subseteq F
<1>1. \A c \in C : r[c] \in Int /\ r[a] <= r[c] /\ r[c] <= r[z] /\ a \in C /\ z \in C
  BY DEF IsChain
<1>2. \A c \in C \cap F : r[a] <= r[c] /\ r[c] < r[z] => nx[c] \in F
  BY <1>1
<1>3. \A c \in C : r[a] <= r[c] /\ r[c] <= r[z] => c \in F
  BY <1>1, <1>2, ChainUpTo
<1> QED
  BY <1>1, <1>3

(* Links that agree on the chain make the same chain. *)
LEMMA ChainSame ==
  ASSUME NEW C, NEW r, NEW nx, NEW a, NEW z, IsChain(C, r, nx, a, z),
         NEW ny, \A c \in C \ {z} : ny[c] = nx[c]
  PROVE  IsChain(C, r, ny, a, z)
<1>1. \A c, d \in C : r[c] \in Int /\ r[d] \in Int /\ (r[c] < r[d] => c # z)
  BY DEF IsChain
<1> QED
  BY <1>1 DEF IsChain

(* A new link is inserted behind p. *)
LEMMA ChainInsertAt ==
  ASSUME NEW C, NEW r, NEW nx, NEW a, NEW z, IsChain(C, r, nx, a, z),
         NEW p \in C, p # z, NEW n, n \notin C,
         NEW ny, ny[p] = n, ny[n] = nx[p], \A c \in C \ {p, z} : ny[c] = nx[c],
         NEW ry, \A c \in C : ry[c] = r[c], ry[n] \in Int, r[p] < ry[n], ry[n] < r[nx[p]]
  PROVE  IsChain(C \union {n}, ry, ny, a, z)
<1>1. \A c \in C : r[c] \in Int /\ r[a] <= r[c] /\ r[c] <= r[z]
  BY DEF IsChain
<1>2. nx[p] \in C /\ r[nx[p]] \in Int
  BY DEF IsChain
<1>3. \A c \in C : c # p /\ r[c] < r[nx[p]] => r[c] < r[p]
  BY <1>1, <1>2 DEF IsChain
<1>4. \A c \in C \union {n} : ry[c] \in Int /\ ry[a] <= ry[c] /\ ry[c] <= ry[z]
  BY <1>1, <1>2 DEF IsChain
<1>5. \A c \in (C \union {n}) \ {z} : ny[c] \in C \union {n} /\ ry[c] < ry[ny[c]]
  BY <1>1, <1>2 DEF IsChain
<1>6. ASSUME NEW c \in C \union {n}, NEW d \in C \union {n}, ry[c] = ry[d]
      PROVE  c = d
  <2>1. \A x \in C : ry[x] # ry[n]
    <3> SUFFICES ASSUME NEW x \in C, r[x] = ry[n] PROVE FALSE
      OBVIOUS
    <3>1. r[p] < r[x] /\ r[x] < r[nx[p]]
      OBVIOUS
    <3> QED
      BY <1>1, <1>2, <3>1 DEF IsChain
  <2> QED
    BY <1>6, <2>1 DEF IsChain
<1>7. ASSUME NEW c \in C \union {n}, NEW d \in C \union {n}, ry[c] < ry[d]
      PROVE  ry[ny[c]] <= ry[d]
  <2>1. CASE c = n
    <3>1. d \in C /\ r[p] < r[d]
      BY <1>1, <1>7, <2>1
    <3> QED
      BY <1>2, <2>1, <3>1 DEF IsChain
  <2>2. CASE c = p
    <3>1. CASE d = n
      BY <2>2, <3>1
    <3>2. CASE d # n
      <4>1. r[nx[p]] <= r[d]
        BY <1>7, <2>2, <3>2 DEF IsChain
      <4> QED
        BY <1>1, <1>2, <2>2, <3>2, <4>1
    <3> QED
      BY <3>1, <3>2
  <2>3. CASE c \in C \ {p}
    <3>1. c # z
      BY <1>4, <1>7, <2>3
    <3>2. ny[c] = nx[c] /\ nx[c] \in C
      BY <2>3, <3>1 DEF IsChain
    <3>3. CASE d = n
      <4>1. r[c] < r[p]
        BY <1>1, <1>2, <1>3, <1>7, <2>3, <3>3
      <4>2. r[nx[c]] <= r[p]
        BY <2>3, <4>1 DEF IsChain
      <4> QED
        BY <1>1, <3>2, <3>3, <4>2
    <3>4. CASE d \in C
      BY <1>7, <2>3, <3>2, <3>4 DEF IsChain
    <3> QED
      BY <3>3, <3>4
  <2> QED
    BY <2>1, <2>2, <2>3
<1> QED
  BY <1>4, <1>5, <1>6, <1>7 DEF IsChain

(* The same for some order: there is always room for one more between two    *)
(* neighbours.                                                               *)
LEMMA ChainInsert ==
  ASSUME NEW C, NEW r, NEW nx, NEW a, NEW z, IsChain(C, r, nx, a, z),
         NEW p \in C, p # z, NEW n, n \notin C,
         NEW ny, ny[p] = n, ny[n] = nx[p], \A c \in C \ {p, z} : ny[c] = nx[c]
  PROVE  \E ry : IsChain(C \union {n}, ry, ny, a, z)
<1> DEFINE rx == [c \in C |-> 2 * r[c]]
           ry == [c \in C \union {n} |-> IF c = n THEN 2 * r[p] + 1 ELSE 2 * r[c]]
<1>1. \A c \in C : r[c] \in Int /\ rx[c] = 2 * r[c] /\ rx[c] \in Int
  BY DEF IsChain
<1>2. nx[p] \in C /\ r[p] < r[nx[p]]
  BY DEF IsChain
<1>3. IsChain(C, rx, nx, a, z)
  <2> HIDE DEF rx
  <2>1. \A c, d \in C : (rx[c] < rx[d] <=> r[c] < r[d]) /\ (rx[c] <= rx[d] <=> r[c] <= r[d])
    BY <1>1
  <2>2. \A c, d \in C : r[c] < r[d] => c # z
    BY <1>1 DEF IsChain
  <2>3. \A c, d \in C : rx[c] = rx[d] => c = d
    BY <1>1 DEF IsChain
  <2> QED
    BY <1>1, <2>1, <2>2, <2>3 DEF IsChain
<1>4. /\ \A c \in C : ry[c] = rx[c]
      /\ ry[n] \in Int /\ rx[p] < ry[n] /\ ry[n] < rx[nx[p]]
  BY <1>1, <1>2
<1> HIDE DEF rx, ry
<1>5. IsChain(C \union {n}, ry, ny, a, z)
  BY <1>3, <1>4, ChainInsertAt
<1> QED
  BY <1>5

(* A run of members of D behind p is cut out: p leads to q now, where the run *)
(* ends.                                                                     *)
LEMMA ChainCut ==
  ASSUME NEW C, NEW r, NEW nx, NEW a, NEW z, IsChain(C, r, nx, a, z),
         NEW p \in C, p # z, NEW D, NEW q, z \notin D, p \notin D,
         nx[p] \in D \union {q}, \A d \in D : nx[d] \in D \union {q},
         NEW ny, ny[p] = q, \A c \in C \ {p, z} : ny[c] = nx[c]
  PROVE  \E B \in SUBSET C : B \union D = C \union D /\ IsChain(B, r, ny, a, z)
<1> DEFINE E == D \ {q}
           B == {c \in C : r[c] <= r[p] \/ r[q] <= r[c]}
<1>1. \A c \in C : r[c] \in Int /\ r[a] <= r[c] /\ r[c] <= r[z] /\ a \in C /\ z \in C
  BY DEF IsChain
<1>2. nx[p] \in C /\ r[p] < r[nx[p]]
  BY DEF IsChain
<1>3. q \in C /\ r[nx[p]] <= r[q]
  <2>1. CASE nx[p] = q
    BY <1>1, <1>2, <2>1
  <2>2. CASE nx[p] # q
    <3>1. nx[p] \in E /\ z \notin E
      BY <2>2
    <3>2. ASSUME \A c \in C \cap E : nx[c] # q
          PROVE  FALSE
      <4>1. \A c \in C \cap E : r[nx[p]] <= r[c] /\ r[c] < r[z] => nx[c] \in E
        BY <3>2
      <4>2. \A c \in C : r[nx[p]] <= r[c] /\ r[c] <= r[z] => c \in E
        <5> HIDE DEF E
        <5> QED
          BY <1>1, <1>2, <3>1, <4>1, ChainUpTo
      <4> QED
        BY <1>1, <1>2, <3>1, <4>2
    <3>3. PICK c \in C \cap E : nx[c] = q
      BY <3>2
    <3>4. c # z /\ q \in C
      BY <3>1, <3>3 DEF IsChain
    <3>5. ASSUME r[q] < r[nx[p]]
          PROVE  FALSE
      (* then nothing behind nx[p] leads to q, and all of it is in E *)
      <4>1. \A x \in C \cap E : r[nx[p]] <= r[x] /\ r[x] < r[z] => nx[x] \in E
        <5> SUFFICES ASSUME NEW x \in C \cap E, r[nx[p]] <= r[x], r[x] < r[z]
                     PROVE  nx[x] # q
          OBVIOUS
        <5>1. x # z /\ r[x] < r[nx[x]] /\ nx[x] \in C
          BY <3>1 DEF IsChain
        <5> QED
          BY <1>1, <1>2, <3>4, <3>5, <5>1
      <4>2. \A x \in C : r[nx[p]] <= r[x] /\ r[x] <= r[z] => x \in E
        <5> HIDE DEF E
        <5> QED
          BY <1>1, <1>2, <3>1, <4>1, ChainUpTo
      <4> QED
        BY <1>1, <1>2, <3>1, <4>2
    <3> QED
      BY <1>1, <1>2, <3>4, <3>5
  <2> QED
    BY <2>1, <2>2
<1>4. \A c \in C : r[p] < r[c] /\ r[c] < r[q] => c \in D
  <2> SUFFICES ASSUME NEW c \in C, r[p] < r[c], r[c] < r[q] PROVE c \in D
    OBVIOUS
  <2>1. r[nx[p]] <= r[c]
    BY DEF IsChain
  <2>2. nx[p] \in D /\ nx[p] # q
    BY <1>1, <1>2, <1>3, <2>1
  <2>3. \A x \in C \cap (E \union {q}) : r[nx[p]] <= r[x] /\ r[x] < r[q] => nx[x] \in E \union {q}
    BY <1>1, <1>3
  <2>4. nx[p] \in E \union {q}
    BY <2>2
  <2> DEFINE F == E \union {q}
  <2>5. c \in F
    <3> HIDE DEF E, F
    <3>1. \A x \in C \cap F : r[nx[p]] <= r[x] /\ r[x] < r[q] => nx[x] \in F
      BY <2>3 DEF F
    <3>2. nx[p] \in F /\ r[c] <= r[q]
      BY <1>1, <1>3, <2>4 DEF F
    <3>3. \A x \in C : r[nx[p]] <= r[x] /\ r[x] <= r[q] => x \in F
      BY <1>2, <1>3, <3>1, <3>2, ChainUpTo
    <3> QED
      BY <2>1, <3>2, <3>3
  <2> QED
    BY <1>1, <1>3, <2>5
<1>5. B \union D = C \union D
  BY <1>1, <1>3, <1>4
<1>6. a \in B /\ z \in B /\ q \in B /\ p \in B
  BY <1>1, <1>3
<1>7. \A c \in B \ {z} : ny[c] \in B /\ r[c] < r[ny[c]]
  <2> SUFFICES ASSUME NEW c \in B, c # z PROVE ny[c] \in B /\ r[c] < r[ny[c]]
    OBVIOUS
  <2>1. CASE c = p
    BY <1>1, <1>2, <1>3, <1>6, <2>1
  <2>2. CASE c # p
    <3>1. ny[c] = nx[c] /\ nx[c] \in C /\ r[c] < r[nx[c]]
      BY <2>2 DEF IsChain
    <3>2. CASE r[c] <= r[p]
      <4>1. r[c] < r[p]
        BY <1>1, <2>2, <3>2 DEF IsChain
      <4>2. r[nx[c]] <= r[p]
        BY <4>1 DEF IsChain
      <4> QED
        BY <3>1, <4>2
    <3>3. CASE r[q] <= r[c]
      BY <1>1, <1>3, <3>1, <3>3
    <3> QED
      BY <3>2, <3>3
  <2> QED
    BY <2>1, <2>2
<1>8. \A c, d \in B : (r[c] < r[d] => r[ny[c]] <= r[d]) /\ (r[c] = r[d] => c = d)
  <2> SUFFICES ASSUME NEW c \in B, NEW d \in B, r[c] < r[d] PROVE r[ny[c]] <= r[d]
    BY DEF IsChain
  <2>1. CASE c = p
    BY <1>1, <1>3, <2>1
  <2>2. CASE c # p
    BY <1>1, <2>2 DEF IsChain
  <2> QED
    BY <2>1, <2>2
<1> HIDE DEF B
<1>9. B \in SUBSET C
  BY DEF B
<1>10. IsChain(B, r, ny, a, z)
  BY <1>1, <1>6, <1>7, <1>8, <1>9 DEF IsChain
<1> QED
  BY <1>5, <1>9, <1>10
=============================================================================
