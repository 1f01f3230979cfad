-------------------------- MODULE HashTableProofs --------------------------
(***************************************************************************)
(* The hash tables for every number of threads, keys and buckets: each key *)
(* has one bucket, which exists, and the buckets together are one          *)
(* linearizable set.                                                       *)
(***************************************************************************)
EXTENDS HashTable, TLAPS

Parameters ==
  /\ BUCKET_NUM \in Nat \ {0}
  /\ Keys \subseteq Int
  /\ NoAnswer \notin BOOLEAN

IInv == TypeOK /\ KeysAreInTheirBucket

(* table[abs(k % BUCKET_NUM)] is an element of the array for every int k, the *)
(* negative ones too, and abs is never asked for the absolute value of the    *)
(* least int, which is none.                                                 *)
THEOREM BucketsExist ==
  ASSUME Parameters, NEW k \in Int
  PROVE  /\ getBucket(k) \in Buckets
         /\ Remainder(k, BUCKET_NUM) > -BUCKET_NUM
<1>1. k >= 0 => k % BUCKET_NUM \in 0..(BUCKET_NUM - 1)
  BY DEF Parameters
<1>2. k < 0 => (-k) % BUCKET_NUM \in 0..(BUCKET_NUM - 1)
  BY DEF Parameters
<1> QED
  BY <1>1, <1>2 DEF Parameters, getBucket, abs, Remainder, Buckets

(* What a call does to a set and answers is a matter of its own key alone.    *)
LEMMA CallsAreLocal ==
  ASSUME NEW c \in Calls, NEW S, NEW T, c.arg \in S <=> c.arg \in T
  PROVE  /\ AnswerOf(c, S) = AnswerOf(c, T)
         /\ AnswerOf(c, S) \in BOOLEAN
         /\ \A k : k # c.arg => (k \in SetAfter(c, S) <=> k \in S)
         /\ c.arg \in SetAfter(c, S) <=> c.arg \in SetAfter(c, T)
         /\ \A k \in SetAfter(c, S) : k \in S \/ k = c.arg
<1>1. c.op \in {"insert", "remove", "contains"} /\ c.arg \in Keys
  BY DEF Calls, Operations
<1>2. CASE c.op = "insert"
  BY <1>2 DEF AnswerOf, SetAfter
<1>3. CASE c.op = "remove"
  BY <1>3 DEF AnswerOf, SetAfter
<1>4. CASE c.op = "contains"
  BY <1>4 DEF AnswerOf, SetAfter
<1> QED
  BY <1>1, <1>2, <1>3, <1>4

LEMMA NoneIsNoCall == None \notin Calls
BY DEF None, Calls, Operations

LEMMA InvInit ==
  ASSUME Init
  PROVE  IInv
BY DEF Init, IInv, TypeOK, KeysAreInTheirBucket

LEMMA InvStep ==
  ASSUME Parameters, IInv, [Next]_vars
  PROVE  IInv'
<1>1. CASE UNCHANGED vars
  BY <1>1 DEF vars, IInv, TypeOK, KeysAreInTheirBucket
<1>2. ASSUME NEW t \in Threads, NEW c \in Calls, Invoke(t, c)
      PROVE  IInv'
  BY <1>2 DEF Invoke, IInv, TypeOK, KeysAreInTheirBucket
<1>3. ASSUME NEW t \in Threads, BucketTakesEffect(t)
      PROVE  IInv'
  <2> DEFINE b == getBucket(call[t].arg)
             S == table[b]
  <2>1. call[t] \in Calls /\ call[t].arg \in Keys
    BY <1>3 DEF BucketTakesEffect, IInv, TypeOK, Calls
  <2>2. b \in Buckets
    BY <2>1, BucketsExist DEF Parameters
  <2>3. /\ AnswerOf(call[t], S) \in BOOLEAN
        /\ \A k \in SetAfter(call[t], S) : k \in S \/ k = call[t].arg
    BY <2>1, CallsAreLocal
  <2>4. table' = [table EXCEPT ![b] = SetAfter(call[t], S)]
    BY <1>3 DEF BucketTakesEffect
  <2>5. TypeOK'
    <3>1. SetAfter(call[t], S) \subseteq Keys
      BY <2>1, <2>2, <2>3 DEF IInv, TypeOK
    <3>2. table' \in [Buckets -> SUBSET Keys]
      BY <2>2, <2>4, <3>1 DEF IInv, TypeOK
    <3>3. answer' \in [Threads -> BOOLEAN \union {NoAnswer}]
      BY <1>3, <2>3 DEF BucketTakesEffect, IInv, TypeOK
    <3> QED
      BY <1>3, <3>2, <3>3 DEF BucketTakesEffect, IInv, TypeOK
  <2>6. KeysAreInTheirBucket'
    <3> SUFFICES ASSUME NEW d \in Buckets, NEW k \in table'[d]
                 PROVE  getBucket(k) = d
      BY DEF KeysAreInTheirBucket
    <3>1. CASE d = b
      BY <2>2, <2>3, <2>4, <3>1 DEF IInv, TypeOK, KeysAreInTheirBucket
    <3>2. CASE d # b
      BY <2>4, <3>2 DEF IInv, TypeOK, KeysAreInTheirBucket
    <3> QED
      BY <3>1, <3>2
  <2> QED
    BY <2>5, <2>6 DEF IInv
<1>4. ASSUME NEW t \in Threads, Return(t)
      PROVE  IInv'
  BY <1>4 DEF Return, IInv, TypeOK, KeysAreInTheirBucket
<1> QED
  BY <1>1, <1>2, <1>3, <1>4 DEF Next

(* A key is never in a bucket other than its own: the buckets are disjoint.   *)
THEOREM KeysStayInTheirBucket ==
  ASSUME Parameters
  PROVE  Spec => []KeysAreInTheirBucket
<1>1. Init => IInv
  BY InvInit
<1>2. IInv /\ [Next]_vars => IInv'
  BY InvStep
<1>3. IInv => KeysAreInTheirBucket
  BY DEF IInv
<1> QED
  BY <1>1, <1>2, <1>3, PTL DEF Spec

(* The table answers as the set of all members would, and changes it so.      *)
LEMMA EffectOfTheWhole ==
  ASSUME Parameters, IInv, NEW t \in Threads, BucketTakesEffect(t)
  PROVE  Whole!TakeEffect(t)
<1> DEFINE b == getBucket(call[t].arg)
           S == table[b]
           W == UNION {table[d] : d \in Buckets}
<1>1. call[t] \in Calls /\ call[t].arg \in Keys
  BY DEF BucketTakesEffect, IInv, TypeOK, Calls
<1>2. b \in Buckets
  BY <1>1, BucketsExist DEF Parameters
<1>3. table' = [table EXCEPT ![b] = SetAfter(call[t], S)]
  BY DEF BucketTakesEffect
<1>4. call[t].arg \in W <=> call[t].arg \in S
  BY <1>2 DEF IInv, KeysAreInTheirBucket
<1>5. /\ AnswerOf(call[t], W) = AnswerOf(call[t], S)
      /\ call[t].arg \in SetAfter(call[t], S) <=> call[t].arg \in SetAfter(call[t], W)
      /\ \A k : k # call[t].arg => (k \in SetAfter(call[t], S) <=> k \in S)
      /\ \A k : k # call[t].arg => (k \in SetAfter(call[t], W) <=> k \in W)
  <2> HIDE DEF S, W
  <2> QED
    BY <1>1, <1>4, CallsAreLocal
<1>6. W' = SetAfter(call[t], W)
  <2> SUFFICES ASSUME NEW k
               PROVE  k \in W' <=> k \in SetAfter(call[t], W)
    OBVIOUS
  <2>1. \A d \in Buckets : table'[d] = IF d = b THEN SetAfter(call[t], S) ELSE table[d]
    BY <1>3 DEF IInv, TypeOK
  <2>2. CASE k = call[t].arg
    <3>1. \A d \in Buckets : d # b => k \notin table[d]
      BY <2>2 DEF IInv, KeysAreInTheirBucket
    <3>2. k \in W' <=> k \in SetAfter(call[t], S)
      BY <1>2, <2>1, <3>1
    <3>3. k \in SetAfter(call[t], S) <=> k \in SetAfter(call[t], W)
      BY <1>5, <2>2
    <3> QED
      BY <3>2, <3>3
  <2>3. CASE k # call[t].arg
    <3>1. k \in SetAfter(call[t], S) <=> k \in S
      BY <1>5, <2>3
    <3>2. k \in SetAfter(call[t], W) <=> k \in W
      BY <1>5, <2>3
    <3>3. \A d \in Buckets : k \in table'[d] <=> k \in table[d]
      BY <2>1, <3>1
    <3> QED
      BY <3>2, <3>3
  <2> QED
    BY <2>2, <2>3
<1> QED
  BY <1>5, <1>6 DEF BucketTakesEffect, Whole!TakeEffect, Whole!AnswerOf, Whole!SetAfter,
                    AnswerOf, SetAfter, Whole!None, None

(* The buckets, each a linearizable set, make one linearizable set of all     *)
(* keys: the order of effects in different buckets needs no agreement.       *)
THEOREM TableIsOneSet ==
  ASSUME Parameters
  PROVE  Spec => ImplementsOneSet
<1>1. Init => Whole!Init
  BY DEF Init, Whole!Init, Whole!None, None
<1>2. IInv /\ [Next]_vars => [Whole!Next]_(Whole!vars)
  <2> SUFFICES ASSUME IInv, [Next]_vars
               PROVE  [Whole!Next]_(Whole!vars)
    OBVIOUS
  <2>1. CASE UNCHANGED vars
    BY <2>1 DEF vars, Whole!vars
  <2>2. ASSUME NEW t \in Threads, NEW c \in Calls, Invoke(t, c)
        PROVE  Whole!Next
    <3>1. Whole!Invoke(t, c)
      BY <2>2 DEF Invoke, Whole!Invoke, Whole!None, None
    <3> QED
      BY <3>1 DEF Whole!Next, Whole!Calls, Whole!Operations, Calls, Operations
  <2>3. ASSUME NEW t \in Threads, BucketTakesEffect(t)
        PROVE  Whole!Next
    BY <2>3, EffectOfTheWhole DEF Whole!Next
  <2>4. ASSUME NEW t \in Threads, Return(t)
        PROVE  Whole!Next
    <3>1. Whole!Respond(t)
      BY <2>4 DEF Return, Whole!Respond, Whole!None, None
    <3> QED
      BY <3>1 DEF Whole!Next
  <2> QED
    BY <2>1, <2>2, <2>3, <2>4 DEF Next
<1>3. Init => IInv
  BY InvInit
<1>4. IInv /\ [Next]_vars => IInv'
  BY InvStep
<1> QED
  BY <1>1, <1>2, <1>3, <1>4, PTL DEF Spec, ImplementsOneSet, Whole!Spec
=============================================================================
