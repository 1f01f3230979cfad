----------------------------- MODULE HashTable -----------------------------
(***************************************************************************)
(* LinkFree/LinkFreeHashTable.h and SOFT/SOFTHashTable.h, the same but for *)
(* the type of the buckets: an array of BUCKET_NUM lists. A call of the    *)
(* table is one call of the list its key belongs to, and the lists are     *)
(* linearizable sets (LinkFreeList, SOFTList): here a bucket is its set.   *)
(***************************************************************************)
EXTENDS SequentialSet, Integers

CONSTANTS
  Threads, NoAnswer,
  BUCKET_NUM  (* defined by the Makefile *)

VARIABLES
  table,        (* table[b]: the members of a bucket *)
  call, answer  (* the running call of a thread, and its answer *)

vars == <<table, call, answer>>

Buckets == 0..(BUCKET_NUM - 1)

(* The operator % of C rounds the quotient to zero. *)
Remainder(k, n) == IF k >= 0 THEN k % n ELSE -((-k) % n)

abs(x) == IF x >= 0 THEN x ELSE -x

getBucket(k) == abs(Remainder(k, BUCKET_NUM))

Init ==
  /\ table = [b \in Buckets |-> {}]
  /\ call = [t \in Threads |-> None]
  /\ answer = [t \in Threads |-> NoAnswer]

Invoke(t, c) ==
  /\ call[t] = None
  /\ call' = [call EXCEPT ![t] = c]
  /\ UNCHANGED <<table, answer>>

(* The call of the bucket takes effect there. *)
BucketTakesEffect(t) ==
  LET b == getBucket(call[t].arg) IN
  /\ call[t] # None /\ answer[t] = NoAnswer
  /\ table' = [table EXCEPT ![b] = SetAfter(call[t], table[b])]
  /\ answer' = [answer EXCEPT ![t] = AnswerOf(call[t], table[b])]
  /\ UNCHANGED call

Return(t) ==
  /\ answer[t] # NoAnswer
  /\ call' = [call EXCEPT ![t] = None]
  /\ answer' = [answer EXCEPT ![t] = NoAnswer]
  /\ UNCHANGED table

Next ==
  \E t \in Threads : (\E c \in Calls : Invoke(t, c)) \/ BucketTakesEffect(t) \/ Return(t)

Spec == Init /\ [][Next]_vars

-----------------------------------------------------------------------------
TypeOK ==
  /\ table \in [Buckets -> SUBSET Keys]
  /\ call \in [Threads -> Calls \union {None}]
  /\ answer \in [Threads -> BOOLEAN \union {NoAnswer}]

(* A key is in no bucket but its own: no two buckets can answer for it.      *)
KeysAreInTheirBucket ==
  \A b \in Buckets : \A k \in table[b] : getBucket(k) = b

(* The table is one linearizable set of all keys, although its buckets       *)
(* answer independently of each other.                                       *)
Whole == INSTANCE ConcurrentSet WITH set <- UNION {table[b] : b \in Buckets}

ImplementsOneSet == Whole!Spec
=============================================================================
