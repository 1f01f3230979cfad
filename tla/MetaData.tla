------------------------------ MODULE MetaData ------------------------------
(***************************************************************************)
(* The validity byte of a link-free node (LinkFree/utilities.h): v1 is its *)
(* highest bit, v2 its lowest, and the node is valid when they agree.      *)
(* allocNode flips v1, makeValid copies v1 to v2. makeValid is a load, a   *)
(* test and a store with no compare-and-swap: any number of threads may be *)
(* between the load and the store of one node. LinkFreeList takes it for   *)
(* one step that raises a Boolean; this module is why it may.              *)
(***************************************************************************)
EXTENDS Integers

CONSTANT Threads

VARIABLES
  metaData,
  oldMetaData  (* what each thread inside makeValid has loaded *)

vars == <<metaData, oldMetaData>>

Bytes == 0..255

(* Not inside makeValid. *)
Outside == 256

HIGH_CHAR_MASK == 128

V1(m) == m \div HIGH_CHAR_MASK
V2(m) == m % 2

isValid(m) == V1(m) = V2(m)

(* (m & 0x80) ^ 0x80, added to the other bits of m. *)
flipped(m) == HIGH_CHAR_MASK * (1 - V1(m)) + (m % HIGH_CHAR_MASK)

(* v1 added to the bits of m above the lowest. *)
withV2(m) == V1(m) + (m - V2(m))

-----------------------------------------------------------------------------
(* ssmem zeroes the memory it hands out. *)
Init ==
  /\ metaData = 0
  /\ oldMetaData = [t \in Threads |-> Outside]

MakeValidLoad(t) ==
  /\ oldMetaData[t] = Outside
  /\ oldMetaData' = [oldMetaData EXCEPT ![t] = metaData]
  /\ UNCHANGED metaData

MakeValidStore(t) ==
  /\ oldMetaData[t] # Outside
  /\ metaData' = IF isValid(oldMetaData[t]) THEN metaData ELSE withV2(oldMetaData[t])
  /\ oldMetaData' = [oldMetaData EXCEPT ![t] = Outside]

(* Only the allocation of the node flips it, and ssmem hands a node out when *)
(* no operation that may hold it is still running (HeldNodesAreNotReused).   *)
FlipV1 ==
  /\ \A t \in Threads : oldMetaData[t] = Outside
  /\ metaData' = flipped(metaData)
  /\ UNCHANGED oldMetaData

Next ==
  \/ \E t \in Threads : MakeValidLoad(t) \/ MakeValidStore(t)
  \/ FlipV1

Spec == Init /\ [][Next]_vars

-----------------------------------------------------------------------------
(* The variables have their types. *)
TypeOK ==
  /\ metaData \in Bytes
  /\ oldMetaData \in [Threads -> Bytes \union {Outside}]

(* What a thread loaded is of the node's present life, and a node it saw      *)
(* valid is valid still: a late store cannot undo or outlive anything.       *)
LoadsAreCurrent ==
  \A t \in Threads : oldMetaData[t] # Outside =>
    /\ V1(oldMetaData[t]) = V1(metaData)
    /\ isValid(oldMetaData[t]) => isValid(metaData)

(* makeValid leaves the node valid, even when it stores nothing because the   *)
(* byte was valid when loaded.                                               *)
MakeValidMakesValid ==
  [][\A t \in Threads : oldMetaData[t] # Outside /\ oldMetaData'[t] = Outside =>
       isValid(metaData')]_vars
=============================================================================
