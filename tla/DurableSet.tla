----------------------------- MODULE DurableSet -----------------------------
(***************************************************************************)
(* What every structure of this repository promises: a set of integer keys *)
(* with insert, remove and contains that is durably linearizable.          *)
(*                                                                         *)
(*  - Between its invocation and its response an operation takes effect    *)
(*    once, atomically, and answers what the sequential set would answer.  *)
(*  - A crash keeps the effect of every operation that has responded; an   *)
(*    operation that was still running either took effect or did not.      *)
(*                                                                         *)
(* The specification is a monitor, the subset construction of the set with *)
(* linearization points: "outcomes" holds every (set, answers already      *)
(* fixed) pair that the events seen so far allow. An event that no pair    *)
(* allows has no step here, so an implementation whose events are all      *)
(* steps of Next is durably linearizable. The monitor never guesses: a     *)
(* refinement needs neither prophecy nor a linearization point in its      *)
(* code, which contains and a failed insert do not have.                   *)
(***************************************************************************)
EXTENDS SequentialSet, Integers, FiniteSets, Functions

CONSTANT Threads  (* the callers *)

VARIABLES
  call,     (* call[t]: the operation t has invoked and not yet returned from *)
  outcomes  (* the configurations the history allows *)

NoAnswer == [t \in {} |-> TRUE]

Configurations ==
  [set : SUBSET Keys, res : UNION {[T -> BOOLEAN] : T \in SUBSET Threads}]

-----------------------------------------------------------------------------
(* The pairs reached by letting running operations take effect. *)

TakeEffect(c, g, t) ==
  [set |-> SetAfter(c[t], g.set),
   res |-> [u \in DOMAIN g.res \union {t} |->
              IF u = t THEN AnswerOf(c[t], g.set) ELSE g.res[u]]]

Running(c, g) == {t \in Threads : c[t] # None /\ t \notin DOMAIN g.res}

(* From the pairs o, when c[t] is what t has invoked. *)
ReachFrom(c, o) ==
  LET f[i \in 0..Cardinality(Threads)] ==
        IF i = 0
        THEN o
        ELSE f[i-1] \union
             UNION {{TakeEffect(c, g, t) : t \in Running(c, g)} : g \in f[i-1]}
  IN  f[Cardinality(Threads)]

Reach == ReachFrom(call, outcomes)

(* What is left of the outcomes when t answers r. *)
AfterAnswer(t, r) ==
  {[set |-> g.set, res |-> Restrict(g.res, DOMAIN g.res \ {t})] :
     g \in {h \in Reach : t \in DOMAIN h.res /\ h.res[t] = r}}

(* A crash forgets the running operations and keeps what they may have done. *)
AfterCrash == {[set |-> g.set, res |-> NoAnswer] : g \in Reach}

(* After recovery the structure holds exactly S. *)
AfterRecovery(S) == {g \in outcomes : g.set = S}

-----------------------------------------------------------------------------
Init ==
  /\ call = [t \in Threads |-> None]
  /\ outcomes = {[set |-> {}, res |-> NoAnswer]}

Invoke(t, c) ==
  /\ call[t] = None
  /\ call' = [call EXCEPT ![t] = c]
  /\ UNCHANGED outcomes

Respond(t, r) ==
  /\ call[t] # None
  /\ call' = [call EXCEPT ![t] = None]
  /\ outcomes' = AfterAnswer(t, r)
  /\ outcomes' # {}

Crash ==
  /\ call' = [t \in Threads |-> None]
  /\ outcomes' = AfterCrash

Recovered(S) ==
  /\ call = [t \in Threads |-> None]
  /\ outcomes' = AfterRecovery(S)
  /\ outcomes' # {}
  /\ UNCHANGED call

Next ==
  \/ \E t \in Threads, c \in Calls : Invoke(t, c)
  \/ \E t \in Threads, r \in BOOLEAN : Respond(t, r)
  \/ Crash
  \/ \E S \in SUBSET Keys : Recovered(S)

Spec == Init /\ [][Next]_<<call, outcomes>>

TypeOK ==
  /\ call \in [Threads -> Calls \union {None}]
  /\ outcomes \subseteq Configurations
=============================================================================
