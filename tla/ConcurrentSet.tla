--------------------------- MODULE ConcurrentSet ---------------------------
(***************************************************************************)
(* A linearizable set, its effects visible: every call takes effect once,  *)
(* atomically, between its invocation and its answer. DurableSet describes *)
(* the same histories, crashes added, without showing when that is.        *)
(***************************************************************************)
EXTENDS SequentialSet

CONSTANTS Threads, NoAnswer

VARIABLES
  set,
  call,   (* call[t]: what t has called and not yet returned from *)
  answer  (* answer[t]: what it will return, once it has taken effect *)

vars == <<set, call, answer>>

Init ==
  /\ set = {}
  /\ call = [t \in Threads |-> None]
  /\ answer = [t \in Threads |-> NoAnswer]

Invoke(t, c) ==
  /\ call[t] = None
  /\ call' = [call EXCEPT ![t] = c]
  /\ UNCHANGED <<set, answer>>

TakeEffect(t) ==
  /\ call[t] # None /\ answer[t] = NoAnswer
  /\ set' = SetAfter(call[t], set)
  /\ answer' = [answer EXCEPT ![t] = AnswerOf(call[t], set)]
  /\ UNCHANGED call

Respond(t) ==
  /\ answer[t] # NoAnswer
  /\ call' = [call EXCEPT ![t] = None]
  /\ answer' = [answer EXCEPT ![t] = NoAnswer]
  /\ UNCHANGED set

Next == \E t \in Threads : (\E c \in Calls : Invoke(t, c)) \/ TakeEffect(t) \/ Respond(t)

Spec == Init /\ [][Next]_vars
=============================================================================
