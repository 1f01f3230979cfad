--------------------------- MODULE SequentialSet ---------------------------
(***************************************************************************)
(* The calls of the sets of this repository, and what each answers and     *)
(* does when nothing else runs.                                            *)
(***************************************************************************)

CONSTANT Keys  (* the keys the callers use *)

Operations == {"insert", "remove", "contains"}

Calls == [op : Operations, arg : Keys]

(* Not an operation: the thread is between two calls. *)
None == [op |-> "none"]

AnswerOf(c, S) ==
  CASE c.op = "insert"   -> c.arg \notin S
    [] c.op = "remove"   -> c.arg \in S
    [] c.op = "contains" -> c.arg \in S

SetAfter(c, S) ==
  CASE c.op = "insert"   -> S \union {c.arg}
    [] c.op = "remove"   -> S \ {c.arg}
    [] c.op = "contains" -> S
=============================================================================
