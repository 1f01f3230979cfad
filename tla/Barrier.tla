------------------------------- MODULE Barrier -------------------------------
(***************************************************************************)
(* include/barrier.h: a barrier made of a counter, a mutex and a condition *)
(* variable. The body of barrier_cross runs under the mutex, which waiting *)
(* releases, so it is one step up to pthread_cond_wait. That call is not    *)
(* repeated in a loop: here it returns after the broadcast only, though     *)
(* POSIX lets it return earlier.                                           *)
(***************************************************************************)
EXTENDS Integers

CONSTANT
  count  (* the number of threads that have to meet *)

VARIABLES
  crossing,  (* the threads that have arrived *)
  waiting    (* the threads inside pthread_cond_wait *)

barrier_init == crossing = 0 /\ waiting = {}

(* Fault: the barrier opens for the last but one. *)
AllHereEarly == crossing + 1 >= count - 1

(* with the thread that is arriving *)
AllHere == crossing + 1 >= count

ArriveAndWait(t) ==
  /\ ~AllHere
  /\ crossing' = crossing + 1
  /\ waiting' = waiting \union {t}

(* The last one wakes the others up and resets the counter for the next time. *)
ArriveLast ==
  /\ AllHere
  /\ crossing' = 0
  /\ waiting' = {}
=============================================================================
