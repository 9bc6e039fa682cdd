------------------------------- MODULE Mutex --------------------------------
(***************************************************************************)
(* The spinning mutex of mulibc (threads.c).  A mutex is an atomic_flag;   *)
(* locked is the set of mutexes whose flag is set.  A turn of mtx_lock's   *)
(* loop that finds the flag set changes nothing but who has the CPU, so    *)
(* only the test-and-set that succeeds is a step.                          *)
(***************************************************************************)
VARIABLE locked

\* mtx_init of every mutex in use.
mtx_init == locked = {}

\* Bug: the result of the test is ignored.
mtx_lock_untested(m) == locked' = locked \cup {m}
mtx_lock(m) == m \notin locked /\ locked' = locked \cup {m}

\* Bug: the flag is left set.
mtx_unlock_missing(m) == UNCHANGED locked
mtx_unlock(m) == locked' = locked \ {m}
=============================================================================
