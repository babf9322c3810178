------------------------------- MODULE Mutex -------------------------------
(***************************************************************************)
(* What u7_spinlock promises, whatever it is made of: one holder at a      *)
(* time, and a lock that is free does not stay so while threads wait.      *)
(* Which of them gets it is left open.                                     *)
(*                                                                         *)
(* Spinlock implements this specification.  On Apple's platforms the       *)
(* operations forward to os_unfair_lock, and this is all that is said of   *)
(* it.                                                                     *)
(***************************************************************************)
CONSTANT Thread

VARIABLES
  holder,   (* the thread that holds the lock, as a set                   *)
  waiting   (* the threads in u7_spinlock_lock                            *)

vars == <<holder, waiting>>

Init == holder = {} /\ waiting = {}

(* u7_spinlock_lock is called ...                                          *)
Lock(t) ==
  /\ t \notin holder \cup waiting
  /\ waiting' = waiting \cup {t}
  /\ UNCHANGED holder

(* ... and obtains the lock.                                               *)
Acquire(t) ==
  /\ holder = {} /\ t \in waiting
  /\ holder' = {t}
  /\ waiting' = waiting \ {t}

(* u7_spinlock_trylock obtains the lock; if it does not, nothing happens.  *)
Trylock(t) ==
  /\ holder = {} /\ t \notin waiting
  /\ holder' = {t}
  /\ UNCHANGED waiting

Unlock(t) ==
  /\ t \in holder
  /\ holder' = {}
  /\ UNCHANGED waiting

Next == \E t \in Thread : Lock(t) \/ Acquire(t) \/ Trylock(t) \/ Unlock(t)

Spec == Init /\ [][Next]_vars /\ WF_vars(\E t \in Thread : Acquire(t))
=============================================================================
