---------------------------- MODULE LockedCounter ----------------------------
(***************************************************************************)
(* What the author of LOCK v; ADD v,v,1; UNLOCK v expects, without mutexes,*)
(* condition variables and waiting: a variable has at most one holder,     *)
(* LOCK succeeds only when it has none, and the holder's ADD is one step.  *)
(***************************************************************************)
EXTENDS Integers

CONSTANTS
  Threads,
  Vars,
  Nobody    \* holds a variable that nobody has locked

VARIABLES
  holder,   \* who is between LOCK and UNLOCK
  count     \* the value

vars == <<holder, count>>

Init ==
  /\ holder = [v \in Vars |-> Nobody]
  /\ count = [v \in Vars |-> 0]

Acquire(t, v) ==
  /\ holder[v] = Nobody
  /\ holder' = [holder EXCEPT ![v] = t]
  /\ UNCHANGED count

Increment(t, v) ==
  /\ holder[v] = t
  /\ count' = [count EXCEPT ![v] = @ + 1]
  /\ UNCHANGED holder

Release(t, v) ==
  /\ holder[v] = t
  /\ holder' = [holder EXCEPT ![v] = Nobody]
  /\ UNCHANGED count

Next ==
  \E t \in Threads, v \in Vars : Acquire(t, v) \/ Increment(t, v) \/ Release(t, v)

Spec == Init /\ [][Next]_vars
=============================================================================
