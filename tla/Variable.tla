------------------------------ MODULE Variable ------------------------------
(***************************************************************************)
(* The MIS variables shared by the threads of one program: the class       *)
(* Variable and its four derived types (src/src/Variable.cpp), driven by   *)
(* the instructions that use them (ThreadFuncs.cpp, MathFuncs.cpp).        *)
(*                                                                         *)
(* Every Variable object has a pthread mutex, a condition variable and an  *)
(* owner field.  Getters, setters and lock() take the mutex, wait at most  *)
(* once if somebody else owns the variable, and then go on; unlock() and   *)
(* the first test of lock() touch the owner without the mutex.  The steps  *)
(* below are the accesses to shared memory, in the order of the source.    *)
(*                                                                         *)
(* A thread executes a script: the variable operations of the MIS          *)
(* instructions it runs, in order.  ADD x,x,1 is a "get" of x followed by  *)
(* an "add" that stores what was read plus 1.                              *)
(***************************************************************************)
EXTENDS Integers, Sequences, FiniteSets

CONSTANTS
  Threads,    \* the threads that run MIS instructions
  Main,       \* the one among them that runs Program::execute
  Vars,       \* the Variable objects
  Consts,     \* those on which makeConst() was called (VarInt, ... literals)
  NoOwner,    \* owner == nullptr; also: nobody holds the mutex
  Scripts,    \* the operations the threads may execute, one choice per run
  Spurious    \* whether pthread_cond_wait may return without a signal

Kinds == {"lock", "unlock", "get", "set", "add"}
Op == [kind : Kinds, var : Vars, val : Int]

ASSUME ThreadsAssumption == /\ Main \in Threads
                            /\ NoOwner \notin Threads
ASSUME VarsAssumption == Consts \subseteq Vars
ASSUME ScriptsAssumption == Scripts \subseteq [Threads -> Seq(Op)]
ASSUME SpuriousAssumption == Spurious \in BOOLEAN

VARIABLES
  script,     \* the operations each thread executes
  ip,         \* index of the operation each thread is in or will call next
  pc,         \* where in that operation it is
  reg,        \* the value its last getter returned
  owner,      \* Variable::owner
  mutex,      \* the thread that holds Variable::mutex
  value       \* m_value

vars == <<script, ip, pc, reg, owner, mutex, value>>

(* "enter": before pthread_mutex_lock.  "test": before the test of owner.  *)
(* "wait": before pthread_cond_wait.  "asleep": blocked in it.  "awake":   *)
(* woken, mutex not yet taken again.  "act"/"resume": at the access, the   *)
(* second after a wait.  "leave": before pthread_mutex_unlock.  "disown",  *)
(* "signal": the two statements of unlock().  "threw": left by exception.  *)
Holding == {"test", "wait", "act", "resume", "leave"}
PCs == Holding \cup {"ready", "enter", "asleep", "awake", "disown", "signal", "threw"}

Init ==
  /\ script \in Scripts
  /\ ip = [t \in Threads |-> 1]
  /\ pc = [t \in Threads |-> "ready"]
  /\ reg = [t \in Threads |-> 0]
  /\ owner = [v \in Vars |-> NoOwner]
  /\ mutex = [v \in Vars |-> NoOwner]
  /\ value = [v \in Vars |-> 0]

Cur(t) == script[t][ip[t]]
Goto(t, from, to) == pc[t] = from /\ pc' = [pc EXCEPT ![t] = to]

-----------------------------------------------------------------------------
(* The entry of an operation, up to its first access under the mutex.      *)

CallLock(t) ==
  /\ Cur(t).kind = "lock"
  /\ Goto(t, "ready",
          IF t = Main \/ owner[Cur(t).var] = t THEN "threw" ELSE "enter")

CallUnlock(t) ==
  /\ Cur(t).kind = "unlock"
  /\ Goto(t, "ready",
          IF t = Main \/ owner[Cur(t).var] = NoOwner THEN "threw" ELSE "disown")

CallGet(t) ==
  /\ Cur(t).kind = "get"
  /\ Goto(t, "ready", "enter")

(* Mutant: is_const is not tested.                                         *)
CallSetAnything(t) ==
  /\ Cur(t).kind \in {"set", "add"}
  /\ Goto(t, "ready", "enter")

CallSet(t) ==
  /\ Cur(t).kind \in {"set", "add"}
  /\ Goto(t, "ready", IF Cur(t).var \in Consts THEN "threw" ELSE "enter")

Call(t) ==
  /\ ip[t] \in 1..Len(script[t])
  /\ CallLock(t) \/ CallUnlock(t) \/ CallGet(t) \/ CallSet(t)
  /\ UNCHANGED <<script, ip, reg, owner, mutex, value>>

-----------------------------------------------------------------------------
(* The critical section, the same text in lock(), the getters and setters. *)

TakeMutex(t) ==
  /\ mutex[Cur(t).var] = NoOwner
  /\ mutex' = [mutex EXCEPT ![Cur(t).var] = t]

DropMutex(t) == mutex' = [mutex EXCEPT ![Cur(t).var] = NoOwner]

Enter(t) ==
  /\ Goto(t, "enter", "test")
  /\ TakeMutex(t)
  /\ UNCHANGED <<script, ip, reg, owner, value>>

(* Mutants: the test of owner is left out; it forgets owner == self.       *)
TestNothing(t) ==
  /\ Goto(t, "test", "act")
  /\ UNCHANGED <<script, ip, reg, owner, mutex, value>>

TestForFree(t) ==
  /\ Goto(t, "test", IF owner[Cur(t).var] = NoOwner THEN "act" ELSE "wait")
  /\ UNCHANGED <<script, ip, reg, owner, mutex, value>>

Test(t) ==
  /\ Goto(t, "test",
          IF owner[Cur(t).var] \in {NoOwner, t} THEN "act" ELSE "wait")
  /\ UNCHANGED <<script, ip, reg, owner, mutex, value>>

Wait(t) ==
  /\ Goto(t, "wait", "asleep")
  /\ DropMutex(t)
  /\ UNCHANGED <<script, ip, reg, owner, value>>

SpuriousWake(t) ==
  /\ Spurious
  /\ Goto(t, "asleep", "awake")
  /\ UNCHANGED <<script, ip, reg, owner, mutex, value>>

(* pthread_cond_wait returns with the mutex; owner is not looked at again. *)
Reacquire(t) ==
  /\ Goto(t, "awake", "resume")
  /\ TakeMutex(t)
  /\ UNCHANGED <<script, ip, reg, owner, value>>

Access(t) ==
  LET op == Cur(t) IN
  /\ pc[t] \in {"act", "resume"}
  /\ pc' = [pc EXCEPT ![t] = "leave"]
  /\ owner' = IF op.kind = "lock" THEN [owner EXCEPT ![op.var] = t] ELSE owner
  /\ reg' = IF op.kind = "get" THEN [reg EXCEPT ![t] = value[op.var]] ELSE reg
  /\ value' = CASE op.kind = "set" -> [value EXCEPT ![op.var] = op.val]
                [] op.kind = "add" -> [value EXCEPT ![op.var] = reg[t] + op.val]
                [] OTHER -> value
  /\ UNCHANGED <<script, ip, mutex>>

(* Mutant: the return comes before pthread_mutex_unlock.                   *)
LeaveLocked(t) ==
  /\ Goto(t, "leave", "ready")
  /\ ip' = [ip EXCEPT ![t] = @ + 1]
  /\ UNCHANGED <<script, reg, owner, mutex, value>>

Leave(t) ==
  /\ Goto(t, "leave", "ready")
  /\ DropMutex(t)
  /\ ip' = [ip EXCEPT ![t] = @ + 1]
  /\ UNCHANGED <<script, reg, owner, value>>

-----------------------------------------------------------------------------
(* unlock(): two statements, neither under the mutex.                      *)

(* Mutant: the caller is told it is done before the signal is sent.        *)
DisownEarly(t) ==
  /\ Goto(t, "disown", "signal")
  /\ owner' = [owner EXCEPT ![Cur(t).var] = NoOwner]
  /\ ip' = [ip EXCEPT ![t] = @ + 1]
  /\ UNCHANGED <<script, reg, mutex, value>>

Disown(t) ==
  /\ Goto(t, "disown", "signal")
  /\ owner' = [owner EXCEPT ![Cur(t).var] = NoOwner]
  /\ UNCHANGED <<script, ip, reg, mutex, value>>

Asleep(v) == {t \in Threads : pc[t] = "asleep" /\ Cur(t).var = v}

Signal(t) ==
  LET sleepers == Asleep(Cur(t).var) IN
  /\ pc[t] = "signal"
  /\ \/ /\ sleepers = {}
        /\ pc' = [pc EXCEPT ![t] = "ready"]
     \/ \E w \in sleepers : pc' = [pc EXCEPT ![t] = "ready", ![w] = "awake"]
  /\ ip' = [ip EXCEPT ![t] = @ + 1]
  /\ UNCHANGED <<script, reg, owner, mutex, value>>

-----------------------------------------------------------------------------
Step(t) ==
  \/ Call(t) \/ Enter(t) \/ Test(t) \/ Wait(t) \/ Reacquire(t)
  \/ Access(t) \/ Leave(t) \/ Disown(t) \/ Signal(t)

Next == \E t \in Threads : Step(t) \/ SpuriousWake(t)

Spec == Init /\ [][Next]_vars

(* The operating system runs every thread that can take a step.  Nothing   *)
(* obliges it to wake a sleeper without a signal.                          *)
FairSpec == Spec /\ \A t \in Threads : WF_vars(Step(t))

-----------------------------------------------------------------------------
(* Types of the state; a thread in the middle of an operation has one.     *)
TypeOK ==
  /\ script \in [Threads -> Seq(Op)]
  /\ ip \in [Threads -> Nat \ {0}]
  /\ pc \in [Threads -> PCs]
  /\ reg \in [Threads -> Int]
  /\ owner \in [Vars -> Threads \cup {NoOwner}]
  /\ mutex \in [Vars -> Threads \cup {NoOwner}]
  /\ value \in [Vars -> Int]
  /\ \A t \in Threads : pc[t] # "ready" => ip[t] \in 1..Len(script[t])

(* The mutex of a variable is held by exactly the thread that is between   *)
(* its pthread_mutex_lock and the matching unlock or wait: no path leaves  *)
(* a getter, a setter or lock() with the mutex still locked, exceptions    *)
(* included (Variable.cpp:73-79, 118-139).                                 *)
MutexDiscipline ==
  \A v \in Vars : \A t \in Threads :
    mutex[v] = t <=> (pc[t] \in Holding /\ Cur(t).var = v)

(* The owner of a variable never waits for it: a thread that locked a      *)
(* variable and then reads, writes or locks it again cannot put itself to  *)
(* sleep waiting for its own UNLOCK (Variable.cpp:73, 76, 120, 135).       *)
OwnerNeverWaits ==
  \A t \in Threads :
    pc[t] \in {"wait", "asleep", "awake", "resume"} => owner[Cur(t).var] # t

(* A thread that found the variable free or its own, and so did not wait,  *)
(* makes its access while no other thread owns it: the unprotected unlock  *)
(* can only give the variable away, never take it (Variable.cpp:76-78).    *)
FreshAccess ==
  \A t \in Threads : pc[t] = "act" => owner[Cur(t).var] \in {NoOwner, t}

(* Ownership passes from one thread straight to another only to a thread   *)
(* that slept in lock() and was woken; every other acquisition finds the   *)
(* variable unowned.  This is what the missing retest after                *)
(* pthread_cond_wait (Variable.cpp:77-78) leaves of the lock.              *)
TakeoverOnlyAfterWait ==
  [][\A v \in Vars :
       owner[v] # NoOwner /\ owner'[v] \notin {NoOwner, owner[v]}
         => \E t \in Threads : t = owner'[v] /\ pc[t] = "resume"]_vars

(* A variable declared constant keeps its value, whatever instruction      *)
(* names it as its destination (Variable.cpp:133, 181, 227, 327).          *)
ConstantsKeepValue == [][\A v \in Consts : value'[v] = value[v]]_vars

(* A thread that has called an operation and is not asleep in it           *)
(* eventually returns, throws or falls asleep: nobody blocks forever on    *)
(* the mutex itself (Variable.cpp:71-85, 118-139).                         *)
NobodyStuckOnMutex ==
  \A t \in Threads :
    pc[t] \notin {"ready", "asleep", "threw"}
      ~> pc[t] \in {"ready", "asleep", "threw"}

(* Thread t is inside LOCK v ... UNLOCK v: its last completed LOCK of v is *)
(* not followed by an UNLOCK of v it has called.                           *)
Holds(t, v) ==
  \E i \in 1..Len(script[t]) :
    /\ i < ip[t]
    /\ script[t][i].kind = "lock" /\ script[t][i].var = v
    /\ \A j \in i+1..Len(script[t]) :
         script[t][j].kind = "unlock" /\ script[t][j].var = v
           => j > ip[t] \/ (j = ip[t] /\ pc[t] = "ready")

(* At most one thread is between LOCK v and UNLOCK v.  "Only one thread    *)
(* can lock at a time" (Variable.cpp:77).                                  *)
MutualExclusion ==
  \A v \in Vars : \A t, u \in Threads : Holds(t, v) /\ Holds(u, v) => t = u

Finished(t) == pc[t] = "ready" /\ ip[t] > Len(script[t])

AddsTo(v) ==
  UNION {{<<t, i>> : i \in {j \in 1..Len(script[t]) :
                              script[t][j].kind = "add" /\ script[t][j].var = v}} :
         t \in Threads}

(* When every thread has run to its end a variable holds the number of     *)
(* ADD v,v,1 instructions executed: no update made between LOCK and UNLOCK *)
(* was overwritten from a stale read (Variable.cpp:71-85, MathFuncs 14-22).*)
NoLostUpdate ==
  (\A t \in Threads : Finished(t))
    => \A v \in Vars : value[v] = Cardinality(AddsTo(v))

(* The lock and the two steps of ADD v,v,1, between which the mutex is     *)
(* free, implement a counter that its holder increments in one step:       *)
(* acquired when LOCK returns, given up when UNLOCK is called.  It holds   *)
(* of programs that lock as they should, with two lockers (Variable.cpp    *)
(* 71-85, 118-139, MathFuncs.cpp:14-22).                                   *)
Holders(v) == {t \in Threads : Holds(t, v)}
Holder(v) == IF Holders(v) = {} THEN NoOwner ELSE CHOOSE t \in Holders(v) : TRUE

Counter == INSTANCE LockedCounter WITH
  Nobody <- NoOwner,
  holder <- [v \in Vars |-> Holder(v)],
  count <- value

CountsUnderLock == Counter!Spec

(* A thread asleep on a variable that is no longer owned wakes up.         *)
(* "Signal other threads to go" (Variable.cpp:84).                         *)
ReleasedWaitersGo ==
  \A t \in Threads :
    (pc[t] = "asleep" /\ owner[Cur(t).var] = NoOwner) ~> pc[t] # "asleep"
=============================================================================
