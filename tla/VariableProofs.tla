--------------------------- MODULE VariableProofs ---------------------------
(***************************************************************************)
(* What holds of the variables for every set of threads, every set of      *)
(* variables and every script, with or without spurious wakeups.  The      *)
(* inductive invariant joins the four invariants the runs check and adds   *)
(* that no setter of a constant gets past the test of is_const.            *)
(***************************************************************************)
EXTENDS Variable, FiniteSetTheorems, TLAPS

USE DEF Kinds

InOperation == Holding \cup {"enter", "asleep", "awake"}

(* A setter that got past the test of is_const is not on a constant.       *)
SettersPassedConstTest ==
  \A t \in Threads :
    pc[t] \in InOperation /\ Cur(t).kind \in {"set", "add"}
      => Cur(t).var \notin Consts

IInv ==
  /\ TypeOK
  /\ MutexDiscipline
  /\ OwnerNeverWaits
  /\ FreshAccess
  /\ SettersPassedConstTest

(* In the middle of an operation the thread's current operation exists.    *)
LEMMA CurrentOp ==
  ASSUME TypeOK, NEW t \in Threads, ip[t] \in 1..Len(script[t])
  PROVE  Cur(t) \in Op
<1>1. script[t] \in Seq(Op)
  BY DEF TypeOK
<1> QED
  BY <1>1 DEF Cur

LEMMA CurrentOpInCall ==
  ASSUME TypeOK, NEW t \in Threads, pc[t] # "ready"
  PROVE  Cur(t) \in Op
BY CurrentOp DEF TypeOK

(* The initial states satisfy the invariant.                               *)
LEMMA InitIInv == Init => IInv
<1> SUFFICES ASSUME Init PROVE IInv
  OBVIOUS
<1> USE DEF Init
<1>1. TypeOK
  BY ScriptsAssumption DEF TypeOK, PCs, Holding
<1>2. MutexDiscipline
  BY ThreadsAssumption DEF MutexDiscipline, Holding
<1>3. OwnerNeverWaits /\ FreshAccess /\ SettersPassedConstTest
  BY DEF OwnerNeverWaits, FreshAccess, SettersPassedConstTest, InOperation,
         Holding
<1> QED
  BY <1>1, <1>2, <1>3 DEF IInv

(* Every step keeps the types.                                             *)
LEMMA TypeStep ==
  ASSUME TypeOK, [Next]_vars
  PROVE  TypeOK'
<1> USE DEF TypeOK, PCs, Holding
<1>1. ASSUME NEW t \in Threads, Call(t)
      PROVE  TypeOK'
  BY <1>1 DEF Call, CallLock, CallUnlock, CallGet, CallSet, Goto
<1>2. ASSUME NEW t \in Threads, Enter(t)
      PROVE  TypeOK'
  <2>1. Cur(t) \in Op
    BY <1>2, CurrentOpInCall DEF Enter, Goto
  <2> QED
    BY <1>2, <2>1 DEF Enter, Goto, TakeMutex, Op
<1>3. ASSUME NEW t \in Threads, Test(t)
      PROVE  TypeOK'
  BY <1>3 DEF Test, Goto
<1>4. ASSUME NEW t \in Threads, Wait(t)
      PROVE  TypeOK'
  BY <1>4 DEF Wait, Goto, DropMutex
<1>5. ASSUME NEW t \in Threads, Reacquire(t)
      PROVE  TypeOK'
  BY <1>5 DEF Reacquire, Goto, TakeMutex
<1>6. ASSUME NEW t \in Threads, Access(t)
      PROVE  TypeOK'
  <2>1. Cur(t) \in Op
    BY <1>6, CurrentOpInCall DEF Access
  <2>2. value' \in [Vars -> Int]
    BY <1>6, <2>1 DEF Access, Op
  <2>3. reg' \in [Threads -> Int]
    BY <1>6, <2>1 DEF Access, Op
  <2> QED
    BY <1>6, <2>1, <2>2, <2>3 DEF Access
<1>7. ASSUME NEW t \in Threads, Leave(t)
      PROVE  TypeOK'
  <2>1. ip' \in [Threads -> Nat \ {0}]
    BY <1>7 DEF Leave
  <2>2. \A u \in Threads : pc'[u] # "ready" => u # t /\ pc[u] # "ready"
    BY <1>7 DEF Leave, Goto
  <2>3. \A u \in Threads : u # t => ip'[u] = ip[u]
    BY <1>7 DEF Leave
  <2> QED
    BY <1>7, <2>1, <2>2, <2>3 DEF Leave, Goto, DropMutex
<1>8. ASSUME NEW t \in Threads, Disown(t)
      PROVE  TypeOK'
  BY <1>8 DEF Disown, Goto
<1>9. ASSUME NEW t \in Threads, Signal(t)
      PROVE  TypeOK'
  <2>1. ip' \in [Threads -> Nat \ {0}]
    BY <1>9 DEF Signal
  <2>2. \A u \in Threads : u # t => ip'[u] = ip[u]
    BY <1>9 DEF Signal
  <2>3. CASE pc' = [pc EXCEPT ![t] = "ready"]
    BY <1>9, <2>1, <2>2, <2>3 DEF Signal
  <2>4. ASSUME NEW w \in Asleep(Cur(t).var),
               pc' = [pc EXCEPT ![t] = "ready", ![w] = "awake"]
        PROVE  TypeOK'
    BY <1>9, <2>1, <2>2, <2>4 DEF Signal, Asleep
  <2> QED
    BY <1>9, <2>3, <2>4 DEF Signal
<1>10. ASSUME NEW t \in Threads, SpuriousWake(t)
       PROVE  TypeOK'
  BY <1>10 DEF SpuriousWake, Goto
<1>11. CASE UNCHANGED vars
  BY <1>11 DEF vars
<1> QED
  BY <1>1, <1>2, <1>3, <1>4, <1>5, <1>6, <1>7, <1>8, <1>9, <1>10, <1>11
     DEF Next, Step

(* Every step keeps the rest of the invariant.                             *)
LEMMA InductiveStep ==
  ASSUME IInv, [Next]_vars
  PROVE  IInv'
<1> USE DEF Holding, InOperation
<1>0. TypeOK /\ TypeOK'
  BY TypeStep DEF IInv
<1> DEFINE Rest == /\ MutexDiscipline /\ OwnerNeverWaits
                   /\ FreshAccess /\ SettersPassedConstTest
<1>a. Rest
  BY DEF IInv
<1> USE DEF MutexDiscipline, OwnerNeverWaits, FreshAccess,
            SettersPassedConstTest
<1>1. ASSUME NEW t \in Threads, Call(t)
      PROVE  Rest'
  <2>1. /\ UNCHANGED <<script, ip, owner, mutex>>
        /\ pc[t] = "ready"
        /\ \A u \in Threads : u # t => pc'[u] = pc[u]
        /\ pc'[t] \in {"threw", "enter", "disown"}
    BY <1>0, <1>1
       DEF Call, CallLock, CallUnlock, CallGet, CallSet, Goto, TypeOK
  <2>2. pc'[t] = "enter" /\ Cur(t).kind \in {"set", "add"}
          => Cur(t).var \notin Consts
    BY <1>0, <1>1
       DEF Call, CallLock, CallUnlock, CallGet, CallSet, Goto, TypeOK
  <2>3. \A u \in Threads : Cur(u)' = Cur(u)
    BY <2>1 DEF Cur
  <2>4. MutexDiscipline'
    BY <1>a, <2>1, <2>3
  <2>5. (OwnerNeverWaits /\ FreshAccess)'
    BY <1>a, <2>1, <2>3
  <2>6. SettersPassedConstTest'
    BY <1>a, <2>1, <2>2, <2>3
  <2> QED
    BY <2>4, <2>5, <2>6
<1>2. ASSUME NEW t \in Threads, Enter(t)
      PROVE  Rest'
  <2>1. Cur(t) \in Op
    BY <1>0, <1>2, CurrentOpInCall DEF Enter, Goto
  <2>2. /\ UNCHANGED <<script, ip, owner>>
        /\ pc[t] = "enter" /\ pc'[t] = "test"
        /\ \A u \in Threads : u # t => pc'[u] = pc[u]
    BY <1>0, <1>2 DEF Enter, Goto, TypeOK
  <2>3. \A u \in Threads : Cur(u)' = Cur(u)
    BY <2>2 DEF Cur
  <2>4. /\ mutex[Cur(t).var] = NoOwner
        /\ \A v \in Vars : mutex'[v] = IF v = Cur(t).var THEN t ELSE mutex[v]
    BY <1>0, <1>2, <2>1 DEF Enter, TakeMutex, TypeOK, Op
  <2>5. MutexDiscipline'
    BY <1>a, <2>2, <2>3, <2>4, ThreadsAssumption
  <2>6. (OwnerNeverWaits /\ FreshAccess /\ SettersPassedConstTest)'
    BY <1>a, <2>2, <2>3
  <2> QED
    BY <2>5, <2>6
<1>3. ASSUME NEW t \in Threads, Test(t)
      PROVE  Rest'
  <2>1. /\ UNCHANGED <<script, ip, owner, mutex>>
        /\ pc[t] = "test"
        /\ pc'[t] = IF owner[Cur(t).var] \in {NoOwner, t} THEN "act" ELSE "wait"
        /\ \A u \in Threads : u # t => pc'[u] = pc[u]
    BY <1>0, <1>3 DEF Test, Goto, TypeOK
  <2>2. \A u \in Threads : Cur(u)' = Cur(u)
    BY <2>1 DEF Cur
  <2>3. (MutexDiscipline /\ SettersPassedConstTest)'
    BY <1>a, <2>1, <2>2
  <2>4. (OwnerNeverWaits /\ FreshAccess)'
    BY <1>a, <2>1, <2>2
  <2> QED
    BY <2>3, <2>4
<1>4. ASSUME NEW t \in Threads, Wait(t)
      PROVE  Rest'
  <2>1. /\ UNCHANGED <<script, ip, owner>>
        /\ pc[t] = "wait" /\ pc'[t] = "asleep"
        /\ \A u \in Threads : u # t => pc'[u] = pc[u]
    BY <1>0, <1>4 DEF Wait, Goto, TypeOK
  <2>2. \A u \in Threads : Cur(u)' = Cur(u)
    BY <2>1 DEF Cur
  <2>3. \A v \in Vars :
          mutex'[v] = IF v = Cur(t).var THEN NoOwner ELSE mutex[v]
    BY <1>0, <1>4 DEF Wait, DropMutex, TypeOK
  <2>4. MutexDiscipline'
    BY <1>a, <2>1, <2>2, <2>3, ThreadsAssumption
  <2>5. (OwnerNeverWaits /\ FreshAccess /\ SettersPassedConstTest)'
    BY <1>a, <2>1, <2>2
  <2> QED
    BY <2>4, <2>5
<1>5. ASSUME NEW t \in Threads, Reacquire(t)
      PROVE  Rest'
  <2>1. Cur(t) \in Op
    BY <1>0, <1>5, CurrentOpInCall DEF Reacquire, Goto
  <2>2. /\ UNCHANGED <<script, ip, owner>>
        /\ pc[t] = "awake" /\ pc'[t] = "resume"
        /\ \A u \in Threads : u # t => pc'[u] = pc[u]
    BY <1>0, <1>5 DEF Reacquire, Goto, TypeOK
  <2>3. \A u \in Threads : Cur(u)' = Cur(u)
    BY <2>2 DEF Cur
  <2>4. /\ mutex[Cur(t).var] = NoOwner
        /\ \A v \in Vars : mutex'[v] = IF v = Cur(t).var THEN t ELSE mutex[v]
    BY <1>0, <1>5, <2>1 DEF Reacquire, TakeMutex, TypeOK, Op
  <2>5. MutexDiscipline'
    BY <1>a, <2>2, <2>3, <2>4, ThreadsAssumption
  <2>6. (OwnerNeverWaits /\ FreshAccess /\ SettersPassedConstTest)'
    BY <1>a, <2>2, <2>3
  <2> QED
    BY <2>5, <2>6
<1>6. ASSUME NEW t \in Threads, Access(t)
      PROVE  Rest'
  <2>1. Cur(t) \in Op
    BY <1>0, <1>6, CurrentOpInCall DEF Access
  <2>2. /\ UNCHANGED <<script, ip, mutex>>
        /\ pc[t] \in {"act", "resume"} /\ pc'[t] = "leave"
        /\ \A u \in Threads : u # t => pc'[u] = pc[u]
    BY <1>0, <1>6 DEF Access, TypeOK
  <2>3. \A v \in Vars : owner'[v] # owner[v] => owner'[v] = t /\ v = Cur(t).var
    BY <1>0, <1>6, <2>1 DEF Access, TypeOK, Op
  <2>4. \A u \in Threads : Cur(u)' = Cur(u)
    BY <2>2 DEF Cur
  <2>5. (MutexDiscipline /\ SettersPassedConstTest)'
    BY <1>a, <2>2, <2>4
  <2>6. \A u \in Threads : pc[u] # "ready" => Cur(u).var \in Vars
    BY <1>0, CurrentOpInCall DEF Op
  <2>7. \A u \in Threads : u # t /\ pc[u] \in Holding => Cur(u).var # Cur(t).var
    BY <1>0, <1>a, <2>2, <2>6
  <2>8. OwnerNeverWaits'
    <3> SUFFICES ASSUME NEW u \in Threads,
                        pc'[u] \in {"wait", "asleep", "awake", "resume"}
                 PROVE  owner'[Cur(u).var] # u
      BY <2>4
    <3> QED
      BY <1>a, <2>2, <2>3, <2>6
  <2>9. FreshAccess'
    <3> SUFFICES ASSUME NEW u \in Threads, pc'[u] = "act"
                 PROVE  owner'[Cur(u).var] \in {NoOwner, u}
      BY <2>4
    <3> QED
      BY <1>a, <2>2, <2>3, <2>6, <2>7
  <2> QED
    BY <2>5, <2>8, <2>9
<1>7. ASSUME NEW t \in Threads, Leave(t)
      PROVE  Rest'
  <2>1. /\ UNCHANGED <<script, owner>>
        /\ pc[t] = "leave" /\ pc'[t] = "ready"
        /\ \A u \in Threads : u # t => pc'[u] = pc[u] /\ ip'[u] = ip[u]
    BY <1>0, <1>7 DEF Leave, Goto, TypeOK
  <2>2. \A u \in Threads : u # t => Cur(u)' = Cur(u)
    BY <2>1 DEF Cur
  <2>3. \A v \in Vars :
          mutex'[v] = IF v = Cur(t).var THEN NoOwner ELSE mutex[v]
    BY <1>0, <1>7 DEF Leave, DropMutex, TypeOK
  <2>4. MutexDiscipline'
    BY <1>a, <2>1, <2>2, <2>3, ThreadsAssumption
  <2>5. (OwnerNeverWaits /\ FreshAccess /\ SettersPassedConstTest)'
    BY <1>a, <2>1, <2>2
  <2> QED
    BY <2>4, <2>5
<1>8. ASSUME NEW t \in Threads, Disown(t)
      PROVE  Rest'
  <2>1. /\ UNCHANGED <<script, ip, mutex>>
        /\ pc[t] = "disown" /\ pc'[t] = "signal"
        /\ \A u \in Threads : u # t => pc'[u] = pc[u]
    BY <1>0, <1>8 DEF Disown, Goto, TypeOK
  <2>2. \A u \in Threads : Cur(u)' = Cur(u)
    BY <2>1 DEF Cur
  <2>3. \A v \in Vars : owner'[v] \in {owner[v], NoOwner}
    BY <1>0, <1>8 DEF Disown, TypeOK
  <2>4. \A u \in Threads : pc[u] # "ready" => Cur(u).var \in Vars
    BY <1>0, CurrentOpInCall DEF Op
  <2>5. (MutexDiscipline /\ SettersPassedConstTest)'
    BY <1>a, <2>1, <2>2
  <2>6. (OwnerNeverWaits /\ FreshAccess)'
    BY <1>a, <2>1, <2>2, <2>3, <2>4, ThreadsAssumption
  <2> QED
    BY <2>5, <2>6
<1>9. ASSUME NEW t \in Threads, Signal(t)
      PROVE  Rest'
  <2>1. /\ UNCHANGED <<script, owner, mutex>>
        /\ \A u \in Threads : u # t => ip'[u] = ip[u]
    BY <1>0, <1>9 DEF Signal, TypeOK
  <2>2. \A u \in Threads :
          \/ u = t /\ pc'[u] = "ready"
          \/ u # t /\ pc'[u] = pc[u]
          \/ u # t /\ pc'[u] = "awake" /\ pc[u] = "asleep"
    BY <1>0, <1>9 DEF Signal, Asleep, TypeOK
  <2>3. pc[t] = "signal"
    BY <1>9 DEF Signal
  <2>4. \A u \in Threads : pc'[u] # "ready" => Cur(u)' = Cur(u)
    BY <2>1, <2>2 DEF Cur
  <2>5. MutexDiscipline'
    BY <1>a, <2>1, <2>2, <2>3, <2>4
  <2>6. (OwnerNeverWaits /\ FreshAccess /\ SettersPassedConstTest)'
    BY <1>a, <2>1, <2>2, <2>3, <2>4
  <2> QED
    BY <2>5, <2>6
<1>10. ASSUME NEW t \in Threads, SpuriousWake(t)
       PROVE  Rest'
  <2>1. /\ UNCHANGED <<script, ip, owner, mutex>>
        /\ pc[t] = "asleep" /\ pc'[t] = "awake"
        /\ \A u \in Threads : u # t => pc'[u] = pc[u]
    BY <1>0, <1>10 DEF SpuriousWake, Goto, TypeOK
  <2>2. \A u \in Threads : Cur(u)' = Cur(u)
    BY <2>1 DEF Cur
  <2> QED
    BY <1>a, <2>1, <2>2
<1>11. ASSUME UNCHANGED vars
       PROVE  Rest'
  <2>1. \A t \in Threads : Cur(t)' = Cur(t)
    BY <1>11 DEF vars, Cur
  <2> QED
    BY <1>11, <1>a, <2>1 DEF vars
<1> HIDE DEF Rest
<1>12. Rest'
  BY <1>1, <1>2, <1>3, <1>4, <1>5, <1>6, <1>7, <1>8, <1>9, <1>10, <1>11
     DEF Next, Step
<1> QED
  BY <1>0, <1>12 DEF IInv, Rest

(* The inductive invariant holds in every reachable state.                 *)
THEOREM Invariance == Spec => []IInv
<1>1. IInv /\ [Next]_vars => IInv'
  BY InductiveStep
<1> QED
  BY InitIInv, <1>1, PTL DEF Spec

(* The state always has its type.                                          *)
THEOREM TypeCorrect == Spec => []TypeOK
<1>1. IInv => TypeOK
  BY DEF IInv
<1> QED
  BY Invariance, <1>1, PTL

(* The mutex is held exactly by the thread inside the critical section.    *)
THEOREM MutexHeldInsideOnly == Spec => []MutexDiscipline
<1>1. IInv => MutexDiscipline
  BY DEF IInv
<1> QED
  BY Invariance, <1>1, PTL

(* The owner of a variable never waits for it.                             *)
THEOREM OwnerNeverBlocks == Spec => []OwnerNeverWaits
<1>1. IInv => OwnerNeverWaits
  BY DEF IInv
<1> QED
  BY Invariance, <1>1, PTL

(* An access that did not wait meets no other owner.                       *)
THEOREM FreshAccessIsExclusive == Spec => []FreshAccess
<1>1. IInv => FreshAccess
  BY DEF IInv
<1> QED
  BY Invariance, <1>1, PTL

(* Ownership is taken from another thread only after a wait.               *)
THEOREM TakeoverNeedsWait == Spec => TakeoverOnlyAfterWait
<1> DEFINE Takeover ==
      \A v \in Vars :
        owner[v] # NoOwner /\ owner'[v] \notin {NoOwner, owner[v]}
          => \E t \in Threads : t = owner'[v] /\ pc[t] = "resume"
<1>1. IInv /\ [Next]_vars => [Takeover]_vars
  <2> SUFFICES ASSUME IInv, Next PROVE Takeover
    OBVIOUS
  <2>0. TypeOK /\ FreshAccess
    BY DEF IInv
  <2>1. ASSUME NEW t \in Threads, Access(t)
        PROVE  Takeover
    <3>1. Cur(t) \in Op
      BY <2>0, <2>1, CurrentOpInCall DEF Access
    <3> QED
      BY <2>0, <2>1, <3>1 DEF Access, FreshAccess, TypeOK, Op
  <2>2. ASSUME NEW t \in Threads, Disown(t)
        PROVE  Takeover
    BY <2>0, <2>2 DEF Disown, TypeOK
  <2>3. ASSUME NEW t \in Threads, owner' = owner
        PROVE  Takeover
    BY <2>3
  <2> QED
    BY <2>1, <2>2, <2>3
       DEF Next, Step, Call, Enter, Test, Wait, Reacquire, Leave, Signal,
           SpuriousWake
<1> QED
  BY Invariance, <1>1, PTL DEF Spec, TakeoverOnlyAfterWait

(* No instruction changes a constant.                                      *)
THEOREM ConstantsAreConstant == Spec => ConstantsKeepValue
<1> DEFINE Kept == \A v \in Consts : value'[v] = value[v]
<1>1. IInv /\ [Next]_vars => [Kept]_vars
  <2> SUFFICES ASSUME IInv, Next PROVE Kept
    OBVIOUS
  <2>1. ASSUME NEW t \in Threads, Access(t)
        PROVE  Kept
    BY <2>1, VarsAssumption
       DEF Access, IInv, SettersPassedConstTest, InOperation, Holding, TypeOK
  <2>2. ASSUME NEW t \in Threads, value' = value
        PROVE  Kept
    BY <2>2
  <2> QED
    BY <2>1, <2>2
       DEF Next, Step, Call, Enter, Test, Wait, Reacquire, Leave, Disown,
           Signal, SpuriousWake
<1> QED
  BY Invariance, <1>1, PTL DEF Spec, ConstantsKeepValue

-----------------------------------------------------------------------------
(* Where LOCK does exclude.                                                *)

LocksAt(s, t, v) ==
  {i \in 1..Len(s[t]) : s[t][i].kind = "lock" /\ s[t][i].var = v}
UnlocksAt(s, t, v) ==
  {j \in 1..Len(s[t]) : s[t][j].kind = "unlock" /\ s[t][j].var = v}

(* The programs for which it does, whatever else they do with the          *)
(* variables: no spurious wakeup; of every variable at most two threads    *)
(* execute a LOCK; a thread that executes UNLOCK has its LOCKs before it.  *)
TwoLockersOnce ==
  /\ ~Spurious
  /\ \A s \in Scripts : \A v \in Vars :
       /\ \A t, u, w \in Threads :
            /\ LocksAt(s, t, v) # {}
            /\ LocksAt(s, u, v) # {}
            /\ LocksAt(s, w, v) # {}
            => t = u \/ t = w \/ u = w
       /\ \A t \in Threads : \A j \in UnlocksAt(s, t, v) :
            /\ LocksAt(s, t, v) # {}
            /\ \A i \in LocksAt(s, t, v) : i < j

(* Thread t has become the owner of v; it has given v up.                  *)
Entered(t, v) ==
  \E i \in LocksAt(script, t, v) : i < ip[t] \/ (i = ip[t] /\ pc[t] = "leave")
GaveUp(t, v) ==
  \E j \in UnlocksAt(script, t, v) : j < ip[t] \/ (j = ip[t] /\ pc[t] = "signal")

(* The two statements of unlock() are reached by UNLOCK only.              *)
UnlockingByUnlock ==
  \A t \in Threads : pc[t] \in {"disown", "signal"} => Cur(t).kind = "unlock"

(* As long as nobody else has given the variable up, whoever became its    *)
(* owner still is.                                                         *)
OwnerStays ==
  \A v \in Vars : \A t \in Threads :
    Entered(t, v) /\ (\A u \in Threads : ~GaveUp(u, v)) => owner[v] = t

(* Who was woken, was woken by another thread's UNLOCK.                    *)
WokenByUnlock ==
  \A t \in Threads :
    pc[t] \in {"awake", "resume"} =>
      \E u \in Threads : u # t /\ GaveUp(u, Cur(t).var)

LockInv ==
  /\ script \in Scripts
  /\ UnlockingByUnlock
  /\ OwnerStays
  /\ WokenByUnlock

LEMMA LockInit == Init => LockInv
BY DEF Init, LockInv, UnlockingByUnlock, OwnerStays, WokenByUnlock, Entered,
       LocksAt

(* Who gave a variable up has given it up for good.                        *)
LEMMA GaveUpForGood ==
  ASSUME TypeOK, IInv, LockInv, [Next]_vars,
         NEW t \in Threads, NEW v \in Vars, GaveUp(t, v)
  PROVE  GaveUp(t, v)'
<1>1. PICK j \in UnlocksAt(script, t, v) :
        j < ip[t] \/ (j = ip[t] /\ pc[t] = "signal")
  BY DEF GaveUp
<1>2. script' = script /\ j \in Int /\ ip[t] \in Int
  BY DEF Next, Step, Call, Enter, Test, Wait, Reacquire, Access, Leave,
         Disown, Signal, SpuriousWake, vars, UnlocksAt, TypeOK
<1>3. \/ ip'[t] = ip[t] /\ (pc[t] = "signal" => pc'[t] = "signal")
      \/ ip'[t] = ip[t] + 1
  BY DEF Next, Step, Call, CallLock, CallUnlock, CallGet, CallSet, Enter,
         Test, Wait, Reacquire, Access, Leave, Disown, Signal, Asleep,
         SpuriousWake, Goto, vars, TypeOK
<1>4. j < ip'[t] \/ (j = ip'[t] /\ pc'[t] = "signal")
  BY <1>1, <1>2, <1>3
<1> QED
  BY <1>1, <1>2, <1>4 DEF GaveUp, UnlocksAt

(* A step by which a thread becomes an owner is its access in a LOCK.      *)
LEMMA EnteredBefore ==
  ASSUME IInv, LockInv, Next,
         NEW u \in Threads, NEW v \in Vars, Entered(u, v)'
  PROVE  \/ Entered(u, v)
         \/ Access(u) /\ Cur(u).kind = "lock" /\ Cur(u).var = v
<1>0. TypeOK /\ UnlockingByUnlock
  BY DEF IInv, LockInv
<1>1. script' = script
  BY DEF Next, Step, Call, Enter, Test, Wait, Reacquire, Access, Leave,
         Disown, Signal, SpuriousWake
<1>2. PICK i \in LocksAt(script, u, v) :
        i < ip'[u] \/ (i = ip'[u] /\ pc'[u] = "leave")
  BY <1>1 DEF Entered, LocksAt
<1>3. /\ i \in Int /\ ip[u] \in Int
      /\ script[u][i].kind = "lock" /\ script[u][i].var = v
  BY <1>0 DEF LocksAt, TypeOK
<1>4. CASE ip'[u] = ip[u] /\ pc'[u] = pc[u]
  BY <1>2, <1>4 DEF Entered
<1>5. CASE ip'[u] = ip[u] /\ pc'[u] # "leave"
  BY <1>2, <1>5 DEF Entered
<1>6. CASE Access(u)
  <2>1. ip'[u] = ip[u]
    BY <1>6 DEF Access
  <2> QED
    BY <1>2, <1>3, <1>6, <2>1 DEF Entered, Cur
<1>7. CASE ip'[u] = ip[u] + 1 /\ pc'[u] = "ready" /\ pc[u] = "leave"
  BY <1>2, <1>3, <1>7 DEF Entered
<1>8. CASE ip'[u] = ip[u] + 1 /\ pc'[u] = "ready" /\ pc[u] = "signal"
  <2>1. i # ip[u]
    BY <1>0, <1>3, <1>8 DEF UnlockingByUnlock, Cur
  <2> QED
    BY <1>2, <1>3, <1>8, <2>1 DEF Entered
<1>9. ASSUME NEW t \in Threads, Step(t) \/ SpuriousWake(t)
      PROVE  \/ ip'[u] = ip[u] /\ pc'[u] = pc[u]
             \/ ip'[u] = ip[u] /\ pc'[u] # "leave"
             \/ Access(u)
             \/ ip'[u] = ip[u] + 1 /\ pc'[u] = "ready" /\ pc[u] \in {"leave", "signal"}
  <2>1. CASE Call(t)
    BY <1>0, <2>1 DEF Call, CallLock, CallUnlock, CallGet, CallSet, Goto, TypeOK
  <2>2. CASE Signal(t)
    BY <1>0, <2>2 DEF Signal, Asleep, TypeOK
  <2>3. CASE Access(t)
    BY <1>0, <2>3 DEF Access, TypeOK
  <2>4. CASE Leave(t)
    BY <1>0, <2>4 DEF Leave, Goto, TypeOK
  <2> QED
    BY <1>0, <1>9, <2>1, <2>2, <2>3, <2>4
       DEF Step, Enter, Test, Wait, Reacquire, Disown, SpuriousWake, Goto,
           TypeOK
<1> QED
  BY <1>4, <1>5, <1>6, <1>7, <1>8, <1>9 DEF Next

(* Every step keeps the invariant of LOCK.                                 *)
LEMMA LockStep ==
  ASSUME TwoLockersOnce, IInv, LockInv, [Next]_vars
  PROVE  LockInv'
<1>1. CASE UNCHANGED vars
  BY <1>1 DEF LockInv, UnlockingByUnlock, OwnerStays, WokenByUnlock, Entered,
              GaveUp, LocksAt, UnlocksAt, Cur, vars
<1> SUFFICES ASSUME Next PROVE LockInv'
  BY <1>1
<1>0. /\ TypeOK /\ FreshAccess
      /\ UnlockingByUnlock /\ OwnerStays /\ WokenByUnlock
  BY DEF IInv, LockInv
<1>2. script' = script /\ script \in Scripts
  BY DEF Next, Step, Call, Enter, Test, Wait, Reacquire, Access, Leave,
         Disown, Signal, SpuriousWake, LockInv
<1>3. \A t \in Threads : \A v \in Vars : GaveUp(t, v) => GaveUp(t, v)'
  BY <1>0, GaveUpForGood
<1>4. UnlockingByUnlock'
  <2> SUFFICES ASSUME NEW u \in Threads, pc'[u] \in {"disown", "signal"}
               PROVE  Cur(u)'.kind = "unlock"
    BY DEF UnlockingByUnlock
  <2>1. /\ ip'[u] = ip[u]
        /\ pc[u] \in {"disown", "signal"} \/ Cur(u).kind = "unlock"
    BY <1>0 DEF Next, Step, Call, CallLock, CallUnlock, CallGet, CallSet,
                Enter, Test, Wait, Reacquire, Access, Leave, Disown, Signal,
                Asleep, SpuriousWake, Goto, TypeOK
  <2> QED
    BY <1>0, <1>2, <2>1 DEF UnlockingByUnlock, Cur
<1>5. WokenByUnlock'
  <2> SUFFICES ASSUME NEW u \in Threads, pc'[u] \in {"awake", "resume"}
               PROVE  \E t \in Threads : t # u /\ GaveUp(t, Cur(u).var)'
    BY DEF WokenByUnlock
  <2> DEFINE Was(t) == /\ ip'[u] = ip[u]
                       /\ \/ pc[u] \in {"awake", "resume"}
                          \/ /\ pc[u] = "asleep" /\ Signal(t) /\ u # t
                             /\ u \in Asleep(Cur(t).var)
  <2>a. ASSUME NEW t \in Threads, Step(t) \/ SpuriousWake(t)
        PROVE  Was(t)
    <3>1. CASE Call(t)
      BY <1>0, <3>1 DEF Call, CallLock, CallUnlock, CallGet, CallSet, Goto, TypeOK
    <3>2. CASE Signal(t)
      BY <1>0, <3>2 DEF Signal, Asleep, TypeOK
    <3>3. CASE Access(t)
      BY <1>0, <3>3 DEF Access, TypeOK
    <3>4. CASE Leave(t)
      BY <1>0, <3>4 DEF Leave, Goto, TypeOK
    <3> QED
      BY <1>0, <2>a, <3>1, <3>2, <3>3, <3>4
         DEF TwoLockersOnce, Step, Enter, Test, Wait, Reacquire, Disown,
             SpuriousWake, Goto, TypeOK
  <2>1. PICK t \in Threads : Was(t)
    BY <2>a DEF Next
  <2>2. Cur(u)' = Cur(u)
    BY <1>2, <2>1 DEF Cur
  <2>3. Cur(u).var \in Vars
    BY <1>0, <2>1, CurrentOpInCall DEF Op
  <2>4. CASE pc[u] \in {"awake", "resume"}
    BY <1>0, <1>3, <2>2, <2>3, <2>4 DEF WokenByUnlock
  <2>5. CASE Signal(t) /\ u # t /\ u \in Asleep(Cur(t).var)
    <3>1. /\ pc[t] = "signal" /\ Cur(t).kind = "unlock"
          /\ Cur(t).var = Cur(u).var
          /\ ip[t] \in 1..Len(script[t])
      BY <1>0, <2>5 DEF Signal, Asleep, UnlockingByUnlock, TypeOK
    <3>2. GaveUp(t, Cur(u).var)
      BY <3>1 DEF GaveUp, UnlocksAt, Cur
    <3> QED
      BY <1>3, <2>2, <2>3, <2>5, <3>2
  <2> QED
    BY <2>1, <2>2, <2>4, <2>5
<1>6. OwnerStays'
  <2> SUFFICES ASSUME NEW v \in Vars, NEW u \in Threads, Entered(u, v)',
                      \A t \in Threads : ~GaveUp(t, v)'
               PROVE  owner'[v] = u
    BY DEF OwnerStays
  <2>1. \A t \in Threads : ~GaveUp(t, v)
    BY <1>3
  <2>2. CASE Access(u) /\ Cur(u).kind = "lock" /\ Cur(u).var = v
    BY <1>0, <2>2 DEF Access, TypeOK
  <2>3. CASE Entered(u, v)
    <3>1. owner[v] = u
      BY <1>0, <2>1, <2>3 DEF OwnerStays
    <3>2. CASE owner' = owner
      BY <3>1, <3>2
    <3>3. ASSUME NEW t \in Threads, Disown(t)
          PROVE  owner'[v] = u
      <4>1. /\ Cur(t).kind = "unlock" /\ pc'[t] = "signal" /\ ip' = ip
            /\ ip[t] \in 1..Len(script[t])
        BY <1>0, <3>3 DEF Disown, Goto, UnlockingByUnlock, TypeOK
      <4>2. Cur(t).var # v
        <5> SUFFICES ASSUME Cur(t).var = v PROVE GaveUp(t, v)'
          OBVIOUS
        <5> QED
          BY <1>2, <4>1 DEF GaveUp, UnlocksAt, Cur
      <4> QED
        BY <1>0, <3>1, <3>3, <4>2 DEF Disown, TypeOK
    <3>4. ASSUME NEW t \in Threads, Access(t)
          PROVE  owner'[v] = u
      <4>1. CASE Cur(t).kind = "lock" /\ Cur(t).var = v /\ t # u
        <5>1. pc[t] = "resume"
          BY <1>0, <3>1, <3>4, <4>1, ThreadsAssumption DEF Access, FreshAccess
        <5> QED
          BY <1>0, <2>1, <4>1, <5>1 DEF WokenByUnlock
      <4> QED
        BY <1>0, <3>1, <3>4, <4>1 DEF Access, TypeOK
    <3> QED
      BY <3>2, <3>3, <3>4
         DEF Next, Step, Call, Enter, Test, Wait, Reacquire, Leave, Signal,
             SpuriousWake
  <2> QED
    BY <2>2, <2>3, EnteredBefore
<1> QED
  BY <1>2, <1>4, <1>5, <1>6 DEF LockInv

(* Two threads that hold a variable both own it.                           *)
LEMMA HoldersOwn ==
  ASSUME TwoLockersOnce, IInv, LockInv
  PROVE  MutualExclusion
<1> SUFFICES ASSUME NEW v \in Vars, NEW t \in Threads, NEW u \in Threads,
                    Holds(t, v), Holds(u, v), t # u
             PROVE  FALSE
  BY DEF MutualExclusion
<1>0. TypeOK /\ script \in Scripts
  BY DEF IInv, LockInv
<1>1. \A w \in Threads : /\ ip[w] \in Int
                         /\ LocksAt(script, w, v) \subseteq Int
                         /\ UnlocksAt(script, w, v) \subseteq Int
                         /\ Len(script[w]) \in Nat
  BY <1>0 DEF TypeOK, LocksAt, UnlocksAt
<1>2. ASSUME NEW w \in Threads, Holds(w, v)
      PROVE  /\ Entered(w, v) /\ ~GaveUp(w, v)
             /\ LocksAt(script, w, v) # {}
  <2>1. PICK i \in 1..Len(script[w]) :
          /\ i < ip[w]
          /\ script[w][i].kind = "lock" /\ script[w][i].var = v
          /\ \A j \in i+1..Len(script[w]) :
               script[w][j].kind = "unlock" /\ script[w][j].var = v
                 => j > ip[w] \/ (j = ip[w] /\ pc[w] = "ready")
    BY <1>2 DEF Holds
  <2>2. i \in LocksAt(script, w, v)
    BY <2>1 DEF LocksAt
  <2>3. \A j \in UnlocksAt(script, w, v) : i < j
    BY <1>0, <2>2 DEF TwoLockersOnce
  <2>4. \A j \in UnlocksAt(script, w, v) :
          j > ip[w] \/ (j = ip[w] /\ pc[w] = "ready")
    BY <1>1, <2>1, <2>3 DEF UnlocksAt
  <2>5. ~GaveUp(w, v)
    BY <1>1, <2>4 DEF GaveUp
  <2> QED
    BY <2>1, <2>2, <2>5 DEF Entered
<1>3. ASSUME NEW w \in Threads
      PROVE  ~GaveUp(w, v)
  <2> SUFFICES ASSUME GaveUp(w, v) PROVE FALSE
    OBVIOUS
  <2>1. LocksAt(script, w, v) # {}
    BY <1>0 DEF GaveUp, TwoLockersOnce
  <2>2. w = t \/ w = u
    BY <1>0, <1>2, <2>1 DEF TwoLockersOnce
  <2> QED
    BY <1>2, <2>2
<1> QED
  BY <1>2, <1>3 DEF LockInv, OwnerStays

(* If of every variable at most two threads execute a LOCK, each of them   *)
(* before its UNLOCKs, and there is no spurious wakeup, at most one is     *)
(* between LOCK and UNLOCK: the missing retest after pthread_cond_wait     *)
(* (Variable.cpp:77-78) does no harm to two, whoever else reads and writes *)
(* the variable.                                                           *)
THEOREM TwoLockersExclude ==
  ASSUME TwoLockersOnce
  PROVE  Spec => []MutualExclusion
<1>1. Init => IInv /\ LockInv
  BY InitIInv, LockInit
<1>2. IInv /\ LockInv /\ [Next]_vars => (IInv /\ LockInv)'
  BY InductiveStep, LockStep
<1>3. IInv /\ LockInv => MutualExclusion
  BY HoldersOwn
<1> QED
  BY <1>1, <1>2, <1>3, PTL DEF Spec

-----------------------------------------------------------------------------
(* ADD v,v,1 between LOCK and UNLOCK loses no update.                      *)

(* The programs it is said of: variables are written by ADD v,v,1 only,    *)
(* and only by a thread between its LOCK v and its UNLOCK v.               *)
LockedAddsOnly ==
  \A s \in Scripts : \A t \in Threads : \A i \in 1..Len(s[t]) :
    /\ s[t][i].kind # "set"
    /\ s[t][i].kind = "add" =>
         /\ s[t][i].val = 1
         /\ i - 1 \in 1..Len(s[t])
         /\ s[t][i-1].kind = "get" /\ s[t][i-1].var = s[t][i].var
         /\ \E l \in LocksAt(s, t, s[t][i].var) : l < i
         /\ \A j \in UnlocksAt(s, t, s[t][i].var) : i < j

(* Thread t has stored the result of its ADD at i; the ADDs of v that did. *)
Passed(t, i) == i < ip[t] \/ (i = ip[t] /\ pc[t] = "leave")
Added(v) == {p \in AddsTo(v) : Passed(p[1], p[2])}

(* Nobody writes a variable between the two halves of an ADD to it.        *)
ReadIsFresh ==
  \A t \in Threads : \A i \in 1..Len(script[t]) :
    /\ script[t][i].kind = "add"
    /\ \/ i = ip[t] /\ pc[t] # "leave"
       \/ i = ip[t] + 1 /\ pc[t] = "leave"
    => reg[t] = value[script[t][i].var]

AddInv ==
  /\ ReadIsFresh
  /\ \A v \in Vars : /\ IsFiniteSet(Added(v))
                     /\ value[v] = Cardinality(Added(v))

LEMMA AddInit ==
  ASSUME LockedAddsOnly, Init
  PROVE  AddInv
<1>0. script \in Scripts /\ TypeOK
  BY InitIInv DEF Init, IInv
<1>1. ReadIsFresh
  <2> SUFFICES ASSUME NEW t \in Threads, NEW i \in 1..Len(script[t]),
                      script[t][i].kind = "add", i = ip[t]
               PROVE  FALSE
    BY DEF ReadIsFresh, Init
  <2>1. i = 1 /\ i - 1 \in 1..Len(script[t])
    BY <1>0 DEF Init, LockedAddsOnly
  <2> QED
    BY <2>1
<1>2. ASSUME NEW v \in Vars
      PROVE  Added(v) = {}
  <2> SUFFICES ASSUME NEW p \in Added(v) PROVE FALSE
    OBVIOUS
  <2>1. p[1] \in Threads /\ p[2] \in 1..Len(script[p[1]])
    BY DEF Added, AddsTo
  <2>2. p[2] < 1
    BY <2>1 DEF Added, Passed, Init
  <2> QED
    BY <2>1, <2>2
<1>3. \A v \in Vars : IsFiniteSet(Added(v)) /\ value[v] = Cardinality(Added(v))
  BY <1>2, FS_EmptySet DEF Init
<1> QED
  BY <1>1, <1>3 DEF AddInv

(* A thread at an ADD, or about to be, holds its variable.                 *)
LEMMA AdderHolds ==
  ASSUME LockedAddsOnly, TypeOK, script \in Scripts,
         NEW t \in Threads, NEW i \in 1..Len(script[t]),
         script[t][i].kind = "add",
         i = ip[t] \/ i = ip[t] + 1
  PROVE  Holds(t, script[t][i].var)
<1> DEFINE v == script[t][i].var
<1>1. ip[t] \in Nat /\ Len(script[t]) \in Nat
  BY DEF TypeOK
<1>2. PICK l \in LocksAt(script, t, v) : l < i
  BY DEF LockedAddsOnly
<1>3. \A j \in UnlocksAt(script, t, v) : i < j
  BY DEF LockedAddsOnly
<1>4. script[t][i-1].kind = "get" /\ l \in 1..Len(script[t])
      /\ script[t][l].kind = "lock" /\ script[t][l].var = v
  BY <1>2 DEF LockedAddsOnly, LocksAt
<1>5. l < ip[t]
  <2>1. l # i - 1
    BY <1>4
  <2> QED
    BY <1>1, <1>2, <1>4, <2>1
<1>6. \A j \in l+1..Len(script[t]) :
        script[t][j].kind = "unlock" /\ script[t][j].var = v => j > ip[t]
  <2> SUFFICES ASSUME NEW j \in l+1..Len(script[t]),
                      script[t][j].kind = "unlock", script[t][j].var = v
               PROVE  j > ip[t]
    OBVIOUS
  <2>1. j \in 1..Len(script[t])
    BY <1>1, <1>4
  <2>2. i < j
    BY <1>3, <2>1 DEF UnlocksAt
  <2> QED
    BY <1>1, <2>1, <2>2
<1> HIDE DEF v
<1>7. Holds(t, v)
  BY <1>4, <1>5, <1>6 DEF Holds
<1> QED
  BY <1>7 DEF v

(* What a step does to the place of a thread in its script.                *)
LEMMA PlaceStep ==
  ASSUME TypeOK, NEW t \in Threads, Step(t) \/ SpuriousWake(t)
  PROVE  /\ script' = script
         /\ \A u \in Threads : u # t =>
              ip'[u] = ip[u] /\ (pc'[u] = "leave" <=> pc[u] = "leave")
         /\ \/ Access(t)
            \/ /\ ~Access(t) /\ value' = value /\ reg' = reg
               /\ \/ ip'[t] = ip[t] /\ pc[t] # "leave" /\ pc'[t] # "leave"
                  \/ ip'[t] = ip[t] + 1 /\ pc'[t] = "ready"
                     /\ pc[t] \in {"leave", "signal"}
<1>1. CASE Call(t)
  BY <1>1 DEF Call, CallLock, CallUnlock, CallGet, CallSet, Goto, TypeOK, Access
<1>2. CASE Signal(t)
  BY <1>2 DEF Signal, Asleep, TypeOK, Access
<1>3. CASE Access(t)
  BY <1>3 DEF Access, TypeOK
<1>4. CASE Leave(t)
  BY <1>4 DEF Leave, Goto, TypeOK, Access
<1>5. CASE Enter(t) \/ Test(t) \/ Wait(t)
  BY <1>5 DEF Enter, Test, Wait, Goto, TypeOK, Access
<1>6. CASE Reacquire(t) \/ Disown(t) \/ SpuriousWake(t)
  BY <1>6 DEF Reacquire, Disown, SpuriousWake, Goto, TypeOK, Access
<1> QED
  BY <1>1, <1>2, <1>3, <1>4, <1>5, <1>6 DEF Step

(* Only an access at an ADD makes it pass, and an ADD once passed stays so.*)
LEMMA PassedStep ==
  ASSUME IInv, LockInv, NEW t \in Threads, Step(t) \/ SpuriousWake(t),
         NEW u \in Threads, NEW i \in 1..Len(script[u]),
         script[u][i].kind = "add"
  PROVE  Passed(u, i)' <=> (Passed(u, i) \/ (u = t /\ i = ip[t] /\ Access(t)))
<1>0. TypeOK /\ UnlockingByUnlock /\ ip[u] \in Nat /\ i \in Nat
  BY DEF IInv, LockInv, TypeOK
<1>1. CASE u # t
  BY <1>0, <1>1, PlaceStep DEF Passed
<1>2. CASE u = t /\ Access(t)
  <2>1. ip'[t] = ip[t] /\ pc'[t] = "leave" /\ pc[t] # "leave"
    BY <1>0, <1>2 DEF Access, TypeOK
  <2> QED
    BY <1>0, <1>2, <2>1 DEF Passed
<1>3. CASE u = t /\ ~Access(t)
  <2>1. pc[t] = "signal" => i # ip[t]
    BY <1>0, <1>3 DEF UnlockingByUnlock, Cur
  <2>2. \/ ip'[t] = ip[t] /\ pc[t] # "leave" /\ pc'[t] # "leave"
        \/ ip'[t] = ip[t] + 1 /\ pc'[t] = "ready" /\ pc[t] \in {"leave", "signal"}
    BY <1>0, <1>3, PlaceStep
  <2> QED
    BY <1>0, <1>3, <2>1, <2>2 DEF Passed
<1> QED
  BY <1>1, <1>2, <1>3

(* The ADDs done grow by the one a thread makes, and by no other step.     *)
LEMMA AddedStep ==
  ASSUME IInv, LockInv, NEW t \in Threads, Step(t) \/ SpuriousWake(t),
         NEW v \in Vars
  PROVE  Added(v)' =
           Added(v) \cup {p \in AddsTo(v) : p = <<t, ip[t]>> /\ Access(t)}
<1>0. TypeOK
  BY DEF IInv
<1>1. script' = script
  BY <1>0, PlaceStep
<1>2. AddsTo(v)' = AddsTo(v)
  BY <1>1 DEF AddsTo
<1>3. ASSUME NEW p \in AddsTo(v)
      PROVE  /\ p = <<p[1], p[2]>> /\ p[1] \in Threads
             /\ p[2] \in 1..Len(script[p[1]])
             /\ script[p[1]][p[2]].kind = "add"
  BY DEF AddsTo
<1>4. ASSUME NEW p \in AddsTo(v)
      PROVE  Passed(p[1], p[2])' <=>
               (Passed(p[1], p[2]) \/ (p = <<t, ip[t]>> /\ Access(t)))
  <2>1. (p[1] = t /\ p[2] = ip[t]) <=> p = <<t, ip[t]>>
    BY <1>3
  <2> QED
    BY <1>3, <2>1, PassedStep
<1>5. Added(v)' = {p \in AddsTo(v) : Passed(p[1], p[2])'}
  BY <1>2 DEF Added
<1> QED
  BY <1>4, <1>5 DEF Added

(* No write comes between the two halves of an ADD.                        *)
LEMMA FreshStep ==
  ASSUME LockedAddsOnly, IInv, LockInv, MutualExclusion, ReadIsFresh, Next
  PROVE  ReadIsFresh'
<1>0. TypeOK /\ UnlockingByUnlock /\ script \in Scripts
  BY DEF IInv, LockInv
<1> PICK t \in Threads : Step(t) \/ SpuriousWake(t)
  BY DEF Next
<1>1. script' = script
  BY <1>0, PlaceStep
<1> SUFFICES ASSUME NEW u \in Threads, NEW i \in 1..Len(script[u]),
                    script[u][i].kind = "add",
                    \/ i = ip'[u] /\ pc'[u] # "leave"
                    \/ i = ip'[u] + 1 /\ pc'[u] = "leave"
             PROVE  reg'[u] = value'[script[u][i].var]
  BY <1>1 DEF ReadIsFresh
<1>2. script[u][i-1].kind = "get" /\ script[u][i-1].var = script[u][i].var
  BY <1>0 DEF LockedAddsOnly
<1>3. ip[u] \in Nat /\ i \in Nat
  BY <1>0 DEF TypeOK
<1>4. CASE Access(t)
  <2>0. /\ ip' = ip /\ pc[t] \in {"act", "resume"} /\ pc'[t] = "leave"
        /\ \A w \in Threads : w # t => pc'[w] = pc[w] /\ reg'[w] = reg[w]
        /\ ip[t] \in 1..Len(script[t]) /\ Cur(t) \in Op
    BY <1>0, <1>4, CurrentOpInCall DEF Access, TypeOK
  <2>1. Cur(t).kind # "set"
    BY <1>0, <2>0 DEF LockedAddsOnly, Cur
  <2>2. CASE u = t
    <3>1. i - 1 = ip[t]
      BY <1>3, <2>0, <2>2
    <3>2. Cur(t).kind = "get" /\ Cur(t).var = script[u][i].var
      BY <1>2, <2>2, <3>1 DEF Cur
    <3> QED
      BY <1>0, <1>4, <2>2, <3>2 DEF Access, TypeOK
  <2>3. CASE u # t
    <3>1. reg[u] = value[script[u][i].var] /\ reg'[u] = reg[u]
      BY <2>0, <2>3 DEF ReadIsFresh
    <3>2. CASE Cur(t).kind = "add" /\ Cur(t).var = script[u][i].var
      <4>1. script[u][i].var \in Vars
        BY <2>0, <3>2 DEF Op
      <4>2. i = ip[u] \/ i = ip[u] + 1
        BY <2>0
      <4>3. Holds(u, script[u][i].var)
        BY <1>0, <4>2, AdderHolds
      <4>4. script[t][ip[t]].kind = "add" /\ script[t][ip[t]].var = script[u][i].var
        BY <3>2 DEF Cur
      <4>5. Holds(t, script[t][ip[t]].var)
        BY <1>0, <2>0, <4>4, AdderHolds
      <4> QED
        BY <2>3, <4>1, <4>3, <4>4, <4>5 DEF MutualExclusion
    <3>3. CASE ~(Cur(t).kind = "add" /\ Cur(t).var = script[u][i].var)
      <4>1. value'[script[u][i].var] = value[script[u][i].var]
        BY <1>0, <1>4, <2>1, <3>3 DEF Access, TypeOK
      <4> QED
        BY <3>1, <4>1
    <3> QED
      BY <3>2, <3>3
  <2> QED
    BY <2>2, <2>3
<1>5. CASE ~Access(t)
  <2>1. /\ value' = value /\ reg' = reg
        /\ u # t => ip'[u] = ip[u] /\ (pc'[u] = "leave" <=> pc[u] = "leave")
        /\ \/ ip'[t] = ip[t] /\ pc[t] # "leave" /\ pc'[t] # "leave"
           \/ ip'[t] = ip[t] + 1 /\ pc'[t] = "ready" /\ pc[t] \in {"leave", "signal"}
    BY <1>0, <1>5, PlaceStep
  <2>2. CASE ip'[u] = ip[u] /\ (pc'[u] = "leave" <=> pc[u] = "leave")
    BY <2>1, <2>2 DEF ReadIsFresh
  <2>3. CASE u = t /\ ip'[t] = ip[t] + 1 /\ pc'[t] = "ready" /\ pc[t] = "leave"
    BY <2>1, <2>3 DEF ReadIsFresh
  <2>4. CASE u = t /\ ip'[t] = ip[t] + 1 /\ pc'[t] = "ready" /\ pc[t] = "signal"
    <3>1. i - 1 = ip[t]
      BY <1>3, <2>4
    <3> QED
      BY <1>0, <1>2, <2>4, <3>1 DEF UnlockingByUnlock, Cur
  <2> QED
    BY <2>1, <2>2, <2>3, <2>4
<1> QED
  BY <1>4, <1>5

(* A variable always holds the number of the ADDs done.                    *)
LEMMA AddStep ==
  ASSUME LockedAddsOnly, IInv, LockInv, MutualExclusion, AddInv, [Next]_vars
  PROVE  AddInv'
<1>1. CASE UNCHANGED vars
  BY <1>1 DEF AddInv, ReadIsFresh, Added, AddsTo, Passed, vars
<1>2. CASE Next
  <2>0. TypeOK /\ script \in Scripts
    BY DEF IInv, LockInv
  <2>1. ReadIsFresh'
    BY <1>2, FreshStep DEF AddInv
  <2>2. PICK t \in Threads : Step(t) \/ SpuriousWake(t)
    BY <1>2 DEF Next
  <2> SUFFICES ASSUME NEW v \in Vars
               PROVE  IsFiniteSet(Added(v)') /\ value'[v] = Cardinality(Added(v)')
    BY <2>1 DEF AddInv
  <2> DEFINE New == {p \in AddsTo(v) : p = <<t, ip[t]>> /\ Access(t)}
  <2>3. Added(v)' = Added(v) \cup New
    BY <2>2, AddedStep
  <2>4. IsFiniteSet(Added(v)) /\ value[v] = Cardinality(Added(v))
    BY DEF AddInv
  <2>5. CASE Access(t) /\ Cur(t).kind = "add" /\ Cur(t).var = v
    <3>1. /\ ip[t] \in 1..Len(script[t]) /\ pc[t] \in {"act", "resume"}
          /\ script[t][ip[t]].kind = "add" /\ script[t][ip[t]].var = v
      BY <2>0, <2>5 DEF Access, TypeOK, Cur
    <3>2. <<t, ip[t]>> \in AddsTo(v)
      BY <3>1 DEF AddsTo
    <3>3. New = {(<<t, ip[t]>>)}
      BY <2>5, <3>2
    <3>4. ~Passed(t, ip[t])
      BY <2>0, <3>1 DEF Passed, TypeOK
    <3>5. <<t, ip[t]>> \notin Added(v)
      BY <3>4 DEF Added
    <3>6. /\ IsFiniteSet(Added(v)')
          /\ Cardinality(Added(v)') = Cardinality(Added(v)) + 1
      <4> DEFINE one == <<t, ip[t]>>
                 all == Added(v)'
      <4>1. all = Added(v) \cup {one}
        BY <2>3, <3>3
      <4>2. one \notin Added(v) /\ IsFiniteSet(Added(v))
        BY <2>4, <3>5
      <4> HIDE DEF one, all
      <4>3. IsFiniteSet(all) /\ Cardinality(all) = Cardinality(Added(v)) + 1
        BY <4>1, <4>2, FS_AddElement
      <4> QED
        BY <4>3 DEF all
    <3>7. reg[t] = value[v]
      BY <3>1 DEF AddInv, ReadIsFresh
    <3>8. Cur(t).val = 1
      BY <2>0, <3>1 DEF LockedAddsOnly, Cur
    <3>9. value'[v] = value[v] + 1
      BY <2>0, <2>5, <3>7, <3>8 DEF Access, TypeOK
    <3> QED
      BY <2>4, <3>6, <3>9
  <2>6. CASE ~(Access(t) /\ Cur(t).kind = "add" /\ Cur(t).var = v)
    <3>1. New = {}
      <4> SUFFICES ASSUME NEW p \in New PROVE FALSE
        OBVIOUS
      <4>1. /\ script[p[1]][p[2]].kind = "add" /\ script[p[1]][p[2]].var = v
            /\ p = <<t, ip[t]>> /\ Access(t)
        BY DEF AddsTo
      <4> QED
        BY <2>6, <4>1 DEF Cur
    <3>2. value'[v] = value[v]
      <4>1. CASE Access(t)
        <5>1. ip[t] \in 1..Len(script[t])
          BY <2>0, <4>1 DEF Access, TypeOK
        <5>2. Cur(t).kind # "set"
          BY <2>0, <5>1 DEF LockedAddsOnly, Cur
        <5> QED
          BY <2>0, <2>6, <4>1, <5>2 DEF Access, TypeOK
      <4>2. CASE ~Access(t)
        BY <2>0, <2>2, <4>2, PlaceStep
      <4> QED
        BY <4>1, <4>2
    <3>3. Added(v)' = Added(v)
      BY <2>3, <3>1
    <3> QED
      BY <2>4, <3>2, <3>3
  <2> QED
    BY <2>5, <2>6
<1> QED
  BY <1>1, <1>2

(* If in such programs a variable is only ever written by ADD v,v,1        *)
(* between LOCK v and UNLOCK v, then when all threads have run to their    *)
(* end it holds the number of ADDs: no update was made from a stale read   *)
(* (Variable.cpp:71-85, MathFuncs.cpp:14-22).                              *)
THEOREM LockedAddsCount ==
  ASSUME TwoLockersOnce, LockedAddsOnly
  PROVE  Spec => []NoLostUpdate
<1> DEFINE Inv == IInv /\ LockInv /\ AddInv
<1>1. Init => Inv
  BY InitIInv, LockInit, AddInit
<1>2. Inv /\ [Next]_vars => Inv'
  BY InductiveStep, LockStep, HoldersOwn, AddStep
<1>3. Inv => NoLostUpdate
  <2> SUFFICES ASSUME Inv, \A t \in Threads : Finished(t), NEW v \in Vars
               PROVE  value[v] = Cardinality(AddsTo(v))
    BY DEF NoLostUpdate
  <2>1. Added(v) = AddsTo(v)
    <3> SUFFICES ASSUME NEW p \in AddsTo(v) PROVE Passed(p[1], p[2])
      BY DEF Added
    <3>1. p[1] \in Threads /\ p[2] \in 1..Len(script[p[1]])
      BY DEF AddsTo
    <3>2. Len(script[p[1]]) \in Nat /\ ip[p[1]] \in Nat
      BY <3>1 DEF IInv, TypeOK
    <3>3. ip[p[1]] > Len(script[p[1]])
      BY <3>1 DEF Finished
    <3> QED
      BY <3>1, <3>2, <3>3 DEF Passed
  <2> QED
    BY <2>1 DEF AddInv
<1> HIDE DEF Inv
<1> QED
  BY <1>1, <1>2, <1>3, PTL DEF Spec

-----------------------------------------------------------------------------
(* In such programs the variables implement LockedCounter.                 *)

(* A thread starts to hold a variable when its LOCK returns and stops when *)
(* it calls UNLOCK; no other step, of its own or of another thread, and no *)
(* wakeup changes who holds what.                                          *)
LEMMA HoldsStep ==
  ASSUME TypeOK, UnlockingByUnlock,
         NEW t \in Threads, Step(t) \/ SpuriousWake(t),
         NEW u \in Threads, NEW v \in Vars
  PROVE  Holds(u, v)' <=>
           \/ /\ Holds(u, v)
              /\ ~(u = t /\ Call(t) /\ Cur(t).kind = "unlock" /\ Cur(t).var = v)
           \/ u = t /\ Leave(t) /\ Cur(t).kind = "lock" /\ Cur(t).var = v
<1>0. /\ script' = script /\ ip[u] \in Nat /\ ip[t] \in Nat
      /\ Len(script[u]) \in Nat
  BY PlaceStep DEF TypeOK
<1>1. CASE u # t
  <2>1. ip'[u] = ip[u] /\ (pc'[u] = "ready" <=> pc[u] = "ready")
    <3>1. CASE Signal(t)
      BY <1>1, <3>1 DEF Signal, Asleep, TypeOK
    <3>2. CASE Access(t)
      BY <1>1, <3>2 DEF Access, TypeOK
    <3>3. CASE Call(t)
      BY <1>1, <3>3 DEF Call, CallLock, CallUnlock, CallGet, CallSet, Goto, TypeOK
    <3> QED
      BY <1>1, <3>1, <3>2, <3>3
         DEF Step, Enter, Test, Wait, Reacquire, Leave, Disown, SpuriousWake,
             Goto, TypeOK
  <2> QED
    BY <1>0, <1>1, <2>1 DEF Holds
<1>2. CASE Call(t) /\ u = t
  <2>1. /\ ip' = ip /\ pc[t] = "ready" /\ pc'[t] # "ready"
        /\ ip[t] \in 1..Len(script[t])
    BY <1>2 DEF Call, CallLock, CallUnlock, CallGet, CallSet, Goto, TypeOK
  <2>2. ~Leave(t)
    BY <2>1 DEF Leave, Goto
  <2>3. CASE Cur(t).kind = "unlock" /\ Cur(t).var = v
    <3> SUFFICES ASSUME Holds(t, v)' PROVE FALSE
      BY <1>2, <2>2, <2>3
    <3>1. PICK i \in 1..Len(script[t]) :
            /\ i < ip[t]
            /\ \A j \in i+1..Len(script[t]) :
                 script[t][j].kind = "unlock" /\ script[t][j].var = v
                   => j > ip[t] \/ (j = ip[t] /\ pc'[t] = "ready")
      BY <1>0, <2>1 DEF Holds
    <3>2. ip[t] \in i+1..Len(script[t])
      BY <1>0, <2>1, <3>1
    <3> QED
      BY <1>0, <2>1, <2>3, <3>1, <3>2 DEF Cur
  <2>4. CASE ~(Cur(t).kind = "unlock" /\ Cur(t).var = v)
    <3>1. \A j \in 1..Len(script[t]) :
            script[t][j].kind = "unlock" /\ script[t][j].var = v => j # ip[t]
      BY <2>4 DEF Cur
    <3>2. \A i \in 1..Len(script[t]) : \A j \in i+1..Len(script[t]) :
            j \in 1..Len(script[t])
      BY <1>0, <1>2
    <3>3. Holds(t, v)' <=> Holds(t, v)
      BY <1>0, <2>1, <3>1, <3>2 DEF Holds
    <3> QED
      BY <1>2, <2>2, <2>4, <3>3
  <2> QED
    BY <2>3, <2>4
<1>3. CASE u = t /\ ip'[t] = ip[t] /\ pc[t] # "ready" /\ pc'[t] # "ready"
  <2>1. ~Call(t) /\ ~Leave(t)
    BY <1>3 DEF Call, CallLock, CallUnlock, CallGet, CallSet, Leave, Goto, TypeOK
  <2>2. Holds(t, v)' <=> Holds(t, v)
    BY <1>0, <1>3 DEF Holds
  <2> QED
    BY <1>3, <2>1, <2>2
<1>4. CASE /\ u = t /\ ip'[t] = ip[t] + 1 /\ pc[t] \in {"leave", "signal"}
           /\ pc'[t] = "ready"
  <2> DEFINE After(i) ==
        /\ script[t][i].kind = "lock" /\ script[t][i].var = v
        /\ \A j \in i+1..Len(script[t]) :
             script[t][j].kind = "unlock" /\ script[t][j].var = v => j > ip[t]
  <2>1. Holds(t, v) <=> \E i \in 1..Len(script[t]) : i < ip[t] /\ After(i)
    BY <1>0, <1>4 DEF Holds
  <2>2. Holds(t, v)' <=> \E i \in 1..Len(script[t]) : i < ip[t] + 1 /\ After(i)
    <3>1. \A i \in 1..Len(script[t]) : \A j \in i+1..Len(script[t]) :
            j > ip'[t] \/ (j = ip'[t] /\ pc'[t] = "ready") <=> j > ip[t]
      BY <1>0, <1>4
    <3> QED
      BY <1>0, <1>4, <3>1 DEF Holds
  <2>3. ip[t] \in 1..Len(script[t])
    BY <1>4 DEF TypeOK
  <2>4. After(ip[t]) <=> Cur(t).kind = "lock" /\ Cur(t).var = v
    BY <1>0, <1>4, <2>3 DEF Cur
  <2> HIDE DEF After
  <2>5. Holds(t, v)' <=> Holds(t, v) \/ (Cur(t).kind = "lock" /\ Cur(t).var = v)
    <3>1. \A i \in 1..Len(script[t]) : i < ip[t] + 1 <=> i < ip[t] \/ i = ip[t]
      BY <1>0, <1>4
    <3> QED
      BY <2>1, <2>2, <2>3, <2>4, <3>1
  <2>6. ~Call(t)
    BY <1>4 DEF Call, CallLock, CallUnlock, CallGet, CallSet, Goto
  <2>7. CASE pc[t] = "signal"
    BY <1>4, <2>5, <2>6, <2>7 DEF UnlockingByUnlock, Leave, Goto
  <2>8. CASE pc[t] = "leave"
    <3>1. Leave(t)
      BY <2>8 DEF Step, Call, CallLock, CallUnlock, CallGet, CallSet, Enter,
                  Test, Wait, Reacquire, Access, Disown, Signal, SpuriousWake,
                  Goto
    <3> QED
      BY <1>4, <2>5, <2>6, <3>1
  <2> QED
    BY <1>4, <2>7, <2>8
<1>5. \/ Call(t)
      \/ ip'[t] = ip[t] /\ pc[t] # "ready" /\ pc'[t] # "ready"
      \/ /\ ip'[t] = ip[t] + 1 /\ pc[t] \in {"leave", "signal"}
         /\ pc'[t] = "ready"
  <2>1. CASE Signal(t)
    BY <2>1 DEF Signal, Asleep, TypeOK
  <2>2. CASE Access(t)
    BY <2>2 DEF Access, TypeOK
  <2>3. CASE Leave(t)
    BY <2>3 DEF Leave, Goto, TypeOK
  <2> QED
    BY <2>1, <2>2, <2>3
       DEF Step, Enter, Test, Wait, Reacquire, Disown, SpuriousWake, Goto, TypeOK
<1> QED
  BY <1>1, <1>2, <1>3, <1>4, <1>5

(* Only the second half of an ADD changes a value, and adds one.           *)
LEMMA ValueStep ==
  ASSUME LockedAddsOnly, IInv, LockInv, AddInv,
         NEW t \in Threads, Step(t) \/ SpuriousWake(t)
  PROVE  \/ value' = value
         \/ /\ Access(t) /\ Cur(t).var \in Vars /\ Holds(t, Cur(t).var)
            /\ value' = [value EXCEPT ![Cur(t).var] = @ + 1]
<1>0. TypeOK /\ script \in Scripts
  BY DEF IInv, LockInv
<1>1. CASE ~Access(t)
  BY <1>0, <1>1, PlaceStep
<1>2. CASE Access(t)
  <2>1. ip[t] \in 1..Len(script[t]) /\ pc[t] \in {"act", "resume"} /\ Cur(t) \in Op
    BY <1>0, <1>2, CurrentOpInCall DEF Access, TypeOK
  <2>2. Cur(t).kind # "set"
    BY <1>0, <2>1 DEF LockedAddsOnly, Cur
  <2>3. CASE Cur(t).kind = "add"
    <3>1. Cur(t).val = 1 /\ script[t][ip[t]].kind = "add"
      BY <1>0, <2>1, <2>3 DEF LockedAddsOnly, Cur
    <3>2. reg[t] = value[Cur(t).var]
      BY <2>1, <3>1 DEF AddInv, ReadIsFresh, Cur
    <3>3. Holds(t, Cur(t).var)
      BY <1>0, <2>1, <3>1, AdderHolds DEF Cur
    <3>4. value' = [value EXCEPT ![Cur(t).var] = @ + 1]
      BY <1>2, <2>3, <3>1, <3>2 DEF Access
    <3>5. Cur(t).var \in Vars
      BY <2>1 DEF Op
    <3> QED
      BY <1>2, <3>3, <3>4, <3>5
  <2>4. CASE Cur(t).kind # "add"
    BY <1>2, <2>2, <2>4 DEF Access
  <2> QED
    BY <2>3, <2>4
<1> QED
  BY <1>1, <1>2

(* The holder of a variable, where at most one thread holds it.            *)
LEMMA HolderIs ==
  ASSUME MutualExclusion, NEW v \in Vars, NEW t \in Threads
  PROVE  Holder(v) = t <=> Holds(t, v)
<1>1. CASE Holds(t, v)
  <2>1. Holders(v) = {t}
    BY <1>1 DEF Holders, MutualExclusion
  <2> QED
    BY <1>1, <2>1 DEF Holder
<1>2. CASE ~Holds(t, v)
  BY <1>2, ThreadsAssumption DEF Holder, Holders
<1> QED
  BY <1>1, <1>2

(* Every step is a step of the counter, or leaves it alone.                *)
LEMMA CounterStep ==
  ASSUME LockedAddsOnly, IInv, LockInv, AddInv,
         MutualExclusion, MutualExclusion', [Next]_vars
  PROVE  [Counter!Next]_(Counter!vars)
<1> DEFINE held == [v \in Vars |-> Holder(v)]
           Was(v) == Holder(v)' = Holder(v)
<1>s. ASSUME value' = value, \A v \in Vars : Was(v)
      PROVE  UNCHANGED Counter!vars
  BY <1>s DEF Counter!vars
<1>1. CASE UNCHANGED vars
  <2>1. \A v \in Vars : Holders(v)' = Holders(v)
    BY <1>1 DEF vars, Holders, Holds
  <2>2. ASSUME NEW v \in Vars PROVE Was(v)
    <3>1. Holders(v)' = Holders(v)
      BY <2>1
    <3> QED
      BY <3>1 DEF Holder
  <2>3. value' = value
    BY <1>1 DEF vars
  <2> QED
    BY <1>s, <2>2, <2>3
<1>2. CASE Next
  <2> PICK t \in Threads : Step(t) \/ SpuriousWake(t)
    BY <1>2 DEF Next
  <2>0. TypeOK /\ UnlockingByUnlock /\ value \in [Vars -> Int]
    BY DEF IInv, LockInv, TypeOK
  <2>1. ASSUME NEW v \in Vars, \A u \in Threads : Holds(u, v)' <=> Holds(u, v)
        PROVE  Was(v)
    <3>1. Holders(v)' = Holders(v)
      BY <2>1 DEF Holders
    <3> QED
      BY <3>1 DEF Holder
  <2>2. ASSUME NEW v \in Vars, \A w \in Vars : w # v => Was(w)
        PROVE  held' = [held EXCEPT ![v] = Holder(v)']
    BY <2>2
  <2>3. CASE Access(t)
    <3>1. ~Call(t) /\ ~Leave(t)
      BY <2>3 DEF Access, Call, CallLock, CallUnlock, CallGet, CallSet, Leave, Goto
    <3>2. \A v \in Vars : Was(v)
      BY <2>0, <2>1, <3>1, HoldsStep
    <3>3. CASE value' = value
      BY <1>s, <3>2, <3>3
    <3>4. CASE /\ Cur(t).var \in Vars /\ Holds(t, Cur(t).var)
               /\ value' = [value EXCEPT ![Cur(t).var] = @ + 1]
      <4>1. held[Cur(t).var] = t
        BY <3>4, HolderIs
      <4>2. Counter!Increment(t, Cur(t).var)
        BY <3>2, <3>4, <4>1 DEF Counter!Increment
      <4> QED
        BY <3>4, <4>2 DEF Counter!Next
    <3> QED
      BY <3>3, <3>4, ValueStep
  <2>4. CASE Leave(t)
    <3>0. Cur(t).var \in Vars
      BY <2>0, <2>4, CurrentOpInCall DEF Leave, Goto, Op
    <3> PICK v \in Vars : v = Cur(t).var
      BY <3>0
    <3>1. ~Call(t) /\ ~Access(t)
      BY <2>4 DEF Access, Call, CallLock, CallUnlock, CallGet, CallSet, Leave, Goto
    <3>2. value' = value
      BY <3>1, ValueStep
    <3>3. CASE Cur(t).kind = "lock" /\ ~Holds(t, v)
      <4>1. Holds(t, v)' /\ \A u \in Threads : Holds(u, v) => Holds(u, v)'
        BY <2>0, <2>4, <3>1, <3>3, HoldsStep
      <4>2. \A u \in Threads : ~Holds(u, v)
        BY <3>1, <3>3, <4>1 DEF MutualExclusion
      <4>3. \A w \in Vars : w # v => Was(w)
        BY <2>0, <2>1, <3>1, HoldsStep
      <4>4. Holders(v)' = {t}
        BY <3>1, <4>1 DEF Holders, MutualExclusion
      <4>5. Holder(v)' = t /\ Holder(v) = NoOwner
        BY <4>2, <4>4 DEF Holder, Holders
      <4>6. Counter!Acquire(t, v)
        BY <2>2, <3>1, <3>2, <4>3, <4>5 DEF Counter!Acquire
      <4> QED
        BY <3>1, <4>6 DEF Counter!Next
    <3>4. CASE ~(Cur(t).kind = "lock" /\ ~Holds(t, v))
      BY <1>s, <2>0, <2>1, <3>1, <3>2, <3>4, HoldsStep
    <3> QED
      BY <3>3, <3>4
  <2>5. CASE Call(t)
    <3>0. Cur(t).var \in Vars
      BY <2>0, <2>5, CurrentOp DEF Call, Op
    <3> PICK v \in Vars : v = Cur(t).var
      BY <3>0
    <3>1. ~Leave(t) /\ ~Access(t)
      BY <2>5 DEF Access, Call, CallLock, CallUnlock, CallGet, CallSet, Leave, Goto
    <3>2. value' = value
      BY <3>1, ValueStep
    <3>3. CASE Cur(t).kind = "unlock" /\ Holds(t, v)
      <4>1. held[v] = t
        BY <3>1, <3>3, HolderIs
      <4>2. \A u \in Threads : ~Holds(u, v)'
        BY <2>0, <2>5, <3>1, <3>3, HoldsStep DEF MutualExclusion
      <4>3. \A w \in Vars : w # v => Was(w)
        BY <2>0, <2>1, <3>1, HoldsStep
      <4>4. Holder(v)' = NoOwner
        BY <4>2 DEF Holder, Holders
      <4>5. Counter!Release(t, v)
        BY <2>2, <3>1, <3>2, <4>1, <4>3, <4>4 DEF Counter!Release
      <4> QED
        BY <3>1, <4>5 DEF Counter!Next
    <3>4. CASE ~(Cur(t).kind = "unlock" /\ Holds(t, v))
      BY <1>s, <2>0, <2>1, <3>1, <3>2, <3>4, HoldsStep
    <3> QED
      BY <3>3, <3>4
  <2>6. CASE ~Access(t) /\ ~Leave(t) /\ ~Call(t)
    BY <1>s, <2>0, <2>1, <2>6, HoldsStep, ValueStep
  <2> QED
    BY <2>3, <2>4, <2>5, <2>6
<1> QED
  BY <1>1, <1>2

(* What the mutex, the condition variable and the owner field do together  *)
(* for such programs is a counter that only its holder increments, in one  *)
(* step (Variable.cpp:71-85, 118-139, MathFuncs.cpp:14-22).                *)
THEOREM ImplementsLockedCounter ==
  ASSUME TwoLockersOnce, LockedAddsOnly
  PROVE  Spec => CountsUnderLock
<1> DEFINE Inv == IInv /\ LockInv /\ AddInv
<1>1. Init => Inv
  BY InitIInv, LockInit, AddInit
<1>2. Inv /\ [Next]_vars => Inv'
  BY InductiveStep, LockStep, HoldersOwn, AddStep
<1>3. Inv => MutualExclusion
  BY HoldersOwn
<1>4. Init => Counter!Init
  <2> SUFFICES ASSUME Init PROVE Counter!Init
    OBVIOUS
  <2>1. ASSUME NEW v \in Vars PROVE Holders(v) = {}
    BY DEF Holders, Holds, Init
  <2> QED
    BY <2>1 DEF Counter!Init, Holder, Init
<1>5. Inv /\ MutualExclusion /\ MutualExclusion' /\ [Next]_vars
        => [Counter!Next]_(Counter!vars)
  BY CounterStep
<1> HIDE DEF Inv
<1> QED
  BY <1>1, <1>2, <1>3, <1>4, <1>5, PTL DEF Spec, CountsUnderLock, Counter!Spec
=============================================================================
