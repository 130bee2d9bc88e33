----------------------------- MODULE MCProgram -----------------------------
(* MIS programs, reduced to their control flow, for the model checker.     *)
EXTENDS Program

I(op) == [op |-> op, arg |-> 0]
Out(n) == [op |-> "out", arg |-> n]
Jmp(label) == [op |-> "jmp", arg |-> label]
Jcc(label) == [op |-> "jcc", arg |-> label]

(* thread_test3.mis: output of main and of a thread, no BARRIER.           *)
Unordered == <<Out(1), I("begin"), I("quiet"), Out(2), I("end"), Out(3)>>

(* barrier_test.mis, with output on both sides and a loop in the thread.   *)
Ordered ==
  <<Out(1), I("begin"), I("lock"), Out(2), Jcc(1), I("end"), I("barrier"), Out(3)>>

(* A thread that prints twice, while main goes on for a while.             *)
OrderedOnce ==
  <<Out(1), I("begin"), Out(2), Out(4), I("end"), I("quiet"), I("barrier"), Out(3)>>

OrderedPrograms == {Ordered, Ordered \o <<I("barrier")>>, OrderedOnce}

(* thread_test.mis: two threads with loops; main loops too.                *)
TwoThreads ==
  <<I("begin"), I("quiet"), Jcc(0), I("end"),
    I("begin"), Out(2), I("end"), I("quiet")>>

(* A loop of main that starts the thread again and again.                  *)
Respawn == <<I("begin"), I("quiet"), I("end"), Jcc(-1), I("barrier")>>

(* Main jumps into the body of the thread, and out of it.                  *)
IntoBody == <<Jcc(1), I("begin"), I("quiet"), Jcc(4), I("end"), I("quiet")>>

(* thread_error.mis, and jumps of threads to each side of their body.      *)
BarrierInThread == <<I("begin"), I("quiet"), I("barrier"), I("end")>>
JumpsOut == {<<I("quiet"), I("begin"), Jmp(l), I("quiet"), I("end"), I("quiet")>> :
               l \in -1..5 \cup {-40, -20, -7, 900}}

(* A jump to a variable that holds -20, -40 or any other negative number.  *)
Computed == {<<Jmp(-20), Out(1), I("end")>>, <<I("quiet"), Jmp(-40)>>, <<Jmp(-7)>>}

(* Programs that main gives up: unbalanced, nested, an error, LOCK in main.*)
Bad == {<<I("begin"), I("quiet")>>,
        <<I("begin"), I("quiet"), I("end"), I("begin"), I("begin"), I("end")>>,
        <<I("begin"), Out(1), I("end"), I("fail")>>,
        <<I("begin"), I("quiet"), I("end"), I("lock")>>}
FailInThread == <<I("begin"), I("fail"), I("end")>>
Endless == <<I("quiet"), Jmp(-1)>>
JumpToItself == <<I("quiet"), Jmp(0)>>
EndlessThread == <<I("begin"), I("quiet"), Jmp(0), I("end")>>

AllPrograms ==
  {Unordered, TwoThreads, Respawn, IntoBody, BarrierInThread, FailInThread,
   Endless, JumpToItself, EndlessThread}
    \cup JumpsOut \cup Computed \cup Bad \cup OrderedPrograms

(* Without a limit Respawn would start threads for ever.                   *)
AllFlags == [p \in AllPrograms |-> IF p = Respawn THEN {0} ELSE {0, 1}]

MainErrorPrograms == Bad
DeleteFlags == [p \in MainErrorPrograms |-> {0}]
=============================================================================
