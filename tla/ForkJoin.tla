------------------------------ MODULE ForkJoin ------------------------------
(***************************************************************************)
(* What the author of a MIS program with THREAD_BEGIN, THREAD_END and      *)
(* BARRIER is promised, without mutexes, vectors and jumps: main forks     *)
(* tasks, each of which starts and ends once; at a BARRIER and at its end  *)
(* it waits for them; what it answers is all that main and the tasks have  *)
(* printed, and nothing happens after that.                                *)
(*                                                                         *)
(* A program that fails is answered while its tasks go on: if there are    *)
(* any, nothing is promised of the answer.  And a program that has started *)
(* a task may take the server down.                                        *)
(***************************************************************************)
EXTENDS Integers, Sequences

VARIABLES
  main,      \* "running", "waiting" for its tasks, or "answered"
  tasks,     \* the stage of every task: "forked", "active" or "over"
  failed,    \* main has met an error
  printed,   \* [out, err]: what the program has printed
  answer,    \* what the client gets
  alive      \* the server still runs

vars == <<main, tasks, failed, printed, answer, alive>>

Nothing == [out |-> <<>>, err |-> <<>>]

Init ==
  /\ main = "running"
  /\ tasks = <<>>
  /\ failed = FALSE
  /\ printed = Nothing /\ answer = Nothing
  /\ alive = TRUE

Active(i) == tasks[i] = "active"
NoneActive == \A i \in 1..Len(tasks) : ~Active(i)
NoneStarted == \A i \in 1..Len(tasks) : tasks[i] = "forked"

MayFail == failed' \in {failed, TRUE}
Extends(new, old) == SubSeq(new, 1, Len(old)) = old

(* Before the first task has started nothing that is printed gets lost.    *)
PrintMore ==
  NoneStarted => Extends(printed'.out, printed.out) /\ Extends(printed'.err, printed.err)

Work ==
  /\ alive /\ main = "running"
  /\ PrintMore /\ MayFail
  /\ UNCHANGED <<main, tasks, answer, alive>>

Fork ==
  /\ alive /\ main = "running"
  /\ tasks' = Append(tasks, "forked")
  /\ MayFail
  /\ UNCHANGED <<main, printed, answer, alive>>

(* Main starts the task it has forked last.                                *)
Start ==
  /\ alive /\ main = "running"
  /\ tasks # <<>> /\ tasks[Len(tasks)] = "forked"
  /\ tasks' = [tasks EXCEPT ![Len(tasks)] = "active"]
  /\ UNCHANGED <<main, failed, printed, answer, alive>>

TaskPrints(i) ==
  /\ alive /\ Active(i)
  /\ UNCHANGED <<main, tasks, failed, answer, alive>>

TaskEnds(i) ==
  /\ alive /\ Active(i)
  /\ tasks' = [tasks EXCEPT ![i] = "over"]
  /\ UNCHANGED <<main, failed, printed, answer, alive>>

Wait ==
  /\ alive /\ main = "running"
  /\ main' = "waiting"
  /\ UNCHANGED <<tasks, failed, printed, answer, alive>>

Join ==
  /\ alive /\ main = "waiting" /\ NoneActive
  /\ main' = "running"
  /\ MayFail
  /\ UNCHANGED <<tasks, printed, answer, alive>>

Answer ==
  /\ alive /\ main = "running"
  /\ failed \/ NoneActive
  /\ main' = "answered"
  /\ ~failed \/ NoneStarted => answer' = printed
  /\ UNCHANGED <<tasks, failed, printed, alive>>

Crash ==
  /\ alive /\ ~NoneStarted
  /\ main = "answered" => failed
  /\ alive' = FALSE
  /\ MayFail
  /\ UNCHANGED <<main, tasks, answer>>

Next ==
  \/ Work \/ Fork \/ Start \/ Wait \/ Join \/ Answer \/ Crash
  \/ \E i \in 1..Len(tasks) : TaskPrints(i) \/ TaskEnds(i)

Spec == Init /\ [][Next]_vars
=============================================================================
