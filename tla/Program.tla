------------------------------- MODULE Program -------------------------------
(***************************************************************************)
(* One request inside the server, after parsing: Program::execute runs the *)
(* main MIS program, THREAD_BEGIN breaks threads off it (ThreadInstr, on   *)
(* top of the library class Thread), BARRIER and the end of the program    *)
(* wait for them, and Server::processRequest then sends the two output     *)
(* buffers and deletes the program.                                        *)
(*                                                                         *)
(* An instruction is reduced to what its operation does to the flow of     *)
(* control: it returns, throws an int, throws its arguments (OUT) or       *)
(* throws a MisException.  What it does to variables is module Variable.   *)
(* Lines are numbered from 0, as in ins_list.                              *)
(***************************************************************************)
EXTENDS Integers, Sequences, FiniteSetsExt, SequencesExt

CONSTANTS
  Programs,       \* the instruction lists that may be run
  Flags,          \* what may be sent with each: 0, or 1 for every other number
  MaxExec,        \* 1024: instructions main may execute when flag is 0
  MaxThreadExec,  \* 1024*128: instructions a thread may execute
  WordSize,       \* 2^64: size_t wraps here
  CreateFails     \* whether pthread_create may fail

(* "quiet" returns true; "fail" throws a MisException; "jcc" is a jump on  *)
(* a condition; "lock" is LOCK and UNLOCK; "begin", "end" and "barrier"    *)
(* are the thread instructions.  arg is where a jump goes or, of "out",    *)
(* the text.                                                               *)
Instr == [op : {"quiet", "fail", "out", "jmp", "jcc", "begin", "end",
                "barrier", "lock"},
          arg : Int]

ASSUME ProgramsAssumption == Programs \subseteq Seq(Instr)
ASSUME FlagsAssumption == Flags \in [Programs -> SUBSET {0, 1}]
ASSUME LimitsAssumption == MaxExec \in Nat /\ MaxThreadExec \in Nat
ASSUME CreateAssumption == CreateFails \in BOOLEAN
(* A jump throws the value of a label, which is a position in the program  *)
(* less one, or of any variable, as an int; both are small beside the word.*)
ASSUME WordAssumption ==
  /\ WordSize \in Nat
  /\ \A p \in Programs :
       /\ 2 * Len(p) + 42 < WordSize
       /\ \A k \in 1..Len(p) :
            p[k].op \in {"jmp", "jcc"} =>
              Len(p) - WordSize < p[k].arg /\ p[k].arg < WordSize

VARIABLES
  code,     \* ins_list
  flag,     \* what the client sent
  at,       \* where the thread that serves the request is
  pc,       \* Program::pc
  execs,    \* exc_count
  bar,      \* the element of thread_list that barrier() waits for
  seen,     \* size of the vector an unfinished push_back of main has read
  note,     \* the MisException on its way to processRequest, or "none"
  threads,  \* thread_list
  obuf,     \* Program::obuf
  ebuf,     \* Program::ebuf
  sent,     \* out, err: what returnResults has sent; obuf, ebuf: the vectors as
            \* the begin() of its two loops found them
  process   \* the server process: "up" or "terminated"

vars == <<code, flag, at, pc, execs, bar, seen, note, threads, obuf, ebuf, sent,
          process>>

Messages == {"none", "error", "lock in main", "no end", "nested", "limit",
             "thread in thread", "barrier in thread", "outside", "started",
             "garbage"}

ThreadInstr ==
  [at : {"new", "failed", "run", "push", "report", "clean", "unlock", "done"},
   start : Nat, size : Nat, pc : Nat, execs : Nat, seen : Nat,
   note : Messages, success : BOOLEAN,
   locked : BOOLEAN, started : BOOLEAN, running : BOOLEAN]

Init ==
  /\ code \in Programs
  /\ flag \in Flags[code]
  /\ at = "run"
  /\ pc = 0 /\ execs = 0 /\ bar = 1 /\ seen = 0
  /\ note = "none"
  /\ threads = <<>>
  /\ obuf = <<>> /\ ebuf = <<>>
  /\ sent = [out |-> <<>>, err |-> <<>>, obuf |-> <<>>, ebuf |-> <<>>]
  /\ process = "up"

-----------------------------------------------------------------------------
Ins(line) == code[line + 1]

(* Mutant of Inc: a program counter wider than the int a jump throws.      *)
IncNoWrap(x) == x + 1

(* Conversion of an int to size_t, and ++ on a size_t.                     *)
Wrap(x) == IF x < 0 THEN x + WordSize ELSE x
Inc(x) == IF x + 1 = WordSize THEN 0 ELSE x + 1

(* The int an instruction throws.  A jump to a variable may throw -20 and  *)
(* -40 as well, and is then taken for THREAD_BEGIN or BARRIER.             *)
Interrupt(ins) ==
  CASE ins.op = "begin" -> -20
    [] ins.op = "barrier" -> -40
    [] OTHER -> ins.arg

(* The second half of vector::push_back, n being the size the first half   *)
(* saw.  If another push_back came in between, the element it added is     *)
(* overwritten, or the process dies of the broken vector.                  *)
Pushed(buf, n, x) ==
  IF n <= Len(buf) THEN Append(SubSeq(buf, 1, n), x) ELSE buf
Raced(buf, n) == Len(buf) # n

Terminate == process' = "terminated"
Survive == process' = "up"

-----------------------------------------------------------------------------
(* Program::execute.                                                       *)

At(where) == process = "up" /\ at = where
Runs(ops) == At("run") /\ pc < Len(code) /\ Ins(pc).op \in ops

Throw(msg) == at' = "catch" /\ note' = msg

(* exc_count, which is only compared with its limit: it stops above it.    *)
Counted(n) == IF n > MaxExec THEN n ELSE n + 1

(* Mutant of Continue: only what is not a jump counts.                     *)
ContinueUncounted(line) ==
  /\ execs' = IF line = pc THEN Counted(execs) ELSE execs
  /\ pc' = Inc(line)
  /\ IF flag = 0 /\ execs + 1 > MaxExec
       THEN Throw("limit")
       ELSE at' = "run" /\ note' = note

(* The end of the loop body: count, go to the line after `line`, give up   *)
(* if too many instructions were executed.                                 *)
Continue(line) ==
  /\ execs' = Counted(execs)
  /\ pc' = Inc(line)
  /\ IF flag = 0 /\ execs + 1 > MaxExec
       THEN Throw("limit")
       ELSE at' = "run" /\ note' = note

MainQuiet ==
  /\ Runs({"quiet", "end", "jcc"})
  /\ Continue(pc)
  /\ UNCHANGED <<code, flag, bar, seen, threads, obuf, ebuf, sent, process>>

MainJump ==
  /\ Runs({"jmp", "jcc"}) /\ Interrupt(Ins(pc)) \notin {-20, -40}
  /\ Continue(Wrap(Interrupt(Ins(pc))))
  /\ UNCHANGED <<code, flag, bar, seen, threads, obuf, ebuf, sent, process>>

MainError ==
  /\ Runs({"lock", "fail"})
  /\ Throw(IF Ins(pc).op = "lock" THEN "lock in main" ELSE "error")
  /\ UNCHANGED <<code, flag, pc, execs, bar, seen, threads, obuf, ebuf, sent,
                 process>>

MainOut ==
  /\ Runs({"out"})
  /\ at' = "push"
  /\ seen' = Len(obuf)
  /\ UNCHANGED <<code, flag, pc, execs, bar, note, threads, obuf, ebuf, sent,
                 process>>

MainPush ==
  /\ At("push")
  /\ \/ Survive /\ obuf' = Pushed(obuf, seen, Ins(pc).arg)
     \/ Terminate /\ Raced(obuf, seen) /\ obuf' = obuf
  /\ Continue(pc)
  /\ UNCHANGED <<code, flag, bar, seen, threads, ebuf, sent>>

MainBarrier ==
  /\ Runs({"barrier", "jmp", "jcc"}) /\ Interrupt(Ins(pc)) = -40
  /\ at' = "barrier"
  /\ bar' = 1
  /\ UNCHANGED <<code, flag, pc, execs, seen, note, threads, obuf, ebuf, sent,
                 process>>

(* Mutant of MainEnd: execute() does not call barrier().                   *)
MainEndDetached ==
  /\ At("run") /\ pc >= Len(code)
  /\ at' = "reply"
  /\ UNCHANGED <<code, flag, pc, execs, bar, seen, note, threads, obuf, ebuf, sent,
                 process>>

(* The loop is over; execute() calls barrier() once more.                  *)
MainEnd ==
  /\ At("run") /\ pc >= Len(code)
  /\ at' = "final"
  /\ bar' = 1
  /\ UNCHANGED <<code, flag, pc, execs, seen, note, threads, obuf, ebuf, sent,
                 process>>

(* Mutant of AwaitThread: a try-lock.                                      *)
AwaitThreadTry ==
  /\ At("barrier") \/ At("final")
  /\ bar <= Len(threads)
  /\ bar' = bar + 1
  /\ UNCHANGED <<code, flag, at, pc, execs, seen, note, threads, obuf, ebuf,
                 sent, process>>

(* waitForRunToFinish of the next thread: lock and unlock its mutex.       *)
AwaitThread ==
  /\ At("barrier") \/ At("final")
  /\ bar <= Len(threads) /\ ~threads[bar].locked
  /\ bar' = bar + 1
  /\ UNCHANGED <<code, flag, at, pc, execs, seen, note, threads, obuf, ebuf,
                 sent, process>>

BarrierDone ==
  /\ At("barrier") /\ bar > Len(threads)
  /\ Continue(pc)
  /\ UNCHANGED <<code, flag, bar, seen, threads, obuf, ebuf, sent, process>>

FinalBarrierDone ==
  /\ At("final") /\ bar > Len(threads)
  /\ at' = "reply"
  /\ UNCHANGED <<code, flag, pc, execs, bar, seen, note, threads, obuf, ebuf,
                 sent, process>>

-----------------------------------------------------------------------------
(* Program::runThread and ThreadInstr::runThread.                          *)

NewThread(size) ==
  [at |-> "new", start |-> pc, size |-> size, pc |-> 0, execs |-> 0, seen |-> 0,
   note |-> "none", success |-> TRUE,
   locked |-> FALSE, started |-> FALSE, running |-> FALSE]

(* The scan for THREAD_END stops at the next line that begins or ends a    *)
(* thread, if any.  The thread is in thread_list before the scan.          *)
RunThread ==
  LET marks == {k \in pc+1..Len(code)-1 : Ins(k).op \in {"begin", "end"}}
      stop == Min(marks)
  IN
  /\ Runs({"begin", "jmp", "jcc"}) /\ Interrupt(Ins(pc)) = -20
  /\ \/ /\ marks = {}
        /\ threads' = Append(threads, NewThread(Len(code) - pc - 1))
        /\ pc' = pc
        /\ Throw("no end")
     \/ /\ marks # {}
        /\ threads' = Append(threads, NewThread(stop - pc - 1))
        /\ pc' = stop
        /\ IF Ins(stop).op = "begin"
             THEN Throw("nested")
             ELSE at' = "create" /\ note' = note
  /\ UNCHANGED <<code, flag, execs, bar, seen, obuf, ebuf, sent, process>>

Newest == Len(threads)

(* Mutant of Create: the mutex is not locked before pthread_create.        *)
CreateUnlocked ==
  /\ At("create")
  /\ threads' = [threads EXCEPT ![Newest] = [@ EXCEPT !.at = "run", !.started = TRUE]]
  /\ at' = "mark"
  /\ UNCHANGED <<code, flag, pc, execs, bar, seen, note, obuf, ebuf, sent, process>>

(* Thread::start up to and including pthread_create, called with the mutex *)
(* of the thread locked.                                                   *)
Create ==
  /\ At("create")
  /\ \/ /\ threads' = [threads EXCEPT
              ![Newest] = [@ EXCEPT !.at = "run", !.locked = TRUE, !.started = TRUE]]
        /\ at' = "mark"
     \/ /\ CreateFails
        /\ threads' = [threads EXCEPT
              ![Newest] = [@ EXCEPT !.at = "failed", !.locked = TRUE]]
        /\ at' = "check"
  /\ UNCHANGED <<code, flag, pc, execs, bar, seen, note, obuf, ebuf, sent, process>>

(* setRunning(true), by which time the thread may be over.                 *)
Mark ==
  /\ At("mark")
  /\ threads' = [threads EXCEPT ![Newest] = [@ EXCEPT !.running = TRUE]]
  /\ at' = "check"
  /\ UNCHANGED <<code, flag, pc, execs, bar, seen, note, obuf, ebuf, sent, process>>

(* runThread returns thread_success as it is now.                          *)
Check ==
  /\ At("check")
  /\ \/ /\ threads[Newest].success
        /\ Continue(pc)
        /\ seen' = seen
     \/ /\ ~threads[Newest].success
        /\ at' = "tell"
        /\ seen' = Len(ebuf)
        /\ UNCHANGED <<pc, execs, note>>
  /\ UNCHANGED <<code, flag, bar, threads, obuf, ebuf, sent, process>>

Tell ==
  /\ At("tell")
  /\ \/ Survive /\ ebuf' = Pushed(ebuf, seen, "started")
     \/ Terminate /\ Raced(ebuf, seen) /\ ebuf' = ebuf
  /\ Continue(pc)
  /\ UNCHANGED <<code, flag, bar, seen, threads, obuf, sent>>

-----------------------------------------------------------------------------
(* The end of Server::processRequest.                                      *)

Catch ==
  /\ At("catch")
  /\ at' = "caught"
  /\ seen' = Len(ebuf)
  /\ UNCHANGED <<code, flag, pc, execs, bar, note, threads, obuf, ebuf, sent,
                 process>>

Caught ==
  /\ At("caught")
  /\ \/ Survive /\ ebuf' = Pushed(ebuf, seen, note)
     \/ Terminate /\ Raced(ebuf, seen) /\ ebuf' = ebuf
  /\ at' = "reply"
  /\ UNCHANGED <<code, flag, pc, execs, bar, seen, note, threads, obuf, sent>>

(* returnResults: two loops `it != end()` over the vectors themselves, with *)
(* one write for each element.  Threads that are still there after an      *)
(* error of main may push_back meanwhile, which moves the vector: `it` is  *)
(* then neither in it nor at its end.                                      *)
Reply ==
  /\ At("reply")
  /\ at' = "out"
  /\ sent' = [sent EXCEPT !.obuf = obuf]
  /\ UNCHANGED <<code, flag, pc, execs, bar, seen, note, threads, obuf, ebuf,
                 process>>

OutMoved == At("out") /\ obuf # sent.obuf
ErrMoved == At("err") /\ ebuf # sent.ebuf

SendOut ==
  /\ At("out") /\ Len(sent.out) < Len(obuf)
  /\ sent' = [sent EXCEPT !.out = Append(@, obuf[Len(@) + 1])]
  /\ UNCHANGED <<code, flag, at, pc, execs, bar, seen, note, threads, obuf, ebuf,
                 process>>

(* The end of the loop and the sentinel.                                   *)
OutSent ==
  /\ At("out") /\ (Len(sent.out) = Len(obuf) \/ OutMoved)
  /\ at' = "err"
  /\ sent' = [sent EXCEPT !.ebuf = ebuf]
  /\ UNCHANGED <<code, flag, pc, execs, bar, seen, note, threads, obuf, ebuf,
                 process>>

SendErr ==
  /\ At("err") /\ Len(sent.err) < Len(ebuf)
  /\ sent' = [sent EXCEPT !.err = Append(@, ebuf[Len(@) + 1])]
  /\ UNCHANGED <<code, flag, at, pc, execs, bar, seen, note, threads, obuf, ebuf,
                 process>>

ErrSent ==
  /\ At("err") /\ (Len(sent.err) = Len(ebuf) \/ ErrMoved)
  /\ at' = "delete"
  /\ UNCHANGED <<code, flag, pc, execs, bar, seen, note, threads, obuf, ebuf, sent,
                 process>>

(* What lies behind a dangling `it`: some text, of which the model takes   *)
(* one more than the vector has, or no memory.                             *)
Garbage == -1
SendGarbage ==
  /\ \/ /\ OutMoved /\ Len(sent.out) <= Len(obuf) /\ Survive
        /\ sent' = [sent EXCEPT !.out = Append(@, Garbage)]
     \/ /\ ErrMoved /\ Len(sent.err) <= Len(ebuf) /\ Survive
        /\ sent' = [sent EXCEPT !.err = Append(@, "garbage")]
     \/ (OutMoved \/ ErrMoved) /\ Terminate /\ UNCHANGED sent
  /\ UNCHANGED <<code, flag, at, pc, execs, bar, seen, note, threads, obuf, ebuf>>

Delete ==
  /\ At("delete")
  /\ at' = "gone"
  /\ UNCHANGED <<code, flag, pc, execs, bar, seen, note, threads, obuf, ebuf, sent,
                 process>>

-----------------------------------------------------------------------------
(* ThreadInstr::threadMainBody of thread i, and Thread::run around it.     *)

ThreadAt(i, where) == process = "up" /\ threads[i].at = where
BodyIns(i) == Ins(threads[i].start + 1 + threads[i].pc)
ThreadRuns(i, ops) ==
  /\ ThreadAt(i, "run")
  /\ threads[i].pc < threads[i].size
  /\ BodyIns(i).op \in ops

(* The end of the loop body: count, go to the line after `line`; too many  *)
(* instructions are an exception nobody catches.                           *)
ThreadContinue(i, line) ==
  IF threads[i].execs + 1 > MaxThreadExec
    THEN Terminate /\ UNCHANGED threads
    ELSE /\ Survive
         /\ threads' = [threads EXCEPT
              ![i] = [threads[i] EXCEPT !.at = "run", !.execs = @ + 1,
                                        !.pc = Inc(line)]]

ThreadQuiet(i) ==
  /\ ThreadRuns(i, {"quiet", "lock", "jcc"})
  /\ ThreadContinue(i, threads[i].pc)
  /\ UNCHANGED <<code, flag, at, pc, execs, bar, seen, note, obuf, ebuf, sent>>

(* A MisException leaves the thread's start routine.                       *)
ThreadFail(i) ==
  /\ ThreadRuns(i, {"fail"})
  /\ Terminate
  /\ UNCHANGED <<code, flag, at, pc, execs, bar, seen, note, threads, obuf, ebuf,
                 sent>>

ThreadOut(i) ==
  /\ ThreadRuns(i, {"out"})
  /\ threads' = [threads EXCEPT ![i] = [@ EXCEPT !.at = "push", !.seen = Len(obuf)]]
  /\ UNCHANGED <<code, flag, at, pc, execs, bar, seen, note, obuf, ebuf, sent,
                 process>>

ThreadPush(i) ==
  /\ ThreadAt(i, "push")
  /\ \/ /\ obuf' = Pushed(obuf, threads[i].seen, BodyIns(i).arg)
        /\ ThreadContinue(i, threads[i].pc)
     \/ /\ Raced(obuf, threads[i].seen)
        /\ Terminate
        /\ UNCHANGED <<obuf, threads>>
  /\ UNCHANGED <<code, flag, at, pc, execs, bar, seen, note, ebuf, sent>>

(* Mutant of ThreadError: jumps past THREAD_END are not refused.           *)
ThreadErrorBelow(th, jump) ==
  IF jump < th.start THEN "outside" ELSE "none"

(* The message for an int thrown inside thread th.  The three tests of the *)
(* source are not exclusive and the last one wins; it compares the int,    *)
(* converted to size_t.                                                    *)
ThreadError(th, jump) ==
  IF Wrap(jump) < th.start \/ Wrap(jump) > th.start + th.size THEN "outside"
  ELSE IF jump = -40 THEN "barrier in thread"
  ELSE IF jump = -20 THEN "thread in thread"
  ELSE "none"

ThreadJump(i) ==
  LET th == threads[i]
      jump == Interrupt(BodyIns(i))
      err == ThreadError(th, jump)
  IN
  /\ ThreadRuns(i, {"jmp", "jcc", "barrier", "begin"})
  /\ \/ /\ err = "none"
        /\ ThreadContinue(i, Wrap(jump - th.start - 1))
     \/ /\ err # "none"
        /\ threads' = [threads EXCEPT
             ![i] = [@ EXCEPT !.at = "report", !.note = err, !.seen = Len(ebuf)]]
        /\ Survive
  /\ UNCHANGED <<code, flag, at, pc, execs, bar, seen, note, obuf, ebuf, sent>>

(* Mutant: the exception is dropped.                                       *)
ThreadReportNothing(i) ==
  /\ ThreadAt(i, "report")
  /\ threads' = [threads EXCEPT ![i] = [@ EXCEPT !.at = "clean", !.success = FALSE]]
  /\ UNCHANGED <<code, flag, at, pc, execs, bar, seen, note, obuf, ebuf, sent,
                 process>>

ThreadReport(i) ==
  /\ ThreadAt(i, "report")
  /\ \/ /\ ebuf' = Pushed(ebuf, threads[i].seen, threads[i].note)
        /\ threads' = [threads EXCEPT
             ![i] = [@ EXCEPT !.at = "clean", !.success = FALSE]]
        /\ Survive
     \/ /\ Raced(ebuf, threads[i].seen)
        /\ Terminate
        /\ UNCHANGED <<ebuf, threads>>
  /\ UNCHANGED <<code, flag, at, pc, execs, bar, seen, note, obuf, sent>>

ThreadEnd(i) ==
  /\ ThreadAt(i, "run")
  /\ threads[i].pc >= threads[i].size
  /\ threads' = [threads EXCEPT ![i] = [@ EXCEPT !.at = "clean"]]
  /\ UNCHANGED <<code, flag, at, pc, execs, bar, seen, note, obuf, ebuf, sent,
                 process>>

(* Thread::cleanup: the flags first, the mutex last.                       *)
ThreadClean(i) ==
  /\ ThreadAt(i, "clean")
  /\ threads' = [threads EXCEPT
       ![i] = [@ EXCEPT !.at = "unlock", !.running = FALSE, !.started = FALSE]]
  /\ UNCHANGED <<code, flag, at, pc, execs, bar, seen, note, obuf, ebuf, sent,
                 process>>

ThreadUnlock(i) ==
  /\ ThreadAt(i, "unlock")
  /\ threads' = [threads EXCEPT ![i] = [@ EXCEPT !.at = "done", !.locked = FALSE]]
  /\ UNCHANGED <<code, flag, at, pc, execs, bar, seen, note, obuf, ebuf, sent,
                 process>>

(* A thread still executing instructions of a deleted program may crash.   *)
UseAfterDelete(i) ==
  /\ at = "gone"
  /\ ThreadAt(i, "run") \/ ThreadAt(i, "push") \/ ThreadAt(i, "report")
  /\ Terminate
  /\ UNCHANGED <<code, flag, at, pc, execs, bar, seen, note, threads, obuf, ebuf,
                 sent>>

-----------------------------------------------------------------------------
MainStep ==
  \/ MainQuiet \/ MainJump \/ MainError \/ MainOut \/ MainPush \/ MainBarrier
  \/ MainEnd \/ AwaitThread \/ BarrierDone \/ FinalBarrierDone
  \/ RunThread \/ Create \/ Mark \/ Check \/ Tell
  \/ Catch \/ Caught \/ Reply \/ SendOut \/ OutSent \/ SendErr \/ ErrSent
  \/ SendGarbage \/ Delete

ThreadStep(i) ==
  \/ ThreadQuiet(i) \/ ThreadFail(i) \/ ThreadOut(i) \/ ThreadPush(i)
  \/ ThreadJump(i) \/ ThreadReport(i) \/ ThreadEnd(i)
  \/ ThreadClean(i) \/ ThreadUnlock(i)

Next ==
  \/ MainStep
  \/ \E i \in 1..Len(threads) : ThreadStep(i) \/ UseAfterDelete(i)

Spec == Init /\ [][Next]_vars

(* LOCK and every getter and setter may find the variable locked by        *)
(* another thread and sleep (Variable.cpp:77, 121), for ever if the wakeup *)
(* is lost.  So may all that uses a variable: LOCK in main is refused      *)
(* before it gets that far.                                                *)
Users == {"quiet", "jcc", "jmp", "out", "fail"}
MainUses == Runs(Users)
ThreadUses(i) == ThreadRuns(i, Users \cup {"lock"})

(* The operating system runs the thread that serves the request and every  *)
(* thread of the program.  Nothing obliges an instruction that uses a      *)
(* variable to end.                                                        *)
SomeThreadStep == \E i \in 1..Len(threads) : ThreadStep(i)
FairSpec ==
  /\ Spec
  /\ WF_vars(MainStep /\ ~MainUses)
  /\ WF_vars(\E i \in 1..Len(threads) : ThreadStep(i) /\ ~ThreadUses(i))

-----------------------------------------------------------------------------
(* Types of the state.                                                     *)
TypeOK ==
  /\ code \in Programs
  /\ flag \in {0, 1}
  /\ at \in {"run", "push", "barrier", "final", "create", "mark", "check", "tell",
             "catch", "caught", "reply", "out", "err", "delete", "gone"}
  /\ pc \in Nat /\ execs \in Nat /\ bar \in Nat \ {0} /\ seen \in Nat
  /\ note \in Messages
  /\ threads \in Seq(ThreadInstr)
  /\ obuf \in Seq(Int) /\ ebuf \in Seq(Messages)
  /\ sent \in [out : Seq(Int), err : Seq(Messages),
              obuf : Seq(Int), ebuf : Seq(Messages)]
  /\ process \in {"up", "terminated"}

(* The thread is not executing anything, and never will.                   *)
Over(th) == th.at \in {"new", "done"}

(* If no exception ended the program, all its threads have terminated when *)
(* the results are sent and the program is deleted: nothing is printed or  *)
(* executed afterwards.  "Wait for all detached threads to finish"         *)
(* (Program.cpp:179, Server.cpp:51-52).                                    *)
JoinedBeforeReply ==
  at \in {"reply", "out", "err", "delete", "gone"} /\ note = "none"
    => \A i \in 1..Len(threads) : Over(threads[i])

(* Main gets past a BARRIER only when every thread it started has          *)
(* terminated, whether it is quick, slow or ended by an error              *)
(* (Program.cpp:24-27, 153-155; Thread.cpp:10-17, 50-68, 84-88).           *)
BarrierJoins ==
  [][(at = "barrier" \/ at = "final") /\ at' # at
       => \A i \in 1..Len(threads) : Over(threads[i])]_vars

(* A thread executes the lines between its own THREAD_BEGIN and THREAD_END *)
(* and no others, wherever its jumps point (ThreadInstr.cpp:46-51,         *)
(* Program.cpp:191-206).                                                   *)
ThreadOwnLines ==
  \A i \in 1..Len(threads) :
    LET th == threads[i] IN
    /\ th.start + th.size < Len(code)
    /\ th.pc <= th.size
    /\ th.pc < th.size => BodyIns(i).op \notin {"begin", "end"}

(* A jump inside a thread goes to the line a jump of main to the same      *)
(* label would go to: the scaling by thread_start and the increments of    *)
(* the two loops cancel out, wraparound of size_t included                 *)
(* (ThreadInstr.cpp:34, 51; Program.cpp:157, 167).                         *)
ThreadJumpsLikeMain ==
  [][\A i \in 1..Len(threads) :
       ThreadRuns(i, {"jmp"}) /\ threads'[i].execs # threads[i].execs
         => threads'[i].start + 1 + threads'[i].pc = BodyIns(i).arg + 1]_vars

(* The message of a failed thread is in what the client gets, if that is   *)
(* the only thread and main itself did not fail (ThreadInstr.cpp:57-60).   *)
ThreadErrorReported ==
  at = "gone" /\ note = "none" /\ Len(threads) = 1 /\ ~threads[1].success
    => Len(sent.err) > 0 /\ sent.err[1] = threads[1].note

(* What a sequence of lines prints when it is executed from its first line *)
(* to its last, and what n such rounds print.                              *)
Texts(lines) ==
  FlattenSeq([k \in 1..Len(lines) |->
    IF lines[k].op = "out" THEN <<lines[k].arg>> ELSE <<>>])
Rounds(n, texts) == FlattenSeq([k \in 1..n |-> texts])

(* The lines of p are: some without jumps, THREAD_BEGIN at b, a body that  *)
(* is executed once or loops over all its lines, THREAD_END at e, some     *)
(* that print nothing, BARRIER at r, and some without jumps.               *)
Before(p, b) == SubSeq(p, 1, b)
Body(p, b, e) == SubSeq(p, b + 2, e)
After(p, r) == SubSeq(p, r + 2, Len(p))
Joined(p, b, e, r) ==
  /\ b < e /\ e < r
  /\ p[b + 1].op = "begin" /\ p[e + 1].op = "end" /\ p[r + 1].op = "barrier"
  /\ \A k \in 1..b \cup r+2..Len(p) : p[k].op \in {"quiet", "out", "barrier"}
  /\ \A k \in b+2..e :
       p[k].op \in {"quiet", "lock", "out"} \/ (k = e /\ p[k].op = "jcc" /\ p[k].arg = b)
  /\ \A k \in e+2..r : p[k].op = "quiet"

(* The output of such a program is what main prints before THREAD_BEGIN,   *)
(* what the thread prints, in as many rounds as it has made, and what main *)
(* prints after BARRIER.  No output is lost or reordered, although three   *)
(* actors append to one vector without a lock (Program.cpp:119-122,        *)
(* 153-155, ThreadInstr.cpp:53-56).                                        *)
BarrierOrdersOutput ==
  \A b, e, r \in 0..Len(code)-1 :
    at = "gone" /\ note = "none" /\ Joined(code, b, e, r) =>
      \E n \in 1..threads[1].execs + 1 :
        /\ threads[1].execs = n * (e - b - 1)
        /\ sent.out = Texts(Before(code, b)) \o Rounds(n, Texts(Body(code, b, e)))
                        \o Texts(After(code, r))

(* What the author of a program sees of a thread, and of main.             *)
Stage(th) ==
  CASE th.at = "new" -> "forked" [] th.at = "done" -> "over" [] OTHER -> "active"
Phase ==
  CASE at \in {"barrier", "final"} -> "waiting"
    [] at \in {"delete", "gone"} -> "answered"
    [] OTHER -> "running"

Promise == INSTANCE ForkJoin WITH
  main <- Phase,
  tasks <- [i \in 1..Len(threads) |-> Stage(threads[i])],
  failed <- note # "none",
  printed <- [out |-> obuf, err |-> ebuf],
  answer <- IF Phase = "answered" THEN [out |-> sent.out, err |-> sent.err]
            ELSE [out |-> <<>>, err |-> <<>>],
  alive <- process = "up"

(* Threads are forked and joined as ForkJoin promises: each runs once,     *)
(* BARRIER and the end of main wait for all, the answer is all that was    *)
(* printed unless main fails after it has started a thread, only a program *)
(* with a thread takes the server down, and none that was answered without *)
(* an error ("Wait for all detached threads to finish", Program.cpp:179;   *)
(* Server.cpp:31-52, 97-130).                                              *)
ForksAndJoins == Promise!Spec

(* No instruction sleeps on a variable for ever.                           *)
VariablesComeFree == WF_vars(MainStep) /\ WF_vars(SomeThreadStep)

(* If variables come free, every request is answered or the process dies:  *)
(* no thread keeps a program busy for ever, with or without -f, and main   *)
(* only with it, by executing instructions for ever (Program.cpp:169,      *)
(* ThreadInstr.cpp:63).  A thread that could not be created stops it all   *)
(* the same: its mutex stays locked (Thread.cpp:52-66).                    *)
EveryRequestEnds ==
  VariablesComeFree =>
    \/ <>(at = "gone" \/ process = "terminated")
    \/ <>(\E i \in 1..Len(threads) : threads[i].at = "failed")
    \/ flag = 1 /\ []<>(at = "run")

(* The program is deleted only when no thread is executing it: the threads *)
(* use the instructions, variables and buffers that ~Program frees.  "Wait *)
(* for all detached threads to finish" (Program.cpp:179).                  *)
DeletedAfterThreads ==
  at = "gone" => \A i \in 1..Len(threads) : threads[i].at \in {"new", "failed", "done"}
=============================================================================
