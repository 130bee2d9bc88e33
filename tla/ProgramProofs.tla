---------------------------- MODULE ProgramProofs ----------------------------
(***************************************************************************)
(* What holds of the execution of every program, with any number of        *)
(* threads: the threads are joined before a BARRIER is passed and before   *)
(* the results of a program that ended normally are sent, and a thread     *)
(* never leaves its own lines.  The execution implements ForkJoin, and the *)
(* output of a thread that is joined is where it belongs.                  *)
(***************************************************************************)
EXTENDS Program, Lemmas, WellFoundedInduction

(* What is true of one element of thread_list: its mutex is locked from    *)
(* pthread_create to the end of cleanup(), its lines are lines of the      *)
(* program that begin and end no thread, and its pc stays among them.      *)
ThreadOK(th) ==
  /\ th.locked <=> ~Over(th)
  /\ th.start + th.size < Len(code)
  /\ th.pc <= th.size
  /\ th.at = "push" => th.pc < th.size
  /\ \A k \in 0..th.size-1 : Ins(th.start + 1 + k).op \notin {"begin", "end"}

ThreadsOK == \A i \in 1..Len(threads) : ThreadOK(threads[i])

(* barrier() has seen the mutex of every thread before element bar free.   *)
BarrierProgress ==
  at \in {"barrier", "final"} =>
    /\ bar <= Len(threads) + 1
    /\ \A i \in 1..bar-1 : Over(threads[i])

(* While a thread is being started it is the last one, and not yet run.    *)
StartsLast ==
  /\ at \in {"create", "mark", "check", "tell"} => Len(threads) > 0
  /\ at = "create" => threads[Len(threads)].at = "new"

(* Between throw and catch there is an exception; OUT is at a line.        *)
MainOK ==
  /\ at \in {"catch", "caught"} => note # "none"
  /\ at = "push" => pc < Len(code)

IInv ==
  /\ TypeOK
  /\ ThreadsOK
  /\ BarrierProgress
  /\ StartsLast
  /\ MainOK
  /\ JoinedBeforeReply

-----------------------------------------------------------------------------
(* The thread's jump is scaled right: for a label inside the body, or just *)
(* before or after its last line, the pc after the loop's increment is the *)
(* label's line less the thread's, whatever size_t did on the way; every   *)
(* other int, -20 and -40 included, is refused.                            *)
THEOREM JumpScaling ==
  ASSUME NEW th \in ThreadInstr, NEW len \in Nat, NEW jump \in Int,
         WordSize \in Nat, 2 * len + 42 < WordSize,
         th.start + th.size < len,
         len - WordSize < jump, jump < WordSize,
         ThreadError(th, jump) = "none"
  PROVE  /\ jump - th.start \in 0..th.size
         /\ Inc(Wrap(jump - th.start - 1)) = jump - th.start
<1>1. th.start \in Nat /\ th.size \in Nat
  BY DEF ThreadInstr
<1>2. ~(Wrap(jump) < th.start \/ Wrap(jump) > th.start + th.size)
  BY DEF ThreadError
<1>3. jump >= 0
  BY <1>1, <1>2 DEF Wrap
<1>4. jump - th.start \in 0..th.size
  BY <1>1, <1>2, <1>3 DEF Wrap
<1>5. CASE jump = th.start
  BY <1>1, <1>5 DEF Wrap, Inc
<1>6. CASE jump > th.start
  BY <1>1, <1>4, <1>6 DEF Wrap, Inc
<1> QED
  BY <1>1, <1>4, <1>5, <1>6

(* A line of the program is an instruction; labels are near the program.   *)
LEMMA InsType ==
  ASSUME TypeOK, NEW k \in 0..Len(code)-1
  PROVE  /\ Ins(k) \in Instr
         /\ Ins(k).op \in {"jmp", "jcc"} =>
              Len(code) - WordSize < Ins(k).arg /\ Ins(k).arg < WordSize
<1>1. code \in Programs /\ code \in Seq(Instr)
  BY ProgramsAssumption DEF TypeOK
<1>2. Len(code) \in Nat /\ k + 1 \in 1..Len(code)
  BY <1>1, LenProperties
<1> QED
  BY <1>1, <1>2, WordAssumption, ElementOfSeq DEF Ins

LEMMA WordSizeLarge ==
  ASSUME TypeOK
  PROVE  Len(code) \in Nat /\ WordSize \in Nat /\ 2 * Len(code) + 42 < WordSize
<1>1. code \in Programs /\ code \in Seq(Instr)
  BY ProgramsAssumption DEF TypeOK
<1> QED
  BY <1>1, WordAssumption, LenProperties

(* push_back, raced or not, leaves a vector of the same type.              *)
LEMMA PushedType ==
  ASSUME NEW S, NEW buf \in Seq(S), NEW n \in Nat, NEW x \in S
  PROVE  Pushed(buf, n, x) \in Seq(S)
<1>1. Len(buf) \in Nat
  BY LenProperties
<1>2. CASE n <= Len(buf)
  <2>1. \A i \in 1..n : buf[i] \in S
    BY <1>1, <1>2, ElementOfSeq
  <2>2. SubSeq(buf, 1, n) \in Seq(S)
    BY <2>1, SubSeqProperties
  <2> QED
    BY <1>2, <2>2 DEF Pushed
<1> QED
  BY <1>1, <1>2 DEF Pushed

(* Updating one element of thread_list.                                    *)
LEMMA UpdateThread ==
  ASSUME NEW ts \in Seq(ThreadInstr), NEW i \in 1..Len(ts),
         NEW th \in ThreadInstr, NEW us, us = [ts EXCEPT ![i] = th]
  PROVE  /\ us \in Seq(ThreadInstr)
         /\ Len(us) = Len(ts)
         /\ us[i] = th
         /\ \A j \in 1..Len(ts) : j # i => us[j] = ts[j]
BY ExceptSeq

LEMMA ThreadNumbers ==
  ASSUME NEW th \in ThreadInstr
  PROVE  /\ th.start \in Nat /\ th.size \in Nat
         /\ th.pc \in Nat /\ th.execs \in Nat /\ th.execs + 1 \in Nat
BY DEF ThreadInstr

(* Wrapping and incrementing stay in the naturals.                         *)
LEMMA IncType ==
  ASSUME WordSize \in Nat, NEW x \in Nat
  PROVE  Inc(x) \in Nat
BY DEF Inc

-----------------------------------------------------------------------------
(* The initial states satisfy the invariant.                               *)
LEMMA InitIInv == Init => IInv
<1> SUFFICES ASSUME Init PROVE IInv
  OBVIOUS
<1> USE DEF Init
<1>1. TypeOK
  <2>1. flag \in {0, 1}
    BY FlagsAssumption
  <2>2. sent \in [out : Seq(Int), err : Seq(Messages),
                 obuf : Seq(Int), ebuf : Seq(Messages)]
    BY EmptySeq
  <2> QED
    BY <2>1, <2>2, EmptySeq DEF TypeOK, Messages
<1>2. Len(threads) = 0
  BY EmptySeq
<1>3. ThreadsOK /\ BarrierProgress /\ StartsLast /\ MainOK /\ JoinedBeforeReply
  BY <1>2 DEF ThreadsOK, BarrierProgress, StartsLast, MainOK, JoinedBeforeReply
<1> QED
  BY <1>1, <1>3 DEF IInv

-----------------------------------------------------------------------------
(* What a step of thread i is to the rest of the system: it touches its    *)
(* own element of thread_list, which keeps ThreadOK, and the buffers.      *)
ThreadEffect(i) ==
  /\ UNCHANGED <<code, flag, at, pc, execs, bar, seen, note, sent>>
  /\ obuf' \in Seq(Int) /\ ebuf' \in Seq(Messages)
  /\ process' \in {"up", "terminated"}
  /\ threads' \in Seq(ThreadInstr)
  /\ Len(threads') = Len(threads)
  /\ \A j \in 1..Len(threads) : j # i => threads'[j] = threads[j]
  /\ ThreadOK(threads'[i])
  /\ threads[i].at \notin {"new", "failed", "done"} \/ UNCHANGED threads

(* One thread replaced by another that is OK.                              *)
LEMMA ReplaceThread ==
  ASSUME TypeOK, ThreadsOK, NEW i \in 1..Len(threads),
         NEW th \in ThreadInstr, ThreadOK(th),
         threads' = [threads EXCEPT ![i] = th],
         threads[i].at \notin {"new", "failed", "done"},
         UNCHANGED <<code, flag, at, pc, execs, bar, seen, note, sent>>,
         obuf' \in Seq(Int), ebuf' \in Seq(Messages),
         process' \in {"up", "terminated"}
  PROVE  ThreadEffect(i)
<1>1. threads \in Seq(ThreadInstr)
  BY DEF TypeOK
<1>2. /\ threads' \in Seq(ThreadInstr)
      /\ Len(threads') = Len(threads)
      /\ threads'[i] = th
      /\ \A j \in 1..Len(threads) : j # i => threads'[j] = threads[j]
  BY <1>1, UpdateThread
<1> QED
  BY <1>2 DEF ThreadEffect

(* No thread replaced.                                                     *)
LEMMA KeepThreads ==
  ASSUME TypeOK, ThreadsOK, NEW i \in 1..Len(threads),
         UNCHANGED <<code, flag, at, pc, execs, bar, seen, note, sent, threads>>,
         obuf' \in Seq(Int), ebuf' \in Seq(Messages),
         process' \in {"up", "terminated"}
  PROVE  ThreadEffect(i)
<1>1. threads' \in Seq(ThreadInstr)
  BY DEF TypeOK
<1>2. ThreadOK(threads'[i])
  BY DEF ThreadsOK, ThreadOK, Ins
<1> QED
  BY <1>1, <1>2 DEF ThreadEffect

(* The end of the loop body with a pc that stays in the body.              *)
LEMMA ThreadContinueEffect ==
  ASSUME TypeOK, ThreadsOK, NEW i \in 1..Len(threads),
         threads[i].at \in {"run", "push"},
         NEW line, Inc(line) \in 0..threads[i].size,
         ThreadContinue(i, line),
         UNCHANGED <<code, flag, at, pc, execs, bar, seen, note, sent>>,
         obuf' \in Seq(Int), ebuf' \in Seq(Messages)
  PROVE  ThreadEffect(i)
<1>1. threads[i] \in ThreadInstr /\ ThreadOK(threads[i])
  BY ElementOfSeq DEF TypeOK, ThreadsOK
<1>2. CASE threads[i].execs + 1 > MaxThreadExec
  <2>1. process' = "terminated" /\ UNCHANGED threads
    BY <1>2 DEF ThreadContinue, Terminate
  <2> QED
    BY <2>1, KeepThreads
<1>3. CASE ~(threads[i].execs + 1 > MaxThreadExec)
  <2> DEFINE th == [threads[i] EXCEPT !.at = "run", !.execs = @ + 1,
                                      !.pc = Inc(line)]
  <2>1. threads' = [threads EXCEPT ![i] = th] /\ process' = "up"
    BY <1>3 DEF ThreadContinue, Survive
  <2>2. threads[i].execs + 1 \in Nat /\ Inc(line) \in Nat
        /\ Inc(line) <= threads[i].size
    <3>1. threads[i].execs \in Nat /\ threads[i].size \in Nat
      BY <1>1 DEF ThreadInstr
    <3>2. Inc(line) \in 0..threads[i].size
      OBVIOUS
    <3> QED
      BY <3>1, <3>2
  <2>3. th = [threads[i] EXCEPT !.at = "run", !.execs = threads[i].execs + 1,
                                !.pc = Inc(line)]
    OBVIOUS
  <2>4. th \in ThreadInstr
    BY <1>1, <2>2, <2>3 DEF ThreadInstr
  <2>5. /\ th.start = threads[i].start /\ th.size = threads[i].size
        /\ th.locked = threads[i].locked
        /\ th.at = "run" /\ th.pc = Inc(line)
    BY <1>1, <2>3 DEF ThreadInstr
  <2>6. ThreadOK(th)
    BY <1>1, <2>2, <2>5 DEF ThreadOK, Over
  <2> HIDE DEF th
  <2> QED
    BY <2>1, <2>4, <2>6, ReplaceThread
<1> QED
  BY <1>2, <1>3

(* Going on to the next line.                                              *)
LEMMA NextLine ==
  ASSUME TypeOK, NEW th \in ThreadInstr, ThreadOK(th), th.pc < th.size
  PROVE  Inc(th.pc) \in 0..th.size
<1>1. th.pc \in Nat /\ th.size \in Nat /\ th.start \in Nat
  BY DEF ThreadInstr
<1> QED
  BY <1>1, WordSizeLarge DEF Inc, ThreadOK

(* The instruction a thread is at.                                         *)
LEMMA BodyInsType ==
  ASSUME TypeOK, NEW i \in 1..Len(threads), ThreadOK(threads[i]),
         threads[i].pc < threads[i].size
  PROVE  /\ BodyIns(i) \in Instr
         /\ BodyIns(i).op \in {"jmp", "jcc"} =>
              Len(code) - WordSize < BodyIns(i).arg /\ BodyIns(i).arg < WordSize
         /\ BodyIns(i).op \notin {"begin", "end"}
<1>1. threads[i] \in ThreadInstr
  BY ElementOfSeq DEF TypeOK
<1>2. /\ threads[i].pc \in 0..threads[i].size-1
      /\ threads[i].start + 1 + threads[i].pc \in 0..Len(code)-1
  BY <1>1, WordSizeLarge DEF ThreadInstr, ThreadOK
<1> QED
  BY <1>2, InsType DEF BodyIns, ThreadOK

(* The effect of every step of a thread.                                   *)
LEMMA ThreadStepEffect ==
  ASSUME TypeOK, ThreadsOK, NEW i \in 1..Len(threads),
         ThreadStep(i) \/ UseAfterDelete(i)
  PROVE  ThreadEffect(i)
<1>1. /\ threads[i] \in ThreadInstr
      /\ ThreadOK(threads[i])
      /\ obuf \in Seq(Int) /\ ebuf \in Seq(Messages)
      /\ process \in {"up", "terminated"}
  BY ElementOfSeq DEF TypeOK, ThreadsOK
<1>2. threads[i].seen \in Nat /\ threads[i].note \in Messages
  BY <1>1 DEF ThreadInstr
<1>3. Len(obuf) \in Nat /\ Len(ebuf) \in Nat
  BY <1>1, LenProperties
<1>4. CASE ThreadQuiet(i)
  <2>1. Inc(threads[i].pc) \in 0..threads[i].size
    BY <1>1, <1>4, NextLine DEF ThreadQuiet, ThreadRuns
  <2> QED
    BY <1>1, <1>4, <2>1, ThreadContinueEffect DEF ThreadQuiet, ThreadRuns, ThreadAt
<1>5. CASE ThreadFail(i)
  BY <1>1, <1>5, KeepThreads DEF ThreadFail, Terminate
<1>6. CASE ThreadOut(i)
  <2> DEFINE th == [threads[i] EXCEPT !.at = "push", !.seen = Len(obuf)]
  <2>1. th \in ThreadInstr
    BY <1>1, <1>3 DEF ThreadInstr
  <2>2. ThreadOK(th)
    BY <1>1, <1>6 DEF ThreadOK, ThreadInstr, Over, ThreadOut, ThreadRuns, ThreadAt
  <2>3. threads' = [threads EXCEPT ![i] = th]
    BY <1>6 DEF ThreadOut
  <2> HIDE DEF th
  <2> QED
    BY <1>1, <1>6, <2>1, <2>2, <2>3, ReplaceThread
       DEF ThreadOut, ThreadRuns, ThreadAt
<1>7. CASE ThreadPush(i)
  <2>1. threads[i].at = "push" /\ threads[i].pc < threads[i].size
    BY <1>1, <1>7 DEF ThreadPush, ThreadAt, ThreadOK
  <2>2. Inc(threads[i].pc) \in 0..threads[i].size
    BY <1>1, <2>1, NextLine
  <2>3. BodyIns(i).arg \in Int
    BY <1>1, <2>1, BodyInsType DEF Instr
  <2>4. Pushed(obuf, threads[i].seen, BodyIns(i).arg) \in Seq(Int)
    BY <1>1, <1>2, <2>3, PushedType
  <2>5. CASE /\ obuf' = Pushed(obuf, threads[i].seen, BodyIns(i).arg)
             /\ ThreadContinue(i, threads[i].pc)
    BY <1>1, <1>7, <2>1, <2>2, <2>4, <2>5, ThreadContinueEffect DEF ThreadPush
  <2>6. CASE Terminate /\ UNCHANGED <<obuf, threads>>
    BY <1>1, <1>7, <2>6, KeepThreads DEF ThreadPush, Terminate
  <2> QED
    BY <1>7, <2>5, <2>6 DEF ThreadPush
<1>8. CASE ThreadJump(i)
  <2> DEFINE jump == Interrupt(BodyIns(i))
             err == ThreadError(threads[i], jump)
  <2>1. /\ threads[i].at = "run" /\ threads[i].pc < threads[i].size
        /\ BodyIns(i).op \in {"jmp", "jcc", "barrier", "begin"}
    BY <1>8 DEF ThreadJump, ThreadRuns, ThreadAt
  <2>2. jump \in Int /\ Len(code) - WordSize < jump /\ jump < WordSize
    BY <1>1, <2>1, BodyInsType, WordSizeLarge DEF Interrupt, Instr
  <2>3. CASE err = "none" /\ ThreadContinue(i, Wrap(jump - threads[i].start - 1))
    <3>1. Inc(Wrap(jump - threads[i].start - 1)) \in 0..threads[i].size
      BY <1>1, <2>2, <2>3, JumpScaling, WordSizeLarge DEF ThreadOK
    <3> QED
      BY <1>1, <1>8, <2>1, <2>3, <3>1, ThreadContinueEffect DEF ThreadJump
  <2>4. CASE /\ Survive
             /\ threads' = [threads EXCEPT
                  ![i] = [@ EXCEPT !.at = "report", !.note = err, !.seen = Len(ebuf)]]
    <3> DEFINE th == [threads[i] EXCEPT !.at = "report", !.note = err,
                                        !.seen = Len(ebuf)]
    <3>1. err \in Messages
      BY DEF ThreadError, Messages
    <3>2. th \in ThreadInstr
      BY <1>1, <1>3, <3>1 DEF ThreadInstr
    <3>3. ThreadOK(th)
      BY <1>1, <2>1 DEF ThreadOK, ThreadInstr, Over
    <3>4. threads' = [threads EXCEPT ![i] = th]
      BY <2>4
    <3> HIDE DEF th
    <3> QED
      BY <1>1, <1>8, <2>1, <2>4, <3>2, <3>3, <3>4, ReplaceThread
         DEF ThreadJump, Survive
  <2> QED
    BY <1>8, <2>3, <2>4 DEF ThreadJump
<1>9. CASE ThreadReport(i)
  <2>1. threads[i].at = "report"
    BY <1>9 DEF ThreadReport, ThreadAt
  <2>2. Pushed(ebuf, threads[i].seen, threads[i].note) \in Seq(Messages)
    BY <1>1, <1>2, PushedType
  <2>3. CASE /\ ebuf' = Pushed(ebuf, threads[i].seen, threads[i].note)
             /\ threads' = [threads EXCEPT
                  ![i] = [@ EXCEPT !.at = "clean", !.success = FALSE]]
             /\ Survive
    <3> DEFINE th == [threads[i] EXCEPT !.at = "clean", !.success = FALSE]
    <3>1. th \in ThreadInstr
      BY <1>1 DEF ThreadInstr
    <3>2. ThreadOK(th)
      BY <1>1, <2>1 DEF ThreadOK, ThreadInstr, Over
    <3>3. threads' = [threads EXCEPT ![i] = th]
      BY <2>3
    <3> HIDE DEF th
    <3> QED
      BY <1>1, <1>9, <2>1, <2>2, <2>3, <3>1, <3>2, <3>3, ReplaceThread
         DEF ThreadReport, Survive
  <2>4. CASE Terminate /\ UNCHANGED <<ebuf, threads>>
    BY <1>1, <1>9, <2>4, KeepThreads DEF ThreadReport, Terminate
  <2> QED
    BY <1>9, <2>3, <2>4 DEF ThreadReport
<1>10. CASE ThreadEnd(i)
  <2> DEFINE th == [threads[i] EXCEPT !.at = "clean"]
  <2>1. th \in ThreadInstr
    BY <1>1 DEF ThreadInstr
  <2>2. ThreadOK(th)
    BY <1>1, <1>10 DEF ThreadOK, ThreadInstr, Over, ThreadEnd, ThreadAt
  <2>3. threads' = [threads EXCEPT ![i] = th]
    BY <1>10 DEF ThreadEnd
  <2> HIDE DEF th
  <2> QED
    BY <1>1, <1>10, <2>1, <2>2, <2>3, ReplaceThread DEF ThreadEnd, ThreadAt
<1>11. CASE ThreadClean(i)
  <2> DEFINE th == [threads[i] EXCEPT !.at = "unlock", !.running = FALSE,
                                      !.started = FALSE]
  <2>1. th \in ThreadInstr
    BY <1>1 DEF ThreadInstr
  <2>2. ThreadOK(th)
    BY <1>1, <1>11 DEF ThreadOK, ThreadInstr, Over, ThreadClean, ThreadAt
  <2>3. threads' = [threads EXCEPT ![i] = th]
    BY <1>11 DEF ThreadClean
  <2> HIDE DEF th
  <2> QED
    BY <1>1, <1>11, <2>1, <2>2, <2>3, ReplaceThread DEF ThreadClean, ThreadAt
<1>12. CASE ThreadUnlock(i)
  <2> DEFINE th == [threads[i] EXCEPT !.at = "done", !.locked = FALSE]
  <2>1. th \in ThreadInstr
    BY <1>1 DEF ThreadInstr
  <2>2. ThreadOK(th)
    BY <1>1, <1>12 DEF ThreadOK, ThreadInstr, Over, ThreadUnlock, ThreadAt
  <2>3. threads' = [threads EXCEPT ![i] = th]
    BY <1>12 DEF ThreadUnlock
  <2> HIDE DEF th
  <2> QED
    BY <1>1, <1>12, <2>1, <2>2, <2>3, ReplaceThread DEF ThreadUnlock, ThreadAt
<1>13. CASE UseAfterDelete(i)
  BY <1>1, <1>13, KeepThreads DEF UseAfterDelete, Terminate
<1> QED
  BY <1>4, <1>5, <1>6, <1>7, <1>8, <1>9, <1>10, <1>11, <1>12, <1>13
     DEF ThreadStep

(* A step of a thread keeps the invariant.                                 *)
LEMMA ThreadStepInductive ==
  ASSUME IInv, NEW i \in 1..Len(threads), ThreadEffect(i)
  PROVE  IInv'
<1> USE DEF ThreadEffect
<1>1. TypeOK'
  BY DEF IInv, TypeOK
<1>2. Len(threads) \in Nat
  BY LenProperties DEF IInv, TypeOK
<1>3. \A j \in 1..Len(threads) : Over(threads[j]) => Over(threads'[j])
  BY DEF Over
<1>4. ThreadsOK'
  <2>1. \A j \in 1..Len(threads) : ThreadOK(threads'[j])
    BY DEF IInv, ThreadsOK, ThreadOK, Over, Ins
  <2> QED
    BY <2>1 DEF ThreadsOK, ThreadOK, Ins, Over
<1>5. BarrierProgress'
  BY <1>2, <1>3 DEF IInv, BarrierProgress, TypeOK, Over
<1>6. StartsLast'
  <2>1. ASSUME at = "create" PROVE threads'[Len(threads)].at = "new"
    <3>1. Len(threads) > 0 /\ threads[Len(threads)].at = "new"
      BY <2>1 DEF IInv, StartsLast
    <3>2. CASE i = Len(threads)
      BY <3>1, <3>2
    <3>3. CASE i # Len(threads)
      BY <1>2, <3>1, <3>3
    <3> QED
      BY <3>2, <3>3
  <2> QED
    BY <2>1 DEF IInv, StartsLast
<1>7. MainOK' /\ JoinedBeforeReply'
  BY <1>3 DEF IInv, MainOK, JoinedBeforeReply, Over
<1> QED
  BY <1>1, <1>4, <1>5, <1>6, <1>7 DEF IInv

-----------------------------------------------------------------------------
(* The steps of main.  Most leave thread_list alone.                       *)
LEMMA ThreadsKept ==
  ASSUME ThreadsOK, threads' = threads, code' = code
  PROVE  ThreadsOK'
BY DEF ThreadsOK, ThreadOK, Ins, Over

(* Between instructions nothing but the types and the list is at stake.    *)
LEMMA RunningInductive ==
  ASSUME IInv, TypeOK', ThreadsOK',
         at' \in {"run", "catch"}, at' = "catch" => note' # "none"
  PROVE  IInv'
BY DEF IInv, BarrierProgress, StartsLast, MainOK, JoinedBeforeReply

LEMMA ContinueType ==
  ASSUME TypeOK, NEW line \in Nat, Continue(line)
  PROVE  /\ execs' \in Nat /\ pc' \in Nat /\ note' \in Messages
         /\ at' \in {"run", "catch"}
         /\ at' = "catch" => note' # "none"
<1>1. Inc(line) \in Nat
  BY WordSizeLarge, IncType
<1>2. execs \in Nat /\ note \in Messages
  BY DEF TypeOK
<1>3. \/ at' = "catch" /\ note' = "limit"
      \/ at' = "run" /\ note' = note
  BY DEF Continue, Throw
<1>4. execs' = Counted(execs) /\ pc' = Inc(line)
  BY DEF Continue
<1>5. execs' \in Nat /\ pc' \in Nat
  BY <1>1, <1>2, <1>4 DEF Counted
<1>6. "limit" \in Messages /\ "limit" # "none"
  BY DEF Messages
<1>7. note' \in Messages /\ (at' = "catch" => note' # "none")
  BY <1>2, <1>3, <1>6
<1> QED
  BY <1>3, <1>5, <1>7

(* An instruction of main is at a line of the program.                     *)
LEMMA RunsIns ==
  ASSUME TypeOK, NEW ops, Runs(ops)
  PROVE  /\ at = "run" /\ process = "up" /\ pc \in 0..Len(code)-1
         /\ Ins(pc) \in Instr /\ Ins(pc).op \in ops
         /\ Ins(pc).op \in {"jmp", "jcc"} =>
              Len(code) - WordSize < Ins(pc).arg /\ Ins(pc).arg < WordSize
<1>1. pc \in 0..Len(code)-1
  BY WordSizeLarge DEF Runs, At, TypeOK
<1> QED
  BY <1>1, InsType DEF Runs, At

LEMMA MainFlow ==
  ASSUME IInv, MainQuiet \/ MainJump \/ MainError \/ BarrierDone
  PROVE  IInv'
<1>1. TypeOK /\ ThreadsOK
  BY DEF IInv
<1>2. UNCHANGED <<code, flag, bar, seen, threads, obuf, ebuf, sent, process>>
  BY DEF MainQuiet, MainJump, MainError, BarrierDone
<1>3. ThreadsOK'
  BY <1>1, <1>2, ThreadsKept
<1>4. pc \in Nat
  BY <1>1 DEF TypeOK
<1>5. CASE MainQuiet \/ BarrierDone
  <2>1. Continue(pc)
    BY <1>5 DEF MainQuiet, BarrierDone
  <2>2. TypeOK'
    BY <1>1, <1>2, <1>4, <2>1, ContinueType DEF TypeOK
  <2> QED
    BY <1>1, <1>3, <1>4, <2>1, <2>2, ContinueType, RunningInductive
<1>6. CASE MainJump
  <2>1. /\ Ins(pc).op \in {"jmp", "jcc"} /\ Ins(pc).arg \in Int
        /\ Len(code) - WordSize < Ins(pc).arg /\ Ins(pc).arg < WordSize
    BY <1>1, <1>6, RunsIns DEF MainJump, Instr
  <2>2. Wrap(Interrupt(Ins(pc))) \in Nat
    BY <1>1, <2>1, WordSizeLarge DEF Wrap, Interrupt
  <2>3. Continue(Wrap(Interrupt(Ins(pc))))
    BY <1>6 DEF MainJump
  <2>4. TypeOK'
    BY <1>1, <1>2, <2>2, <2>3, ContinueType DEF TypeOK
  <2> QED
    BY <1>1, <1>3, <2>2, <2>3, <2>4, ContinueType, RunningInductive
<1>7. CASE MainError
  <2>1. at' = "catch" /\ note' \in Messages /\ note' # "none"
        /\ pc' = pc /\ execs' = execs
    BY <1>7 DEF MainError, Throw, Messages
  <2>2. TypeOK'
    BY <1>1, <1>2, <2>1 DEF TypeOK
  <2> QED
    BY <1>3, <2>1, <2>2, RunningInductive
<1> QED
  BY <1>5, <1>6, <1>7

LEMMA MainOutput ==
  ASSUME IInv, MainOut \/ MainPush \/ Check \/ Tell
  PROVE  IInv'
<1>1. TypeOK /\ ThreadsOK
  BY DEF IInv
<1>2. UNCHANGED <<code, flag, bar, threads, sent>>
  BY DEF MainOut, MainPush, Check, Tell
<1>3. ThreadsOK'
  BY <1>1, <1>2, ThreadsKept
<1>4. /\ pc \in Nat /\ seen \in Nat /\ obuf \in Seq(Int) /\ ebuf \in Seq(Messages)
      /\ Len(obuf) \in Nat /\ Len(ebuf) \in Nat
  BY <1>1, LenProperties DEF TypeOK
<1>5. CASE MainOut
  <2>1. /\ at' = "push" /\ seen' = Len(obuf) /\ pc < Len(code)
        /\ UNCHANGED <<pc, execs, note, obuf, ebuf, process>>
    BY <1>5 DEF MainOut, Runs
  <2>2. TypeOK'
    BY <1>1, <1>2, <1>4, <2>1 DEF TypeOK
  <2> QED
    BY <1>2, <1>3, <2>1, <2>2
       DEF IInv, BarrierProgress, StartsLast, MainOK, JoinedBeforeReply
<1>6. CASE MainPush
  <2>1. /\ Continue(pc) /\ UNCHANGED <<seen, ebuf>>
        /\ process' \in {"up", "terminated"}
    BY <1>6 DEF MainPush, Survive, Terminate
  <2>2. Ins(pc).arg \in Int
    <3>1. pc \in 0..Len(code)-1
      BY <1>1, <1>4, <1>6, WordSizeLarge DEF MainPush, At, IInv, MainOK
    <3> QED
      BY <1>1, <3>1, InsType DEF Instr
  <2>3. obuf' \in Seq(Int)
    BY <1>4, <1>6, <2>2, PushedType DEF MainPush
  <2>4. TypeOK'
    BY <1>1, <1>2, <1>4, <2>1, <2>3, ContinueType DEF TypeOK
  <2> QED
    BY <1>1, <1>3, <1>4, <2>1, <2>4, ContinueType, RunningInductive
<1>7. CASE Check
  <2>1. UNCHANGED <<obuf, ebuf, process>>
    BY <1>7 DEF Check
  <2>2. CASE Continue(pc) /\ seen' = seen
    <3>1. TypeOK'
      BY <1>1, <1>2, <1>4, <2>1, <2>2, ContinueType DEF TypeOK
    <3> QED
      BY <1>1, <1>3, <1>4, <2>2, <3>1, ContinueType, RunningInductive
  <2>3. CASE at' = "tell" /\ seen' = Len(ebuf) /\ UNCHANGED <<pc, execs, note>>
    <3>1. TypeOK'
      BY <1>1, <1>2, <1>4, <2>1, <2>3 DEF TypeOK
    <3>2. at = "check"
      BY <1>7 DEF Check, At
    <3> QED
      BY <1>2, <1>3, <2>3, <3>1, <3>2
         DEF IInv, BarrierProgress, StartsLast, MainOK, JoinedBeforeReply
  <2> QED
    BY <1>7, <2>2, <2>3 DEF Check
<1>8. CASE Tell
  <2>1. /\ Continue(pc) /\ UNCHANGED <<seen, obuf>>
        /\ process' \in {"up", "terminated"}
    BY <1>8 DEF Tell, Survive, Terminate
  <2>2. "started" \in Messages
    BY DEF Messages
  <2>3. ebuf' \in Seq(Messages)
    BY <1>4, <1>8, <2>2, PushedType DEF Tell
  <2>4. TypeOK'
    BY <1>1, <1>2, <1>4, <2>1, <2>3, ContinueType DEF TypeOK
  <2> QED
    BY <1>1, <1>3, <1>4, <2>1, <2>4, ContinueType, RunningInductive
<1> QED
  BY <1>5, <1>6, <1>7, <1>8

(* The steps of returnResults: they only move on and send.                 *)
Replying ==
  Reply \/ SendOut \/ OutSent \/ SendErr \/ ErrSent \/ SendGarbage

LEMMA ReplyMoves ==
  ASSUME Replying
  PROVE  /\ UNCHANGED <<code, flag, pc, execs, bar, seen, note, threads, obuf, ebuf>>
         /\ process = "up" /\ process' \in {"up", "terminated"}
         /\ at \in {"reply", "out", "err"} /\ at' \in {"out", "err", "delete"}
         /\ at' = "delete" => ErrSent
BY DEF Replying, Reply, SendOut, OutSent, SendErr, ErrSent, SendGarbage, At,
       OutMoved, ErrMoved, Survive, Terminate

LEMMA ReplyStep ==
  ASSUME TypeOK, Replying
  PROVE  /\ UNCHANGED <<code, flag, pc, execs, bar, seen, note, threads, obuf, ebuf>>
         /\ process = "up" /\ process' \in {"up", "terminated"}
         /\ at \in {"reply", "out", "err"} /\ at' \in {"out", "err", "delete"}
         /\ sent' \in [out : Seq(Int), err : Seq(Messages),
                       obuf : Seq(Int), ebuf : Seq(Messages)]
<1> PICK I, M : I = Seq(Int) /\ M = Seq(Messages)
  OBVIOUS
<1>1. /\ UNCHANGED <<code, flag, pc, execs, bar, seen, note, threads, obuf, ebuf>>
      /\ process = "up" /\ process' \in {"up", "terminated"}
      /\ at \in {"reply", "out", "err"} /\ at' \in {"out", "err", "delete"}
  BY ReplyMoves
<1>2. sent \in [out : I, err : M, obuf : I, ebuf : M] /\ obuf \in I /\ ebuf \in M
  BY DEF TypeOK
<1>3. /\ sent.out \in Seq(Int) /\ sent.err \in Seq(Messages)
      /\ Len(sent.out) \in Nat /\ Len(sent.err) \in Nat
      /\ Len(obuf) \in Nat /\ Len(ebuf) \in Nat
  <2>1. obuf \in Seq(Int) /\ ebuf \in Seq(Messages)
    BY <1>2
  <2>2. sent.out \in Seq(Int) /\ sent.err \in Seq(Messages)
    BY <1>2
  <2> QED
    BY <2>1, <2>2, LenProperties
<1>4. ASSUME NEW x \in Int, sent' = [sent EXCEPT !.out = Append(@, x)]
      PROVE  sent' \in [out : I, err : M, obuf : I, ebuf : M]
  <2>1. Append(sent.out, x) \in I
    BY <1>3, AppendProperties
  <2>2. PICK longer : longer = Append(sent.out, x)
    OBVIOUS
  <2>3. sent' = [sent EXCEPT !.out = longer] /\ longer \in I
    BY <1>4, <2>1, <2>2
  <2> QED
    BY <1>2, <2>3
<1>5. ASSUME NEW x \in Messages, sent' = [sent EXCEPT !.err = Append(@, x)]
      PROVE  sent' \in [out : I, err : M, obuf : I, ebuf : M]
  <2>1. Append(sent.err, x) \in M
    BY <1>3, AppendProperties
  <2>2. PICK longer : longer = Append(sent.err, x)
    OBVIOUS
  <2>3. sent' = [sent EXCEPT !.err = longer] /\ longer \in M
    BY <1>5, <2>1, <2>2
  <2> QED
    BY <1>2, <2>3
<1>6. ASSUME Reply \/ OutSent \/ ErrSent
      PROVE  sent' \in [out : I, err : M, obuf : I, ebuf : M]
  <2>1. \/ sent' = [sent EXCEPT !.obuf = obuf]
        \/ sent' = [sent EXCEPT !.ebuf = ebuf]
        \/ sent' = sent
    BY <1>6 DEF Reply, OutSent, ErrSent
  <2> QED
    BY <1>2, <2>1
<1>7. ASSUME SendOut
      PROVE  sent' \in [out : I, err : M, obuf : I, ebuf : M]
  <2>1. Len(sent.out) + 1 \in 1..Len(obuf)
    BY <1>3, <1>7 DEF SendOut
  <2>2. obuf[Len(sent.out) + 1] \in Int
    <3>1. PICK S : S = Int
      OBVIOUS
    <3>2. obuf \in Seq(S)
      BY <1>2, <3>1
    <3> QED
      BY <2>1, <3>1, <3>2, ElementOfSeq
  <2>3. sent' = [sent EXCEPT !.out = Append(@, obuf[Len(sent.out) + 1])]
    BY <1>7 DEF SendOut
  <2> QED
    BY <1>4, <2>2, <2>3
<1>8. ASSUME SendErr
      PROVE  sent' \in [out : I, err : M, obuf : I, ebuf : M]
  <2>1. Len(sent.err) + 1 \in 1..Len(ebuf)
    BY <1>3, <1>8 DEF SendErr
  <2>2. ebuf[Len(sent.err) + 1] \in Messages
    <3>1. ebuf \in Seq(Messages)
      BY <1>2
    <3> QED
      BY <2>1, <3>1, ElementOfSeq
  <2>3. sent' = [sent EXCEPT !.err = Append(@, ebuf[Len(sent.err) + 1])]
    BY <1>8 DEF SendErr
  <2> QED
    BY <1>5, <2>2, <2>3
<1>9. ASSUME SendGarbage
      PROVE  sent' \in [out : I, err : M, obuf : I, ebuf : M]
  <2>1. \/ sent' = [sent EXCEPT !.out = Append(@, Garbage)]
        \/ sent' = [sent EXCEPT !.err = Append(@, "garbage")]
        \/ sent' = sent
    BY <1>9 DEF SendGarbage
  <2>2. Garbage \in Int /\ "garbage" \in Messages
    <3>1. Garbage \in Int
      BY DEF Garbage
    <3> QED
      BY <3>1 DEF Messages
  <2>3. CASE sent' = [sent EXCEPT !.out = Append(@, Garbage)]
    BY <1>4, <2>2, <2>3
  <2>4. CASE sent' = [sent EXCEPT !.err = Append(@, "garbage")]
    BY <1>5, <2>2, <2>4
  <2>5. CASE sent' = sent
    BY <1>2, <2>5
  <2> QED
    BY <2>1, <2>3, <2>4, <2>5
<1> QED
  BY <1>1, <1>6, <1>7, <1>8, <1>9 DEF Replying

LEMMA MainWaits ==
  ASSUME IInv,
         MainBarrier \/ MainEnd \/ AwaitThread \/ FinalBarrierDone
           \/ Catch \/ Caught \/ Replying \/ Delete
  PROVE  IInv'
<1>1. TypeOK /\ ThreadsOK
  BY DEF IInv
<1>2. UNCHANGED <<code, flag, pc, execs, note, threads, obuf>>
  BY <1>1, ReplyStep
     DEF MainBarrier, MainEnd, AwaitThread, FinalBarrierDone, Catch, Caught, Delete
<1>3. ThreadsOK'
  BY <1>1, <1>2, ThreadsKept
<1>4. /\ bar \in Nat \ {0} /\ note \in Messages
      /\ Len(threads) \in Nat /\ Len(ebuf) \in Nat
  BY <1>1, LenProperties DEF TypeOK
<1> USE DEF BarrierProgress, StartsLast, MainOK, JoinedBeforeReply
<1>5. CASE MainBarrier \/ MainEnd
  <2>1. /\ at' \in {"barrier", "final"} /\ bar' = 1
        /\ UNCHANGED <<seen, ebuf, sent, process>>
    BY <1>5 DEF MainBarrier, MainEnd
  <2>2. TypeOK'
    BY <1>1, <1>2, <2>1 DEF TypeOK
  <2> QED
    BY <1>2, <1>3, <1>4, <2>1, <2>2 DEF IInv
<1>6. CASE AwaitThread
  <2>1. /\ at \in {"barrier", "final"} /\ bar' = bar + 1
        /\ bar <= Len(threads) /\ ~threads[bar].locked
        /\ UNCHANGED <<at, seen, ebuf, sent, process>>
    BY <1>6 DEF AwaitThread, At
  <2>2. TypeOK'
    BY <1>1, <1>2, <2>1 DEF TypeOK
  <2>3. Over(threads[bar])
    BY <1>1, <1>4, <2>1 DEF ThreadsOK, ThreadOK
  <2>4. \A i \in 1..bar : Over(threads[i])
    BY <1>4, <2>1, <2>3 DEF IInv
  <2>5. BarrierProgress'
    BY <1>2, <1>4, <2>1, <2>4 DEF Over
  <2> QED
    BY <1>2, <1>3, <2>1, <2>2, <2>5 DEF IInv
<1>7. CASE FinalBarrierDone
  <2>1. /\ at = "final" /\ at' = "reply" /\ bar > Len(threads)
        /\ UNCHANGED <<bar, seen, ebuf, sent, process>>
    BY <1>7 DEF FinalBarrierDone, At
  <2>2. TypeOK'
    BY <1>1, <1>2, <2>1 DEF TypeOK
  <2>3. \A i \in 1..Len(threads) : Over(threads[i])
    BY <1>4, <2>1 DEF IInv
  <2> QED
    BY <1>2, <1>3, <2>1, <2>2, <2>3 DEF IInv, Over
<1>8. CASE Catch
  <2>1. /\ at = "catch" /\ at' = "caught" /\ seen' = Len(ebuf)
        /\ UNCHANGED <<bar, ebuf, sent, process>>
    BY <1>8 DEF Catch, At
  <2>2. TypeOK'
    BY <1>1, <1>2, <1>4, <2>1 DEF TypeOK
  <2> QED
    BY <1>2, <1>3, <2>1, <2>2 DEF IInv
<1>9. CASE Caught
  <2>1. /\ at = "caught" /\ at' = "reply"
        /\ process' \in {"up", "terminated"}
        /\ UNCHANGED <<bar, seen, sent>>
    BY <1>9 DEF Caught, At, Survive, Terminate
  <2>2. ebuf' \in Seq(Messages)
    <3>1. ebuf \in Seq(Messages) /\ seen \in Nat
      BY <1>1 DEF TypeOK
    <3> QED
      BY <1>4, <1>9, <3>1, PushedType DEF Caught
  <2>3. TypeOK'
    BY <1>1, <1>2, <2>1, <2>2 DEF TypeOK
  <2> QED
    BY <1>2, <1>3, <2>1, <2>3 DEF IInv
<1>10. CASE Replying
  <2>1. /\ at \in {"reply", "out", "err"} /\ at' \in {"out", "err", "delete"}
        /\ UNCHANGED <<bar, seen, ebuf>> /\ process' \in {"up", "terminated"}
        /\ sent' \in [out : Seq(Int), err : Seq(Messages),
                      obuf : Seq(Int), ebuf : Seq(Messages)]
    BY <1>1, <1>10, ReplyStep
  <2>2. TypeOK'
    BY <1>1, <1>2, <2>1 DEF TypeOK
  <2> QED
    BY <1>2, <1>3, <2>1, <2>2 DEF IInv, Over
<1>11. CASE Delete
  <2>1. /\ at = "delete" /\ at' = "gone"
        /\ UNCHANGED <<bar, seen, ebuf, sent, process>>
    BY <1>11 DEF Delete, At
  <2>2. TypeOK'
    BY <1>1, <1>2, <2>1 DEF TypeOK
  <2> QED
    BY <1>2, <1>3, <2>1, <2>2 DEF IInv, Over
<1> QED
  BY <1>5, <1>6, <1>7, <1>8, <1>9, <1>10, <1>11

(* The scan of runThread stops before the first line that begins or ends a *)
(* thread, so that the body it collects holds none.                        *)
LEMMA MinIsLeast ==
  ASSUME NEW S \in SUBSET Nat, S # {}
  PROVE  Min(S) \in S /\ \A k \in S : Min(S) <= k
<1> DEFINE Less == {ss \in Nat \X Nat : ss[1] < ss[2]}
<1>1. IsWellFoundedOn(Less, Nat)
  BY NatLessThanWellFounded DEF OpToRel
<1>2. PICK m \in S : \A k \in S : <<k, m>> \notin Less
  <2> HIDE DEF Less
  <2> QED
    BY <1>1, WFMin
<1>3. \A k \in S : m =< k
  <2> TAKE k \in S
  <2>1. /\ <<k, m>> \in Nat \X Nat
        /\ <<k, m>>[1] = k /\ <<k, m>>[2] = m
    OBVIOUS
  <2>2. ~(<<k, m>>[1] < <<k, m>>[2])
    BY <1>2, <2>1
  <2> QED
    BY <2>1, <2>2
<1>4. \E x \in S : \A y \in S : x =< y
  BY <1>3
<1>5. Min(S) \in S /\ \A y \in S : Min(S) =< y
  BY <1>4 DEF Min
<1> QED
  BY <1>5

(* A thread broken off at pc with `size` lines, none of which begins or    *)
(* ends a thread.                                                          *)
LEMMA NewThreadOK ==
  ASSUME TypeOK, NEW size \in Nat, pc + size < Len(code),
         \A k \in 0..size-1 : Ins(pc + 1 + k).op \notin {"begin", "end"}
  PROVE  NewThread(size) \in ThreadInstr /\ ThreadOK(NewThread(size))
<1>1. pc \in Nat /\ "none" \in Messages
  BY DEF TypeOK, Messages
<1>2. NewThread(size) \in ThreadInstr
  BY <1>1 DEF NewThread, ThreadInstr
<1>3. ThreadOK(NewThread(size))
  BY <1>1 DEF NewThread, ThreadOK, Over
<1> QED
  BY <1>2, <1>3

LEMMA AppendThread ==
  ASSUME TypeOK, ThreadsOK, NEW th \in ThreadInstr, ThreadOK(th),
         threads' = Append(threads, th), code' = code
  PROVE  /\ threads' \in Seq(ThreadInstr)
         /\ ThreadsOK'
         /\ Len(threads') > 0
         /\ threads'[Len(threads')] = th
<1>1. threads \in Seq(ThreadInstr) /\ Len(threads) \in Nat
  BY LenProperties DEF TypeOK
<1>2. /\ threads' \in Seq(ThreadInstr)
      /\ Len(threads') = Len(threads) + 1
      /\ \A i \in 1..Len(threads) : threads'[i] = threads[i]
      /\ threads'[Len(threads) + 1] = th
  BY <1>1, AppendProperties
<1>3. \A i \in 1..Len(threads') : ThreadOK(threads'[i])
  BY <1>1, <1>2 DEF ThreadsOK
<1>4. ThreadsOK'
  BY <1>3 DEF ThreadsOK, ThreadOK, Ins, Over
<1> QED
  BY <1>1, <1>2, <1>4

(* THREAD_BEGIN: the scan, the thread it appends, and where main goes on.  *)
LEMMA RunThreadInductive ==
  ASSUME IInv, RunThread
  PROVE  IInv'
<1> DEFINE marks == {k \in pc+1..Len(code)-1 : Ins(k).op \in {"begin", "end"}}
           stop == Min(marks)
<1>1. TypeOK /\ ThreadsOK
  BY DEF IInv
<1>2. /\ pc \in 0..Len(code)-1 /\ Len(code) \in Nat
      /\ UNCHANGED <<code, flag, execs, bar, seen, obuf, ebuf, sent, process>>
  BY <1>1, RunsIns, WordSizeLarge DEF RunThread
<1>3. note \in Messages /\ "no end" \in Messages /\ "nested" \in Messages
  BY <1>1 DEF TypeOK, Messages
<1>4. ASSUME NEW th \in ThreadInstr, ThreadOK(th), th.at = "new",
             threads' = Append(threads, th),
             pc' \in Nat, note' \in Messages,
             at' \in {"create", "catch"}, at' = "catch" => note' # "none"
      PROVE  IInv'
  <2>1. /\ threads' \in Seq(ThreadInstr)
        /\ ThreadsOK'
        /\ Len(threads') > 0
        /\ threads'[Len(threads')].at = "new"
    BY <1>1, <1>2, <1>4, AppendThread
  <2>2. TypeOK'
    BY <1>1, <1>2, <1>4, <2>1 DEF TypeOK
  <2> QED
    BY <1>4, <2>1, <2>2
       DEF IInv, BarrierProgress, StartsLast, MainOK, JoinedBeforeReply
<1>5. CASE /\ marks = {}
           /\ threads' = Append(threads, NewThread(Len(code) - pc - 1))
           /\ pc' = pc
           /\ Throw("no end")
  <2> DEFINE size == Len(code) - pc - 1
  <2>1. size \in Nat /\ pc + size < Len(code)
    BY <1>2
  <2>2. \A k \in 0..size-1 : Ins(pc + 1 + k).op \notin {"begin", "end"}
    <3> TAKE k \in 0..size-1
    <3>1. pc + 1 + k \in pc+1..Len(code)-1
      BY <1>2
    <3>2. pc + 1 + k \notin marks
      BY <1>5
    <3> QED
      BY <3>1, <3>2
  <2>3. NewThread(size) \in ThreadInstr /\ ThreadOK(NewThread(size))
    BY <1>1, <2>1, <2>2, NewThreadOK
  <2>4. NewThread(size).at = "new"
    BY DEF NewThread
  <2>5. threads' = Append(threads, NewThread(size)) /\ pc' = pc
    BY <1>5
  <2>6. note' = "no end" /\ at' = "catch"
    BY <1>5 DEF Throw
  <2>7. pc' \in Nat
    BY <1>2, <2>5
  <2> HIDE DEF size
  <2> QED
    BY <1>3, <1>4, <2>3, <2>4, <2>5, <2>6, <2>7
<1>6. CASE /\ marks # {}
           /\ threads' = Append(threads, NewThread(stop - pc - 1))
           /\ pc' = stop
           /\ IF Ins(stop).op = "begin"
                THEN Throw("nested")
                ELSE at' = "create" /\ note' = note
  <2> DEFINE size == stop - pc - 1
  <2>1. stop \in marks /\ \A k \in marks : stop <= k
    <3>1. marks \in SUBSET Nat
      BY <1>2
    <3> HIDE DEF marks
    <3> QED
      BY <1>6, <3>1, MinIsLeast
  <2>2. stop \in pc+1..Len(code)-1
    BY <2>1
  <2> HIDE DEF stop
  <2>3. size \in Nat /\ pc + size < Len(code) /\ stop \in Nat
    BY <1>2, <2>2
  <2>4. \A k \in 0..size-1 : Ins(pc + 1 + k).op \notin {"begin", "end"}
    <3> TAKE k \in 0..size-1
    <3>1. pc + 1 + k \in pc+1..Len(code)-1 /\ pc + 1 + k < stop
      BY <1>2, <2>2
    <3>2. pc + 1 + k \notin marks
      BY <1>2, <2>1, <2>3, <3>1
    <3> QED
      BY <3>1, <3>2
  <2>5. NewThread(size) \in ThreadInstr /\ ThreadOK(NewThread(size))
    BY <1>1, <2>3, <2>4, NewThreadOK
  <2>6. NewThread(size).at = "new"
    BY DEF NewThread
  <2>7. /\ threads' = Append(threads, NewThread(size)) /\ pc' \in Nat
        /\ \/ note' = "nested" /\ at' = "catch"
           \/ note' = note /\ at' = "create"
    BY <1>6, <2>3 DEF Throw
  <2> HIDE DEF size
  <2> QED
    BY <1>3, <1>4, <2>5, <2>6, <2>7
<1> QED
  BY <1>5, <1>6 DEF RunThread

(* Thread::start, on the last element of thread_list.                      *)
LEMMA StartInductive ==
  ASSUME IInv, Create \/ Mark
  PROVE  IInv'
<1>1. TypeOK /\ ThreadsOK
  BY DEF IInv
<1>2. /\ threads \in Seq(ThreadInstr) /\ Len(threads) \in Nat
      /\ UNCHANGED <<code, flag, pc, execs, bar, seen, note, obuf, ebuf, sent,
                     process>>
  BY <1>1, LenProperties DEF TypeOK, Create, Mark
<1>3. Newest \in 1..Len(threads)
  BY <1>2 DEF IInv, StartsLast, Create, Mark, At, Newest
<1>4. threads[Newest] \in ThreadInstr /\ ThreadOK(threads[Newest])
  BY <1>1, <1>2, <1>3, ElementOfSeq DEF ThreadsOK
<1>5. ASSUME NEW th \in ThreadInstr, ThreadOK(th),
             threads' = [threads EXCEPT ![Newest] = th],
             at' \in {"mark", "check"}
      PROVE  IInv'
  <2>1. /\ threads' \in Seq(ThreadInstr)
        /\ Len(threads') = Len(threads)
        /\ threads'[Newest] = th
        /\ \A j \in 1..Len(threads) : j # Newest => threads'[j] = threads[j]
    BY <1>2, <1>3, <1>5, UpdateThread
  <2>2. TypeOK'
    BY <1>1, <1>2, <1>5, <2>1 DEF TypeOK
  <2>3. \A j \in 1..Len(threads) : ThreadOK(threads'[j])
    BY <1>1, <1>5, <2>1 DEF ThreadsOK
  <2>4. ThreadsOK'
    BY <1>2, <2>1, <2>3 DEF ThreadsOK, ThreadOK, Ins, Over
  <2>5. Len(threads') > 0
    BY <1>2, <1>3, <2>1
  <2> QED
    BY <1>5, <2>2, <2>4, <2>5
       DEF IInv, BarrierProgress, StartsLast, MainOK, JoinedBeforeReply
<1>6. CASE Create
  <2>1. threads[Newest].at = "new"
    BY <1>6 DEF Create, At, IInv, StartsLast, Newest
  <2>2. CASE /\ threads' = [threads EXCEPT
                ![Newest] = [@ EXCEPT !.at = "run", !.locked = TRUE, !.started = TRUE]]
             /\ at' = "mark"
    <3> DEFINE th == [threads[Newest] EXCEPT !.at = "run", !.locked = TRUE,
                                           !.started = TRUE]
    <3>1. th \in ThreadInstr
      BY <1>4 DEF ThreadInstr
    <3>2. ThreadOK(th)
      BY <1>4 DEF ThreadOK, ThreadInstr, Over
    <3>3. threads' = [threads EXCEPT ![Newest] = th]
      BY <2>2
    <3> HIDE DEF th
    <3> QED
      BY <1>5, <2>2, <3>1, <3>2, <3>3
  <2>3. CASE /\ threads' = [threads EXCEPT
                ![Newest] = [@ EXCEPT !.at = "failed", !.locked = TRUE]]
             /\ at' = "check"
    <3> DEFINE th == [threads[Newest] EXCEPT !.at = "failed", !.locked = TRUE]
    <3>1. th \in ThreadInstr
      BY <1>4 DEF ThreadInstr
    <3>2. ThreadOK(th)
      BY <1>4 DEF ThreadOK, ThreadInstr, Over
    <3>3. threads' = [threads EXCEPT ![Newest] = th]
      BY <2>3
    <3> HIDE DEF th
    <3> QED
      BY <1>5, <2>3, <3>1, <3>2, <3>3
  <2> QED
    BY <1>6, <2>2, <2>3 DEF Create
<1>7. CASE Mark
  <2> DEFINE th == [threads[Newest] EXCEPT !.running = TRUE]
  <2>1. th \in ThreadInstr
    BY <1>4 DEF ThreadInstr
  <2>2. ThreadOK(th)
    BY <1>4 DEF ThreadOK, ThreadInstr, Over
  <2>3. threads' = [threads EXCEPT ![Newest] = th] /\ at' = "check"
    BY <1>7 DEF Mark
  <2> HIDE DEF th
  <2> QED
    BY <1>5, <2>1, <2>2, <2>3
<1> QED
  BY <1>6, <1>7

-----------------------------------------------------------------------------
LEMMA InductiveStep == IInv /\ [Next]_vars => IInv'
<1> SUFFICES ASSUME IInv, [Next]_vars PROVE IInv'
  OBVIOUS
<1>1. CASE MainStep
  BY <1>1, MainFlow, MainOutput, MainWaits, RunThreadInductive, StartInductive
     DEF MainStep, Replying
<1>2. ASSUME NEW i \in 1..Len(threads), ThreadStep(i) \/ UseAfterDelete(i)
      PROVE  IInv'
  <2>1. ThreadEffect(i)
    BY <1>2, ThreadStepEffect DEF IInv
  <2> QED
    BY <2>1, ThreadStepInductive
<1>3. CASE UNCHANGED vars
  BY <1>3 DEF vars, IInv, TypeOK, ThreadsOK, ThreadOK, Ins, Over, BarrierProgress,
              StartsLast, MainOK, JoinedBeforeReply
<1> QED
  BY <1>1, <1>2, <1>3 DEF Next

(* The inductive invariant holds in every state of every execution.        *)
THEOREM Invariance == Spec => []IInv
BY InitIInv, InductiveStep, PTL DEF Spec

(* The state keeps its types, whatever program is run: in particular every *)
(* pc stays a size_t and the buffers only ever hold whole elements.        *)
THEOREM TypeCorrect == Spec => []TypeOK
<1>1. IInv => TypeOK
  BY DEF IInv
<1> QED
  BY <1>1, Invariance, PTL

(* Server::processRequest never answers or deletes a program that ended    *)
(* without an exception while one of its threads is still running.         *)
THEOREM AllJoinedBeforeReply == Spec => []JoinedBeforeReply
<1>1. IInv => JoinedBeforeReply
  BY DEF IInv
<1> QED
  BY <1>1, Invariance, PTL

(* No jump takes a thread out of the lines between its THREAD_BEGIN and    *)
(* its THREAD_END.                                                         *)
THEOREM ThreadsKeepToTheirLines == Spec => []ThreadOwnLines
<1>1. IInv => ThreadOwnLines
  <2> SUFFICES ASSUME IInv, NEW i \in 1..Len(threads)
               PROVE  /\ threads[i].start + threads[i].size < Len(code)
                      /\ threads[i].pc <= threads[i].size
                      /\ threads[i].pc < threads[i].size
                           => BodyIns(i).op \notin {"begin", "end"}
    BY DEF ThreadOwnLines
  <2>1. ThreadOK(threads[i])
    BY DEF IInv, ThreadsOK
  <2> QED
    BY <2>1, BodyInsType DEF ThreadOK, IInv
<1> QED
  BY <1>1, Invariance, PTL

(* barrier() returns only when every thread in thread_list is over.        *)
THEOREM BarriersJoin == Spec => BarrierJoins
<1> DEFINE AllOver == (at = "barrier" \/ at = "final") /\ at' # at
                       => \A i \in 1..Len(threads) : Over(threads[i])
<1>1. IInv /\ [Next]_vars => [AllOver]_vars
  <2> SUFFICES ASSUME IInv, Next, at = "barrier" \/ at = "final", at' # at
               PROVE  \A i \in 1..Len(threads) : Over(threads[i])
    BY DEF AllOver, vars
  <2>1. ASSUME NEW i \in 1..Len(threads), ThreadStep(i) \/ UseAfterDelete(i)
        PROVE  FALSE
    BY <2>1, ThreadStepEffect DEF IInv, ThreadEffect
  <2>2. CASE MainStep
    <3>1. BarrierDone \/ FinalBarrierDone
      <4>1. ~Replying
        BY ReplyStep DEF IInv
      <4> QED
        BY <2>2, <4>1
           DEF MainStep, MainQuiet, MainJump, MainError, MainOut, MainPush,
               MainBarrier, MainEnd, AwaitThread, RunThread, Create, Mark,
               Check, Tell, Catch, Caught, Replying, Delete, Runs, At
    <3>2. bar > Len(threads)
      BY <3>1 DEF BarrierDone, FinalBarrierDone
    <3>3. Len(threads) \in Nat /\ bar \in Nat
      BY LenProperties DEF IInv, TypeOK
    <3> QED
      BY <3>2, <3>3 DEF IInv, BarrierProgress
  <2> QED
    BY <2>1, <2>2 DEF Next
<1>2. Spec => [][AllOver]_vars
  BY <1>1, Invariance, PTL DEF Spec
<1> QED
  BY <1>2 DEF BarrierJoins, AllOver

(* A jump inside a thread lands on the line that follows its label, as a   *)
(* jump of main does, in spite of the scaling through size_t.              *)
THEOREM JumpsLandOnLabels == Spec => ThreadJumpsLikeMain
<1> DEFINE Lands(i) ==
             ThreadRuns(i, {"jmp"}) /\ threads'[i].execs # threads[i].execs
               => threads'[i].start + 1 + threads'[i].pc = BodyIns(i).arg + 1
           Land == \A i \in 1..Len(threads) : Lands(i)
<1>1. IInv /\ [Next]_vars => [Land]_vars
  <2> SUFFICES ASSUME IInv, Next, NEW i \in 1..Len(threads),
                      ThreadRuns(i, {"jmp"}),
                      threads'[i].execs # threads[i].execs
               PROVE  threads'[i].start + 1 + threads'[i].pc = BodyIns(i).arg + 1
    BY DEF vars
  <2>1. TypeOK /\ ThreadsOK /\ threads \in Seq(ThreadInstr) /\ Len(threads) \in Nat
    BY LenProperties DEF IInv, TypeOK
  <2>2. /\ threads[i] \in ThreadInstr /\ ThreadOK(threads[i])
        /\ threads[i].at = "run" /\ threads[i].pc < threads[i].size
        /\ BodyIns(i).op = "jmp"
    BY <2>1, ElementOfSeq DEF ThreadsOK, ThreadRuns, ThreadAt
  <2>3. CASE MainStep
    <3>1. CASE RunThread
      <4>1. \E th : threads' = Append(threads, th)
        BY <3>1 DEF RunThread
      <4>2. threads'[i] = threads[i]
        BY <2>1, <4>1
      <4> QED
        BY <4>2
    <3>2. CASE Create \/ Mark
      <4>1. CASE i # Newest
        BY <2>1, <3>2, <4>1 DEF Create, Mark
      <4>2. CASE i = Newest
        <5> DEFINE run == [threads[i] EXCEPT !.at = "run", !.locked = TRUE,
                                             !.started = TRUE]
                   failed == [threads[i] EXCEPT !.at = "failed", !.locked = TRUE]
                   marked == [threads[i] EXCEPT !.running = TRUE]
        <5>1. \/ threads' = [threads EXCEPT ![i] = run]
              \/ threads' = [threads EXCEPT ![i] = failed]
              \/ threads' = [threads EXCEPT ![i] = marked]
          BY <3>2, <4>2 DEF Create, Mark
        <5>2. threads'[i] \in {run, failed, marked}
          <6> HIDE DEF run, failed, marked
          <6> QED
            BY <2>1, <5>1
        <5>3. \A th \in {run, failed, marked} : th.execs = threads[i].execs
          BY <2>2 DEF ThreadInstr
        <5> HIDE DEF run, failed, marked
        <5> QED
          BY <5>2, <5>3
      <4> QED
        BY <4>1, <4>2
    <3>3. CASE threads' = threads
      BY <3>3
    <3>4. CASE Replying
      BY <2>1, <3>3, <3>4, ReplyStep
    <3> QED
      BY <2>3, <3>1, <3>2, <3>3, <3>4
         DEF MainStep, MainQuiet, MainJump, MainError, MainOut, MainPush,
             MainBarrier, MainEnd, AwaitThread, BarrierDone, FinalBarrierDone,
             Check, Tell, Catch, Caught, Replying, Delete
  <2>4. ASSUME NEW j \in 1..Len(threads), ThreadStep(j) \/ UseAfterDelete(j)
        PROVE  threads'[i].start + 1 + threads'[i].pc = BodyIns(i).arg + 1
    <3>1. i = j
      <4>1. ThreadEffect(j)
        BY <2>1, <2>4, ThreadStepEffect
      <4>2. i # j => threads'[i] = threads[i]
        BY <4>1 DEF ThreadEffect
      <4> QED
        BY <4>2
    <3>2. ThreadJump(i)
      <4>1. ThreadStep(i)
        BY <2>4, <3>1 DEF UseAfterDelete
      <4>2. ~(threads[i].pc >= threads[i].size)
        BY <2>2 DEF ThreadInstr
      <4> QED
        BY <2>2, <4>1, <4>2
           DEF ThreadStep, ThreadQuiet, ThreadFail, ThreadOut, ThreadPush,
               ThreadReport, ThreadEnd, ThreadClean, ThreadUnlock,
               ThreadRuns, ThreadAt
    <3> DEFINE jump == Interrupt(BodyIns(i))
    <3>3. /\ jump = BodyIns(i).arg /\ jump \in Int
          /\ Len(code) - WordSize < jump /\ jump < WordSize
      BY <2>1, <2>2, BodyInsType DEF Interrupt, Instr
    <3>4. /\ ThreadError(threads[i], jump) = "none"
          /\ ThreadContinue(i, Wrap(jump - threads[i].start - 1))
      <4>1. CASE threads' = [threads EXCEPT
                   ![i] = [@ EXCEPT !.at = "report",
                                    !.note = ThreadError(threads[i], jump),
                                    !.seen = Len(ebuf)]]
        <5>1. threads'[i] = [threads[i] EXCEPT !.at = "report",
                                    !.note = ThreadError(threads[i], jump),
                                    !.seen = Len(ebuf)]
          BY <2>1, <4>1
        <5> QED
          BY <2>2, <5>1 DEF ThreadInstr
      <4> QED
        BY <3>2, <4>1 DEF ThreadJump
    <3>5. /\ jump - threads[i].start \in 0..threads[i].size
          /\ Inc(Wrap(jump - threads[i].start - 1)) = jump - threads[i].start
      BY <2>1, <2>2, <3>3, <3>4, JumpScaling, WordSizeLarge DEF ThreadOK
    <3>6. threads'[i] = [threads[i] EXCEPT !.at = "run",
                           !.execs = threads[i].execs + 1,
                           !.pc = jump - threads[i].start]
      <4> DEFINE line == Wrap(jump - threads[i].start - 1)
      <4>1. ~(threads[i].execs + 1 > MaxThreadExec)
        BY <3>4 DEF ThreadContinue
      <4> DEFINE th == [threads[i] EXCEPT !.at = "run", !.execs = @ + 1,
                                          !.pc = Inc(line)]
      <4>2. threads' = [threads EXCEPT ![i] = th]
        BY <3>4, <4>1 DEF ThreadContinue
      <4>3. threads'[i] = th
        <5> HIDE DEF th
        <5> QED
          BY <2>1, <4>2
      <4>4. Inc(line) = jump - threads[i].start
        BY <3>5
      <4> HIDE DEF line, jump
      <4> QED
        BY <4>3, <4>4
    <3>7. /\ threads'[i].pc = jump - threads[i].start
          /\ threads'[i].start = threads[i].start
      <4> HIDE DEF jump
      <4> QED
        BY <2>2, <3>6 DEF ThreadInstr
    <3> QED
      BY <2>2, <3>3, <3>7 DEF ThreadInstr
  <2> QED
    BY <2>3, <2>4 DEF Next
<1>2. Spec => [][Land]_vars
  <2> HIDE DEF Land
  <2> QED
    BY <1>1, Invariance, PTL DEF Spec
<1> QED
  BY <1>2 DEF ThreadJumpsLikeMain, Land, Lands

-----------------------------------------------------------------------------
(* The reply.  Main met no error, or no thread has begun: then nobody adds *)
(* to the buffers while they are sent.                                     *)
NoneBegun == \A i \in 1..Len(threads) : threads[i].at = "new"
Calm == note = "none" \/ NoneBegun

SoFar(some, all) ==
  Len(some) <= Len(all) /\ \A k \in 1..Len(some) : some[k] = all[k]

Replied ==
  /\ at \notin {"out", "err", "delete", "gone"} => sent.out = <<>> /\ sent.err = <<>>
  /\ Calm =>
       /\ at = "out" => sent.obuf = obuf /\ SoFar(sent.out, obuf) /\ sent.err = <<>>
       /\ at = "err" => sent.out = obuf /\ sent.ebuf = ebuf /\ SoFar(sent.err, ebuf)
       /\ at \in {"delete", "gone"} => sent.out = obuf /\ sent.err = ebuf

(* What the author of the program sees of a step of a thread.              *)
LEMMA ThreadSeen ==
  ASSUME IInv, NEW i \in 1..Len(threads), ThreadStep(i) \/ UseAfterDelete(i)
  PROVE  /\ process = "up" /\ threads[i].at \notin {"new", "done"}
         /\ \/ process' = "terminated" /\ threads' = threads
            \/ /\ process' = "up" /\ threads'[i].at \notin {"new", "done"}
            \/ /\ process' = "up" /\ threads'[i].at = "done"
               /\ UNCHANGED <<obuf, ebuf>>
<1>1. /\ threads \in Seq(ThreadInstr) /\ threads[i] \in ThreadInstr
      /\ process \in {"up", "terminated"}
  BY ElementOfSeq DEF IInv, TypeOK
<1>2. ASSUME NEW where, NEW th, threads' = [threads EXCEPT ![i] = th], th.at = where
      PROVE  threads'[i].at = where
  BY <1>1, <1>2
<1>3. ASSUME NEW line, ThreadContinue(i, line)
      PROVE  \/ process' = "terminated" /\ threads' = threads
             \/ process' = "up" /\ threads'[i].at = "run"
  <2>1. CASE process' = "terminated" /\ threads' = threads
    BY <2>1
  <2> DEFINE th == [threads[i] EXCEPT !.at = "run", !.execs = @ + 1, !.pc = Inc(line)]
  <2>2. CASE process' = "up" /\ threads' = [threads EXCEPT ![i] = th]
    <3>1. th.at = "run"
      BY <1>1 DEF ThreadInstr
    <3> HIDE DEF th
    <3> QED
      BY <1>2, <2>2, <3>1
  <2> QED
    BY <1>3, <2>1, <2>2 DEF ThreadContinue, Terminate, Survive
<1>4. CASE ThreadQuiet(i)
  BY <1>3, <1>4 DEF ThreadQuiet, ThreadRuns, ThreadAt
<1>5. CASE ThreadFail(i) \/ UseAfterDelete(i)
  BY <1>5 DEF ThreadFail, UseAfterDelete, Terminate, ThreadRuns, ThreadAt
<1>6. CASE ThreadPush(i)
  BY <1>3, <1>6 DEF ThreadPush, Terminate, ThreadAt
<1>7. CASE ThreadOut(i)
  <2> DEFINE th == [threads[i] EXCEPT !.at = "push", !.seen = Len(obuf)]
  <2>1. th.at = "push" /\ threads' = [threads EXCEPT ![i] = th]
    BY <1>1, <1>7 DEF ThreadInstr, ThreadOut
  <2> HIDE DEF th
  <2>2. threads'[i].at = "push"
    BY <1>2, <2>1
  <2> QED
    BY <1>7, <2>2 DEF ThreadOut, ThreadRuns, ThreadAt
<1>8. CASE ThreadJump(i)
  <2> DEFINE err == ThreadError(threads[i], Interrupt(BodyIns(i)))
             th == [threads[i] EXCEPT !.at = "report", !.note = err, !.seen = Len(ebuf)]
  <2>1. th.at = "report"
    BY <1>1 DEF ThreadInstr
  <2>2. \/ \E line : ThreadContinue(i, line)
        \/ threads' = [threads EXCEPT ![i] = th] /\ process' = "up"
    BY <1>8 DEF ThreadJump, Survive
  <2> HIDE DEF th
  <2>3. CASE threads' = [threads EXCEPT ![i] = th] /\ process' = "up"
    BY <1>2, <1>8, <2>1, <2>3 DEF ThreadJump, ThreadRuns, ThreadAt
  <2> QED
    BY <1>3, <1>8, <2>2, <2>3 DEF ThreadJump, ThreadRuns, ThreadAt
<1>9. CASE ThreadReport(i)
  <2> DEFINE th == [threads[i] EXCEPT !.at = "clean", !.success = FALSE]
  <2>1. th.at = "clean"
    BY <1>1 DEF ThreadInstr
  <2>2. \/ threads' = threads /\ process' = "terminated"
        \/ threads' = [threads EXCEPT ![i] = th] /\ process' = "up"
    BY <1>9 DEF ThreadReport, Survive, Terminate
  <2> HIDE DEF th
  <2> QED
    BY <1>2, <1>9, <2>1, <2>2 DEF ThreadReport, ThreadAt
<1>10. CASE ThreadEnd(i) \/ ThreadClean(i)
  <2> DEFINE th1 == [threads[i] EXCEPT !.at = "clean"]
             th2 == [threads[i] EXCEPT !.at = "unlock", !.running = FALSE, !.started = FALSE]
  <2>1. th1.at = "clean" /\ th2.at = "unlock"
    BY <1>1 DEF ThreadInstr
  <2>2. threads' = [threads EXCEPT ![i] = th1] \/ threads' = [threads EXCEPT ![i] = th2]
    BY <1>10 DEF ThreadEnd, ThreadClean
  <2> HIDE DEF th1, th2
  <2>3. threads'[i].at \in {"clean", "unlock"}
    BY <1>2, <2>1, <2>2
  <2> QED
    BY <1>10, <2>3 DEF ThreadEnd, ThreadClean, ThreadAt
<1>11. CASE ThreadUnlock(i)
  <2> DEFINE th == [threads[i] EXCEPT !.at = "done", !.locked = FALSE]
  <2>1. th.at = "done" /\ threads' = [threads EXCEPT ![i] = th]
    BY <1>1, <1>11 DEF ThreadInstr, ThreadUnlock
  <2> HIDE DEF th
  <2>2. threads'[i].at = "done"
    BY <1>2, <2>1
  <2> QED
    BY <1>11, <2>2 DEF ThreadUnlock, ThreadAt
<1> QED
  BY <1>4, <1>5, <1>6, <1>7, <1>8, <1>9, <1>10, <1>11 DEF ThreadStep

(* Sending one more element, and having sent all.                          *)
LEMMA SendOne ==
  ASSUME NEW S, NEW all \in Seq(S), NEW some \in Seq(S), SoFar(some, all)
  PROVE  /\ Len(some) < Len(all) => SoFar(Append(some, all[Len(some) + 1]), all)
         /\ Len(some) = Len(all) => some = all
<1>1. Len(some) \in Nat /\ Len(all) \in Nat
  BY LenProperties
<1>2. ASSUME Len(some) < Len(all)
      PROVE  SoFar(Append(some, all[Len(some) + 1]), all)
  <2> DEFINE x == all[Len(some) + 1]
             more == Append(some, x)
  <2>1. x \in S
    BY <1>1, <1>2, ElementOfSeq
  <2>2. /\ Len(more) = Len(some) + 1 /\ more[Len(some) + 1] = x
        /\ \A k \in 1..Len(some) : more[k] = some[k]
    BY <2>1, AppendProperties
  <2> HIDE DEF more
  <2>3. SoFar(more, all)
    BY <1>1, <1>2, <2>2 DEF SoFar
  <2> QED
    BY <2>3 DEF more
<1>3. ASSUME Len(some) = Len(all) PROVE some = all
  <2>1. \A k \in 1..Len(some) : some[k] = all[k]
    BY DEF SoFar
  <2> QED
    BY <1>3, <2>1, SeqEqual
<1> QED
  BY <1>2, <1>3

LEMMA SoFarNothing ==
  ASSUME NEW S, NEW all \in Seq(S)
  PROVE  SoFar(<<>>, all)
<1>1. Len(<<>>) = 0 /\ Len(all) \in Nat
  BY EmptySeq, LenProperties
<1> QED
  BY <1>1 DEF SoFar

(* The steps of returnResults, in calm.                                    *)
LEMMA ReplyingStep ==
  ASSUME IInv, Replied, Replying
  PROVE  Replied'
<1>1. /\ UNCHANGED <<note, threads, obuf, ebuf>>
      /\ at \in {"reply", "out", "err"} /\ at' \in {"out", "err", "delete"}
  BY ReplyStep DEF IInv
<1>2. Calm' <=> Calm
  BY <1>1 DEF Calm, NoneBegun
<1> SUFFICES ASSUME Calm
             PROVE  /\ at' = "out" => /\ sent'.obuf = obuf /\ SoFar(sent'.out, obuf)
                                      /\ sent'.err = <<>>
                    /\ at' = "err" => /\ sent'.out = obuf /\ sent'.ebuf = ebuf
                                      /\ SoFar(sent'.err, ebuf)
                    /\ at' = "delete" => sent'.out = obuf /\ sent'.err = ebuf
  BY <1>1, <1>2 DEF Replied
<1> PICK I, M : I = Int /\ M = Messages
  OBVIOUS
<1> PICK II, MM : II = Seq(I) /\ MM = Seq(M)
  OBVIOUS
<1>3. /\ sent \in [out : II, err : MM, obuf : II, ebuf : MM]
      /\ obuf \in II /\ ebuf \in MM
  BY DEF IInv, TypeOK
<1>4. /\ sent.out \in Seq(I) /\ sent.err \in Seq(M)
      /\ obuf \in Seq(I) /\ ebuf \in Seq(M)
  BY <1>3
<1>5. SoFar(<<>>, obuf) /\ SoFar(<<>>, ebuf)
  BY <1>4, SoFarNothing
<1>6. ~OutMoved /\ ~ErrMoved
  BY DEF OutMoved, ErrMoved, At, Replied
<1>7. CASE Reply
  <2>1. /\ at = "reply" /\ at' = "out" /\ sent' = [sent EXCEPT !.obuf = obuf]
    BY <1>7 DEF Reply, At
  <2>2. sent'.obuf = obuf /\ sent'.out = sent.out /\ sent'.err = sent.err
    BY <1>3, <2>1
  <2> QED
    BY <1>5, <2>1, <2>2 DEF Replied
<1>8. CASE SendOut
  <2> PICK more : more = Append(sent.out, obuf[Len(sent.out) + 1])
    OBVIOUS
  <2>1. /\ at = "out" /\ at' = "out" /\ Len(sent.out) < Len(obuf)
        /\ sent' = [sent EXCEPT !.out = more]
    BY <1>8 DEF SendOut, At
  <2>2. sent'.obuf = sent.obuf /\ sent'.out = more /\ sent'.err = sent.err
    BY <1>3, <2>1
  <2>3. SoFar(more, obuf)
    BY <1>4, <2>1, SendOne DEF Replied
  <2> QED
    BY <2>1, <2>2, <2>3 DEF Replied
<1>9. CASE OutSent
  <2>1. /\ at = "out" /\ at' = "err" /\ Len(sent.out) = Len(obuf)
        /\ sent' = [sent EXCEPT !.ebuf = ebuf]
    BY <1>6, <1>9 DEF OutSent, At
  <2>2. sent'.ebuf = ebuf /\ sent'.out = sent.out /\ sent'.err = sent.err
    BY <1>3, <2>1
  <2>3. sent.out = obuf /\ sent.err = <<>>
    BY <1>4, <2>1, SendOne DEF Replied
  <2> QED
    BY <1>5, <2>1, <2>2, <2>3
<1>10. CASE SendErr
  <2> PICK more : more = Append(sent.err, ebuf[Len(sent.err) + 1])
    OBVIOUS
  <2>1. /\ at = "err" /\ at' = "err" /\ Len(sent.err) < Len(ebuf)
        /\ sent' = [sent EXCEPT !.err = more]
    BY <1>10 DEF SendErr, At
  <2>2. sent'.ebuf = sent.ebuf /\ sent'.out = sent.out /\ sent'.err = more
    BY <1>3, <2>1
  <2>3. SoFar(more, ebuf)
    BY <1>4, <2>1, SendOne DEF Replied
  <2> QED
    BY <2>1, <2>2, <2>3 DEF Replied
<1>11. CASE ErrSent
  <2>1. /\ at = "err" /\ at' = "delete" /\ Len(sent.err) = Len(ebuf) /\ sent' = sent
    BY <1>6, <1>11 DEF ErrSent, At
  <2>2. sent.err = ebuf
    BY <1>4, <2>1, SendOne DEF Replied
  <2> QED
    BY <2>1, <2>2 DEF Replied
<1> QED
  BY <1>6, <1>7, <1>8, <1>9, <1>10, <1>11 DEF Replying, SendGarbage

LEMMA RepliedStep ==
  ASSUME IInv, Replied, [Next]_vars
  PROVE  Replied'
<1>1. ASSUME NEW i \in 1..Len(threads), ThreadStep(i) \/ UseAfterDelete(i)
      PROVE  Replied'
  <2>1. UNCHANGED <<at, note, sent>> /\ Len(threads') = Len(threads)
    BY <1>1, ThreadStepEffect DEF IInv, ThreadEffect
  <2>2. threads[i].at \notin {"new", "done"} /\ threads'[i].at # "new"
    BY <1>1, ThreadSeen
  <2>3. ~NoneBegun'
    BY <2>1, <2>2 DEF NoneBegun
  <2>4. at \in {"out", "err", "delete", "gone"} => note # "none"
    BY <2>2 DEF IInv, JoinedBeforeReply, Over
  <2> QED
    BY <2>1, <2>3, <2>4 DEF Replied, Calm
<1>2. CASE Replying
  BY <1>2, ReplyingStep
<1>3. CASE Delete \/ UNCHANGED vars
  <2>1. /\ UNCHANGED <<note, threads, obuf, ebuf, sent>>
        /\ at' = at \/ (at = "delete" /\ at' = "gone")
    <3>1. CASE Delete
      BY <3>1 DEF Delete, At
    <3>2. CASE UNCHANGED vars
      BY <3>2 DEF vars
    <3> QED
      BY <1>3, <3>1, <3>2
  <2>2. Calm' <=> Calm
    BY <2>1 DEF Calm, NoneBegun
  <2> QED
    BY <2>1, <2>2 DEF Replied
<1>4. CASE MainStep /\ ~Replying /\ ~Delete
  <2>1. /\ sent' = sent
        /\ at \notin {"out", "err", "delete", "gone"}
        /\ at' \notin {"out", "err", "delete", "gone"}
    BY <1>4 DEF MainStep, Replying, MainQuiet, MainJump, MainError, MainOut,
                MainPush, MainBarrier, MainEnd, AwaitThread, BarrierDone,
                FinalBarrierDone, RunThread, Create, Mark, Check, Tell, Catch,
                Caught, Runs, At, Continue, Throw
  <2> QED
    BY <2>1 DEF Replied
<1> QED
  BY <1>1, <1>2, <1>3, <1>4 DEF Next

(* What the client gets is what was printed, all of it and in order,       *)
(* unless main fails after a thread has begun (Server.cpp:97-130).         *)
LEMMA ReplyIsWhole == Spec => []Replied
<1>1. Init => Replied
  BY DEF Init, Replied
<1>2. IInv /\ Replied /\ [Next]_vars => Replied'
  BY RepliedStep
<1> QED
  BY <1>1, <1>2, Invariance, PTL DEF Spec

-----------------------------------------------------------------------------
(* The message of a failed thread is not lost, if that is the only thread. *)

(* Until the thread has failed nothing is reported; then its message is    *)
(* the first, and a push_back of main that is under way comes after it.    *)
ReportOK(th) ==
  /\ th.at \in {"new", "failed", "run", "push", "report"} => th.success
  /\ th.at = "report" => th.seen = 0
  /\ th.success => ebuf = <<>> /\ at # "tell"
  /\ ~th.success =>
       /\ Len(ebuf) > 0 /\ ebuf[1] = th.note
       /\ at = "tell" => seen > 0

FirstReport ==
  note = "none" =>
    /\ Len(threads) = 0 => ebuf = <<>>
    /\ Len(threads) = 1 => ReportOK(threads[1])

LEMMA FirstReportInit == Init => FirstReport
<1> SUFFICES ASSUME Init PROVE FirstReport
  OBVIOUS
<1>1. Len(threads) = 0 /\ ebuf = <<>>
  BY EmptySeq DEF Init
<1> QED
  BY <1>1 DEF FirstReport

(* A push_back onto a vector read when it had elements keeps the first.    *)
LEMMA PushedKeepsFirst ==
  ASSUME NEW S, NEW buf \in Seq(S), NEW n \in Nat, NEW x \in S,
         n > 0, Len(buf) > 0
  PROVE  Len(Pushed(buf, n, x)) > 0 /\ Pushed(buf, n, x)[1] = buf[1]
<1>1. Len(buf) \in Nat
  BY LenProperties
<1>2. CASE n <= Len(buf)
  <2> DEFINE cut == SubSeq(buf, 1, n)
  <2>1. \A i \in 1..n : buf[i] \in S
    BY <1>1, <1>2, ElementOfSeq
  <2>2. cut \in Seq(S) /\ Len(cut) = n /\ cut[1] = buf[1]
    BY <2>1, SubSeqProperties
  <2> HIDE DEF cut
  <2>3. Len(Append(cut, x)) = n + 1 /\ Append(cut, x)[1] = cut[1]
    BY <2>2, AppendProperties
  <2>4. Pushed(buf, n, x) = Append(cut, x)
    BY <1>2 DEF Pushed, cut
  <2> QED
    BY <2>2, <2>3, <2>4
<1> QED
  BY <1>1, <1>2 DEF Pushed

(* The first push_back onto an empty vector.                               *)
LEMMA PushedFirst ==
  ASSUME NEW S, NEW x \in S
  PROVE  Len(Pushed(<<>>, 0, x)) > 0 /\ Pushed(<<>>, 0, x)[1] = x
<1>1. <<>> \in Seq(S) /\ Len(<<>>) = 0
  BY EmptySeq
<1> DEFINE cut == SubSeq(<<>>, 1, 0)
<1>2. cut \in Seq(S) /\ Len(cut) = 0
  BY <1>1, SubSeqProperties
<1> HIDE DEF cut
<1>3. Len(Append(cut, x)) = 1 /\ Append(cut, x)[1] = x
  BY <1>2, AppendProperties
<1>4. Pushed(<<>>, 0, x) = Append(cut, x)
  BY <1>1 DEF Pushed, cut
<1> QED
  BY <1>3, <1>4

(* Steps that leave the threads and their reports alone.                   *)
LEMMA ReportsKept ==
  ASSUME FirstReport, UNCHANGED <<threads, ebuf>>,
         note' = "none" => note = "none",
         at' = "tell" => at = "tell" /\ seen' = seen
  PROVE  FirstReport'
BY DEF FirstReport, ReportOK

LEMMA ContinueNote ==
  ASSUME NEW line, Continue(line)
  PROVE  at' \in {"run", "catch"} /\ (note' = "none" => note = "none")
BY DEF Continue, Throw

(* One element of thread_list replaced.                                    *)
LEMMA ReportReplaced ==
  ASSUME TypeOK, FirstReport, NEW i \in 1..Len(threads),
         NEW th \in ThreadInstr, threads' = [threads EXCEPT ![i] = th],
         note' = note,
         note = "none" /\ Len(threads) = 1 => ReportOK(th)'
  PROVE  FirstReport'
<1>1. threads \in Seq(ThreadInstr) /\ Len(threads) \in Nat
  BY LenProperties DEF TypeOK
<1>2. Len(threads') = Len(threads) /\ threads'[i] = th
  BY <1>1, UpdateThread
<1>3. Len(threads) = 1 => i = 1
  BY <1>1
<1>4. Len(threads) # 0
  BY <1>1
<1>5. note' = "none" /\ Len(threads') = 1 => ReportOK(threads[1])'
  BY <1>2, <1>3 DEF ReportOK
<1>6. note' = "none" /\ Len(threads') = 0 => ebuf' = <<>>
  BY <1>2, <1>4
<1> QED
  BY <1>5, <1>6 DEF FirstReport, ReportOK

LEMMA MainReports ==
  ASSUME IInv, FirstReport, MainStep
  PROVE  FirstReport'
<1>0. TypeOK /\ StartsLast /\ MainOK
  BY DEF IInv
<1>1. /\ ebuf \in Seq(Messages) /\ seen \in Nat
      /\ threads \in Seq(ThreadInstr) /\ Len(threads) \in Nat
  BY <1>0, LenProperties DEF TypeOK
<1>2. CASE MainQuiet \/ MainJump \/ MainPush \/ BarrierDone
  <2>1. UNCHANGED <<threads, ebuf, sent>> /\ \E line : Continue(line)
    BY <1>2 DEF MainQuiet, MainJump, MainPush, BarrierDone
  <2> QED
    BY <2>1, ContinueNote, ReportsKept
<1>3. CASE MainError \/ MainOut \/ MainBarrier \/ MainEnd
  <2>1. /\ UNCHANGED <<threads, ebuf, sent>>
        /\ note' = "none" => note = "none"
        /\ at' \in {"catch", "push", "barrier", "final"}
    BY <1>3 DEF MainError, MainOut, MainBarrier, MainEnd, Throw
  <2> QED
    BY <2>1, ReportsKept
<1>4. CASE AwaitThread \/ FinalBarrierDone \/ Catch \/ Delete
  <2>1. /\ UNCHANGED <<threads, ebuf, sent, note>>
        /\ \/ at' = at /\ seen' = seen
           \/ at' \in {"reply", "caught"}
           \/ at = "delete" /\ at' = "gone"
    BY <1>4 DEF AwaitThread, FinalBarrierDone, Catch, Delete, At
  <2> QED
    BY <2>1, ReportsKept
<1>5. CASE Caught
  <2>1. note # "none" /\ note' = note
    BY <1>0, <1>5 DEF Caught, At, MainOK
  <2> QED
    BY <2>1 DEF FirstReport
<1>6. CASE Replying
  BY <1>0, <1>6, ReplyStep, ReportsKept
<1>7. CASE Check
  <2>1. UNCHANGED <<threads, ebuf, sent>>
    BY <1>7 DEF Check
  <2>2. CASE Continue(pc)
    BY <2>1, <2>2, ContinueNote, ReportsKept
  <2>3. CASE /\ ~threads[Newest].success /\ at' = "tell" /\ seen' = Len(ebuf)
             /\ UNCHANGED note
    <3>1. Len(threads) > 0
      BY <1>0, <1>7 DEF StartsLast, Check, At
    <3>2. ASSUME note = "none", Len(threads) = 1
          PROVE  Len(ebuf) > 0 /\ ebuf[1] = threads[1].note
                 /\ ~threads[1].success
                 /\ threads[1].at \notin {"new", "failed", "run", "push", "report"}
      BY <2>3, <3>2 DEF FirstReport, ReportOK, Newest
    <3> QED
      BY <1>1, <2>1, <2>3, <3>1, <3>2 DEF FirstReport, ReportOK
  <2> QED
    BY <1>7, <2>2, <2>3 DEF Check
<1>8. CASE Tell
  <2>1. /\ UNCHANGED <<threads, sent>> /\ Continue(pc) /\ at = "tell"
        /\ ebuf' \in {Pushed(ebuf, seen, "started"), ebuf}
    BY <1>8 DEF Tell, At
  <2>2. at' \in {"run", "catch"} /\ (note' = "none" => note = "none")
    BY <2>1, ContinueNote
  <2>3. Len(threads) > 0
    BY <1>0, <2>1 DEF StartsLast
  <2>4. ASSUME note = "none", Len(threads) = 1
        PROVE  ReportOK(threads[1])'
    <3>1. /\ ~threads[1].success /\ Len(ebuf) > 0 /\ seen > 0
          /\ ebuf[1] = threads[1].note
          /\ threads[1].at \notin {"new", "failed", "run", "push", "report"}
      BY <2>1, <2>4 DEF FirstReport, ReportOK
    <3>2. "started" \in Messages
      BY DEF Messages
    <3>3. /\ Len(Pushed(ebuf, seen, "started")) > 0
          /\ Pushed(ebuf, seen, "started")[1] = ebuf[1]
      BY <1>1, <3>1, <3>2, PushedKeepsFirst
    <3>4. Len(ebuf') > 0 /\ ebuf'[1] = threads[1].note
      BY <2>1, <3>1, <3>3
    <3> QED
      BY <2>1, <2>2, <3>1, <3>4 DEF ReportOK
  <2>5. note' = "none" /\ Len(threads') = 1 => ReportOK(threads[1])'
    BY <2>1, <2>2, <2>4
  <2> QED
    BY <1>1, <2>1, <2>3, <2>5 DEF FirstReport
<1>9. CASE RunThread
  <2>1. PICK size : threads' = Append(threads, NewThread(size))
    BY <1>9 DEF RunThread
  <2>2. /\ UNCHANGED <<ebuf, sent>>
        /\ note' = "none" => note = "none" /\ at' = "create"
    BY <1>9 DEF RunThread, Throw
  <2>3. SUFFICES ASSUME note = "none", at' = "create"
                 PROVE  FirstReport'
    BY <2>2 DEF FirstReport
  <2>4. Len(threads') = Len(threads) + 1
    BY <1>1, <2>1
  <2>5. CASE Len(threads) = 0
    <3>1. ebuf' = <<>>
      BY <2>2, <2>3, <2>5 DEF FirstReport
    <3>2. threads'[1] = NewThread(size)
      BY <1>1, <2>1, <2>5
    <3>3. threads'[1].at = "new" /\ threads'[1].success
      BY <3>2 DEF NewThread
    <3>4. Len(threads') # 0
      BY <1>1, <2>4
    <3> QED
      BY <2>3, <3>1, <3>3, <3>4 DEF FirstReport, ReportOK
  <2>6. CASE Len(threads) # 0
    <3>1. Len(threads') # 0 /\ Len(threads') # 1
      BY <1>1, <2>4, <2>6
    <3> QED
      BY <3>1 DEF FirstReport
  <2> QED
    BY <2>5, <2>6
<1>10. CASE Create \/ Mark
  <2>1. Newest \in 1..Len(threads)
    BY <1>0, <1>1, <1>10 DEF StartsLast, Create, Mark, At, Newest
  <2>2. threads[Newest] \in ThreadInstr
    BY <1>1, <2>1, ElementOfSeq
  <2>3. UNCHANGED <<note, ebuf, sent, seen>> /\ at' \in {"mark", "check"}
    BY <1>10 DEF Create, Mark
  <2>4. note = "none" /\ Len(threads) = 1 => ReportOK(threads[Newest])
    BY DEF FirstReport, Newest
  <2>5. ASSUME NEW th \in ThreadInstr, threads' = [threads EXCEPT ![Newest] = th],
               /\ th.note = threads[Newest].note /\ th.seen = threads[Newest].seen
               /\ th.success = threads[Newest].success,
               \/ th.at = threads[Newest].at
               \/ /\ threads[Newest].at = "new" /\ th.at \in {"run", "failed"}
        PROVE  FirstReport'
    <3>1. note = "none" /\ Len(threads) = 1 => ReportOK(th)'
      BY <2>3, <2>4, <2>5 DEF ReportOK
    <3> QED
      BY <1>0, <2>1, <2>3, <2>5, <3>1, ReportReplaced
  <2>6. CASE Mark
    <3> DEFINE th == [threads[Newest] EXCEPT !.running = TRUE]
    <3>1. th \in ThreadInstr
      BY <2>2 DEF ThreadInstr
    <3>2. /\ th.note = threads[Newest].note /\ th.seen = threads[Newest].seen
          /\ th.success = threads[Newest].success /\ th.at = threads[Newest].at
      BY <2>2 DEF ThreadInstr
    <3>3. threads' = [threads EXCEPT ![Newest] = th]
      BY <2>6 DEF Mark
    <3> HIDE DEF th
    <3> QED
      BY <2>5, <3>1, <3>2, <3>3
  <2>7. ASSUME NEW where \in {"run", "failed"}, NEW st \in BOOLEAN, Create,
               threads' = [threads EXCEPT ![Newest] =
                 [@ EXCEPT !.at = where, !.locked = TRUE, !.started = st]]
        PROVE  FirstReport'
    <3> DEFINE th == [threads[Newest] EXCEPT !.at = where, !.locked = TRUE,
                                           !.started = st]
    <3>1. th \in ThreadInstr
      BY <2>2, <2>7 DEF ThreadInstr
    <3>2. /\ th.note = threads[Newest].note /\ th.seen = threads[Newest].seen
          /\ th.success = threads[Newest].success /\ th.at \in {"run", "failed"}
      BY <2>2, <2>7 DEF ThreadInstr
    <3>3. threads' = [threads EXCEPT ![Newest] = th]
      BY <2>7
    <3>4. threads[Newest].at = "new"
      BY <1>0, <2>7 DEF Create, At, StartsLast, Newest
    <3> HIDE DEF th
    <3> QED
      BY <2>5, <3>1, <3>2, <3>3, <3>4
  <2>8. CASE /\ Create
             /\ threads' = [threads EXCEPT ![Newest] =
                  [@ EXCEPT !.at = "run", !.locked = TRUE, !.started = TRUE]]
    BY <2>7, <2>8
  <2>9. CASE /\ Create
             /\ threads' = [threads EXCEPT ![Newest] =
                  [@ EXCEPT !.at = "failed", !.locked = TRUE]]
    <3>1. [threads[Newest] EXCEPT !.at = "failed", !.locked = TRUE]
            = [threads[Newest] EXCEPT !.at = "failed", !.locked = TRUE,
                                    !.started = threads[Newest].started]
      BY <2>2 DEF ThreadInstr
    <3>2. threads[Newest].started \in BOOLEAN
      BY <2>2 DEF ThreadInstr
    <3> QED
      BY <2>7, <2>9, <3>1, <3>2
  <2> QED
    BY <1>10, <2>6, <2>8, <2>9 DEF Create
<1> QED
  BY <1>2, <1>3, <1>4, <1>5, <1>6, <1>7, <1>8, <1>9, <1>10
     DEF MainStep, Replying

LEMMA ThreadReports ==
  ASSUME IInv, FirstReport, NEW i \in 1..Len(threads),
         ThreadStep(i) \/ UseAfterDelete(i)
  PROVE  FirstReport'
<1>0. TypeOK /\ JoinedBeforeReply
  BY DEF IInv
<1>1. /\ threads[i] \in ThreadInstr
      /\ threads \in Seq(ThreadInstr) /\ Len(threads) \in Nat
      /\ UNCHANGED <<at, seen, note, sent>>
  BY <1>0, ElementOfSeq, LenProperties
     DEF TypeOK, ThreadStep, ThreadQuiet, ThreadFail, ThreadOut, ThreadPush,
         ThreadJump, ThreadReport, ThreadEnd, ThreadClean, ThreadUnlock,
         UseAfterDelete
<1>2. note = "none" /\ Len(threads) = 1 => ReportOK(threads[i]) /\ i = 1
  BY <1>1 DEF FirstReport
<1>3. CASE UNCHANGED <<threads, ebuf>>
  BY <1>1, <1>3, ReportsKept
(* A step that reports nothing.                                            *)
<1>4. ASSUME NEW th \in ThreadInstr, threads' = [threads EXCEPT ![i] = th],
             UNCHANGED ebuf,
             th.note = threads[i].note, th.success = threads[i].success,
             \/ th.at \notin {"new", "failed", "run", "push", "report"}
             \/ /\ th.at \in {"run", "push"}
                /\ threads[i].at \in {"run", "push"}
      PROVE  FirstReport'
  <2>1. note = "none" /\ Len(threads) = 1 => ReportOK(th)'
    BY <1>1, <1>2, <1>4 DEF ReportOK
  <2> QED
    BY <1>0, <1>1, <1>4, <2>1, ReportReplaced
<1>5. ASSUME threads[i].at \in {"run", "push"}, UNCHANGED ebuf,
             NEW line, ThreadContinue(i, line), Inc(line) \in Nat
      PROVE  FirstReport'
  <2>1. CASE UNCHANGED threads
    BY <1>3, <1>5, <2>1
  <2>2. CASE ~UNCHANGED threads
    <3> DEFINE th == [threads[i] EXCEPT !.at = "run",
                        !.execs = threads[i].execs + 1, !.pc = Inc(line)]
    <3>1. threads' = [threads EXCEPT ![i] = th]
      BY <1>5, <2>2 DEF ThreadContinue
    <3>2. threads[i].execs + 1 \in Nat
      <4> HIDE DEF th
      <4> QED
        BY <1>1, ThreadNumbers
    <3>3. th \in ThreadInstr
      BY <1>1, <1>5, <3>2 DEF ThreadInstr
    <3>4. /\ th.note = threads[i].note /\ th.success = threads[i].success
          /\ th.at = "run"
      BY <1>1 DEF ThreadInstr
    <3> HIDE DEF th
    <3> QED
      BY <1>4, <1>5, <3>1, <3>3, <3>4
  <2> QED
    BY <2>1, <2>2
<1>6. ThreadOK(threads[i]) /\ Len(ebuf) \in Nat /\ Len(obuf) \in Nat
  BY <1>0, LenProperties DEF IInv, ThreadsOK, TypeOK
<1>7. threads[i].pc < threads[i].size => Inc(threads[i].pc) \in Nat
  BY <1>0, <1>1, <1>6, NextLine
(* The thread fails: so far nothing is reported.                           *)
<1>a. ASSUME NEW th \in ThreadInstr, threads' = [threads EXCEPT ![i] = th],
              UNCHANGED ebuf, threads[i].at = "run",
              th.at = "report", th.seen = Len(ebuf),
              th.success = threads[i].success
       PROVE  FirstReport'
  <2>1. ASSUME note = "none", Len(threads) = 1
        PROVE  ReportOK(th)'
    <3>1. threads[i].success /\ ebuf = <<>> /\ at # "tell"
      BY <1>2, <1>a, <2>1 DEF ReportOK
    <3>2. Len(ebuf) = 0
      BY <3>1, EmptySeq
    <3> QED
      BY <1>1, <1>a, <3>1, <3>2 DEF ReportOK
  <2> QED
    BY <1>0, <1>1, <1>a, <2>1, ReportReplaced
(* It reports, on an empty vector.                                         *)
<1>b. ASSUME NEW th \in ThreadInstr, threads' = [threads EXCEPT ![i] = th],
              ebuf' = Pushed(ebuf, threads[i].seen, threads[i].note),
              threads[i].at = "report", th.at = "clean", th.success = FALSE,
              th.note = threads[i].note
       PROVE  FirstReport'
  <2>1. ASSUME note = "none", Len(threads) = 1
        PROVE  ReportOK(th)'
    <3>1. ebuf = <<>> /\ threads[i].seen = 0 /\ at # "tell" /\ i = 1
      BY <1>2, <1>b, <2>1 DEF ReportOK
    <3>3. threads[i].note \in Messages
      BY <1>1 DEF ThreadInstr
    <3>4. Len(ebuf') > 0 /\ ebuf'[1] = th.note
      BY <1>b, <3>1, <3>3, PushedFirst
    <3> QED
      BY <1>1, <1>b, <3>1, <3>4 DEF ReportOK
  <2> QED
    BY <1>0, <1>1, <1>b, <2>1, ReportReplaced
<1>8. CASE ThreadQuiet(i)
  BY <1>5, <1>7, <1>8 DEF ThreadQuiet, ThreadRuns, ThreadAt
<1>9. CASE ThreadFail(i) \/ UseAfterDelete(i)
  BY <1>3, <1>9 DEF ThreadFail, UseAfterDelete
<1>10. CASE ThreadOut(i)
  <2> DEFINE th == [threads[i] EXCEPT !.at = "push", !.seen = Len(obuf)]
  <2>1. th \in ThreadInstr
    BY <1>1, <1>6 DEF ThreadInstr
  <2>2. /\ th.note = threads[i].note /\ th.success = threads[i].success
        /\ th.at = "push"
    BY <1>1 DEF ThreadInstr
  <2>3. /\ threads' = [threads EXCEPT ![i] = th] /\ UNCHANGED ebuf
        /\ threads[i].at = "run"
    BY <1>10 DEF ThreadOut, ThreadRuns, ThreadAt
  <2> HIDE DEF th
  <2> QED
    BY <1>4, <2>1, <2>2, <2>3
<1>11. CASE ThreadPush(i)
  <2>1. threads[i].at = "push" /\ UNCHANGED ebuf
    BY <1>11 DEF ThreadPush, ThreadAt
  <2>2. Inc(threads[i].pc) \in Nat
    BY <1>6, <1>7, <2>1 DEF ThreadOK
  <2> QED
    BY <1>3, <1>5, <1>11, <2>1, <2>2 DEF ThreadPush
<1>12. CASE ThreadJump(i)
  <2> DEFINE jump == Interrupt(BodyIns(i))
             err == ThreadError(threads[i], jump)
             line == Wrap(jump - threads[i].start - 1)
  <2>1. /\ threads[i].at = "run" /\ threads[i].pc < threads[i].size
        /\ BodyIns(i).op \in {"jmp", "jcc", "barrier", "begin"}
        /\ UNCHANGED ebuf
    BY <1>12 DEF ThreadJump, ThreadRuns, ThreadAt
  <2>2. jump \in Int /\ Len(code) - WordSize < jump /\ jump < WordSize
    BY <1>0, <1>6, <2>1, BodyInsType, WordSizeLarge DEF Interrupt, Instr
  <2>3. CASE err = "none" /\ ThreadContinue(i, line)
    <3>1. Inc(line) = jump - threads[i].start
          /\ jump - threads[i].start \in 0..threads[i].size
      BY <1>0, <1>1, <1>6, <2>2, <2>3, JumpScaling, WordSizeLarge DEF ThreadOK
    <3>2. Inc(line) \in Nat
      <4> HIDE DEF line, jump
      <4>1. threads[i].size \in Nat
        BY <1>1, ThreadNumbers
      <4> QED
        BY <3>1, <4>1
    <3> QED
      BY <1>5, <2>1, <2>3, <3>2
  <2>4. CASE threads' = [threads EXCEPT
                  ![i] = [@ EXCEPT !.at = "report", !.note = err, !.seen = Len(ebuf)]]
    <3> DEFINE th == [threads[i] EXCEPT !.at = "report", !.note = err,
                                        !.seen = Len(ebuf)]
    <3>1. err \in Messages
      BY DEF ThreadError, Messages
    <3>2. th \in ThreadInstr
      BY <1>1, <1>6, <3>1 DEF ThreadInstr
    <3>3. /\ th.at = "report" /\ th.seen = Len(ebuf)
          /\ th.success = threads[i].success
      BY <1>1 DEF ThreadInstr
    <3>4. threads' = [threads EXCEPT ![i] = th]
      BY <2>4
    <3> HIDE DEF th
    <3> QED
      BY <1>a, <2>1, <3>2, <3>3, <3>4
  <2> QED
    BY <1>12, <2>3, <2>4 DEF ThreadJump
<1>13. CASE ThreadReport(i)
  <2>1. threads[i].at = "report"
    BY <1>13 DEF ThreadReport, ThreadAt
  <2>2. CASE /\ ebuf' = Pushed(ebuf, threads[i].seen, threads[i].note)
             /\ threads' = [threads EXCEPT
                  ![i] = [@ EXCEPT !.at = "clean", !.success = FALSE]]
    <3> DEFINE th == [threads[i] EXCEPT !.at = "clean", !.success = FALSE]
    <3>1. th \in ThreadInstr
      BY <1>1 DEF ThreadInstr
    <3>2. /\ th.at = "clean" /\ th.success = FALSE /\ th.note = threads[i].note
      BY <1>1 DEF ThreadInstr
    <3>3. threads' = [threads EXCEPT ![i] = th]
      BY <2>2
    <3> HIDE DEF th
    <3> QED
      BY <1>b, <2>1, <2>2, <3>1, <3>2, <3>3
  <2>3. CASE UNCHANGED <<ebuf, threads>>
    BY <1>3, <2>3
  <2> QED
    BY <1>13, <2>2, <2>3 DEF ThreadReport
<1>14. CASE ThreadEnd(i)
  <2> DEFINE th == [threads[i] EXCEPT !.at = "clean"]
  <2>1. th \in ThreadInstr
    BY <1>1 DEF ThreadInstr
  <2>2. /\ th.note = threads[i].note /\ th.success = threads[i].success
        /\ th.at = "clean"
    BY <1>1 DEF ThreadInstr
  <2>3. threads' = [threads EXCEPT ![i] = th] /\ UNCHANGED ebuf
    BY <1>14 DEF ThreadEnd
  <2> HIDE DEF th
  <2> QED
    BY <1>4, <2>1, <2>2, <2>3
<1>15. CASE ThreadClean(i)
  <2> DEFINE th == [threads[i] EXCEPT !.at = "unlock", !.running = FALSE,
                                      !.started = FALSE]
  <2>1. th \in ThreadInstr
    BY <1>1 DEF ThreadInstr
  <2>2. /\ th.note = threads[i].note /\ th.success = threads[i].success
        /\ th.at = "unlock"
    BY <1>1 DEF ThreadInstr
  <2>3. threads' = [threads EXCEPT ![i] = th] /\ UNCHANGED ebuf
    BY <1>15 DEF ThreadClean
  <2> HIDE DEF th
  <2> QED
    BY <1>4, <2>1, <2>2, <2>3
<1>16. CASE ThreadUnlock(i)
  <2> DEFINE th == [threads[i] EXCEPT !.at = "done", !.locked = FALSE]
  <2>1. th \in ThreadInstr
    BY <1>1 DEF ThreadInstr
  <2>2. /\ th.note = threads[i].note /\ th.success = threads[i].success
        /\ th.at = "done"
    BY <1>1 DEF ThreadInstr
  <2>3. threads' = [threads EXCEPT ![i] = th] /\ UNCHANGED ebuf
    BY <1>16 DEF ThreadUnlock
  <2> HIDE DEF th
  <2> QED
    BY <1>4, <2>1, <2>2, <2>3
<1> QED
  BY <1>8, <1>9, <1>10, <1>11, <1>12, <1>13, <1>14, <1>15, <1>16 DEF ThreadStep

(* If a program starts one thread, main meets no error and that thread     *)
(* does, the client is told so, and first of all: the message is in ebuf   *)
(* when returnResults reads it, whatever main appends at the same time     *)
(* (ThreadInstr.cpp:57-60, Program.cpp:162-164, Server.cpp:51).            *)
THEOREM OnlyThreadReports == Spec => []ThreadErrorReported
<1>1. Init => IInv /\ FirstReport
  BY InitIInv, FirstReportInit
<1>2. IInv /\ FirstReport /\ [Next]_vars => (IInv /\ FirstReport)'
  <2> SUFFICES ASSUME IInv, FirstReport, [Next]_vars PROVE FirstReport'
    BY InductiveStep
  <2>1. CASE UNCHANGED vars
    BY <2>1 DEF vars, FirstReport, ReportOK
  <2> QED
    BY <2>1, MainReports, ThreadReports DEF Next
<1>3. FirstReport /\ Replied => ThreadErrorReported
  BY DEF FirstReport, ReportOK, ThreadErrorReported, Replied, Calm
<1> QED
  BY <1>1, <1>2, <1>3, ReplyIsWhole, PTL DEF Spec

-----------------------------------------------------------------------------
(* The program implements ForkJoin.                                        *)

(* While main starts a thread that thread is no longer new; and as long as *)
(* no thread has begun, nobody else has printed since main read the size   *)
(* of the vector it is pushing to.                                         *)
Undisturbed ==
  /\ at \in {"mark", "check", "tell"} => threads[Len(threads)].at # "new"
  /\ NoneBegun => /\ at = "push" => seen = Len(obuf)
                  /\ at = "caught" => seen = Len(ebuf)

LEMMA UndisturbedInit == Init => Undisturbed
BY DEF Init, Undisturbed

(* What it sees of Thread::start, on the last thread.                      *)
LEMMA StartSeen ==
  ASSUME IInv, Create \/ Mark
  PROVE  /\ Newest \in 1..Len(threads) /\ Len(threads') = Len(threads)
         /\ \A j \in 1..Len(threads) : j # Newest => threads'[j] = threads[j]
         /\ Create => /\ threads[Newest].at = "new"
                      /\ threads'[Newest].at \in {"run", "failed"}
         /\ Mark => threads'[Newest].at = threads[Newest].at
<1>1. threads \in Seq(ThreadInstr) /\ Len(threads) \in Nat
  BY LenProperties DEF IInv, TypeOK
<1>2. Newest \in 1..Len(threads)
  BY <1>1 DEF IInv, StartsLast, Create, Mark, At, Newest
<1>3. threads[Newest] \in ThreadInstr
  BY <1>1, <1>2, ElementOfSeq
<1> DEFINE run == [threads[Newest] EXCEPT !.at = "run", !.locked = TRUE, !.started = TRUE]
           failed == [threads[Newest] EXCEPT !.at = "failed", !.locked = TRUE]
           marked == [threads[Newest] EXCEPT !.running = TRUE]
<1>4. run.at = "run" /\ failed.at = "failed" /\ marked.at = threads[Newest].at
  BY <1>3 DEF ThreadInstr
<1>5. /\ Create => /\ threads[Newest].at = "new"
                   /\ \/ threads' = [threads EXCEPT ![Newest] = run]
                      \/ threads' = [threads EXCEPT ![Newest] = failed]
      /\ Mark => threads' = [threads EXCEPT ![Newest] = marked]
  BY DEF Create, Mark, At, IInv, StartsLast, Newest
<1> HIDE DEF run, failed, marked
<1>6. PICK th : threads' = [threads EXCEPT ![Newest] = th]
  BY <1>5
<1>7. /\ Len(threads') = Len(threads)
      /\ \A j \in 1..Len(threads) : j # Newest => threads'[j] = threads[j]
  BY <1>1, <1>2, <1>6
<1>8. \A x : threads' = [threads EXCEPT ![Newest] = x] => threads'[Newest] = x
  BY <1>1, <1>2
<1> QED
  BY <1>2, <1>4, <1>5, <1>7, <1>8

(* THREAD_BEGIN appends a new thread.                                      *)
LEMMA ForkSeen ==
  ASSUME IInv, RunThread
  PROVE  /\ Len(threads') = Len(threads) + 1
         /\ \A j \in 1..Len(threads) : threads'[j] = threads[j]
         /\ threads'[Len(threads) + 1].at = "new"
         /\ at = "run" /\ at' \in {"create", "catch"} /\ (note' = "none" => note = "none")
         /\ UNCHANGED <<obuf, ebuf, sent, process>>
<1>1. threads \in Seq(ThreadInstr) /\ Len(threads) \in Nat
  BY LenProperties DEF IInv, TypeOK
<1>2. \A size : NewThread(size).at = "new"
  BY DEF NewThread
<1>3. \E size : threads' = Append(threads, NewThread(size))
  BY DEF RunThread
<1>4. PICK th : threads' = Append(threads, th) /\ th.at = "new"
  BY <1>2, <1>3
<1>5. /\ Len(threads') = Len(threads) + 1
      /\ \A j \in 1..Len(threads) : threads'[j] = threads[j]
      /\ threads'[Len(threads) + 1] = th
  BY <1>1, <1>4
<1>6. /\ at = "run" /\ at' \in {"create", "catch"} /\ (note' = "none" => note = "none")
      /\ UNCHANGED <<obuf, ebuf, sent, process>>
  BY DEF RunThread, Runs, At, Throw
<1> QED
  BY <1>4, <1>5, <1>6

(* Every step keeps main undisturbed.                                      *)
LEMMA UndisturbedStep ==
  ASSUME IInv, Undisturbed, [Next]_vars
  PROVE  Undisturbed'
<1>0. threads \in Seq(ThreadInstr) /\ Len(threads) \in Nat
  BY LenProperties DEF IInv, TypeOK
<1>1. ASSUME NEW i \in 1..Len(threads), ThreadStep(i) \/ UseAfterDelete(i)
      PROVE  Undisturbed'
  <2>1. /\ at' = at /\ Len(threads') = Len(threads)
        /\ \A j \in 1..Len(threads) : j # i => threads'[j] = threads[j]
    BY <1>1, ThreadStepEffect DEF IInv, ThreadEffect
  <2>2. threads'[i].at # "new"
    BY <1>1, ThreadSeen
  <2>3. ~NoneBegun'
    BY <2>1, <2>2 DEF NoneBegun
  <2>4. CASE at \in {"mark", "check", "tell"}
    <3>1. Len(threads) > 0 /\ threads[Len(threads)].at # "new"
      BY <2>4 DEF IInv, StartsLast, Undisturbed
    <3>2. Len(threads) \in 1..Len(threads)
      BY <1>0, <3>1
    <3>3. threads'[Len(threads)].at # "new"
      BY <2>1, <2>2, <3>1, <3>2
    <3> QED
      BY <2>1, <2>3, <3>3 DEF Undisturbed
  <2> QED
    BY <2>1, <2>3, <2>4 DEF Undisturbed
<1>2. CASE Create \/ Mark
  <2>1. /\ Newest \in 1..Len(threads) /\ Len(threads') = Len(threads)
        /\ threads'[Newest].at # "new" /\ at' \in {"mark", "check"}
    <3>1. Mark => threads[Newest].at # "new"
      BY DEF Mark, At, Undisturbed, Newest
    <3> QED
      BY <1>2, <3>1, StartSeen DEF Create, Mark
  <2> QED
    BY <2>1 DEF Undisturbed, Newest
<1>3. CASE RunThread
  BY <1>3, ForkSeen DEF Undisturbed
<1>4. CASE MainOut \/ Catch
  <2>1. /\ threads' = threads
        /\ \/ at' = "push" /\ seen' = Len(obuf) /\ obuf' = obuf
           \/ at' = "caught" /\ seen' = Len(ebuf) /\ ebuf' = ebuf
    BY <1>4 DEF MainOut, Catch
  <2> QED
    BY <2>1 DEF Undisturbed
<1>5. CASE Check
  <2>1. threads' = threads /\ at' \in {"run", "catch", "tell"} /\ at = "check"
    BY <1>5 DEF Check, At, Continue, Throw
  <2> QED
    BY <2>1 DEF Undisturbed
<1>6. CASE MainQuiet \/ MainJump \/ MainError \/ MainPush \/ BarrierDone \/ Tell
  <2>1. at' \in {"run", "catch"}
    BY <1>6 DEF MainQuiet, MainJump, MainError, MainPush, BarrierDone, Tell,
                Continue, Throw
  <2> QED
    BY <2>1 DEF Undisturbed
<1>7. CASE MainBarrier \/ MainEnd \/ AwaitThread \/ FinalBarrierDone
             \/ Caught \/ Replying \/ Delete
  <2>1. at' \in {"barrier", "final", "reply", "out", "err", "delete", "gone"}
    BY <1>7, ReplyStep
       DEF MainBarrier, MainEnd, AwaitThread, FinalBarrierDone, Caught, Delete, At,
           IInv
  <2> QED
    BY <2>1 DEF Undisturbed
<1>8. CASE UNCHANGED vars
  BY <1>8 DEF vars, Undisturbed, NoneBegun
<1> QED
  BY <1>1, <1>2, <1>3, <1>4, <1>5, <1>6, <1>7, <1>8
     DEF Next, MainStep, Replying

-----------------------------------------------------------------------------
(* What ForkJoin calls tasks.                                              *)
Tasks == [i \in 1..Len(threads) |-> Stage(threads[i])]

LEMMA StageIs ==
  ASSUME NEW th
  PROVE  /\ Stage(th) = "forked" <=> th.at = "new"
         /\ Stage(th) = "over" <=> th.at = "done"
         /\ Stage(th) = "active" <=> th.at \notin {"new", "done"}
BY DEF Stage

LEMMA TasksAre ==
  ASSUME IInv
  PROVE  /\ Len(threads) \in Nat
         /\ Tasks \in Seq({"forked", "active", "over"}) /\ Len(Tasks) = Len(threads)
         /\ \A i \in 1..Len(threads) : Tasks[i] = Stage(threads[i])
<1>1. Len(threads) \in Nat
  BY LenProperties DEF IInv, TypeOK
<1>2. \A i \in 1..Len(threads) : Stage(threads[i]) \in {"forked", "active", "over"}
  BY StageIs DEF Stage
<1> DEFINE S == {"forked", "active", "over"}
           n == Len(threads)
<1>3. Tasks \in [1..n -> S]
  BY <1>2 DEF Tasks
<1> HIDE DEF S, n
<1>4. Tasks \in Seq(S) /\ Len(Tasks) = n
  BY <1>1, <1>3 DEF n
<1>5. \A i \in 1..Len(threads) : Tasks[i] = Stage(threads[i])
  BY DEF Tasks
<1> QED
  BY <1>1, <1>4, <1>5 DEF S, n

LEMMA TasksKept ==
  ASSUME IInv, IInv', Len(threads') = Len(threads),
         \A i \in 1..Len(threads) : Stage(threads'[i]) = Stage(threads[i])
  PROVE  Tasks' = Tasks
BY DEF Tasks, Stage

(* No task has started; none is active.                                    *)
LEMMA NoneBegunSeen ==
  ASSUME IInv
  PROVE  /\ Promise!NoneStarted <=> NoneBegun
         /\ Promise!NoneActive <=> \A i \in 1..Len(threads) : Over(threads[i])
<1>1. Len(Tasks) = Len(threads) /\ \A i \in 1..Len(threads) : Tasks[i] = Stage(threads[i])
  BY TasksAre
<1>2. Promise!NoneStarted <=> \A i \in 1..Len(Tasks) : Tasks[i] = "forked"
  BY DEF Promise!NoneStarted, Tasks
<1>3. Promise!NoneActive <=> \A i \in 1..Len(Tasks) : ~(Tasks[i] = "active")
  BY DEF Promise!NoneActive, Promise!Active, Tasks
<1> QED
  BY <1>1, <1>2, <1>3, StageIs DEF NoneBegun, Over

-----------------------------------------------------------------------------
(* Steps of the program that are one of ForkJoin's, by what they change.   *)
Promised == Promise!Next \/ UNCHANGED Promise!vars

NoteKept == note' = "none" => note = "none"

LEMMA Stutter ==
  ASSUME Tasks' = Tasks, Phase' = Phase, (note' # "none") = (note # "none"),
         UNCHANGED <<obuf, ebuf>>, (process' = "up") = (process = "up"),
         Phase = "answered" => sent' = sent
  PROVE  Promised
BY DEF Promised, Promise!vars, Tasks

LEMMA Works ==
  ASSUME process = "up", process' = "up", Phase = "running", Phase' = "running",
         Tasks' = Tasks, sent' = sent, NoteKept, IInv,
         NoneBegun => SubSeq(obuf', 1, Len(obuf)) = obuf
                      /\ SubSeq(ebuf', 1, Len(ebuf)) = ebuf
  PROVE  Promised
<1>1. Promise!PrintMore
  BY NoneBegunSeen DEF Promise!PrintMore, Promise!Extends
<1>2. Promise!MayFail
  BY DEF Promise!MayFail, NoteKept
<1>3. Promise!Work
  BY <1>1, <1>2 DEF Promise!Work, Tasks
<1> QED
  BY <1>3 DEF Promised, Promise!Next

LEMMA Crashes ==
  ASSUME process = "up", process' = "terminated", Phase' = Phase,
         Tasks' = Tasks, NoteKept, IInv, ~NoneBegun,
         Phase = "answered" => note # "none" /\ sent' = sent
  PROVE  Promised
<1>1. Promise!MayFail
  BY DEF Promise!MayFail, NoteKept
<1>2. Promise!Crash
  BY <1>1, NoneBegunSeen DEF Promise!Crash, Tasks
<1> QED
  BY <1>2 DEF Promised, Promise!Next

(* A vector nobody has pushed to in between only gets longer.              *)
LEMMA PushedExtends ==
  ASSUME NEW S, NEW buf \in Seq(S), NEW x \in S
  PROVE  SubSeq(buf, 1, Len(buf)) = buf /\ SubSeq(Pushed(buf, Len(buf), x), 1, Len(buf)) = buf
<1>1. Len(buf) \in Nat /\ SubSeq(buf, 1, Len(buf)) = buf
  BY LenProperties
<1>2. Pushed(buf, Len(buf), x) = Append(buf, x)
  BY <1>1 DEF Pushed
<1>3. SubSeq(Append(buf, x), 1, Len(buf)) = buf
  BY <1>1
<1> QED
  BY <1>1, <1>2, <1>3

(* The steps of main that print, or may: to the end of the vector, unless  *)
(* a thread has begun.                                                     *)
LEMMA PrintSteps ==
  ASSUME IInv, IInv', Undisturbed, MainPush \/ Tell \/ Caught
  PROVE  Promised
<1>0. /\ obuf \in Seq(Int) /\ ebuf \in Seq(Messages) /\ note \in Messages
      /\ Len(threads) \in Nat
  BY LenProperties DEF IInv, TypeOK
<1>1. /\ threads' = threads /\ sent' = sent /\ process = "up"
      /\ at \in {"push", "tell", "caught"} /\ at' \in {"run", "catch", "reply"}
      /\ NoteKept
  BY DEF MainPush, Tell, Caught, At, Continue, Throw, NoteKept
<1>2. Phase = "running" /\ Phase' = "running"
  BY <1>1 DEF Phase
<1>3. Tasks' = Tasks
  BY <1>1, TasksKept
<1>4. at = "tell" => ~NoneBegun
  <2> SUFFICES ASSUME at = "tell" PROVE ~NoneBegun
    OBVIOUS
  <2>1. Len(threads) > 0 /\ threads[Len(threads)].at # "new"
    BY DEF IInv, StartsLast, Undisturbed
  <2> QED
    BY <1>0, <2>1 DEF NoneBegun
<1>5. CASE process' = "terminated"
  <2>1. ~NoneBegun
    BY <1>1, <1>4, <1>5
       DEF MainPush, Tell, Caught, At, Survive, Raced, Undisturbed
  <2> QED
    BY <1>1, <1>2, <1>3, <1>5, <2>1, Crashes
<1>6. CASE process' = "up"
  <2> SUFFICES ASSUME NoneBegun
               PROVE  SubSeq(obuf', 1, Len(obuf)) = obuf
                      /\ SubSeq(ebuf', 1, Len(ebuf)) = ebuf
    BY <1>1, <1>2, <1>3, <1>6, Works
  <2>1. CASE MainPush
    <3>1. seen = Len(obuf) /\ ebuf' = ebuf
      BY <2>1 DEF MainPush, At, Undisturbed
    <3>2. pc \in 0..Len(code)-1
      BY <2>1, WordSizeLarge DEF MainPush, At, IInv, MainOK, TypeOK
    <3>3. Ins(pc).arg \in Int
      BY <3>2, InsType DEF Instr, IInv
    <3>4. obuf' = Pushed(obuf, Len(obuf), Ins(pc).arg)
      BY <1>6, <2>1, <3>1 DEF MainPush, Terminate
    <3> QED
      BY <1>0, <3>1, <3>3, <3>4, PushedExtends
  <2>2. CASE Caught
    <3>1. seen = Len(ebuf) /\ obuf' = obuf
      BY <2>2 DEF Caught, At, Undisturbed
    <3>2. ebuf' = Pushed(ebuf, Len(ebuf), note)
      BY <1>6, <2>2, <3>1 DEF Caught, Terminate
    <3>3. SubSeq(obuf, 1, Len(obuf)) = obuf
      BY <1>0
    <3> QED
      BY <1>0, <3>1, <3>2, <3>3, PushedExtends
  <2>3. CASE Tell
    BY <1>4, <2>3 DEF Tell, At
  <2> QED
    BY <2>1, <2>2, <2>3
<1> QED
  BY <1>5, <1>6 DEF MainPush, Tell, Caught, Survive, Terminate

(* The steps of main that touch neither the threads nor the buffers.       *)
LEMMA QuietSteps ==
  ASSUME IInv, IInv',
         MainQuiet \/ MainJump \/ MainError \/ MainOut \/ Check \/ Catch
           \/ AwaitThread \/ Delete
  PROVE  Promised
<1>0. /\ obuf \in Seq(Int) /\ ebuf \in Seq(Messages)
      /\ SubSeq(obuf, 1, Len(obuf)) = obuf /\ SubSeq(ebuf, 1, Len(ebuf)) = ebuf
  BY LenProperties DEF IInv, TypeOK
<1>1. threads' = threads /\ UNCHANGED <<obuf, ebuf, sent, process>> /\ process = "up"
  BY DEF MainQuiet, MainJump, MainError, MainOut, Check, Catch, AwaitThread,
         Delete, Runs, At
<1>2. Tasks' = Tasks
  BY <1>1, TasksKept
<1>3. CASE AwaitThread \/ Delete
  <2>1. note' = note /\ Phase' = Phase
    BY <1>3 DEF AwaitThread, Delete, At, Phase
  <2> QED
    BY <1>1, <1>2, <2>1, Stutter
<1>4. CASE MainQuiet \/ MainJump \/ MainError \/ MainOut \/ Check \/ Catch
  <2>1. /\ at \in {"run", "check", "catch"}
        /\ at' \in {"run", "catch", "push", "tell", "caught"}
        /\ NoteKept
    BY <1>4 DEF MainQuiet, MainJump, MainError, MainOut, Check, Catch, Runs, At,
                Continue, Throw, NoteKept
  <2>2. Phase = "running" /\ Phase' = "running"
    BY <2>1 DEF Phase
  <2> QED
    BY <1>0, <1>1, <1>2, <2>1, <2>2, Works
<1> QED
  BY <1>3, <1>4

(* BARRIER and the end of main.                                            *)
LEMMA WaitSteps ==
  ASSUME IInv, IInv', MainBarrier \/ MainEnd \/ BarrierDone \/ FinalBarrierDone
  PROVE  Promised
<1>1. threads' = threads /\ UNCHANGED <<obuf, ebuf, sent, process>> /\ process = "up"
  BY DEF MainBarrier, MainEnd, BarrierDone, FinalBarrierDone, Runs, At
<1>2. Tasks' = Tasks
  BY <1>1, TasksKept
<1>3. CASE MainBarrier \/ MainEnd
  <2>1. Phase = "running" /\ Phase' = "waiting" /\ note' = note
    BY <1>3 DEF MainBarrier, MainEnd, Runs, At, Phase
  <2>2. Promise!Wait
    BY <1>1, <1>2, <2>1 DEF Promise!Wait, Tasks
  <2> QED
    BY <2>2 DEF Promised, Promise!Next
<1>4. CASE BarrierDone \/ FinalBarrierDone
  <2>1. /\ at \in {"barrier", "final"} /\ bar > Len(threads)
        /\ at' \in {"run", "catch", "reply"} /\ NoteKept
    BY <1>4 DEF BarrierDone, FinalBarrierDone, At, Continue, Throw, NoteKept
  <2>2. Phase = "waiting" /\ Phase' = "running"
    BY <2>1 DEF Phase
  <2>3. Len(threads) \in Nat /\ bar \in Nat
    BY LenProperties DEF IInv, TypeOK
  <2>4. \A i \in 1..Len(threads) : Over(threads[i])
    BY <2>1, <2>3 DEF IInv, BarrierProgress
  <2>5. Promise!NoneActive /\ Promise!MayFail
    BY <2>1, <2>4, NoneBegunSeen DEF Promise!MayFail, NoteKept
  <2>6. Promise!Join
    BY <1>1, <1>2, <2>2, <2>5 DEF Promise!Join, Tasks
  <2> QED
    BY <2>6 DEF Promised, Promise!Next
<1> QED
  BY <1>3, <1>4

(* What the client is sent is what was printed, once all of it is sent; a  *)
(* dangling iterator may be the end of the process before that.            *)
LEMMA AnswerSteps ==
  ASSUME IInv, IInv', Replied, Replied', Replying
  PROVE  Promised
<1>1. /\ threads' = threads /\ UNCHANGED <<obuf, ebuf, note>> /\ process = "up"
      /\ at \in {"reply", "out", "err"}
  BY ReplyStep DEF IInv
<1>2. Tasks' = Tasks
  BY <1>1, TasksKept
<1>3. Phase = "running"
  BY <1>1 DEF Phase
<1>4. CASE ErrSent
  <2>1. at = "err" /\ at' = "delete" /\ UNCHANGED <<sent, process>>
    BY <1>4 DEF ErrSent, At
  <2>2. Phase' = "answered"
    BY <2>1 DEF Phase
  <2>3. note # "none" \/ Promise!NoneActive
    BY <2>1, NoneBegunSeen DEF IInv, JoinedBeforeReply
  <2>4. note = "none" \/ Promise!NoneStarted =>
          sent'.out = obuf /\ sent'.err = ebuf
    BY <1>1, <2>1, NoneBegunSeen DEF Replied, Calm, NoneBegun
  <2>5. Promise!Answer
    BY <1>1, <1>2, <1>3, <2>1, <2>2, <2>3, <2>4 DEF Promise!Answer, Tasks
  <2> QED
    BY <2>5 DEF Promised, Promise!Next
<1>5. CASE ~ErrSent /\ process' = "up"
  <2>1. at' \in {"out", "err"}
    BY <1>5, ReplyMoves
  <2>2. Phase' = "running"
    BY <2>1 DEF Phase
  <2> QED
    BY <1>1, <1>2, <1>3, <1>5, <2>2, Stutter
<1>6. CASE process' # "up"
  <2>1. SendGarbage /\ (OutMoved \/ ErrMoved) /\ process' = "terminated" /\ at' = at
    BY <1>1, <1>6
       DEF Replying, Reply, SendOut, OutSent, SendErr, ErrSent, SendGarbage,
           Survive, Terminate
  <2>2. ~Calm
    BY <2>1 DEF OutMoved, ErrMoved, At, Replied
  <2>3. ~NoneBegun /\ Phase' = Phase /\ NoteKept
    BY <1>1, <2>1, <2>2 DEF Calm, Phase, NoteKept
  <2>4. sent' = sent \/ Phase' = "running"
    BY <1>3, <2>3
  <2> QED
    BY <1>1, <1>2, <1>3, <2>1, <2>3, Crashes
<1> QED
  BY <1>4, <1>5, <1>6

(* THREAD_BEGIN, and the start of the thread.                              *)
LEMMA ForkSteps ==
  ASSUME IInv, IInv', Undisturbed, RunThread \/ Create \/ Mark
  PROVE  Promised
<1>0. /\ Len(threads) \in Nat
      /\ Tasks \in Seq({"forked", "active", "over"}) /\ Len(Tasks) = Len(threads)
      /\ \A i \in 1..Len(threads) : Tasks[i] = Stage(threads[i])
      /\ Tasks' = [i \in 1..Len(threads') |-> Stage(threads'[i])]
  BY TasksAre DEF Tasks, Stage
<1>1. UNCHANGED <<obuf, ebuf, sent, process>> /\ process = "up"
  BY DEF RunThread, Create, Mark, Runs, At
<1>2. CASE RunThread
  <2>1. /\ Len(threads') = Len(threads) + 1
        /\ \A j \in 1..Len(threads) : threads'[j] = threads[j]
        /\ threads'[Len(threads) + 1].at = "new"
        /\ at = "run" /\ at' \in {"create", "catch"} /\ NoteKept
    BY <1>2, ForkSeen DEF NoteKept
  <2>2. Phase = "running" /\ Phase' = "running"
    BY <2>1 DEF Phase
  <2>3. Tasks' = Append(Tasks, "forked")
    <3> DEFINE S == {"forked", "active", "over"}
               longer == Append(Tasks, "forked")
    <3>1. /\ longer \in Seq(S) /\ Len(longer) = Len(threads) + 1
          /\ longer[Len(threads) + 1] = "forked"
          /\ \A i \in 1..Len(threads) : longer[i] = Tasks[i]
      BY <1>0, AppendProperties
    <3>2. \A i \in 1..Len(threads) + 1 :
            Stage(threads'[i]) = IF i = Len(threads) + 1 THEN "forked" ELSE Tasks[i]
      <4> TAKE i \in 1..Len(threads) + 1
      <4>1. CASE i = Len(threads) + 1
        BY <2>1, <4>1, StageIs
      <4>2. CASE i # Len(threads) + 1
        <5>1. i \in 1..Len(threads)
          BY <1>0, <4>2
        <5> QED
          BY <1>0, <2>1, <4>2, <5>1
      <4> QED
        BY <4>1, <4>2
    <3> HIDE DEF S, longer
    <3>3. longer = [i \in 1..Len(threads) + 1 |-> longer[i]]
      BY <1>0, <3>1
    <3>4. \A i \in 1..Len(threads) + 1 : longer[i] = Stage(threads'[i])
      BY <1>0, <3>1, <3>2
    <3> QED
      BY <1>0, <2>1, <3>3, <3>4 DEF longer
  <2>4. Promise!MayFail
    BY <2>1 DEF Promise!MayFail, NoteKept
  <2>5. Promise!Fork
    BY <1>1, <2>2, <2>3, <2>4 DEF Promise!Fork, Tasks
  <2> QED
    BY <2>5 DEF Promised, Promise!Next
<1>3. CASE Create \/ Mark
  <2>1. /\ Newest \in 1..Len(threads) /\ Len(threads') = Len(threads)
        /\ \A j \in 1..Len(threads) : j # Newest => threads'[j] = threads[j]
        /\ Create => threads[Newest].at = "new" /\ threads'[Newest].at \in {"run", "failed"}
        /\ Mark => threads'[Newest].at = threads[Newest].at
    BY <1>3, StartSeen
  <2>2. note' = note /\ Phase = "running" /\ Phase' = "running"
    BY <1>3 DEF Create, Mark, At, Phase
  <2>3. CASE Mark
    <3>1. Stage(threads'[Newest]) = Stage(threads[Newest])
      BY <2>1, <2>3 DEF Stage
    <3>2. Tasks' = Tasks
      BY <2>1, <3>1, TasksKept
    <3> QED
      BY <1>1, <2>2, <3>2, Stutter
  <2>4. CASE Create
    <3>1. Tasks[Len(Tasks)] = "forked" /\ Stage(threads'[Newest]) = "active"
      BY <1>0, <2>1, <2>4, StageIs DEF Newest
    <3>2. Tasks' = [Tasks EXCEPT ![Len(Tasks)] = "active"]
      BY <1>0, <2>1, <3>1 DEF Newest
    <3>3. Tasks # <<>>
      BY <1>0, <2>1 DEF Newest
    <3>4. Promise!Start
      BY <1>1, <2>2, <3>1, <3>2, <3>3 DEF Promise!Start, Tasks
    <3> QED
      BY <3>4 DEF Promised, Promise!Next
  <2> QED
    BY <1>3, <2>3, <2>4
<1> QED
  BY <1>2, <1>3

(* The steps of the threads.                                               *)
LEMMA TaskSteps ==
  ASSUME IInv, IInv', NEW i \in 1..Len(threads), ThreadStep(i) \/ UseAfterDelete(i)
  PROVE  Promised
<1>0. /\ Len(threads) \in Nat /\ Len(Tasks) = Len(threads)
      /\ Tasks \in Seq({"forked", "active", "over"})
      /\ \A j \in 1..Len(threads) : Tasks[j] = Stage(threads[j])
      /\ Tasks' = [j \in 1..Len(threads') |-> Stage(threads'[j])]
  BY TasksAre DEF Tasks, Stage
<1>1. /\ UNCHANGED <<at, note, sent>> /\ Len(threads') = Len(threads)
      /\ \A j \in 1..Len(threads) : j # i => threads'[j] = threads[j]
  BY ThreadStepEffect DEF IInv, ThreadEffect
<1>2. process = "up" /\ Tasks[i] = "active" /\ threads[i].at \notin {"new", "done"}
  BY <1>0, ThreadSeen, StageIs
<1>3. Phase' = Phase /\ NoteKept
  BY <1>1 DEF Phase, NoteKept
<1>4. CASE process' = "terminated" /\ threads' = threads
  <2>1. Tasks' = Tasks /\ ~NoneBegun
    BY <1>2, <1>4, TasksKept DEF NoneBegun
  <2>2. Phase = "answered" => note # "none"
    BY <1>2 DEF Phase, IInv, JoinedBeforeReply, Over
  <2> QED
    BY <1>1, <1>2, <1>3, <1>4, <2>1, <2>2, Crashes
<1>5. CASE process' = "up" /\ threads'[i].at \notin {"new", "done"}
  <2>1. \A j \in 1..Len(threads) : Stage(threads'[j]) = Stage(threads[j])
    BY <1>1, <1>2, <1>5, StageIs
  <2>2. Tasks' = Tasks
    BY <1>1, <2>1, TasksKept
  <2>3. Promise!TaskPrints(i)
    BY <1>1, <1>2, <1>3, <1>5, <2>2 DEF Promise!TaskPrints, Promise!Active, Tasks
  <2> QED
    BY <1>0, <2>3 DEF Promised, Promise!Next, Tasks
<1>6. CASE process' = "up" /\ threads'[i].at = "done" /\ UNCHANGED <<obuf, ebuf>>
  <2>1. Stage(threads'[i]) = "over"
    BY <1>6, StageIs
  <2>2. Tasks' = [Tasks EXCEPT ![i] = "over"]
    BY <1>0, <1>1, <2>1
  <2>3. Promise!TaskEnds(i)
    BY <1>1, <1>2, <1>3, <1>6, <2>2 DEF Promise!TaskEnds, Promise!Active, Tasks
  <2> QED
    BY <1>0, <2>3 DEF Promised, Promise!Next, Tasks
<1> QED
  BY <1>4, <1>5, <1>6, ThreadSeen

(* The whole of Program::execute, of the threads and of the answer is a    *)
(* fork-join program: each thread runs once, BARRIER and the end of main   *)
(* wait for all of them, the answer is all that was printed unless main    *)
(* fails after it has started a thread, and without an error nothing fails *)
(* after the answer (Program.cpp:24-27, 119-206; Server.cpp:31-52,         *)
(* 97-130).                                                                *)
THEOREM ImplementsForkJoin == Spec => ForksAndJoins
<1>1. Init => Promise!Init
  <2> SUFFICES ASSUME Init PROVE Promise!Init
    OBVIOUS
  <2>1. Phase = "running" /\ note = "none" /\ process = "up"
    BY DEF Init, Phase
  <2>2. Tasks = <<>>
    BY DEF Init, Tasks
  <2>3. obuf = <<>> /\ ebuf = <<>>
    BY DEF Init
  <2> QED
    BY <2>1, <2>2, <2>3 DEF Promise!Init, Promise!Nothing, Tasks
<1>2. IInv /\ Undisturbed /\ Replied /\ [Next]_vars /\ IInv' /\ Replied'
        => [Promise!Next]_(Promise!vars)
  <2> SUFFICES ASSUME IInv, Undisturbed, Replied, [Next]_vars, IInv', Replied'
               PROVE  Promised
    BY DEF Promised
  <2>1. CASE MainStep
    BY <2>1, PrintSteps, QuietSteps, WaitSteps, AnswerSteps, ForkSteps
       DEF MainStep, Replying
  <2>2. ASSUME NEW i \in 1..Len(threads), ThreadStep(i) \/ UseAfterDelete(i)
        PROVE  Promised
    BY <2>2, TaskSteps
  <2>3. CASE UNCHANGED vars
    <3>1. Tasks' = Tasks /\ Phase' = Phase
      BY <2>3, TasksKept DEF vars, Phase
    <3> QED
      BY <2>3, <3>1, Stutter DEF vars
  <2> QED
    BY <2>1, <2>2, <2>3 DEF Next
<1>3. Undisturbed /\ IInv /\ [Next]_vars => Undisturbed'
  BY UndisturbedStep
<1> QED
  BY <1>1, <1>2, <1>3, UndisturbedInit, Invariance, ReplyIsWhole, PTL
     DEF Spec, ForksAndJoins, Promise!Spec

-----------------------------------------------------------------------------
(* The output of a program that is Joined, from the lines b, e and r of    *)
(* its THREAD_BEGIN, THREAD_END and BARRIER.                               *)

(* Main is at OUT or at BARRIER, and nobody has printed since it read the  *)
(* size of obuf.                                                           *)
MainPrints ==
  /\ at \in {"push", "barrier"} => pc < Len(code)
  /\ at = "push" => Ins(pc).op = "out" /\ seen = Len(obuf)
  /\ at = "barrier" => Ins(pc).op = "barrier"

NotForked(b) ==
  /\ threads = <<>>
  /\ pc <= b /\ at \in {"run", "push", "barrier"}
  /\ MainPrints
  /\ obuf = Texts(SubSeq(code, 1, pc))

(* The thread is in its round after the n-th.                              *)
InRound(th, b, e, n) ==
  /\ n <= th.execs /\ th.execs = n * (e - b - 1) + th.pc
  /\ obuf = Texts(Before(code, b)) \o Rounds(n, Texts(Body(code, b, e)))
              \o Texts(SubSeq(code, b + 2, b + 1 + th.pc))

TheThread(th, b, e) ==
  /\ th.at \in {"new", "failed", "run", "push", "clean", "unlock", "done"}
  /\ th.success
  /\ th.start = b /\ th.size = e - b - 1
  /\ th.at = "push" => Ins(b + 1 + th.pc).op = "out" /\ th.seen = Len(obuf)
  /\ th.at \in {"clean", "unlock", "done"} => th.pc = th.size
  /\ th.at = "new" => at = "create"
  /\ \E n \in Nat : InRound(th, b, e, n)

Forked(b, e, r) ==
  /\ Len(threads) = 1 /\ TheThread(threads[1], b, e)
  /\ \/ at \in {"create", "mark", "check"} /\ pc = e
     \/ at = "run" /\ pc \in e+1..r
     \/ at = "barrier" /\ pc = r

(* The thread has made n rounds and is over.                               *)
Finished(b, e, r) ==
  /\ Len(threads) = 1 /\ threads[1].at = "done"
  /\ pc \in r+1..Len(code)
  /\ at \in {"run", "push", "barrier", "final", "reply", "out", "err", "delete", "gone"}
  /\ at \notin {"run", "push", "barrier"} => pc = Len(code)
  /\ MainPrints
  /\ \E n \in 1..threads[1].execs + 1 :
       /\ threads[1].execs = n * (e - b - 1)
       /\ obuf = Texts(Before(code, b)) \o Rounds(n, Texts(Body(code, b, e)))
                   \o Texts(SubSeq(code, r + 2, pc))

(* Main has been stopped by its limit, or the process by the thread's.     *)
GaveUp ==
  \/ note # "none" /\ at \in {"catch", "caught", "reply", "out", "err", "delete", "gone"}
  \/ process = "terminated" /\ at # "gone"

InOrder(b, e, r) ==
  GaveUp \/ NotForked(b) \/ Forked(b, e, r) \/ Finished(b, e, r)

AllOrdered ==
  \A b, e, r \in 0..Len(code)-1 : Joined(code, b, e, r) => InOrder(b, e, r)

-----------------------------------------------------------------------------
(* What a line prints, and what one more line adds.                        *)
TextOf(ins) == IF ins.op = "out" THEN <<ins.arg>> ELSE <<>>

LEMMA TextOfType ==
  ASSUME NEW ins \in Instr
  PROVE  TextOf(ins) \in Seq(Int)
BY DEF TextOf, Instr

LEMMA AppendIs ==
  ASSUME NEW S, NEW s \in Seq(S), NEW x \in S, NEW t \in Seq(S),
         Len(t) = Len(s) + 1, t[Len(s) + 1] = x, \A k \in 1..Len(s) : t[k] = s[k]
  PROVE  t = Append(s, x)
<1> DEFINE u == Append(s, x)
<1>1. /\ u \in Seq(S) /\ Len(u) = Len(s) + 1 /\ u[Len(s) + 1] = x
      /\ \A k \in 1..Len(s) : u[k] = s[k]
  BY AppendProperties
<1> HIDE DEF u
<1>2. Len(s) \in Nat
  BY LenProperties
<1>3. \A k \in 1..Len(t) : t[k] = u[k]
  BY <1>1, <1>2
<1>4. t = u
  BY <1>1, <1>3, SeqEqual
<1> QED
  BY <1>4 DEF u

LEMMA TextsAppend ==
  ASSUME NEW p \in Seq(Instr), NEW ins \in Instr
  PROVE  /\ Texts(p) \in Seq(Int)
         /\ Texts(Append(p, ins)) = Texts(p) \o TextOf(ins)
<1> DEFINE q == Append(p, ins)
           ss == [k \in 1..Len(p) |-> TextOf(p[k])]
           tt == [k \in 1..Len(q) |-> TextOf(q[k])]
           x == TextOf(ins)
<1>1. /\ q \in Seq(Instr) /\ Len(q) = Len(p) + 1 /\ Len(p) \in Nat
      /\ q[Len(p) + 1] = ins /\ \A k \in 1..Len(p) : q[k] = p[k]
  BY AppendProperties, LenProperties
<1> HIDE DEF q
<1>2. x \in Seq(Int)
  BY TextOfType
<1>3. ss \in Seq(Seq(Int)) /\ Len(ss) = Len(p)
  <2>1. \A k \in 1..Len(p) : TextOf(p[k]) \in Seq(Int)
    BY TextOfType, ElementOfSeq
  <2> QED
    BY <1>1, <2>1, IsASeq
<1>4. tt = Append(ss, x)
  <2>1. \A k \in 1..Len(p) : tt[k] = ss[k] /\ tt[k] \in Seq(Int)
    BY <1>1, TextOfType, ElementOfSeq
  <2>2. tt[Len(p) + 1] = x
    BY <1>1
  <2>3. tt \in Seq(Seq(Int)) /\ Len(tt) = Len(p) + 1
    <3>1. \A k \in 1..Len(q) : TextOf(q[k]) \in Seq(Int)
      BY <1>1, TextOfType, ElementOfSeq
    <3> QED
      BY <1>1, <3>1, IsASeq
  <2> HIDE DEF ss, tt, x
  <2> DEFINE T == Seq(Int)
  <2>4. ss \in Seq(T) /\ tt \in Seq(T) /\ x \in T
    BY <1>2, <1>3, <2>3
  <2> HIDE DEF T
  <2> QED
    BY <1>3, <2>1, <2>2, <2>3, <2>4, AppendIs
<1>5. Texts(p) = FlattenSeq(ss) /\ Texts(q) = FlattenSeq(tt)
  BY DEF Texts, TextOf
<1> HIDE DEF ss, tt, x
<1>6. FlattenSeq(ss) \in Seq(Int) /\ FlattenSeq(Append(ss, x)) = FlattenSeq(ss) \o x
  BY <1>2, <1>3, FlattenAppend
<1> QED
  BY <1>4, <1>5, <1>6 DEF q, x

LEMMA TextsNone == Texts(<<>>) = <<>>
BY FlattenEmpty DEF Texts

(* A part of a program, lengthened by the line after it.                   *)
LEMMA TextsNext ==
  ASSUME NEW p \in Seq(Instr), NEW m \in 1..Len(p), NEW k \in m-1..Len(p)-1
  PROVE  /\ Texts(SubSeq(p, m, k)) \in Seq(Int)
         /\ Texts(SubSeq(p, m, k + 1)) = Texts(SubSeq(p, m, k)) \o TextOf(p[k + 1])
<1>1. SubSeq(p, m, k) \in Seq(Instr) /\ p[k + 1] \in Instr
  OBVIOUS
<1>2. SubSeq(p, m, k + 1) = Append(SubSeq(p, m, k), p[k + 1])
  OBVIOUS
<1> QED
  BY <1>1, <1>2, TextsAppend

LEMMA RoundsNext ==
  ASSUME NEW n \in Nat, NEW texts \in Seq(Int)
  PROVE  /\ Rounds(n, texts) \in Seq(Int)
         /\ Rounds(n + 1, texts) = Rounds(n, texts) \o texts
<1> DEFINE ss == [k \in 1..n |-> texts]
           tt == [k \in 1..n+1 |-> texts]
<1>1. ss \in Seq(Seq(Int)) /\ Len(ss) = n
  BY IsASeq
<1>2. tt = Append(ss, texts)
  OBVIOUS
<1>3. Rounds(n, texts) = FlattenSeq(ss) /\ Rounds(n + 1, texts) = FlattenSeq(tt)
  BY DEF Rounds
<1> HIDE DEF ss, tt
<1>4. FlattenSeq(ss) \in Seq(Int) /\ FlattenSeq(Append(ss, texts)) = FlattenSeq(ss) \o texts
  BY <1>1, FlattenAppend
<1> QED
  BY <1>2, <1>3, <1>4

LEMMA RoundsNone ==
  ASSUME NEW texts
  PROVE  Rounds(0, texts) = <<>>
BY FlattenEmpty DEF Rounds

(* Sequences joined three at a time, as the output is.                     *)
LEMMA JoinAny ==
  ASSUME NEW S, NEW a \in Seq(S), NEW m \in Seq(S), NEW c \in Seq(S)
  PROVE  (a \o m) \o c = a \o (m \o c)
BY ConcatAssociative

LEMMA JoinThree ==
  ASSUME NEW a \in Seq(Int), NEW m \in Seq(Int), NEW c \in Seq(Int)
  PROVE  (a \o m) \o c = a \o (m \o c)
<1>1. PICK S : S = Int
  OBVIOUS
<1>2. a \in Seq(S) /\ m \in Seq(S) /\ c \in Seq(S)
  BY <1>1
<1> QED
  BY <1>2, JoinAny

LEMMA JoinNothing ==
  ASSUME NEW a \in Seq(Int), NEW m \in Seq(Int)
  PROVE  (a \o m) \o <<>> = a \o m
<1>1. a \o m \in Seq(Int)
  BY ConcatProperties
<1> QED
  BY <1>1, ConcatEmptySeq

-----------------------------------------------------------------------------
(* The lines of a program that is Joined, counted from 0 as main does.     *)
LEMMA JoinedLines ==
  ASSUME TypeOK, NEW b \in 0..Len(code)-1, NEW e \in 0..Len(code)-1, NEW r \in 0..Len(code)-1,
         Joined(code, b, e, r)
  PROVE  /\ code \in Seq(Instr) /\ Len(code) \in Nat /\ WordSize \in Nat
         /\ 2 * Len(code) + 42 < WordSize
         /\ b < e /\ e < r /\ r < Len(code)
         /\ Ins(b).op = "begin" /\ Ins(e).op = "end" /\ Ins(r).op = "barrier"
         /\ \A k \in 0..b-1 : Ins(k).op \in {"quiet", "out", "barrier"}
         /\ \A k \in r+1..Len(code)-1 : Ins(k).op \in {"quiet", "out", "barrier"}
         /\ \A k \in e+1..r-1 : Ins(k).op = "quiet"
         /\ \A k \in b+1..e-1 :
              \/ Ins(k).op \in {"quiet", "lock", "out"}
              \/ k = e - 1 /\ Ins(k).op = "jcc" /\ Ins(k).arg = b
<1>1. /\ code \in Seq(Instr) /\ Len(code) \in Nat /\ WordSize \in Nat
      /\ 2 * Len(code) + 42 < WordSize
  BY WordSizeLarge, ProgramsAssumption DEF TypeOK
<1>2. b < e /\ e < r /\ Ins(b).op = "begin" /\ Ins(e).op = "end" /\ Ins(r).op = "barrier"
  BY DEF Joined, Ins
<1>3. \A k \in 0..b-1 : Ins(k).op \in {"quiet", "out", "barrier"}
  BY <1>1 DEF Joined, Ins
<1>4. \A k \in r+1..Len(code)-1 : Ins(k).op \in {"quiet", "out", "barrier"}
  BY <1>1 DEF Joined, Ins
<1>5. \A k \in e+1..r-1 : Ins(k).op = "quiet"
  BY <1>1 DEF Joined, Ins
<1>6. ASSUME NEW k \in b+1..e-1
      PROVE  \/ Ins(k).op \in {"quiet", "lock", "out"}
             \/ k = e - 1 /\ Ins(k).op = "jcc" /\ Ins(k).arg = b
  <2>1. k + 1 \in b+2..e
    BY <1>1
  <2>2. \/ code[k + 1].op \in {"quiet", "lock", "out"}
        \/ k + 1 = e /\ code[k + 1].op = "jcc" /\ code[k + 1].arg = b
    BY <2>1 DEF Joined
  <2> QED
    BY <1>1, <2>2 DEF Ins
<1> QED
  BY <1>1, <1>2, <1>3, <1>4, <1>5, <1>6

(* The step main makes is the one of the place where it is.                *)
LEMMA MainMoves ==
  ASSUME MainStep
  PROVE  /\ process = "up" /\ at # "gone"
         /\ at = "push" => MainPush
         /\ at = "barrier" => AwaitThread \/ BarrierDone
         /\ at = "final" => AwaitThread \/ FinalBarrierDone
         /\ at = "create" => Create
         /\ at = "mark" => Mark
         /\ at = "check" => Check
         /\ at \in {"reply", "out", "err"} => Replying
         /\ at = "delete" => Delete
<1>1. CASE Replying
  BY <1>1, ReplyMoves
<1>2. CASE ~Replying
  BY <1>2
     DEF MainStep, MainQuiet, MainJump, MainError, MainOut, MainPush, MainBarrier,
         MainEnd, AwaitThread, BarrierDone, FinalBarrierDone, RunThread, Create, Mark,
         Check, Tell, Catch, Caught, Replying, Delete, Runs, At
<1> QED
  BY <1>1, <1>2

LEMMA MainExecutes ==
  ASSUME MainStep, at = "run", TypeOK
  PROVE  /\ pc >= Len(code) => MainEnd
         /\ pc < Len(code) =>
              /\ Ins(pc).op = "quiet" => MainQuiet
              /\ Ins(pc).op = "out" => MainOut
              /\ Ins(pc).op = "barrier" => MainBarrier
              /\ Ins(pc).op = "begin" => RunThread
<1>1. pc \in Nat /\ Len(code) \in Nat
  BY WordSizeLarge DEF TypeOK
<1>2. \/ MainQuiet \/ MainJump \/ MainError \/ MainOut \/ MainBarrier \/ MainEnd \/ RunThread
  BY ReplyMoves
     DEF MainStep, MainPush, AwaitThread, BarrierDone, FinalBarrierDone, Create, Mark,
         Check, Tell, Catch, Caught, Replying, Delete, At
<1>3. /\ pc >= Len(code) => ~(pc < Len(code))
      /\ pc < Len(code) => ~(pc >= Len(code))
  BY <1>1
<1> QED
  BY <1>2, <1>3
     DEF MainQuiet, MainJump, MainError, MainOut, MainBarrier, MainEnd, RunThread, Runs

(* The end of the loop body, on the way from one line to the next.         *)
LEMMA GoesOn ==
  ASSUME TypeOK, pc < Len(code), Continue(pc)
  PROVE  GaveUp' \/ (at' = "run" /\ pc' = pc + 1)
<1>1. Inc(pc) = pc + 1
  BY WordSizeLarge DEF TypeOK, Inc
<1>2. at' = "run" \/ (at' = "catch" /\ note' = "limit")
  BY DEF Continue, Throw
<1> QED
  BY <1>1, <1>2 DEF Continue, GaveUp

(* A push_back nobody comes between.                                       *)
LEMMA PushedWhole ==
  ASSUME NEW S, NEW buf \in Seq(S), NEW x \in S
  PROVE  Pushed(buf, Len(buf), x) = buf \o <<x>> /\ ~Raced(buf, Len(buf))
<1>1. Len(buf) \in Nat /\ SubSeq(buf, 1, Len(buf)) = buf
  OBVIOUS
<1>2. Append(buf, x) = buf \o <<x>>
  BY AppendIsConcat
<1> QED
  BY <1>1, <1>2 DEF Pushed, Raced

(* Main alone, at a line without jumps: it prints what stands there.       *)
LEMMA StraightStep ==
  ASSUME TypeOK, MainStep, MainPrints, at \in {"run", "push", "barrier"},
         pc < Len(code), Ins(pc).op \in {"quiet", "out", "barrier"}
  PROVE  \/ GaveUp'
         \/ /\ UNCHANGED <<code, threads, sent>> /\ MainPrints'
            /\ \/ pc' = pc /\ at' \in {"push", "barrier"} /\ obuf' = obuf
               \/ pc' = pc + 1 /\ at' = "run" /\ obuf' = obuf \o TextOf(Ins(pc))
<1>1. obuf \in Seq(Int) /\ obuf \o <<>> = obuf
  BY ConcatEmptySeq DEF TypeOK
<1>2. CASE MainQuiet \/ BarrierDone
  <2>1. UNCHANGED <<code, threads, sent, obuf>> /\ Continue(pc)
    BY <1>2 DEF MainQuiet, BarrierDone
  <2>2. Ins(pc).op # "out"
    BY <1>2 DEF MainQuiet, Runs, BarrierDone, At, MainPrints
  <2> QED
    BY <1>1, <2>1, <2>2, GoesOn DEF TextOf, MainPrints
<1>3. CASE MainOut
  BY <1>3 DEF MainOut, Runs, MainPrints, Ins
<1>4. CASE MainBarrier
  <2>1. /\ UNCHANGED <<code, threads, sent, obuf, pc>> /\ at' = "barrier"
        /\ at = "run" /\ Ins(pc).op \in {"barrier", "jmp", "jcc"}
    BY <1>4 DEF MainBarrier, Runs, At
  <2> QED
    BY <2>1 DEF MainPrints, Ins
<1>5. CASE AwaitThread
  <2>1. /\ UNCHANGED <<code, threads, sent, obuf, pc, at, seen>> /\ at = "barrier"
    BY <1>5 DEF AwaitThread, At
  <2> QED
    BY <2>1 DEF MainPrints, Ins
<1>6. CASE MainPush
  <2>1. /\ UNCHANGED <<code, threads, sent>> /\ Continue(pc) /\ at = "push"
        /\ \/ obuf' = Pushed(obuf, seen, Ins(pc).arg)
           \/ Raced(obuf, seen)
    BY <1>6 DEF MainPush, At
  <2>2. Ins(pc).op = "out" /\ seen = Len(obuf)
    BY <2>1 DEF MainPrints
  <2>3. Ins(pc).arg \in Int
    <3>1. pc \in 0..Len(code)-1
      BY WordSizeLarge DEF TypeOK
    <3> QED
      BY <3>1, InsType DEF Instr
  <2>4. obuf' = obuf \o TextOf(Ins(pc))
    BY <1>1, <2>1, <2>2, <2>3, PushedWhole DEF TextOf
  <2> QED
    BY <2>1, <2>4, GoesOn DEF MainPrints
<1> QED
  <2>1. CASE at = "run"
    BY <2>1, MainExecutes, <1>2, <1>3, <1>4
  <2>2. CASE at \in {"push", "barrier"}
    BY <2>2, MainMoves, <1>2, <1>5, <1>6
  <2> QED
    BY <2>1, <2>2

(* What has been given up stays so.                                        *)
LEMMA GaveUpStays ==
  ASSUME [Next]_vars, GaveUp
  PROVE  GaveUp'
<1>1. CASE UNCHANGED vars
  BY <1>1 DEF vars, GaveUp
<1>2. CASE MainStep
  <2>1. process = "up"
    BY <1>2, MainMoves
  <2>2. note # "none" /\ at \in {"catch", "caught", "reply", "out", "err", "delete"}
    BY <1>2, <2>1, MainMoves DEF GaveUp
  <2>3. Catch \/ Caught \/ Replying \/ Delete
    <3>1. CASE at \in {"catch", "caught"}
      BY <1>2, <3>1, ReplyMoves
         DEF MainStep, MainQuiet, MainJump, MainError, MainOut, MainPush, MainBarrier,
             MainEnd, AwaitThread, BarrierDone, FinalBarrierDone, RunThread, Create,
             Mark, Check, Tell, Replying, Runs, At
    <3>2. CASE at \in {"reply", "out", "err", "delete"}
      BY <1>2, <3>2, MainMoves
    <3> QED
      BY <2>2, <3>1, <3>2
  <2>4. note' = note /\ at' \in {"caught", "reply", "out", "err", "delete", "gone"}
    BY <2>3, ReplyMoves DEF Catch, Caught, Delete
  <2> QED
    BY <2>2, <2>4 DEF GaveUp
<1>3. ASSUME NEW i \in 1..Len(threads), ThreadStep(i) \/ UseAfterDelete(i)
      PROVE  GaveUp'
  <2>1. process = "up"
    BY <1>3 DEF ThreadStep, ThreadQuiet, ThreadFail, ThreadOut, ThreadPush, ThreadJump,
                ThreadReport, ThreadEnd, ThreadClean, ThreadUnlock, UseAfterDelete,
                ThreadRuns, ThreadAt
  <2>2. note' = note /\ at' = at
    BY <1>3 DEF ThreadStep, ThreadQuiet, ThreadFail, ThreadOut, ThreadPush, ThreadJump,
                ThreadReport, ThreadEnd, ThreadClean, ThreadUnlock, UseAfterDelete
  <2> QED
    BY <2>1, <2>2 DEF GaveUp
<1> QED
  BY <1>1, <1>2, <1>3 DEF Next

(* THREAD_BEGIN collects the lines up to the THREAD_END it belongs to.     *)
LEMMA BodyFound ==
  ASSUME TypeOK, NEW b \in 0..Len(code)-1, NEW e \in 0..Len(code)-1, NEW r \in 0..Len(code)-1,
         Joined(code, b, e, r), pc = b, RunThread
  PROVE  threads' = Append(threads, NewThread(e - b - 1)) /\ pc' = e /\ at' = "create"
<1> DEFINE marks == {k \in pc+1..Len(code)-1 : Ins(k).op \in {"begin", "end"}}
           stop == Min(marks)
<1>1. /\ Len(code) \in Nat /\ b < e /\ e < r /\ r < Len(code)
      /\ Ins(b).op = "begin" /\ Ins(e).op = "end"
      /\ \A k \in b+1..e-1 :
           \/ Ins(k).op \in {"quiet", "lock", "out"}
           \/ k = e - 1 /\ Ins(k).op = "jcc" /\ Ins(k).arg = b
  BY JoinedLines
<1>2. \A k \in b+1..e-1 : Ins(k).op \notin {"begin", "end"}
  BY <1>1
<1>3. e \in marks /\ marks \in SUBSET Nat
  BY <1>1
<1>4. stop \in marks /\ \A k \in marks : stop <= k
  <2> HIDE DEF marks
  <2> QED
    BY <1>3, MinIsLeast
<1>5. stop = e
  <2>1. stop \in b+1..Len(code)-1 /\ Ins(stop).op \in {"begin", "end"} /\ stop <= e
    BY <1>3, <1>4
  <2> HIDE DEF stop
  <2>2. ~(stop \in b+1..e-1)
    BY <1>2, <2>1
  <2> QED
    BY <1>1, <2>1, <2>2
<1>6. /\ threads' = Append(threads, NewThread(stop - pc - 1))
      /\ pc' = stop
      /\ IF Ins(stop).op = "begin"
           THEN Throw("nested")
           ELSE at' = "create" /\ note' = note
  <2>1. marks # {}
    BY <1>3
  <2> QED
    BY <2>1 DEF RunThread
<1> HIDE DEF stop
<1> QED
  BY <1>1, <1>5, <1>6

(* Nothing is printed yet: the output of lines 0 to b - 1 is all there is. *)
LEMMA NotForkedStep ==
  ASSUME IInv, NEW b \in 0..Len(code)-1, NEW e \in 0..Len(code)-1, NEW r \in 0..Len(code)-1,
         Joined(code, b, e, r), NotForked(b), MainStep
  PROVE  GaveUp' \/ NotForked(b)' \/ Forked(b, e, r)'
<1>0. TypeOK
  BY DEF IInv
<1>1. /\ code \in Seq(Instr) /\ Len(code) \in Nat /\ b < e /\ e < r /\ r < Len(code)
      /\ Ins(b).op = "begin"
      /\ \A k \in 0..b-1 : Ins(k).op \in {"quiet", "out", "barrier"}
  BY <1>0, JoinedLines
<1>2. /\ threads = <<>> /\ pc \in Nat /\ pc <= b /\ at \in {"run", "push", "barrier"}
      /\ MainPrints /\ obuf = Texts(SubSeq(code, 1, pc)) /\ pc < Len(code)
  BY <1>0, <1>1 DEF NotForked, TypeOK
<1>3. CASE pc < b
  <2>1. Ins(pc).op \in {"quiet", "out", "barrier"}
    BY <1>1, <1>2, <1>3
  <2>2. Texts(SubSeq(code, 1, pc + 1)) = Texts(SubSeq(code, 1, pc)) \o TextOf(Ins(pc))
    <3>1. 1 \in 1..Len(code) /\ pc \in 1-1..Len(code)-1
      BY <1>1, <1>2
    <3> QED
      BY <1>1, <3>1, TextsNext DEF Ins
  <2>3. pc + 1 <= b
    BY <1>2, <1>3
  <2>4. \/ GaveUp'
        \/ /\ UNCHANGED <<code, threads, sent>> /\ MainPrints'
           /\ \/ pc' = pc /\ at' \in {"push", "barrier"} /\ obuf' = obuf
              \/ pc' = pc + 1 /\ at' = "run" /\ obuf' = obuf \o TextOf(Ins(pc))
    BY <1>0, <1>2, <2>1, StraightStep
  <2>5. ASSUME pc' = pc, at' \in {"push", "barrier"}, obuf' = obuf,
               UNCHANGED <<code, threads, sent>>, MainPrints'
        PROVE  NotForked(b)'
    BY <1>2, <2>5 DEF NotForked
  <2>6. ASSUME pc' = pc + 1, at' = "run", obuf' = obuf \o TextOf(Ins(pc)),
               UNCHANGED <<code, threads, sent>>, MainPrints'
        PROVE  NotForked(b)'
    BY <1>2, <2>2, <2>3, <2>6 DEF NotForked
  <2> QED
    BY <2>4, <2>5, <2>6
<1>4. CASE pc = b
  <2>1. at = "run"
    BY <1>1, <1>2, <1>4 DEF MainPrints
  <2>2. RunThread
    BY <1>0, <1>1, <1>2, <1>4, <2>1, MainExecutes
  <2>3. threads' = Append(threads, NewThread(e - b - 1)) /\ pc' = e /\ at' = "create"
    BY <1>0, <1>4, <2>2, BodyFound
  <2>4. UNCHANGED <<code, obuf>>
    BY <2>2 DEF RunThread
  <2>th. PICK th : th = NewThread(e - b - 1)
    OBVIOUS
  <2>5. Len(threads') = 1 /\ threads'[1] = th
    BY <1>2, <2>3, <2>th
  <2>6. /\ th.at = "new" /\ th.success /\ th.start = b /\ th.size = e - b - 1
        /\ th.pc = 0 /\ th.execs = 0
    BY <1>4, <2>th DEF NewThread
  <2>7. InRound(th, b, e, 0)'
    <3>1. Texts(SubSeq(code, b + 2, b + 1)) = <<>>
      <4>1. SubSeq(code, b + 2, b + 1) = <<>>
        BY <1>1
      <4> QED
        BY <4>1, TextsNone
    <3>2. /\ Rounds(0, Texts(Body(code, b, e))) = <<>> /\ obuf \o <<>> = obuf
      BY <1>0, RoundsNone, ConcatEmptySeq DEF TypeOK
    <3>3. obuf = Texts(Before(code, b))
      BY <1>2, <1>4 DEF Before
    <3>4. b + 1 + th.pc = b + 1 /\ 0 <= th.execs /\ th.execs = 0 * (e - b - 1) + th.pc
      BY <1>1, <2>6
    <3>5. obuf = Texts(Before(code, b)) \o Rounds(0, Texts(Body(code, b, e)))
                   \o Texts(SubSeq(code, b + 2, b + 1 + th.pc))
      BY <3>1, <3>2, <3>3, <3>4
    <3> QED
      BY <2>4, <3>4, <3>5 DEF InRound
  <2>8. TheThread(th, b, e)'
    <3>1. \E n \in Nat : InRound(th, b, e, n)'
      BY <2>7
    <3> QED
      BY <2>3, <2>6, <3>1 DEF TheThread
  <2> QED
    BY <2>3, <2>5, <2>8 DEF Forked
<1> QED
  BY <1>1, <1>2, <1>3, <1>4

(* The output of the thread: its next line, its next round, its last.      *)
LEMMA RoundOutput ==
  ASSUME TypeOK, NEW b \in 0..Len(code)-1, NEW e \in 0..Len(code)-1, NEW r \in 0..Len(code)-1,
         Joined(code, b, e, r), NEW n \in Nat, NEW k \in 0..e-b-1
  PROVE  /\ Texts(Before(code, b)) \in Seq(Int)
         /\ Texts(Body(code, b, e)) \in Seq(Int)
         /\ Rounds(n, Texts(Body(code, b, e))) \in Seq(Int)
         /\ Texts(SubSeq(code, b + 2, b + 1 + k)) \in Seq(Int)
         /\ k < e - b - 1 =>
              Texts(SubSeq(code, b + 2, b + 1 + (k + 1)))
                = Texts(SubSeq(code, b + 2, b + 1 + k)) \o TextOf(Ins(b + 1 + k))
<1>1. code \in Seq(Instr) /\ Len(code) \in Nat /\ b < e /\ e < r /\ r < Len(code)
  BY JoinedLines
<1>2. Texts(Before(code, b)) \in Seq(Int)
  <2>1. 1 \in 1..Len(code) /\ b \in 1-1..Len(code)-1
    BY <1>1
  <2> QED
    BY <1>1, <2>1, TextsNext DEF Before
<1>3. b + 2 \in 1..Len(code)
  BY <1>1
<1>4. Texts(Body(code, b, e)) \in Seq(Int)
  <2>1. e \in (b + 2)-1..Len(code)-1
    BY <1>1
  <2> QED
    BY <1>1, <1>3, <2>1, TextsNext DEF Body
<1>5. Rounds(n, Texts(Body(code, b, e))) \in Seq(Int)
  BY <1>4, RoundsNext
<1>6. b + 1 + k \in (b + 2)-1..Len(code)-1 /\ b + 1 + (k + 1) = (b + 1 + k) + 1
  BY <1>1
<1>7. /\ Texts(SubSeq(code, b + 2, b + 1 + k)) \in Seq(Int)
      /\ Texts(SubSeq(code, b + 2, (b + 1 + k) + 1))
           = Texts(SubSeq(code, b + 2, b + 1 + k)) \o TextOf(code[(b + 1 + k) + 1])
  BY <1>1, <1>3, <1>6, TextsNext
<1> QED
  BY <1>2, <1>4, <1>5, <1>6, <1>7 DEF Ins

LEMMA OutputTypes ==
  ASSUME TypeOK, NEW b \in 0..Len(code)-1, NEW e \in 0..Len(code)-1, NEW r \in 0..Len(code)-1,
         Joined(code, b, e, r), NEW n \in Nat
  PROVE  /\ Texts(Before(code, b)) \in Seq(Int)
         /\ Texts(Body(code, b, e)) \in Seq(Int)
         /\ Rounds(n, Texts(Body(code, b, e))) \in Seq(Int)
<1>1. 0 \in 0..e-b-1
  BY JoinedLines
<1> QED
  BY <1>1, RoundOutput

(* A body whose last line prints nothing.                                  *)
LEMMA LastText ==
  ASSUME TypeOK, NEW b \in 0..Len(code)-1, NEW e \in 0..Len(code)-1, NEW r \in 0..Len(code)-1,
         Joined(code, b, e, r), b < e - 1, Ins(e - 1).op # "out"
  PROVE  Texts(Body(code, b, e)) = Texts(SubSeq(code, b + 2, e - 1))
<1>1. code \in Seq(Instr) /\ Len(code) \in Nat /\ b < e /\ e < r /\ r < Len(code)
  BY JoinedLines
<1>2. b + 2 \in 1..Len(code)
  BY <1>1
<1>3. e - 1 \in (b + 2)-1..Len(code)-1 /\ (e - 1) + 1 = e
  BY <1>1
<1>4. /\ Texts(SubSeq(code, b + 2, e - 1)) \in Seq(Int)
      /\ Texts(SubSeq(code, b + 2, (e - 1) + 1))
           = Texts(SubSeq(code, b + 2, e - 1)) \o TextOf(code[(e - 1) + 1])
  BY <1>1, <1>2, <1>3, TextsNext
<1>5. TextOf(code[(e - 1) + 1]) = <<>>
  BY DEF TextOf, Ins
<1>6. Texts(SubSeq(code, b + 2, e - 1)) \o <<>> = Texts(SubSeq(code, b + 2, e - 1))
  BY <1>4, ConcatEmptySeq
<1> QED
  BY <1>3, <1>4, <1>5, <1>6 DEF Body

LEMMA NextInRound ==
  ASSUME TypeOK, NEW b \in 0..Len(code)-1, NEW e \in 0..Len(code)-1, NEW r \in 0..Len(code)-1,
         Joined(code, b, e, r), NEW n \in Nat, NEW th \in ThreadInstr, InRound(th, b, e, n),
         th.pc < e - b - 1, code' = code, obuf' = obuf \o TextOf(Ins(b + 1 + th.pc)),
         NEW new, new.execs = th.execs + 1, new.pc = th.pc + 1
  PROVE  InRound(new, b, e, n)'
<1> DEFINE x == Texts(Before(code, b))
           y == Rounds(n, Texts(Body(code, b, e)))
           z == Texts(SubSeq(code, b + 2, b + 1 + th.pc))
           t == TextOf(Ins(b + 1 + th.pc))
<1>1. th.pc \in Nat /\ th.execs \in Nat /\ Len(code) \in Nat
  BY ThreadNumbers, JoinedLines
<1>2. th.pc \in 0..e-b-1
  BY <1>1
<1>3. /\ x \in Seq(Int) /\ y \in Seq(Int) /\ z \in Seq(Int)
      /\ Texts(SubSeq(code, b + 2, b + 1 + (th.pc + 1))) = z \o t
  BY <1>2, RoundOutput
<1>4. t \in Seq(Int)
  <2>1. b + 1 + th.pc \in 0..Len(code)-1
    BY <1>1
  <2> QED
    BY <2>1, InsType, TextOfType
<1>5. obuf = (x \o y) \o z /\ n <= th.execs /\ th.execs = n * (e - b - 1) + th.pc
  BY DEF InRound
<1>6. obuf' = ((x \o y) \o z) \o t
  BY <1>5
<1> HIDE DEF x, y, z, t
<1>7. obuf' = (x \o y) \o (z \o t)
  <2>0. x \in Seq(Int) /\ y \in Seq(Int) /\ z \in Seq(Int) /\ t \in Seq(Int)
    BY <1>3, <1>4
  <2>1. ((x \o y) \o z) \o t = (x \o y) \o (z \o t)
    <3> DEFINE xy == x \o y
    <3>1. xy \in Seq(Int)
      BY <2>0, ConcatProperties
    <3> HIDE DEF xy
    <3>2. (xy \o z) \o t = xy \o (z \o t)
      BY <2>0, <3>1, JoinThree
    <3> QED
      BY <3>2 DEF xy
  <2> QED
    BY <1>6, <2>1
<1>8. obuf' = (x \o y) \o Texts(SubSeq(code, b + 2, b + 1 + new.pc))
  BY <1>3, <1>7
<1>9. n <= new.execs /\ new.execs = n * (e - b - 1) + new.pc
  <2> DEFINE m == n * (e - b - 1)
  <2>1. m \in Int
    BY <1>1
  <2>2. th.execs = m + th.pc
    BY <1>5
  <2>0. n <= th.execs
    BY <1>5
  <2> HIDE DEF m
  <2>3. n <= new.execs
    <3>1. \A i, j \in Int : i <= j => i <= j + 1
      OBVIOUS
    <3> QED
      BY <1>1, <2>0, <3>1
  <2>4. new.execs = m + new.pc
    <3>1. \A i, j \in Int : (i + j) + 1 = i + (j + 1)
      OBVIOUS
    <3> QED
      BY <1>1, <2>1, <2>2, <3>1
  <2> QED
    BY <2>3, <2>4 DEF m
<1> QED
  BY <1>8, <1>9 DEF InRound, x, y

LEMMA RoundsMade ==
  ASSUME TypeOK, NEW b \in 0..Len(code)-1, NEW e \in 0..Len(code)-1, NEW r \in 0..Len(code)-1,
         Joined(code, b, e, r), NEW n \in Nat, NEW th \in ThreadInstr, InRound(th, b, e, n),
         th.pc = e - b - 1
  PROVE  /\ n + 1 \in 1..th.execs + 1
         /\ th.execs = (n + 1) * (e - b - 1)
         /\ obuf = Texts(Before(code, b)) \o Rounds(n + 1, Texts(Body(code, b, e)))
<1> DEFINE x == Texts(Before(code, b))
           w == Texts(Body(code, b, e))
           y == Rounds(n, w)
<1>1. th.execs \in Nat /\ Len(code) \in Nat /\ b < e
  BY ThreadNumbers, JoinedLines
<1>2. e - b - 1 \in 0..e-b-1 /\ b + 1 + (e - b - 1) = e
  BY <1>1
<1>3. x \in Seq(Int) /\ y \in Seq(Int) /\ w \in Seq(Int)
  BY <1>2, RoundOutput
<1>4. n <= th.execs /\ th.execs = n * (e - b - 1) + (e - b - 1) /\ obuf = (x \o y) \o w
  BY <1>2 DEF InRound, Body
<1>5. Rounds(n + 1, w) = y \o w
  BY <1>3, RoundsNext
<1> HIDE DEF x, y, w
<1>6. obuf = x \o Rounds(n + 1, w)
  <2>1. (x \o y) \o w = x \o (y \o w)
    BY <1>3, JoinThree
  <2> QED
    BY <1>4, <1>5, <2>1
<1>7. n * (e - b - 1) + (e - b - 1) = (n + 1) * (e - b - 1)
  <2>1. ASSUME NEW m \in Int PROVE n * m + m = (n + 1) * m
    OBVIOUS
  <2> QED
    BY <1>1, <2>1
<1> QED
  BY <1>1, <1>4, <1>6, <1>7 DEF x, w

LEMMA NewRound ==
  ASSUME TypeOK, NEW b \in 0..Len(code)-1, NEW e \in 0..Len(code)-1, NEW r \in 0..Len(code)-1,
         Joined(code, b, e, r), NEW n \in Nat, NEW th \in ThreadInstr, InRound(th, b, e, n),
         th.pc = e - b - 2, Ins(b + 1 + th.pc).op # "out", code' = code, obuf' = obuf,
         NEW new, new.execs = th.execs + 1, new.pc = 0
  PROVE  InRound(new, b, e, n + 1)'
<1> DEFINE x == Texts(Before(code, b))
           w == Texts(Body(code, b, e))
           y == Rounds(n, w)
<1>1. th.execs \in Nat /\ th.pc \in Nat /\ Len(code) \in Nat /\ b < e
  BY ThreadNumbers, JoinedLines
<1>2. b < e - 1 /\ b + 1 + th.pc = e - 1
  BY <1>1
<1>3. x \in Seq(Int) /\ y \in Seq(Int) /\ w \in Seq(Int)
  BY OutputTypes
<1>4. w = Texts(SubSeq(code, b + 2, b + 1 + th.pc))
  <2>1. Ins(e - 1).op # "out"
    BY <1>2
  <2>2. Texts(Body(code, b, e)) = Texts(SubSeq(code, b + 2, e - 1))
    BY <1>2, <2>1, LastText
  <2> QED
    BY <1>2, <2>2
<1>5. n <= th.execs /\ th.execs = n * (e - b - 1) + (e - b - 2) /\ obuf = (x \o y) \o w
  BY <1>4 DEF InRound
<1>6. Rounds(n + 1, w) = y \o w /\ Rounds(n + 1, w) \in Seq(Int)
  <2>1. n + 1 \in Nat
    OBVIOUS
  <2> QED
    BY <1>3, <2>1, RoundsNext
<1>7. Texts(SubSeq(code, b + 2, b + 1 + 0)) = <<>>
  <2>1. SubSeq(code, b + 2, b + 1 + 0) = <<>>
    BY <1>1, JoinedLines
  <2> QED
    BY <2>1, TextsNone
<1> HIDE DEF x, y, w
<1>8. obuf = (x \o Rounds(n + 1, w)) \o <<>>
  <2>0. x \in Seq(Int) /\ y \in Seq(Int) /\ w \in Seq(Int) /\ Rounds(n + 1, w) \in Seq(Int)
    BY <1>3, <1>6
  <2>1. (x \o y) \o w = x \o (y \o w)
    BY <2>0, JoinThree
  <2>2. (x \o Rounds(n + 1, w)) \o <<>> = x \o Rounds(n + 1, w)
    BY <2>0, JoinNothing
  <2> QED
    BY <1>5, <1>6, <2>1, <2>2
<1>9. new.execs = (n + 1) * (e - b - 1) + 0
  <2>1. ASSUME NEW m \in Int PROVE n * m + (m - 1) + 1 = (n + 1) * m
    OBVIOUS
  <2>2. e - b - 1 \in Int /\ e - b - 2 = (e - b - 1) - 1
    BY <1>1
  <2> HIDE DEF x
  <2> QED
    BY <1>5, <2>1, <2>2
<1>10. n + 1 <= new.execs
  BY <1>1, <1>5
<1> QED
  BY <1>7, <1>8, <1>9, <1>10 DEF InRound, x, w

(* The thread goes on to a line, unless it has made too many steps.        *)
LEMMA ThreadGoesOn ==
  ASSUME TypeOK, Len(threads) = 1, NEW th, th = threads[1], NEW line, ThreadContinue(1, line)
  PROVE  \/ process' = "terminated"
         \/ /\ Len(threads') = 1
            /\ threads'[1].at = "run" /\ threads'[1].execs = th.execs + 1
            /\ threads'[1].pc = Inc(line)
            /\ threads'[1].start = th.start /\ threads'[1].size = th.size
            /\ threads'[1].success = th.success
<1>1. threads \in Seq(ThreadInstr) /\ th \in ThreadInstr /\ DOMAIN threads = 1..1
  <2>1. threads \in Seq(ThreadInstr) /\ DOMAIN threads = 1..Len(threads)
    BY LenProperties DEF TypeOK
  <2>2. 1 \in 1..Len(threads)
    OBVIOUS
  <2> QED
    BY <2>1, <2>2, ElementOfSeq
<1> DEFINE new == [th EXCEPT !.at = "run", !.execs = @ + 1, !.pc = Inc(line)]
<1>2. CASE threads' = [threads EXCEPT ![1] = new]
  <2>1. /\ new.at = "run" /\ new.execs = th.execs + 1 /\ new.pc = Inc(line)
        /\ new.start = th.start /\ new.size = th.size /\ new.success = th.success
    BY <1>1 DEF ThreadInstr
  <2> HIDE DEF new
  <2>2. Len(threads') = 1 /\ threads'[1] = new
    BY <1>1, <1>2
  <2> QED
    BY <2>1, <2>2
<1> QED
  <2>1. new = [threads[1] EXCEPT !.at = "run", !.execs = @ + 1, !.pc = Inc(line)]
    OBVIOUS
  <2> HIDE DEF new
  <2>2. process' = "terminated" \/ threads' = [threads EXCEPT ![1] = new]
    BY <2>1 DEF ThreadContinue, Terminate
  <2> QED
    BY <1>2, <2>2

LEMMA ThreadLeavesMain ==
  ASSUME NEW i, ThreadStep(i)
  PROVE  UNCHANGED <<code, at, pc, sent>>
BY DEF ThreadStep, ThreadQuiet, ThreadFail, ThreadOut, ThreadPush, ThreadJump, ThreadReport,
       ThreadEnd, ThreadClean, ThreadUnlock

(* A step of the thread while main does not print.                         *)
LEMMA RoundStep ==
  ASSUME IInv, NEW b \in 0..Len(code)-1, NEW e \in 0..Len(code)-1, NEW r \in 0..Len(code)-1,
         Joined(code, b, e, r), Len(threads) = 1, TheThread(threads[1], b, e), at # "gone",
         ThreadStep(1)
  PROVE  GaveUp' \/ (Len(threads') = 1 /\ TheThread(threads[1], b, e)')
<1>0. TypeOK /\ ThreadsOK
  BY DEF IInv
<1>th. PICK th : th = threads[1]
  OBVIOUS
<1>1. /\ th \in ThreadInstr /\ threads \in Seq(ThreadInstr) /\ DOMAIN threads = 1..1
      /\ th.pc \in Nat /\ th.execs \in Nat /\ th.pc <= th.size
  <2>1. threads \in Seq(ThreadInstr) /\ DOMAIN threads = 1..Len(threads)
    BY <1>0, LenProperties DEF TypeOK
  <2>2. 1 \in 1..Len(threads)
    OBVIOUS
  <2>3. th \in ThreadInstr /\ ThreadOK(th)
    BY <1>0, <1>th, <2>1, <2>2, ElementOfSeq DEF ThreadsOK
  <2> QED
    BY <2>1, <2>3, ThreadNumbers DEF ThreadOK
<1>2. /\ Len(code) \in Nat /\ WordSize \in Nat /\ 2 * Len(code) + 42 < WordSize
      /\ b < e /\ e < r /\ r < Len(code)
      /\ \A k \in b+1..e-1 :
           \/ Ins(k).op \in {"quiet", "lock", "out"}
           \/ k = e - 1 /\ Ins(k).op = "jcc" /\ Ins(k).arg = b
  BY <1>0, JoinedLines
<1>3. /\ th.success /\ th.start = b /\ th.size = e - b - 1
      /\ th.at \in {"new", "failed", "run", "push", "clean", "unlock", "done"}
      /\ th.at = "push" => Ins(b + 1 + th.pc).op = "out" /\ th.seen = Len(obuf)
      /\ th.at \in {"clean", "unlock", "done"} => th.pc = th.size
  BY <1>th DEF TheThread
<1>4. PICK n \in Nat : InRound(th, b, e, n)
  BY <1>th DEF TheThread
<1>5. code' = code /\ at' = at
  BY ThreadLeavesMain
<1>6. process' = "terminated" => GaveUp'
  BY <1>5 DEF GaveUp
<1>7. BodyIns(1) = Ins(b + 1 + th.pc)
  BY <1>3, <1>th DEF BodyIns
<1>8. ASSUME th.pc < th.size
      PROVE  /\ b + 1 + th.pc \in b+1..e-1 /\ b + 1 + th.pc \in 0..Len(code)-1
             /\ Inc(th.pc) = th.pc + 1 /\ th.pc + 1 <= th.size
  <2>1. th.size = e - b - 1 /\ th.pc < e - b - 1
    BY <1>3, <1>8
  <2>2. b + 1 + th.pc \in b+1..e-1
    BY <1>1, <2>1
  <2>3. b + 1 + th.pc \in 0..Len(code)-1
    BY <1>2, <2>2
  <2>4. th.pc + 1 # WordSize
    BY <1>1, <1>2, <2>1
  <2>5. th.pc + 1 <= th.size
    BY <1>1, <2>1
  <2> QED
    BY <2>2, <2>3, <2>4, <2>5 DEF Inc
<1>9. ASSUME ThreadContinue(1, th.pc), th.pc < th.size,
             obuf' = obuf \o TextOf(Ins(b + 1 + th.pc))
      PROVE  GaveUp' \/ (Len(threads') = 1 /\ TheThread(threads[1], b, e)')
  <2> PICK new : new = threads'[1]
    OBVIOUS
  <2>1. \/ process' = "terminated"
        \/ /\ Len(threads') = 1 /\ new.at = "run" /\ new.execs = th.execs + 1
           /\ new.pc = th.pc + 1 /\ new.start = b /\ new.size = e - b - 1 /\ new.success
    BY <1>0, <1>3, <1>8, <1>9, <1>th, ThreadGoesOn
  <2>2. ASSUME new.execs = th.execs + 1, new.pc = th.pc + 1
        PROVE  InRound(new, b, e, n)'
    <3>1. th.pc < e - b - 1
      BY <1>3, <1>9
    <3> QED
      BY <1>0, <1>1, <1>4, <1>5, <1>9, <2>2, <3>1, NextInRound
  <2>3. ASSUME InRound(new, b, e, n)'
        PROVE  \E k \in Nat : InRound(new, b, e, k)'
    BY <2>3
  <2>4. ASSUME Len(threads') = 1, new.at = "run", new.start = b, new.size = e - b - 1,
               new.success, \E k \in Nat : InRound(new, b, e, k)'
        PROVE  TheThread(threads[1], b, e)'
    BY <2>4 DEF TheThread
  <2> QED
    BY <1>6, <2>1, <2>2, <2>3, <2>4
<1>10. ASSUME NEW new, Len(threads') = 1, threads'[1] = new, obuf' = obuf,
              new.at \in {"run", "push", "clean", "unlock", "done"}, new.success,
              new.start = b, new.size = e - b - 1, new.pc = th.pc, new.execs = th.execs,
              new.at = "push" => Ins(b + 1 + th.pc).op = "out" /\ new.seen = Len(obuf),
              new.at \in {"clean", "unlock", "done"} => th.pc = th.size
       PROVE  Len(threads') = 1 /\ TheThread(threads[1], b, e)'
  <2>1. InRound(new, b, e, n)'
    BY <1>4, <1>5, <1>10 DEF InRound
  <2>2. \E k \in Nat : InRound(new, b, e, k)'
    BY <2>1
  <2>3. Ins(b + 1 + new.pc)' = Ins(b + 1 + th.pc)
    BY <1>5, <1>10 DEF Ins
  <2> QED
    BY <1>3, <1>10, <2>2, <2>3 DEF TheThread
<1>11. CASE ThreadQuiet(1)
  <2>1. /\ th.at = "run" /\ th.pc < th.size /\ BodyIns(1).op \in {"quiet", "lock", "jcc"}
        /\ ThreadContinue(1, th.pc) /\ obuf' = obuf
    BY <1>11, <1>th DEF ThreadQuiet, ThreadRuns, ThreadAt
  <2>2. obuf' = obuf \o TextOf(Ins(b + 1 + th.pc))
    <3>1. obuf \o <<>> = obuf
      BY <1>0, ConcatEmptySeq DEF TypeOK
    <3> QED
      BY <1>7, <2>1, <3>1 DEF TextOf
  <2> QED
    BY <1>9, <2>1, <2>2
<1>12. CASE ThreadPush(1)
  <2>1. /\ th.at = "push"
        /\ \/ obuf' = Pushed(obuf, th.seen, BodyIns(1).arg) /\ ThreadContinue(1, th.pc)
           \/ Raced(obuf, th.seen)
    BY <1>12, <1>th DEF ThreadPush, ThreadAt
  <2>2. th.pc < th.size
    BY <1>0, <1>th, <2>1 DEF ThreadsOK, ThreadOK
  <2>3. Ins(b + 1 + th.pc).op = "out" /\ th.seen = Len(obuf)
    BY <1>3, <2>1
  <2>4. Ins(b + 1 + th.pc).arg \in Int
    BY <1>0, <1>8, <2>2, InsType DEF Instr
  <2>5. obuf \in Seq(Int)
    BY <1>0 DEF TypeOK
  <2>6. obuf' = obuf \o TextOf(Ins(b + 1 + th.pc)) /\ ThreadContinue(1, th.pc)
    BY <1>7, <2>1, <2>3, <2>4, <2>5, PushedWhole DEF TextOf
  <2> QED
    BY <1>9, <2>2, <2>6
<1>13. CASE ThreadOut(1)
  <2> DEFINE new == [th EXCEPT !.at = "push", !.seen = Len(obuf)]
  <2>1. /\ BodyIns(1).op = "out" /\ threads' = [threads EXCEPT ![1] = new] /\ obuf' = obuf
    BY <1>13, <1>th DEF ThreadOut, ThreadRuns
  <2>2. /\ new.at = "push" /\ new.seen = Len(obuf) /\ new.pc = th.pc /\ new.execs = th.execs
        /\ new.start = th.start /\ new.size = th.size /\ new.success = th.success
    BY <1>1 DEF ThreadInstr
  <2> HIDE DEF new
  <2>3. PICK x : x = new
    OBVIOUS
  <2>4. Len(threads') = 1 /\ threads'[1] = x
    BY <1>1, <2>1, <2>3
  <2> QED
    BY <1>3, <1>7, <1>10, <2>1, <2>2, <2>3, <2>4
<1>14. CASE ThreadEnd(1) \/ ThreadClean(1) \/ ThreadUnlock(1)
  <2> DEFINE ended == [th EXCEPT !.at = "clean"]
             cleaned == [th EXCEPT !.at = "unlock", !.running = FALSE, !.started = FALSE]
             unlocked == [th EXCEPT !.at = "done", !.locked = FALSE]
  <2>1. PICK x \in {ended, cleaned, unlocked} :
          /\ threads' = [threads EXCEPT ![1] = x] /\ obuf' = obuf
          /\ th.pc >= th.size \/ th.at \in {"clean", "unlock"}
    BY <1>14, <1>th DEF ThreadEnd, ThreadClean, ThreadUnlock, ThreadAt
  <2>2. /\ x.at \in {"clean", "unlock", "done"} /\ x.pc = th.pc /\ x.execs = th.execs
        /\ x.start = th.start /\ x.size = th.size /\ x.success = th.success
    BY <1>1, <2>1 DEF ThreadInstr
  <2> HIDE DEF ended, cleaned, unlocked
  <2>3. Len(threads') = 1 /\ threads'[1] = x
    BY <1>1, <2>1
  <2>4. th.pc = th.size
    BY <1>1, <1>2, <1>3, <2>1
  <2> QED
    BY <1>3, <1>10, <2>1, <2>2, <2>3, <2>4
<1>15. CASE ThreadJump(1)
  <2>1. /\ th.at = "run" /\ th.pc < th.size
        /\ BodyIns(1).op \in {"jmp", "jcc", "barrier", "begin"} /\ obuf' = obuf
    BY <1>15, <1>th DEF ThreadJump, ThreadRuns, ThreadAt
  <2>2. /\ b + 1 + th.pc = e - 1 /\ BodyIns(1).op = "jcc" /\ BodyIns(1).arg = b
    BY <1>2, <1>7, <1>8, <2>1
  <2>3. Interrupt(BodyIns(1)) = b
    BY <2>2 DEF Interrupt
  <2>4. ThreadError(th, b) = "none" /\ Inc(Wrap(b - th.start - 1)) = 0
    BY <1>2, <1>3 DEF ThreadError, Wrap, Inc
  <2>5. ThreadContinue(1, Wrap(b - th.start - 1))
    BY <1>15, <1>th, <2>3, <2>4 DEF ThreadJump
  <2> PICK new : new = threads'[1]
    OBVIOUS
  <2>6. \/ process' = "terminated"
        \/ /\ Len(threads') = 1 /\ new.at = "run" /\ new.execs = th.execs + 1
           /\ new.pc = 0 /\ new.start = b /\ new.size = e - b - 1 /\ new.success
    BY <1>0, <1>3, <1>th, <2>4, <2>5, ThreadGoesOn
  <2>7. ASSUME new.execs = th.execs + 1, new.pc = 0
        PROVE  InRound(new, b, e, n + 1)'
    <3>1. th.pc = e - b - 2
      BY <1>1, <1>2, <2>2
    <3>2. Ins(b + 1 + th.pc).op # "out"
      BY <1>7, <2>2
    <3> QED
      BY <1>0, <1>1, <1>4, <1>5, <2>1, <2>7, <3>1, <3>2, NewRound
  <2>8. ASSUME InRound(new, b, e, n + 1)'
        PROVE  \E k \in Nat : InRound(new, b, e, k)'
    <3>1. n + 1 \in Nat
      OBVIOUS
    <3> QED
      BY <2>8, <3>1
  <2>9. ASSUME Len(threads') = 1, new.at = "run", new.start = b, new.size = e - b - 1,
               new.success, \E k \in Nat : InRound(new, b, e, k)'
        PROVE  TheThread(threads[1], b, e)'
    BY <2>9 DEF TheThread
  <2> QED
    BY <1>6, <2>6, <2>7, <2>8, <2>9
<1>16. ~ThreadFail(1) /\ ~ThreadReport(1)
  <2>1. ~ThreadReport(1)
    BY <1>3, <1>th DEF ThreadReport, ThreadAt
  <2>2. ASSUME ThreadFail(1) PROVE FALSE
    <3>1. th.pc < th.size /\ BodyIns(1).op = "fail"
      BY <1>th, <2>2 DEF ThreadFail, ThreadRuns
    <3> QED
      BY <1>2, <1>7, <1>8, <3>1
  <2> QED
    BY <2>1, <2>2
<1> QED
  BY <1>11, <1>12, <1>13, <1>14, <1>15, <1>16 DEF ThreadStep

(* A thread that is started, or only marked, has printed what it had.      *)
LEMMA SameRound ==
  ASSUME NEW b, NEW e, NEW th, NEW x, TheThread(th, b, e), UNCHANGED <<code, obuf>>,
         x.success, x.start = th.start, x.size = th.size, x.pc = th.pc, x.execs = th.execs,
         \/ x.at \in {"run", "failed"}
         \/ x.at = th.at /\ th.at # "new" /\ x.seen = th.seen
  PROVE  TheThread(x, b, e)'
<1>1. PICK n \in Nat : InRound(th, b, e, n)
  BY DEF TheThread
<1>2. InRound(x, b, e, n)'
  BY <1>1 DEF InRound
<1>3. \E k \in Nat : InRound(x, b, e, k)'
  BY <1>2
<1>4. Ins(b + 1 + x.pc)' = Ins(b + 1 + th.pc)
  BY DEF Ins
<1> QED
  BY <1>3, <1>4 DEF TheThread

(* Main starts the thread, goes on to BARRIER and waits for it there.      *)
LEMMA ForkedStep ==
  ASSUME IInv, NEW b \in 0..Len(code)-1, NEW e \in 0..Len(code)-1, NEW r \in 0..Len(code)-1,
         Joined(code, b, e, r), Forked(b, e, r), MainStep
  PROVE  GaveUp' \/ Forked(b, e, r)' \/ Finished(b, e, r)'
<1>0. TypeOK /\ StartsLast /\ BarrierProgress
  BY DEF IInv
<1>1. /\ code \in Seq(Instr) /\ Len(code) \in Nat /\ b < e /\ e < r /\ r < Len(code)
      /\ Ins(r).op = "barrier"
      /\ \A k \in e+1..r-1 : Ins(k).op = "quiet"
  BY <1>0, JoinedLines
<1>th. PICK th : th = threads[1]
  OBVIOUS
<1>2. /\ Len(threads) = 1 /\ TheThread(th, b, e)
      /\ \/ at \in {"create", "mark", "check"} /\ pc = e
         \/ at = "run" /\ pc \in e+1..r
         \/ at = "barrier" /\ pc = r
  BY <1>th DEF Forked
<1>3. th \in ThreadInstr /\ threads \in Seq(ThreadInstr) /\ DOMAIN threads = 1..1
  <2>1. threads \in Seq(ThreadInstr) /\ DOMAIN threads = 1..Len(threads)
    BY <1>0, LenProperties DEF TypeOK
  <2>2. 1 \in 1..Len(threads)
    BY <1>2
  <2> QED
    BY <1>th, <1>2, <2>1, <2>2, ElementOfSeq
<1>4. /\ th.success /\ th.start = b /\ th.size = e - b - 1
      /\ th.at = "new" => at = "create"
      /\ th.at = "done" => th.pc = th.size
  BY <1>2 DEF TheThread
<1>5. pc \in Nat /\ pc < Len(code)
  BY <1>0, <1>1, <1>2 DEF TypeOK
<1>6. ASSUME UNCHANGED <<code, obuf, threads>>, th.at # "new"
      PROVE  Len(threads') = 1 /\ TheThread(threads[1], b, e)'
  <2>1. TheThread(th, b, e)'
    BY <1>2, <1>4, <1>6, SameRound
  <2> QED
    BY <1>2, <1>6, <1>th, <2>1
<1>7. ASSUME NEW x, threads' = [threads EXCEPT ![1] = x], TheThread(x, b, e)'
      PROVE  Len(threads') = 1 /\ TheThread(threads[1], b, e)'
  <2>1. Len(threads') = 1 /\ threads'[1] = x
    BY <1>2, <1>3, <1>7
  <2> QED
    BY <1>7, <2>1
<1>8. CASE at = "create"
  <2> DEFINE begun == [th EXCEPT !.at = "run", !.locked = TRUE, !.started = TRUE]
             broken == [th EXCEPT !.at = "failed", !.locked = TRUE]
  <2>1. Create
    BY <1>8, MainMoves
  <2>2. UNCHANGED <<code, obuf, pc>> /\ at' \in {"mark", "check"}
    BY <2>1 DEF Create
  <2>3. PICK x \in {begun, broken} : threads' = [threads EXCEPT ![1] = x]
    BY <1>2, <1>th, <2>1 DEF Create, Newest
  <2>4. /\ x.at \in {"run", "failed"} /\ x.pc = th.pc /\ x.execs = th.execs
        /\ x.start = th.start /\ x.size = th.size /\ x.success = th.success
    BY <1>3, <2>3 DEF ThreadInstr
  <2> HIDE DEF begun, broken
  <2>5. TheThread(x, b, e)'
    BY <1>2, <1>4, <2>2, <2>4, SameRound
  <2>6. Len(threads') = 1 /\ TheThread(threads[1], b, e)'
    BY <1>7, <2>3, <2>5
  <2>7. pc' = e
    BY <1>2, <1>8, <2>2
  <2> QED
    BY <2>2, <2>6, <2>7 DEF Forked
<1>9. CASE at = "mark"
  <2> DEFINE x == [th EXCEPT !.running = TRUE]
  <2>1. Mark
    BY <1>9, MainMoves
  <2>2. UNCHANGED <<code, obuf, pc>> /\ at' = "check"
    BY <2>1 DEF Mark
  <2>3. threads' = [threads EXCEPT ![1] = x]
    BY <1>2, <1>th, <2>1 DEF Mark, Newest
  <2>4. /\ x.at = th.at /\ x.pc = th.pc /\ x.execs = th.execs /\ x.seen = th.seen
        /\ x.start = th.start /\ x.size = th.size /\ x.success = th.success
    BY <1>3 DEF ThreadInstr
  <2> HIDE DEF x
  <2>x. PICK y : y = x
    OBVIOUS
  <2>5. TheThread(y, b, e)'
    BY <1>2, <1>4, <1>9, <2>2, <2>4, <2>x, SameRound
  <2>6. Len(threads') = 1 /\ TheThread(threads[1], b, e)'
    BY <1>7, <2>3, <2>5, <2>x
  <2>7. pc' = e
    BY <1>2, <1>9, <2>2
  <2> QED
    BY <2>2, <2>6, <2>7 DEF Forked
<1>10. CASE at = "check"
  <2>1. Check
    BY <1>10, MainMoves
  <2>2. UNCHANGED <<code, obuf, threads>> /\ Continue(pc)
    BY <1>2, <1>4, <1>th, <2>1 DEF Check, Newest
  <2>3. Len(threads') = 1 /\ TheThread(threads[1], b, e)'
    BY <1>4, <1>6, <1>10, <2>2
  <2>4. GaveUp' \/ (at' = "run" /\ pc' = pc + 1)
    BY <1>0, <1>5, <2>2, GoesOn
  <2>5. pc + 1 \in e+1..r
    BY <1>1, <1>2, <1>10
  <2> QED
    BY <2>3, <2>4, <2>5 DEF Forked
<1>11. CASE at = "run" /\ pc < r
  <2>1. MainQuiet
    <3>1. Ins(pc).op = "quiet"
      BY <1>1, <1>2, <1>11
    <3> QED
      BY <1>0, <1>5, <1>11, <3>1, MainExecutes
  <2>2. UNCHANGED <<code, obuf, threads>> /\ Continue(pc)
    BY <2>1 DEF MainQuiet
  <2>3. Len(threads') = 1 /\ TheThread(threads[1], b, e)'
    BY <1>4, <1>6, <1>11, <2>2
  <2>4. GaveUp' \/ (at' = "run" /\ pc' = pc + 1)
    BY <1>0, <1>5, <2>2, GoesOn
  <2>5. pc + 1 \in e+1..r
    BY <1>1, <1>2, <1>11
  <2> QED
    BY <2>3, <2>4, <2>5 DEF Forked
<1>12. CASE at = "run" /\ pc = r
  <2>1. MainBarrier
    BY <1>0, <1>1, <1>5, <1>12, MainExecutes
  <2>2. UNCHANGED <<code, obuf, threads, pc>> /\ at' = "barrier"
    BY <2>1 DEF MainBarrier
  <2>3. Len(threads') = 1 /\ TheThread(threads[1], b, e)'
    BY <1>4, <1>6, <1>12, <2>2
  <2> QED
    BY <1>12, <2>2, <2>3 DEF Forked
<1>13. CASE at = "barrier" /\ AwaitThread
  <2>1. UNCHANGED <<code, obuf, threads, pc, at>>
    BY <1>13 DEF AwaitThread
  <2>2. Len(threads') = 1 /\ TheThread(threads[1], b, e)'
    BY <1>4, <1>6, <1>13, <2>1
  <2> QED
    BY <1>2, <1>13, <2>1, <2>2 DEF Forked
<1>14. CASE at = "barrier" /\ BarrierDone
  <2>1. UNCHANGED <<code, obuf, threads>> /\ Continue(pc) /\ bar > Len(threads)
    BY <1>14 DEF BarrierDone
  <2>2. th.at = "done"
    <3>1. bar \in Nat /\ 1 \in 1..bar-1
      BY <1>0, <1>2, <2>1 DEF TypeOK
    <3>2. Over(th)
      BY <1>0, <1>14, <1>th, <3>1 DEF BarrierProgress
    <3> QED
      BY <1>4, <1>14, <3>2 DEF Over
  <2>3. PICK n \in Nat : InRound(th, b, e, n)
    BY <1>2 DEF TheThread
  <2>4. /\ n + 1 \in 1..th.execs + 1 /\ th.execs = (n + 1) * (e - b - 1)
        /\ obuf = Texts(Before(code, b)) \o Rounds(n + 1, Texts(Body(code, b, e)))
    BY <1>0, <1>3, <1>4, <2>2, <2>3, RoundsMade
  <2>5. PICK m : m = n + 1
    OBVIOUS
  <2>6. obuf = Texts(Before(code, b)) \o Rounds(m, Texts(Body(code, b, e)))
                 \o Texts(SubSeq(code, r + 2, r + 1))
    <3>1. Texts(SubSeq(code, r + 2, r + 1)) = <<>>
      <4>1. SubSeq(code, r + 2, r + 1) = <<>>
        BY <1>1
      <4> QED
        BY <4>1, TextsNone
    <3>2. obuf \o <<>> = obuf
      BY <1>0, ConcatEmptySeq DEF TypeOK
    <3> QED
      BY <2>4, <2>5, <3>1, <3>2
  <2>7. ASSUME at' = "run", pc' = pc + 1
        PROVE  Finished(b, e, r)'
    <3>1. pc' = r + 1 /\ r + 1 \in r+1..Len(code)
      BY <1>1, <1>2, <1>14, <2>7
    <3>2. \E k \in 1..th.execs + 1 :
            /\ th.execs = k * (e - b - 1)
            /\ obuf' = Texts(Before(code', b)) \o Rounds(k, Texts(Body(code', b, e)))
                         \o Texts(SubSeq(code', r + 2, pc'))
      <4>1. m \in 1..th.execs + 1 /\ th.execs = m * (e - b - 1)
        BY <2>4, <2>5
      <4>2. obuf' = Texts(Before(code', b)) \o Rounds(m, Texts(Body(code', b, e)))
                      \o Texts(SubSeq(code', r + 2, pc'))
        BY <2>1, <2>6, <3>1
      <4> QED
        BY <4>1, <4>2
    <3>3. threads'[1] = th /\ Len(threads') = 1 /\ code' = code
      BY <1>2, <1>th, <2>1
    <3>4. MainPrints'
      BY <2>7 DEF MainPrints
    <3> QED
      BY <2>2, <2>7, <3>1, <3>2, <3>3, <3>4 DEF Finished
  <2> QED
    BY <1>0, <1>5, <2>1, <2>7, GoesOn
<1> QED
  <2>1. CASE at = "run"
    BY <1>1, <1>2, <1>5, <1>11, <1>12, <2>1
  <2>2. CASE at = "barrier"
    BY <1>13, <1>14, <2>2, MainMoves
  <2> QED
    BY <1>2, <1>8, <1>9, <1>10, <2>1, <2>2

(* The thread is over: main prints the lines after BARRIER and answers.    *)
LEMMA FinishedStep ==
  ASSUME IInv, NEW b \in 0..Len(code)-1, NEW e \in 0..Len(code)-1, NEW r \in 0..Len(code)-1,
         Joined(code, b, e, r), Finished(b, e, r), MainStep
  PROVE  GaveUp' \/ Finished(b, e, r)'
<1>0. TypeOK
  BY DEF IInv
<1>1. /\ code \in Seq(Instr) /\ Len(code) \in Nat /\ b < e /\ e < r /\ r < Len(code)
      /\ \A k \in r+1..Len(code)-1 : Ins(k).op \in {"quiet", "out", "barrier"}
  BY <1>0, JoinedLines
<1>2. /\ Len(threads) = 1 /\ threads[1].at = "done" /\ pc \in r+1..Len(code)
      /\ at \in {"run", "push", "barrier", "final", "reply", "out", "err", "delete",
                "gone"}
      /\ at \notin {"run", "push", "barrier"} => pc = Len(code)
      /\ MainPrints
  BY DEF Finished
<1>3. PICK n \in 1..threads[1].execs + 1 :
        /\ threads[1].execs = n * (e - b - 1)
        /\ obuf = Texts(Before(code, b)) \o Rounds(n, Texts(Body(code, b, e)))
                    \o Texts(SubSeq(code, r + 2, pc))
  BY DEF Finished
<1>4. ASSUME UNCHANGED <<code, threads>>, pc' \in r+1..Len(code),
             obuf' = Texts(Before(code, b)) \o Rounds(n, Texts(Body(code, b, e)))
                       \o Texts(SubSeq(code, r + 2, pc'))
      PROVE  \E k \in 1..threads'[1].execs + 1 :
               /\ threads'[1].execs = k * (e - b - 1)
               /\ obuf' = Texts(Before(code', b)) \o Rounds(k, Texts(Body(code', b, e)))
                            \o Texts(SubSeq(code', r + 2, pc'))
  <2>1. n \in 1..threads'[1].execs + 1 /\ threads'[1].execs = n * (e - b - 1)
    BY <1>3, <1>4
  <2>2. obuf' = Texts(Before(code', b)) \o Rounds(n, Texts(Body(code', b, e)))
                  \o Texts(SubSeq(code', r + 2, pc'))
    BY <1>4
  <2> QED
    BY <2>1, <2>2
<1>5. CASE at \in {"run", "push", "barrier"} /\ pc < Len(code)
  <2>1. Ins(pc).op \in {"quiet", "out", "barrier"}
    BY <1>1, <1>2, <1>5
  <2>2. \/ GaveUp'
        \/ /\ UNCHANGED <<code, threads, sent>> /\ MainPrints'
           /\ \/ pc' = pc /\ at' \in {"push", "barrier"} /\ obuf' = obuf
              \/ pc' = pc + 1 /\ at' = "run" /\ obuf' = obuf \o TextOf(Ins(pc))
    BY <1>0, <1>2, <1>5, <2>1, StraightStep
  <2>3. ASSUME pc' = pc, at' \in {"push", "barrier"}, obuf' = obuf,
               UNCHANGED <<code, threads, sent>>, MainPrints'
        PROVE  Finished(b, e, r)'
    <3>1. \E k \in 1..threads'[1].execs + 1 :
            /\ threads'[1].execs = k * (e - b - 1)
            /\ obuf' = Texts(Before(code', b)) \o Rounds(k, Texts(Body(code', b, e)))
                         \o Texts(SubSeq(code', r + 2, pc'))
      BY <1>2, <1>3, <1>4, <2>3
    <3> QED
      BY <1>2, <2>3, <3>1 DEF Finished
  <2>4. ASSUME pc' = pc + 1, at' = "run", obuf' = obuf \o TextOf(Ins(pc)),
               UNCHANGED <<code, threads, sent>>, MainPrints'
        PROVE  Finished(b, e, r)'
    <3> DEFINE x == Texts(Before(code, b))
               y == Rounds(n, Texts(Body(code, b, e)))
               z == Texts(SubSeq(code, r + 2, pc))
               t == TextOf(Ins(pc))
    <3>1. x \in Seq(Int) /\ y \in Seq(Int)
      <4>1. 0 \in 0..e-b-1 /\ n \in Nat
        BY <1>1, <1>3
      <4> QED
        BY <1>0, <4>1, RoundOutput
    <3>2. z \in Seq(Int) /\ Texts(SubSeq(code, r + 2, pc + 1)) = z \o t
      <4>1. r + 2 \in 1..Len(code) /\ pc \in (r + 2)-1..Len(code)-1
        BY <1>1, <1>2, <1>5
      <4> QED
        BY <1>1, <4>1, TextsNext DEF Ins
    <3>3. t \in Seq(Int)
      <4>1. pc \in 0..Len(code)-1
        BY <1>1, <1>2, <1>5
      <4> QED
        BY <1>0, <4>1, InsType, TextOfType
    <3>4. obuf' = ((x \o y) \o z) \o t
      BY <1>3, <2>4
    <3>5. ((x \o y) \o z) \o t = (x \o y) \o (z \o t)
      <4> DEFINE xy == x \o y
      <4> HIDE DEF x, y, z, t
      <4>1. xy \in Seq(Int)
        BY <3>1, ConcatProperties
      <4> HIDE DEF xy
      <4>2. (xy \o z) \o t = xy \o (z \o t)
        BY <3>2, <3>3, <4>1, JoinThree
      <4> QED
        BY <4>2 DEF xy
    <3>6. obuf' = (x \o y) \o Texts(SubSeq(code, r + 2, pc'))
      BY <2>4, <3>2, <3>4, <3>5
    <3>7. pc' \in r+1..Len(code)
      BY <1>1, <1>2, <1>5, <2>4
    <3>8. \E k \in 1..threads'[1].execs + 1 :
            /\ threads'[1].execs = k * (e - b - 1)
            /\ obuf' = Texts(Before(code', b)) \o Rounds(k, Texts(Body(code', b, e)))
                         \o Texts(SubSeq(code', r + 2, pc'))
      BY <1>4, <2>4, <3>6, <3>7
    <3> HIDE DEF x, y, z, t
    <3> QED
      BY <1>2, <2>4, <3>7, <3>8 DEF Finished
  <2> QED
    BY <2>2, <2>3, <2>4
<1>6. CASE ~(at \in {"run", "push", "barrier"} /\ pc < Len(code))
  <2>1. pc = Len(code) /\ at \in {"run", "final", "reply", "out", "err", "delete", "gone"}
    BY <1>1, <1>2, <1>6 DEF MainPrints
  <2>2. \/ MainEnd
        \/ at = "final" /\ (AwaitThread \/ FinalBarrierDone)
        \/ Replying
        \/ at = "delete" /\ Delete
    BY <1>0, <1>1, <2>1, MainMoves, MainExecutes
  <2>3. /\ UNCHANGED <<code, threads, obuf, pc>>
        /\ at' \in {"final", "reply", "out", "err", "delete", "gone"}
    <3>1. CASE MainEnd
      BY <3>1 DEF MainEnd
    <3>2. CASE at = "final" /\ (AwaitThread \/ FinalBarrierDone)
      BY <3>2 DEF AwaitThread, FinalBarrierDone
    <3>3. CASE Replying
      BY <3>3, ReplyMoves
    <3>4. CASE at = "delete" /\ Delete
      BY <3>4 DEF Delete
    <3> QED
      BY <2>2, <3>1, <3>2, <3>3, <3>4
  <2>4. \E k \in 1..threads'[1].execs + 1 :
          /\ threads'[1].execs = k * (e - b - 1)
          /\ obuf' = Texts(Before(code', b)) \o Rounds(k, Texts(Body(code', b, e)))
                       \o Texts(SubSeq(code', r + 2, pc'))
    BY <1>2, <1>3, <1>4, <2>3
  <2>5. MainPrints'
    BY <2>3 DEF MainPrints
  <2> QED
    BY <1>2, <2>1, <2>3, <2>4, <2>5 DEF Finished
<1> QED
  BY <1>5, <1>6

-----------------------------------------------------------------------------
LEMMA OrderedInit == Init => AllOrdered
<1> SUFFICES ASSUME Init, NEW b \in 0..Len(code)-1, NEW e \in 0..Len(code)-1,
                    NEW r \in 0..Len(code)-1, Joined(code, b, e, r)
             PROVE  InOrder(b, e, r)
  BY DEF AllOrdered
<1>1. code \in Seq(Instr)
  BY ProgramsAssumption DEF Init
<1>2. SubSeq(code, 1, 0) = <<>>
  BY <1>1
<1>3. b \in Nat
  BY <1>1
<1>4. pc = 0 /\ at = "run" /\ threads = <<>> /\ obuf = <<>>
  BY DEF Init
<1>5. obuf = Texts(SubSeq(code, 1, pc))
  BY <1>2, <1>4, TextsNone
<1>6. pc <= b
  BY <1>3, <1>4
<1>7. MainPrints
  BY <1>4 DEF MainPrints
<1>8. NotForked(b)
  BY <1>4, <1>5, <1>6, <1>7 DEF NotForked
<1> QED
  BY <1>8 DEF InOrder

LEMMA CodeKept == [Next]_vars => code' = code
<1>1. MainStep => code' = code
  BY ReplyMoves
     DEF MainStep, MainQuiet, MainJump, MainError, MainOut, MainPush, MainBarrier, MainEnd,
         AwaitThread, BarrierDone, FinalBarrierDone, RunThread, Create, Mark, Check, Tell,
         Catch, Caught, Replying, Delete
<1>2. ASSUME NEW i \in 1..Len(threads), ThreadStep(i) \/ UseAfterDelete(i)
      PROVE  code' = code
  BY <1>2, ThreadLeavesMain DEF UseAfterDelete
<1> QED
  BY <1>1, <1>2 DEF Next, vars

(* In every program that is Joined, main and the thread take their turns.  *)
LEMMA OrderedStep ==
  ASSUME IInv, NEW b \in 0..Len(code)-1, NEW e \in 0..Len(code)-1, NEW r \in 0..Len(code)-1,
         Joined(code, b, e, r), InOrder(b, e, r), [Next]_vars
  PROVE  InOrder(b, e, r)'
<1>1. CASE GaveUp
  BY <1>1, GaveUpStays DEF InOrder
<1>2. CASE UNCHANGED vars
  <2>1. GaveUp => GaveUp'
    BY <1>2, GaveUpStays
  <2>2. NotForked(b) => NotForked(b)'
    BY <1>2 DEF NotForked, MainPrints, vars, Ins
  <2>3. Forked(b, e, r) => Forked(b, e, r)'
    BY <1>2 DEF Forked, TheThread, InRound, vars, Ins
  <2>4. Finished(b, e, r) => Finished(b, e, r)'
    BY <1>2 DEF Finished, MainPrints, vars, Ins
  <2> QED
    BY <2>1, <2>2, <2>3, <2>4 DEF InOrder
<1>3. CASE MainStep
  BY <1>1, <1>3, NotForkedStep, ForkedStep, FinishedStep DEF InOrder
<1>4. ASSUME NEW i \in 1..Len(threads), ThreadStep(i) \/ UseAfterDelete(i)
      PROVE  InOrder(b, e, r)'
  <2>1. CASE NotForked(b)
    BY <1>4, <2>1 DEF NotForked
  <2>2. CASE Forked(b, e, r)
    <3>1. i = 1 /\ at # "gone"
      BY <1>4, <2>2 DEF Forked
    <3>2. ThreadStep(1)
      BY <1>4, <3>1 DEF UseAfterDelete
    <3>3. GaveUp' \/ (Len(threads') = 1 /\ TheThread(threads[1], b, e)')
      BY <2>2, <3>1, <3>2, RoundStep DEF Forked
    <3>4. at' = at /\ pc' = pc
      BY <3>2, ThreadLeavesMain
    <3>5. (Len(threads') = 1 /\ TheThread(threads[1], b, e)') => Forked(b, e, r)'
      BY <2>2, <3>4 DEF Forked
    <3> QED
      BY <3>3, <3>5 DEF InOrder
  <2>3. CASE Finished(b, e, r)
    <3>1. i = 1 /\ threads[1].at = "done"
      BY <1>4, <2>3 DEF Finished
    <3> QED
      BY <1>4, <3>1
         DEF ThreadStep, ThreadQuiet, ThreadFail, ThreadOut, ThreadPush, ThreadJump,
             ThreadReport, ThreadEnd, ThreadClean, ThreadUnlock, UseAfterDelete,
             ThreadRuns, ThreadAt
  <2> QED
    BY <1>1, <2>1, <2>2, <2>3 DEF InOrder
<1> QED
  BY <1>2, <1>3, <1>4 DEF Next

LEMMA AllOrderedStep == IInv /\ AllOrdered /\ [Next]_vars => AllOrdered'
<1> SUFFICES ASSUME IInv, AllOrdered, [Next]_vars PROVE AllOrdered'
  OBVIOUS
<1>1. code' = code
  BY CodeKept
<1>2. ASSUME NEW b \in 0..Len(code)-1, NEW e \in 0..Len(code)-1, NEW r \in 0..Len(code)-1,
             Joined(code, b, e, r)
      PROVE  InOrder(b, e, r)'
  <2>1. InOrder(b, e, r)
    BY <1>2 DEF AllOrdered
  <2> QED
    BY <1>2, <2>1, OrderedStep
<1> QED
  BY <1>1, <1>2 DEF AllOrdered

(* The output of a program with one thread that BARRIER joins, whatever    *)
(* its lines, is the one of the three parts executed one after the other,  *)
(* the thread's as often as it went round (Program.cpp:119-122, 153-155,   *)
(* ThreadInstr.cpp:53-56).                                                 *)
THEOREM OutputIsOrdered == Spec => []BarrierOrdersOutput
<1>1. AllOrdered /\ Replied => BarrierOrdersOutput
  <2> SUFFICES ASSUME AllOrdered, Replied, NEW b \in 0..Len(code)-1, NEW e \in 0..Len(code)-1,
                      NEW r \in 0..Len(code)-1, at = "gone", note = "none",
                      Joined(code, b, e, r)
               PROVE  \E n \in 1..threads[1].execs + 1 :
                        /\ threads[1].execs = n * (e - b - 1)
                        /\ sent.out = Texts(Before(code, b)) \o Rounds(n, Texts(Body(code, b, e)))
                                        \o Texts(After(code, r))
    BY DEF BarrierOrdersOutput
  <2>1. Finished(b, e, r)
    <3>1. InOrder(b, e, r)
      BY DEF AllOrdered
    <3> QED
      BY <3>1 DEF InOrder, GaveUp, NotForked, Forked
  <2>2. pc = Len(code) /\ sent.out = obuf
    BY <2>1 DEF Finished, Replied, Calm
  <2>3. Texts(SubSeq(code, r + 2, pc)) = Texts(After(code, r))
    BY <2>2 DEF After
  <2> QED
    BY <2>1, <2>2, <2>3 DEF Finished
<1>2. IInv /\ AllOrdered /\ [Next]_vars => AllOrdered'
  BY AllOrderedStep
<1> QED
  BY <1>1, <1>2, OrderedInit, Invariance, ReplyIsWhole, PTL DEF Spec
=============================================================================
