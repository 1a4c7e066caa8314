-------------------------- MODULE TaskQueueProofs --------------------------
(* Proofs about TaskQueue for every set of callers, threads and methods and    *)
(* any number of tasks and scans.                                              *)
EXTENDS TaskQueue, SequenceTheorems, TLAPS

-----------------------------------------------------------------------------
(* The sequence helpers.                                                       *)

\* list.insert() of a task into a list of tasks gives a list of tasks.
LEMMA PyInsertType ==
    ASSUME NEW S, NEW s \in Seq(S), NEW i \in Nat, NEW t \in S
    PROVE  PyInsert(s, i, t) \in Seq(S)
<1> DEFINE k == IF i < Len(s) THEN i + 1 ELSE Len(s) + 1
<1>1. k \in 1 .. Len(s) + 1
  BY LenProperties
<1>2. SubSeq(s, 1, k - 1) \in Seq(S)
  <2>1. \A j \in 1 .. k - 1 : s[j] \in S
    BY <1>1, ElementOfSeq, LenProperties
  <2> QED BY <2>1, <1>1, SubSeqProperties, LenProperties
<1>3. SubSeq(s, k, Len(s)) \in Seq(S)
  <2>1. \A j \in k .. Len(s) : s[j] \in S
    BY <1>1, ElementOfSeq, LenProperties
  <2> QED BY <2>1, <1>1, SubSeqProperties, LenProperties
<1>4. <<t>> \in Seq(S)
  OBVIOUS
<1>5. SubSeq(s, 1, k - 1) \o <<t>> \in Seq(S)
  BY <1>2, <1>4, ConcatProperties
<1> QED
  BY <1>3, <1>5, ConcatProperties DEF PyInsert, InsertAt

\* Taking one task out of a list of tasks leaves a list of tasks.
LEMMA RemoveAtType ==
    ASSUME NEW S, NEW s \in Seq(S), NEW i \in 1 .. Len(s)
    PROVE  RemoveAt(s, i) \in Seq(S)
<1>1. SubSeq(s, 1, i - 1) \in Seq(S)
  <2>1. \A j \in 1 .. i - 1 : s[j] \in S
    BY ElementOfSeq, LenProperties
  <2> QED BY <2>1, SubSeqProperties, LenProperties
<1>2. SubSeq(s, i + 1, Len(s)) \in Seq(S)
  <2>1. \A j \in i + 1 .. Len(s) : s[j] \in S
    BY ElementOfSeq, LenProperties
  <2> QED BY <2>1, SubSeqProperties, LenProperties
<1> QED
  BY <1>1, <1>2, ConcatProperties DEF RemoveAt

-----------------------------------------------------------------------------
(* The inductive invariant.                                                    *)

\* A caller in the middle of a method knows its task; a worker between its pop
\* and the end of _run's loop holds one, and only then.
LocalsSet ==
    /\ \A c \in Caller :
          pc[c] \in {"insert", "stopPause", "stopSignal"} => argTask[c] # NoTask
    /\ \A w \in Thread : Busy(w) => wtask[w] # NoTask

\* The only thread that may be alive is the one in TaskQueue._worker.
OneWorker == \A w \in Thread : wpc[w] # "off" => worker = w

IInv == TypeOK /\ LocalsSet /\ OneWorker

USE DEF Task, NoTask

-----------------------------------------------------------------------------
(* What the callers do.                                                        *)

\* Constructing a Task keeps the invariant.
LEMMA BeginInsertInv ==
    ASSUME IInv, NEW c \in Caller, NEW i \in Nat, BeginInsert(c, i)
    PROVE  IInv'
<1> USE TaskQueueAssumption
<1>1. ids + 1 \in Task /\ ids + 1 \in 0 .. MaxTasks
  BY DEF IInv, TypeOK, BeginInsert
<1>2. /\ UNCHANGED <<queueVars, done, scanVars, workerVars, dropped, acked>>
      /\ ids' = ids + 1
      /\ tstate' = [tstate EXCEPT ![ids + 1] = "pending"]
      /\ argTask' = [argTask EXCEPT ![c] = ids + 1]
      /\ argIndex' = [argIndex EXCEPT ![c] = i]
      /\ pc' = [pc EXCEPT ![c] = "insert"]
  BY DEF BeginInsert
<1>3. TypeOK'
  BY <1>1, <1>2 DEF IInv, TypeOK, queueVars, scanVars, workerVars, CallerPC
<1>4. LocalsSet'
  BY <1>1, <1>2 DEF IInv, TypeOK, LocalsSet, Busy, workerVars
<1>5. OneWorker'
  BY <1>2 DEF IInv, OneWorker, queueVars, workerVars
<1> QED
  BY <1>3, <1>4, <1>5 DEF IInv

\* What holds of the worker threads is not touched by a step that leaves them
\* and TaskQueue._worker alone.
LEMMA WorkersUntouched ==
    ASSUME IInv, UNCHANGED <<worker, workerVars>>
    PROVE  OneWorker' /\ \A w \in Thread : Busy(w)' => wtask'[w] # NoTask
BY DEF IInv, OneWorker, LocalsSet, Busy, workerVars

\* Adding and editing tasks.
LEMMA EditInv ==
    ASSUME IInv, NEW c \in Caller,
           \/ AppendTask(c) \/ RepeatLast(c) \/ TestFails(c) \/ DoInsert(c)
           \/ \E i \in 0 .. Len(pending) : InsertTask(c, i)
           \/ \E i \in DOMAIN pending : RemoveTask(c, i)
           \/ \E i \in DOMAIN pending, j \in 0 .. Len(pending) : MoveTask(c, i, j)
           \/ ClearTasks(c) \/ StopQueue(c) \/ MarkCancelled(c)
    PROVE  IInv'
<1> USE TaskQueueAssumption
<1>0. pending \in Seq(Task) /\ Len(pending) \in Nat /\ DOMAIN pending = 1 .. Len(pending)
  BY LenProperties DEF IInv, TypeOK
<1>1. CASE AppendTask(c)
  BY <1>0, <1>1, BeginInsertInv DEF AppendTask
<1>2. CASE RepeatLast(c)
  BY <1>0, <1>2, BeginInsertInv DEF RepeatLast
<1>3. CASE \E i \in 0 .. Len(pending) : InsertTask(c, i)
  BY <1>0, <1>3, BeginInsertInv DEF InsertTask
<1>4. CASE TestFails(c)
  <2>1. TypeOK'
    BY <1>4 DEF IInv, TypeOK, TestFails, Returns, queueVars, taskVars, scanVars,
                workerVars, auxVars, CallerPC
  <2> QED
    BY <1>4, <2>1, WorkersUntouched
       DEF IInv, TypeOK, LocalsSet, TestFails, Returns, queueVars
<1>5. CASE DoInsert(c)
  <2>1. pending' \in Seq(Task)
    BY <1>5, PyInsertType DEF IInv, TypeOK, LocalsSet, DoInsert
  <2>2. TypeOK'
    BY <1>5, <2>1 DEF IInv, TypeOK, DoInsert, CallAt, taskVars, scanVars, workerVars,
                      auxVars, CallerPC
  <2> QED
    BY <1>5, <2>2, WorkersUntouched DEF IInv, TypeOK, LocalsSet, DoInsert, CallAt
<1>6. CASE \E i \in DOMAIN pending : RemoveTask(c, i)
  <2>1. PICK i \in DOMAIN pending : RemoveTask(c, i)
    BY <1>6
  <2>2. pending' \in Seq(Task) /\ pending[i] \in Task
    BY <1>0, <2>1, RemoveAtType, ElementOfSeq DEF RemoveTask
  <2>3. TypeOK'
    BY <2>1, <2>2 DEF IInv, TypeOK, RemoveTask, taskVars, scanVars, workerVars,
                      auxVars, CallerPC
  <2> QED
    BY <2>1, <2>3, WorkersUntouched DEF IInv, TypeOK, LocalsSet, RemoveTask
<1>7. CASE \E i \in DOMAIN pending, j \in 0 .. Len(pending) : MoveTask(c, i, j)
  <2>1. PICK i \in DOMAIN pending, j \in 0 .. Len(pending) : MoveTask(c, i, j)
    BY <1>7
  <2>2. pending' \in Seq(Task)
    BY <1>0, <2>1, RemoveAtType, PyInsertType, ElementOfSeq DEF MoveTask
  <2>3. TypeOK'
    BY <2>1, <2>2 DEF IInv, TypeOK, MoveTask, taskVars, scanVars, workerVars,
                      callerVars, auxVars
  <2> QED
    BY <2>1, <2>3, WorkersUntouched DEF IInv, LocalsSet, MoveTask, callerVars
<1>8. ASSUME NEW next \in {"mark", "markStop"}, Drop(c, next)
      PROVE  IInv'
  <2>1. Range(pending) \in SUBSET Task
    BY <1>0, ElementOfSeq DEF Range
  <2>2. pending' \in Seq(Task)
    BY <1>8 DEF Drop
  <2>3. dropped' \in [Caller -> SUBSET Task] /\ pc' \in [Caller -> CallerPC]
    BY <1>8, <2>1 DEF IInv, TypeOK, Drop, CallerPC
  <2>4. TypeOK'
    BY <1>8, <2>2, <2>3 DEF IInv, TypeOK, Drop, taskVars, scanVars, workerVars, auxVars
  <2> QED
    BY <1>8, <2>4, WorkersUntouched DEF IInv, TypeOK, LocalsSet, Drop
<1>9. CASE MarkCancelled(c)
  <2>1. TypeOK'
    BY <1>9 DEF IInv, TypeOK, MarkCancelled, queueVars, scanVars, workerVars, auxVars,
                CallerPC
  <2> QED
    BY <1>9, <2>1, WorkersUntouched
       DEF IInv, TypeOK, LocalsSet, MarkCancelled, queueVars
<1> QED
  BY <1>1, <1>2, <1>3, <1>4, <1>5, <1>6, <1>7, <1>8, <1>9 DEF ClearTasks, StopQueue

\* Pausing, resuming, stopping and waiting.
LEMMA ControlInv ==
    ASSUME IInv, NEW c \in Caller,
           \/ PauseQueue(c) \/ ResumeQueue(c) \/ StopRead(c) \/ StopPause(c)
           \/ StopScans(c) \/ StopInterrupt(c)
           \/ PauseRunningTask(c) \/ ResumeRunningTask(c)
           \/ WaitQueue(c) \/ WaitReturns(c) \/ CloseQueue(c)
    PROVE  IInv'
<1> USE TaskQueueAssumption DEF IInv, taskVars, scanVars, auxVars, CallAt, Returns
<1>1. CASE PauseQueue(c)
  <2>1. TypeOK' /\ UNCHANGED <<worker, workerVars>>
    BY <1>1 DEF TypeOK, PauseQueue, workerVars, callerVars
  <2> QED
    BY <1>1, <2>1, WorkersUntouched DEF LocalsSet, PauseQueue, callerVars
<1>2. CASE ResumeQueue(c)
  <2>1. TypeOK' /\ UNCHANGED <<worker, workerVars>>
    BY <1>2 DEF TypeOK, ResumeQueue, workerVars, CallerPC
  <2> QED
    BY <1>2, <2>1, WorkersUntouched DEF TypeOK, LocalsSet, ResumeQueue
<1>3. CASE StopRead(c)
  <2>1. TypeOK' /\ UNCHANGED <<worker, workerVars>>
    BY <1>3 DEF TypeOK, StopRead, queueVars, workerVars, CallerPC
  <2> QED
    BY <1>3, <2>1, WorkersUntouched DEF TypeOK, LocalsSet, StopRead
<1>4. CASE StopPause(c)
  <2>1. TypeOK' /\ UNCHANGED <<worker, workerVars>>
    BY <1>4 DEF TypeOK, StopPause, workerVars, CallerPC
  <2> QED
    BY <1>4, <2>1, WorkersUntouched DEF TypeOK, LocalsSet, StopPause
<1>5. CASE StopScans(c)
  <2>1. TypeOK' /\ UNCHANGED <<worker, workerVars>>
    BY <1>5 DEF TypeOK, StopScans, queueVars, workerVars, CallerPC
  <2> QED
    BY <1>5, <2>1, WorkersUntouched DEF TypeOK, LocalsSet, StopScans
<1>6. CASE StopInterrupt(c)
  <2>1. TypeOK' /\ UNCHANGED <<worker, wpc, wtask>>
    BY <1>6 DEF TypeOK, StopInterrupt, queueVars, CallerPC
  <2> QED
    BY <1>6, <2>1 DEF TypeOK, LocalsSet, OneWorker, Busy, StopInterrupt
<1>7. ASSUME NEW op, NEW value \in BOOLEAN, SetScanPaused(c, op, value)
      PROVE  IInv'
  <2>1. TypeOK' /\ UNCHANGED <<worker, workerVars>>
    BY <1>7 DEF TypeOK, SetScanPaused, queueVars, workerVars, callerVars
  <2> QED
    BY <1>7, <2>1, WorkersUntouched DEF LocalsSet, SetScanPaused, callerVars
<1>8. CASE WaitQueue(c)
  <2>1. TypeOK' /\ UNCHANGED <<worker, workerVars>>
    BY <1>8 DEF TypeOK, WaitQueue, queueVars, workerVars, CallerPC
  <2> QED
    BY <1>8, <2>1, WorkersUntouched DEF TypeOK, LocalsSet, WaitQueue
<1>9. CASE WaitReturns(c)
  <2>1. TypeOK' /\ UNCHANGED <<worker, workerVars>>
    BY <1>9 DEF TypeOK, WaitReturns, queueVars, workerVars, CallerPC
  <2> QED
    BY <1>9, <2>1, WorkersUntouched DEF TypeOK, LocalsSet, WaitReturns
<1>10. CASE CloseQueue(c)
  <2>1. TypeOK' /\ UNCHANGED <<worker, workerVars>>
    BY <1>10 DEF TypeOK, CloseQueue, workerVars, callerVars
  <2> QED
    BY <1>10, <2>1, WorkersUntouched DEF LocalsSet, CloseQueue, callerVars
<1> QED
  BY <1>1, <1>2, <1>3, <1>4, <1>5, <1>6, <1>7, <1>8, <1>9, <1>10
     DEF PauseRunningTask, ResumeRunningTask

\* Starting a worker: only when the thread in _worker is not alive, so the new
\* one is again the only one.
LEMMA EnsureInv ==
    ASSUME IInv, NEW c \in Caller, EnsureWorker(c)
    PROVE  IInv'
<1> USE TaskQueueAssumption DEF IInv, Returns
<1>1. TypeOK'
  BY DEF TypeOK, EnsureWorker, StartThread, taskVars, scanVars, auxVars, workerVars,
         CallerPC, WorkerPC
<1>2. OneWorker'
  <2>1. CASE WorkerAlive
    BY <2>1 DEF OneWorker, EnsureWorker
  <2>2. CASE ~WorkerAlive
    <3>1. \A w \in Thread : wpc[w] = "off"
      BY <2>2 DEF OneWorker, WorkerAlive
    <3> QED
      BY <2>2, <3>1 DEF TypeOK, OneWorker, EnsureWorker, StartThread
  <2> QED
    BY <2>1, <2>2
<1>3. LocalsSet'
  BY DEF TypeOK, LocalsSet, Busy, EnsureWorker, StartThread
<1> QED
  BY <1>1, <1>2, <1>3

\* Every step of a caller keeps the invariant.
LEMMA CallerInv ==
    ASSUME IInv, NEW c \in Caller, CallerNext(c)
    PROVE  IInv'
<1>1. CASE \/ AppendTask(c) \/ RepeatLast(c) \/ TestFails(c) \/ DoInsert(c)
           \/ \E i \in 0 .. Len(pending) : InsertTask(c, i)
           \/ \E i \in DOMAIN pending : RemoveTask(c, i)
           \/ \E i \in DOMAIN pending, j \in 0 .. Len(pending) : MoveTask(c, i, j)
           \/ ClearTasks(c) \/ StopQueue(c) \/ MarkCancelled(c)
  BY <1>1, EditInv
<1>2. CASE EnsureWorker(c)
  BY <1>2, EnsureInv
<1>3. CASE \/ PauseQueue(c) \/ ResumeQueue(c) \/ StopRead(c) \/ StopPause(c)
           \/ StopScans(c) \/ StopInterrupt(c)
           \/ PauseRunningTask(c) \/ ResumeRunningTask(c)
           \/ WaitQueue(c) \/ WaitReturns(c) \/ CloseQueue(c)
  BY <1>3, ControlInv
<1> QED
  BY <1>1, <1>2, <1>3 DEF CallerNext

-----------------------------------------------------------------------------
(* What the worker threads do.                                                 *)

\* A thread that ends leaves the rest of the invariant alone.
LEMMA EndsInv ==
    ASSUME IInv, NEW w \in Thread, Ends(w), UNCHANGED <<worker, callerVars>>
    PROVE  /\ LocalsSet' /\ OneWorker'
           /\ wpc' \in [Thread -> WorkerPC] /\ dying' \in [Thread -> BOOLEAN]
           /\ wtask' \in [Thread -> Task \cup {NoTask}]
           /\ asyncExc' \in [Thread -> Task \cup {NoTask}]
BY DEF IInv, TypeOK, LocalsSet, OneWorker, Busy, Ends, Goto, callerVars, WorkerPC

\* A thread that is alive and moves on with its task is still the only one.
LEMMA GotoInv ==
    ASSUME IInv, NEW w \in Thread, NEW loc \in WorkerPC, Goto(w, loc), wpc[w] # "off",
           Busy(w), UNCHANGED <<worker, wtask, callerVars>>
    PROVE  LocalsSet' /\ OneWorker' /\ wpc' \in [Thread -> WorkerPC]
BY DEF IInv, TypeOK, LocalsSet, OneWorker, Busy, Goto, callerVars

\* The ordinary steps of a worker that stay inside _execute.
LEMMA ExecuteInv ==
    ASSUME IInv, NEW w \in Thread,
           \/ ExecuteStart(w) \/ ScanStart(w) \/ ScanCheck(w) \/ ScanStep(w)
           \/ BodyDone(w) \/ BodyRaises(w) \/ ExecuteExcept(w)
    PROVE  IInv'
<1> USE DEF IInv, At, taskVars, scanVars, queueVars, auxVars
<1>1. CASE ExecuteStart(w)
  <2>1. LocalsSet' /\ OneWorker' /\ wpc' \in [Thread -> WorkerPC]
    BY <1>1, GotoInv DEF ExecuteStart, Busy, WorkerPC
  <2> QED
    BY <1>1, <2>1 DEF TypeOK, ExecuteStart, callerVars
<1>2. CASE ScanStart(w)
  <2>1. LocalsSet' /\ OneWorker' /\ wpc' \in [Thread -> WorkerPC]
    BY <1>2, GotoInv DEF ScanStart, Busy, WorkerPC
  <2>2. wtask[w] \in Task
    BY <1>2 DEF ScanStart, TypeOK, LocalsSet, Busy
  <2>3. nscans[wtask[w]] + 1 \in 0 .. MaxScans
    <3>1. nscans[wtask[w]] \in 0 .. MaxScans
      BY <2>2 DEF TypeOK
    <3>2. nscans[wtask[w]] < MaxScans
      BY <1>2 DEF ScanStart
    <3> HIDE DEF IInv, At
    <3> QED
      BY ONLY <3>1, <3>2, TaskQueueAssumption
  <2>4. nscans' \in [Task -> 0 .. MaxScans] /\ scanPaused' \in [Task -> BOOLEAN]
    BY <1>2, <2>2, <2>3 DEF ScanStart, TypeOK
  <2> QED
    BY <1>2, <2>1, <2>4 DEF TypeOK, ScanStart, callerVars
<1>3. CASE ScanCheck(w)
  <2>1. LocalsSet' /\ OneWorker' /\ wpc' \in [Thread -> WorkerPC]
    BY <1>3, GotoInv DEF ScanCheck, Busy, WorkerPC
  <2> QED
    BY <1>3, <2>1 DEF TypeOK, ScanCheck, callerVars
<1>4. CASE ScanStep(w)
  <2>1. LocalsSet' /\ OneWorker' /\ wpc' \in [Thread -> WorkerPC]
    BY <1>4, GotoInv DEF ScanStep, Busy, WorkerPC
  <2> QED
    BY <1>4, <2>1 DEF TypeOK, ScanStep, callerVars
<1>5. CASE BodyDone(w)
  <2>1. LocalsSet' /\ OneWorker' /\ wpc' \in [Thread -> WorkerPC]
    BY <1>5, GotoInv DEF BodyDone, Busy, WorkerPC
  <2> QED
    BY <1>5, <2>1 DEF TypeOK, BodyDone, callerVars
<1>6. CASE BodyRaises(w)
  <2>1. LocalsSet' /\ OneWorker' /\ wpc' \in [Thread -> WorkerPC]
    BY <1>6, GotoInv DEF BodyRaises, Busy, WorkerPC
  <2> QED
    BY <1>6, <2>1 DEF TypeOK, BodyRaises, callerVars
<1>7. CASE ExecuteExcept(w)
  <2>1. LocalsSet' /\ OneWorker' /\ wpc' \in [Thread -> WorkerPC]
    BY <1>7, GotoInv DEF ExecuteExcept, Busy, WorkerPC
  <2> QED
    BY <1>7, <2>1 DEF TypeOK, ExecuteExcept, callerVars
<1> QED
  BY <1>1, <1>2, <1>3, <1>4, <1>5, <1>6, <1>7

\* The ends of _execute and of _run's loop.
LEMMA RunInv ==
    ASSUME IInv, NEW w \in Thread,
           RunPop(w) \/ RunReturn(w) \/ ExecuteFinally(w) \/ RunFinish(w)
    PROVE  IInv'
<1> USE DEF IInv, At, taskVars, scanVars, queueVars, auxVars
<1>1. CASE RunPop(w)
  <2>1. Head(pending) \in Task /\ Tail(pending) \in Seq(Task)
    BY <1>1, HeadTailProperties DEF RunPop, TypeOK
  <2>2. TypeOK'
    BY <1>1, <2>1 DEF TypeOK, RunPop, Goto, callerVars, WorkerPC
  <2>3. LocalsSet'
    BY <1>1, <2>1 DEF TypeOK, LocalsSet, Busy, RunPop, Goto, callerVars
  <2>4. OneWorker'
    BY <1>1 DEF TypeOK, OneWorker, RunPop, Goto
  <2> QED
    BY <2>2, <2>3, <2>4
<1>2. CASE RunReturn(w)
  BY <1>2, EndsInv DEF TypeOK, RunReturn, callerVars
<1>3. CASE ExecuteFinally(w)
  <2>1. done' \in SUBSET Task
    BY <1>3 DEF TypeOK, LocalsSet, Busy, ExecuteFinally
  <2>2. CASE dying[w]
    BY <1>3, <2>1, <2>2, EndsInv DEF TypeOK, ExecuteFinally, callerVars
  <2>3. CASE ~dying[w]
    <3>1. LocalsSet' /\ OneWorker' /\ wpc' \in [Thread -> WorkerPC]
      BY <1>3, <2>3, GotoInv DEF ExecuteFinally, Busy, WorkerPC
    <3> QED
      BY <1>3, <2>1, <2>3, <3>1 DEF TypeOK, ExecuteFinally, callerVars
  <2> QED
    BY <2>2, <2>3
<1>4. CASE RunFinish(w)
  <2>1. wtask[w] \in Task
    BY <1>4 DEF TypeOK, LocalsSet, Busy, RunFinish
  <2>2. history' \in Seq(Task)
    BY <1>4, <2>1, AppendProperties DEF TypeOK, RunFinish, Record
  <2>3. paused' \in BOOLEAN
    BY <1>4 DEF TypeOK, RunFinish, PausedAfter
  <2>4. TypeOK'
    BY <1>4, <2>2, <2>3 DEF TypeOK, RunFinish, Record, Goto, callerVars, WorkerPC
  <2> QED
    BY <1>4, <2>4 DEF TypeOK, LocalsSet, OneWorker, Busy, RunFinish, Goto, callerVars
<1> QED
  BY <1>1, <1>2, <1>3, <1>4

\* A KeyboardInterrupt that arrives, wherever it hits the worker.
LEMMA InterruptInv ==
    ASSUME IInv, NEW w \in Thread, Interrupt(w)
    PROVE  IInv'
<1> USE DEF IInv, Hit, taskVars, scanVars, queueVars, auxVars
<1>1. CASE InterruptBody(w)
  <2>1. LocalsSet' /\ OneWorker' /\ wpc' \in [Thread -> WorkerPC]
    BY <1>1, GotoInv DEF InterruptBody, Catch, Busy, WorkerPC
  <2> QED
    BY <1>1, <2>1 DEF TypeOK, InterruptBody, Catch, callerVars
<1>2. CASE InterruptScan(w)
  <2>1. LocalsSet' /\ OneWorker' /\ wpc' \in [Thread -> WorkerPC]
    BY <1>2, GotoInv DEF InterruptScan, Catch, Busy, WorkerPC
  <2> QED
    BY <1>2, <2>1 DEF TypeOK, InterruptScan, Catch, callerVars
<1>3. CASE InterruptWait(w)
  <2>1. pending' \in Seq(Task)
    <3>1. pending # << >> => Tail(pending) \in Seq(Task)
      BY HeadTailProperties DEF TypeOK
    <3>2. pending' = pending \/ (pending # << >> /\ pending' = Tail(pending))
      BY <1>3 DEF InterruptWait
    <3> QED
      BY <3>1, <3>2 DEF TypeOK
  <2> QED
    BY <1>3, <2>1, EndsInv DEF TypeOK, InterruptWait, callerVars
<1>4. CASE InterruptStart(w)
  <2>1. tstate' \in [Task -> {"new", "pending", "running", "done", "error", "cancelled"}]
    BY <1>4 DEF TypeOK, InterruptStart
  <2> QED
    BY <1>4, <2>1, EndsInv DEF TypeOK, InterruptStart, callerVars
<1>5. CASE InterruptExcept(w)
  <2>1. LocalsSet' /\ OneWorker' /\ wpc' \in [Thread -> WorkerPC]
    BY <1>5, GotoInv DEF InterruptExcept, Catch, Busy, WorkerPC
  <2> QED
    BY <1>5, <2>1 DEF TypeOK, InterruptExcept, Catch, callerVars
<1>6. CASE InterruptFinally(w)
  BY <1>6, EndsInv DEF TypeOK, InterruptFinally, callerVars
<1>7. CASE InterruptFinish(w)
  <2>1. wtask[w] \in Task
    BY <1>7 DEF TypeOK, LocalsSet, Busy, InterruptFinish
  <2>2. history' \in Seq(Task) /\ current' \in Task \cup {NoTask}
    <3>1. CASE UNCHANGED <<current, history>>
      BY <3>1 DEF TypeOK
    <3>2. CASE Record(w)
      BY <2>1, <3>2, AppendProperties DEF TypeOK, Record
    <3> QED
      BY <1>7, <3>1, <3>2 DEF InterruptFinish
  <2> QED
    BY <1>7, <2>2, EndsInv DEF TypeOK, InterruptFinish, callerVars
<1> QED
  BY <1>1, <1>2, <1>3, <1>4, <1>5, <1>6, <1>7 DEF Interrupt

-----------------------------------------------------------------------------
(* The theorems.                                                               *)

\* The empty queue satisfies the invariant.
LEMMA InitInv == Init => IInv
<1> SUFFICES ASSUME Init PROVE IInv
  OBVIOUS
<1>1. TypeOK
  <2>1. 0 \in 0 .. MaxTasks /\ 0 \in 0 .. MaxScans
    BY TaskQueueAssumption
  <2>2. pending \in Seq(Task) /\ history \in Seq(Task)
    BY EmptySeq DEF Init
  <2>3. wpc \in [Thread -> WorkerPC] /\ pc \in [Caller -> CallerPC]
    BY DEF Init, WorkerPC, CallerPC
  <2> QED
    BY <2>1, <2>2, <2>3 DEF Init, TypeOK
<1>2. LocalsSet /\ OneWorker
  BY DEF Init, LocalsSet, OneWorker, Busy
<1> QED
  BY <1>1, <1>2 DEF IInv

\* Every step of a caller, a worker or an interrupt keeps it.
LEMMA NextInv == IInv /\ [Next]_vars => IInv'
<1> SUFFICES ASSUME IInv, [Next]_vars PROVE IInv'
  OBVIOUS
<1>1. CASE \E c \in Caller : CallerNext(c)
  BY <1>1, CallerInv
<1>2. CASE \E w \in Thread : WorkerStep(w)
  BY <1>2, ExecuteInv, RunInv DEF WorkerStep
<1>3. CASE \E w \in Thread : Interrupt(w)
  BY <1>3, InterruptInv
<1>4. CASE UNCHANGED vars
  BY <1>4 DEF IInv, TypeOK, LocalsSet, OneWorker, Busy, vars, queueVars, taskVars,
              scanVars, workerVars, callerVars, auxVars
<1> QED
  BY <1>1, <1>2, <1>3, <1>4 DEF Next

\* The invariant holds of every reachable state, for every set of callers and
\* threads: the facts all other theorems about the queue start from.
THEOREM Invariance == Spec => []IInv
<1>1. Init => IInv
  BY InitInv
<1>2. IInv /\ [Next]_vars => IInv'
  BY NextInv
<1> QED
  BY <1>1, <1>2, PTL DEF Spec

\* The queue, its tasks, its worker threads and the calls in progress always
\* have the values their types allow.
THEOREM TypeCorrect == Spec => []TypeOK
<1>1. IInv => TypeOK
  BY DEF IInv
<1> QED
  BY <1>1, Invariance, PTL

\* Whatever calls and interrupts overlap, two worker threads never run tasks at
\* the same time: _ensure_worker starts one only when the last one has ended.
THEOREM NeverTwoTasks == Spec => []OneTaskAtATime
<1>1. IInv => OneTaskAtATime
  BY DEF IInv, OneWorker, OneTaskAtATime, Busy
<1> QED
  BY <1>1, Invariance, PTL

-----------------------------------------------------------------------------
(* A failure holds the queue.  This needs that nothing kills the worker between *)
(* the failure and the locked block that pauses the queue, so the callers do    *)
(* not use the two methods that interrupt it.                                   *)

NoInterrupts == Ops \cap {"stop_running_task", "stop"} = {}

\* Nobody is inside stop(), no KeyboardInterrupt is on its way.
Quiet ==
    /\ \A c \in Caller : pc[c] \notin {"markStop", "stopRead", "stopPause", "stopSignal"}
    /\ \A w \in Thread : asyncExc[w] = NoTask /\ ~dying[w]

\* A worker holds t at one of these places.
HeldAt(t, locs) == \E w \in Thread : wpc[w] \in locs /\ wtask[w] = t

\* A failed task has reported, or is about to; until resume() was called after
\* its report, the queue is paused or the worker is about to pause it.
FailInv ==
    \A t \in Failed :
        /\ t \in done \/ HeldAt(t, {"finally"})
        /\ t \in acked \/ paused \/ HeldAt(t, {"finally", "finish"})

FInv == IInv /\ Quiet /\ FailInv

\* A step that adds no failure, forgets nothing and leaves a worker in its last
\* two places alone keeps FailInv.
LEMMA FailKept ==
    ASSUME FailInv, Failed' \subseteq Failed, done \subseteq done',
           acked \subseteq acked', paused => paused',
           \A w \in Thread : wpc[w] \in {"finally", "finish"} =>
               wpc'[w] = wpc[w] /\ wtask'[w] = wtask[w]
    PROVE  FailInv'
BY DEF FailInv, HeldAt

\* As long as no caller uses stop() or stop_running_task(), none is inside one.
LEMMA CallerQuiet ==
    ASSUME NoInterrupts, IInv, Quiet, NEW c \in Caller, CallerNext(c)
    PROVE  Quiet'
<1> USE DEF IInv, TypeOK, Quiet
<1>1. CASE AppendTask(c) \/ RepeatLast(c) \/ \E i \in 0 .. Len(pending) : InsertTask(c, i)
  BY <1>1 DEF AppendTask, RepeatLast, InsertTask, BeginInsert, workerVars
<1>2. CASE TestFails(c) \/ DoInsert(c) \/ EnsureWorker(c)
  BY <1>2 DEF TestFails, DoInsert, EnsureWorker, Returns, CallAt, workerVars
<1>3. CASE \E i \in DOMAIN pending : RemoveTask(c, i)
  BY <1>3 DEF RemoveTask, workerVars
<1>4. CASE \E i \in DOMAIN pending, j \in 0 .. Len(pending) : MoveTask(c, i, j)
  BY <1>4 DEF MoveTask, workerVars, callerVars
<1>5. CASE ClearTasks(c) \/ MarkCancelled(c)
  BY <1>5 DEF ClearTasks, Drop, MarkCancelled, workerVars
<1>6. CASE StopQueue(c) \/ StopRead(c) \/ StopPause(c) \/ StopScans(c) \/ StopInterrupt(c)
  BY <1>6 DEF NoInterrupts, StopQueue, StopRead, StopPause, StopScans, StopInterrupt, Calls
<1>7. CASE PauseQueue(c) \/ ResumeQueue(c) \/ WaitQueue(c) \/ WaitReturns(c) \/ CloseQueue(c)
  BY <1>7 DEF PauseQueue, ResumeQueue, WaitQueue, WaitReturns, CloseQueue, Returns,
              CallAt, workerVars, callerVars
<1>8. CASE PauseRunningTask(c) \/ ResumeRunningTask(c)
  BY <1>8 DEF PauseRunningTask, ResumeRunningTask, SetScanPaused, workerVars, callerVars
<1> QED
  BY <1>1, <1>2, <1>3, <1>4, <1>5, <1>6, <1>7, <1>8 DEF CallerNext

\* What a caller does keeps the account of the failures: only resume() lifts the
\* pause, and it acknowledges what has been reported.
LEMMA CallerFail ==
    ASSUME FInv, NEW c \in Caller, CallerNext(c)
    PROVE  FailInv'
<1> USE DEF FInv, IInv
<1>1. CASE AppendTask(c) \/ RepeatLast(c) \/ \E i \in 0 .. Len(pending) : InsertTask(c, i)
  <2>1. PICK i : BeginInsert(c, i)
    BY <1>1 DEF AppendTask, RepeatLast, InsertTask
  <2>2. Failed' \subseteq Failed
    BY <2>1 DEF TypeOK, BeginInsert, Failed
  <2> QED
    BY <2>1, <2>2, FailKept DEF BeginInsert, queueVars, workerVars
<1>2. CASE MarkCancelled(c)
  <2>1. Failed' \subseteq Failed
    BY <1>2 DEF TypeOK, MarkCancelled, Failed
  <2> QED
    BY <1>2, <2>1, FailKept DEF MarkCancelled, queueVars, workerVars, auxVars
<1>3. CASE EnsureWorker(c)
  <2>1. \A w \in Thread : wpc[w] \in {"finally", "finish"} =>
            wpc'[w] = wpc[w] /\ wtask'[w] = wtask[w]
    BY <1>3 DEF TypeOK, EnsureWorker, StartThread
  <2>2. Failed' = Failed
    BY <1>3 DEF EnsureWorker, taskVars, Failed
  <2> QED
    BY <1>3, <2>1, <2>2, FailKept DEF EnsureWorker, taskVars, auxVars
<1>4. CASE ResumeQueue(c)
  BY <1>4 DEF FailInv, HeldAt, ResumeQueue, taskVars, workerVars, Failed
<1>5. CASE \/ TestFails(c) \/ DoInsert(c)
           \/ \E i \in DOMAIN pending : RemoveTask(c, i)
           \/ \E i \in DOMAIN pending, j \in 0 .. Len(pending) : MoveTask(c, i, j)
           \/ ClearTasks(c) \/ StopQueue(c)
  <2>1. UNCHANGED <<tstate, done, acked, paused, wpc, wtask>>
    BY <1>5 DEF TestFails, DoInsert, RemoveTask, MoveTask, ClearTasks, StopQueue, Drop,
                queueVars, taskVars, workerVars, auxVars
  <2> QED
    BY <2>1, FailKept DEF Failed
<1>6. CASE \/ PauseQueue(c) \/ StopRead(c) \/ StopPause(c) \/ StopScans(c)
           \/ StopInterrupt(c) \/ PauseRunningTask(c) \/ ResumeRunningTask(c)
           \/ WaitQueue(c) \/ WaitReturns(c) \/ CloseQueue(c)
  <2>1. UNCHANGED <<tstate, done, acked, wpc, wtask>> /\ (paused => paused')
    BY <1>6 DEF PauseQueue, StopRead, StopPause, StopScans, StopInterrupt,
                PauseRunningTask, ResumeRunningTask, SetScanPaused, WaitQueue,
                WaitReturns, CloseQueue, queueVars, taskVars, workerVars, auxVars
  <2> QED
    BY <2>1, FailKept DEF Failed
<1> QED
  BY <1>1, <1>2, <1>3, <1>4, <1>5, <1>6 DEF CallerNext

\* What the worker does keeps it: a failed task is in its hands until the block
\* that ends the task has paused the queue.
LEMMA WorkerFail ==
    ASSUME OnError = "pause", FInv, NEW w \in Thread, WorkerStep(w)
    PROVE  Quiet' /\ FailInv'
<1> USE DEF FInv, IInv, At, Goto
<1>1. CASE RunPop(w) \/ RunReturn(w)
  <2>1. Quiet'
    BY <1>1 DEF TypeOK, Quiet, RunPop, RunReturn, Ends, callerVars
  <2>2. /\ UNCHANGED <<tstate, done, acked, paused>>
        /\ \A v \in Thread : wpc[v] \in {"finally", "finish"} =>
               wpc'[v] = wpc[v] /\ wtask'[v] = wtask[v]
    BY <1>1 DEF TypeOK, RunPop, RunReturn, Ends, taskVars, auxVars, queueVars
  <2> QED
    BY <2>1, <2>2, FailKept DEF Failed
<1>2. CASE ExecuteStart(w) \/ BodyDone(w)
  <2>1. Quiet'
    BY <1>2 DEF Quiet, ExecuteStart, BodyDone, callerVars
  <2>2. Failed' \subseteq Failed
    BY <1>2 DEF TypeOK, ExecuteStart, BodyDone, Failed
  <2>3. /\ UNCHANGED <<done, acked, paused>>
        /\ \A v \in Thread : wpc[v] \in {"finally", "finish"} =>
               wpc'[v] = wpc[v] /\ wtask'[v] = wtask[v]
    BY <1>2 DEF TypeOK, ExecuteStart, BodyDone, auxVars, queueVars
  <2> QED
    BY <2>1, <2>2, <2>3, FailKept
<1>3. CASE ScanStart(w) \/ ScanCheck(w) \/ ScanStep(w) \/ BodyRaises(w)
  <2>1. Quiet'
    BY <1>3 DEF Quiet, ScanStart, ScanCheck, ScanStep, BodyRaises, callerVars
  <2>2. /\ UNCHANGED <<tstate, done, acked, paused>>
        /\ \A v \in Thread : wpc[v] \in {"finally", "finish"} =>
               wpc'[v] = wpc[v] /\ wtask'[v] = wtask[v]
    BY <1>3 DEF TypeOK, ScanStart, ScanCheck, ScanStep, BodyRaises, taskVars, auxVars,
                queueVars
  <2> QED
    BY <2>1, <2>2, FailKept DEF Failed
<1>4. CASE ExecuteExcept(w)
  <2>1. Quiet'
    BY <1>4 DEF Quiet, ExecuteExcept, callerVars
  <2>2. wtask[w] \in Task /\ wtask' = wtask /\ wpc'[w] = "finally"
    BY <1>4 DEF TypeOK, LocalsSet, Busy, ExecuteExcept
  <2>3. Failed' = Failed \cup {wtask[w]}
    BY <1>4, <2>2 DEF TypeOK, ExecuteExcept, Failed
  <2>4. /\ UNCHANGED <<done, acked, paused>>
        /\ \A v \in Thread : wpc[v] \in {"finally", "finish"} => wpc'[v] = wpc[v]
    BY <1>4 DEF TypeOK, ExecuteExcept, auxVars, queueVars
  <2> QED
    BY <2>1, <2>2, <2>3, <2>4 DEF FailInv, HeldAt
<1>5. CASE ExecuteFinally(w)
  <2>1. /\ wpc' = [wpc EXCEPT ![w] = "finish"]
        /\ UNCHANGED <<wtask, dying, asyncExc, tstate, paused, acked, callerVars>>
        /\ done' = done \cup {wtask[w]}
    BY <1>5 DEF Quiet, ExecuteFinally, queueVars, auxVars
  <2>2. Quiet'
    BY <2>1 DEF Quiet, callerVars
  <2>3. \A v \in Thread : wpc[v] \in {"finally", "finish"} =>
            wpc'[v] \in {"finally", "finish"} /\ (wpc'[v] # "finally" => wtask[v] \in done' \/ wpc[v] = "finish")
    BY <1>5, <2>1 DEF TypeOK, ExecuteFinally
  <2> QED
    BY <2>1, <2>2, <2>3 DEF FailInv, HeldAt, Failed
<1>6. CASE RunFinish(w)
  <2>1. Quiet'
    BY <1>6 DEF Quiet, RunFinish, callerVars
  <2>2. /\ UNCHANGED <<tstate, done, acked>>
        /\ paused => paused'
        /\ tstate[wtask[w]] = "error" => paused'
        /\ wpc[w] = "finish"
        /\ \A v \in Thread : v # w => wpc'[v] = wpc[v] /\ wtask'[v] = wtask[v]
    BY <1>6 DEF TypeOK, RunFinish, PausedAfter, taskVars, auxVars
  <2> QED
    BY <2>1, <2>2 DEF FailInv, HeldAt, Failed
<1> QED
  BY <1>1, <1>2, <1>3, <1>4, <1>5, <1>6 DEF WorkerStep

\* Every step keeps it.
LEMMA FailNext ==
    ASSUME NoInterrupts, OnError = "pause"
    PROVE  FInv /\ [Next]_vars => FInv'
<1> SUFFICES ASSUME FInv, [Next]_vars PROVE FInv'
  OBVIOUS
<1>0. IInv'
  BY NextInv DEF FInv
<1>1. CASE \E c \in Caller : CallerNext(c)
  BY <1>0, <1>1, CallerQuiet, CallerFail DEF FInv
<1>2. CASE \E w \in Thread : WorkerStep(w)
  BY <1>0, <1>2, WorkerFail DEF FInv
<1>3. CASE \E w \in Thread : Interrupt(w)
  BY <1>3 DEF FInv, Quiet, Interrupt, InterruptBody, InterruptScan, InterruptWait,
              InterruptStart, InterruptExcept, InterruptFinally, InterruptFinish, Hit
<1>4. CASE UNCHANGED vars
  BY <1>0, <1>4 DEF FInv, Quiet, FailInv, HeldAt, Failed, vars, queueVars, taskVars,
              workerVars, callerVars, auxVars
<1> QED
  BY <1>1, <1>2, <1>3, <1>4 DEF Next

\* With on_error = "pause", no task starts on top of a failed one until somebody
\* who could see the failure called resume() -- for any callers and any number of
\* tasks, as long as nobody interrupts the worker.
THEOREM FailurePauses ==
    ASSUME NoInterrupts, OnError = "pause"
    PROVE  Spec => FailureHolds
<1>1. Init => FInv
  BY InitInv DEF Init, FInv, Quiet, FailInv, Failed
<1>2. FInv /\ [Next]_vars => FInv'
  BY FailNext
<1>3. FInv /\ [Next]_vars => [\A w \in Thread : RunPop(w) => Failed \subseteq acked]_vars
  <2> SUFFICES ASSUME FInv, NEW w \in Thread, RunPop(w) PROVE Failed \subseteq acked
    OBVIOUS
  <2>1. \A v \in Thread : wpc[v] # "off" => v = w
    BY DEF FInv, IInv, OneWorker, RunPop, At
  <2> QED
    BY <2>1 DEF FInv, FailInv, HeldAt, RunPop, At
<1> QED
  BY <1>1, <1>2, <1>3, PTL DEF Spec, FailureHolds

-----------------------------------------------------------------------------
(* Every task is in one place.  The proof follows a task from list to list, so  *)
(* it needs what editing does to the set of tasks in a list.                    *)

\* list.insert() adds a task to a list that does not have it, and makes no double.
LEMMA PyInsertRange ==
    ASSUME NEW S, NEW s \in Seq(S), NEW i \in Nat, NEW t \in S,
           IsInjective(s), t \notin Range(s)
    PROVE  /\ Range(PyInsert(s, i, t)) = Range(s) \cup {t}
           /\ IsInjective(PyInsert(s, i, t))
<1> DEFINE k == IF i < Len(s) THEN i + 1 ELSE Len(s) + 1
           r == PyInsert(s, i, t)
           a == SubSeq(s, 1, k - 1)
           b == SubSeq(s, k, Len(s))
<1>1. k \in 1 .. Len(s) + 1 /\ Len(s) \in Nat /\ DOMAIN s = 1 .. Len(s)
  BY LenProperties
<1>2. \A j \in 1 .. Len(s) : s[j] \in S
  BY ElementOfSeq
<1>3. r = (a \o <<t>>) \o b
  BY DEF PyInsert, InsertAt
<1> HIDE DEF k, r
<1>4. /\ a \in Seq(S) /\ Len(a) = k - 1
      /\ \A j \in 1 .. k - 1 : a[j] = s[j]
  BY <1>1, <1>2, SubSeqProperties
<1>5. /\ b \in Seq(S) /\ Len(b) = Len(s) - k + 1
      /\ \A j \in 1 .. Len(s) - k + 1 : b[j] = s[k + j - 1]
  BY <1>1, <1>2, SubSeqProperties
<1>6. <<t>> \in Seq(S) /\ Len(<<t>>) = 1 /\ <<t>>[1] = t
  OBVIOUS
<1> HIDE DEF a, b
<1>7. /\ a \o <<t>> \in Seq(S) /\ Len(a \o <<t>>) = k
      /\ \A j \in 1 .. k - 1 : (a \o <<t>>)[j] = s[j]
      /\ (a \o <<t>>)[k] = t
  BY <1>1, <1>4, <1>6, ConcatProperties
<1>8. /\ DOMAIN r = 1 .. Len(s) + 1
      /\ \A j \in 1 .. k - 1 : r[j] = s[j]
      /\ r[k] = t
      /\ \A j \in k + 1 .. Len(s) + 1 : r[j] = s[j - 1]
  <2>1. /\ r \in Seq(S) /\ Len(r) = Len(s) + 1
        /\ \A j \in 1 .. Len(r) : r[j] = IF j <= k THEN (a \o <<t>>)[j] ELSE b[j - k]
    <3> DEFINE h == a \o <<t>>
    <3>1. h \in Seq(S) /\ b \in Seq(S) /\ r = h \o b /\ Len(h) = k
      BY <1>3, <1>5, <1>7
    <3> HIDE DEF h
    <3>2. r \in Seq(S) /\ Len(r) = Len(h) + Len(b)
      BY <3>1, ConcatProperties
    <3>3. \A j \in 1 .. Len(h) + Len(b) : r[j] = IF j <= Len(h) THEN h[j] ELSE b[j - Len(h)]
      BY <3>1, ConcatProperties
    <3>4. Len(h) + Len(b) = Len(s) + 1
      BY <1>1, <1>5, <3>1
    <3> QED BY <3>1, <3>2, <3>3, <3>4 DEF h
  <2>2. \A j \in k + 1 .. Len(s) + 1 : b[j - k] = s[j - 1]
    <3> SUFFICES ASSUME NEW j \in k + 1 .. Len(s) + 1 PROVE b[j - k] = s[j - 1]
      OBVIOUS
    <3>1. j - k \in 1 .. Len(s) - k + 1 /\ k + (j - k) - 1 = j - 1
      BY <1>1
    <3> QED BY <1>5, <3>1
  <2>3. DOMAIN r = 1 .. Len(s) + 1
    BY <2>1, LenProperties
  <2>4. \A j \in 1 .. k - 1 : r[j] = s[j]
    <3>1. \A j \in 1 .. k - 1 : j \in 1 .. Len(s) + 1 /\ j <= k
      BY <1>1
    <3> QED BY <1>7, <2>1, <3>1
  <2>5. r[k] = t
    BY <1>1, <1>7, <2>1
  <2>6. \A j \in k + 1 .. Len(s) + 1 : r[j] = s[j - 1]
    BY <1>1, <2>1, <2>2
  <2> QED BY <2>3, <2>4, <2>5, <2>6
<1>9. Range(r) = Range(s) \cup {t}
  <2>1. ASSUME NEW j \in DOMAIN r PROVE r[j] \in Range(s) \cup {t}
    <3>1. j \in 1 .. k - 1 \/ j = k \/ j \in k + 1 .. Len(s) + 1
      BY <1>1, <1>8
    <3> QED BY <1>1, <1>8, <3>1 DEF Range
  <2>2. ASSUME NEW j \in DOMAIN s PROVE s[j] \in Range(r)
    <3>1. CASE j < k
      BY <1>1, <1>8, <3>1 DEF Range
    <3>2. CASE j >= k
      <4>1. j + 1 \in k + 1 .. Len(s) + 1 /\ (j + 1) - 1 = j
        BY <1>1, <3>2
      <4> QED BY <1>1, <1>8, <4>1 DEF Range
    <3> QED BY <1>1, <3>1, <3>2
  <2>3. t \in Range(r)
    BY <1>1, <1>8 DEF Range
  <2> QED BY <2>1, <2>2, <2>3 DEF Range
<1>10. IsInjective(r)
  <2> SUFFICES ASSUME NEW x \in DOMAIN r, NEW y \in DOMAIN r, r[x] = r[y]
               PROVE  x = y
    BY DEF IsInjective
  <2> DEFINE At0(j) == IF j < k THEN j ELSE j - 1
  <2>1. \A j \in DOMAIN r : j # k => At0(j) \in DOMAIN s /\ r[j] = s[At0(j)]
    BY <1>1, <1>8
  <2>2. \A j \in DOMAIN r : r[j] = t => j = k
    BY <2>1 DEF Range
  <2> QED BY <1>1, <1>8, <2>1, <2>2 DEF IsInjective
<1> QED BY <1>9, <1>10 DEF r

\* Taking a task out of a list leaves the others, each once if it was once.
LEMMA RemoveAtRange ==
    ASSUME NEW S, NEW s \in Seq(S), NEW i \in 1 .. Len(s), IsInjective(s)
    PROVE  /\ Range(RemoveAt(s, i)) = Range(s) \ {s[i]}
           /\ IsInjective(RemoveAt(s, i))
<1> DEFINE r == RemoveAt(s, i)
           a == SubSeq(s, 1, i - 1)
           b == SubSeq(s, i + 1, Len(s))
<1>1. Len(s) \in Nat /\ DOMAIN s = 1 .. Len(s)
  BY LenProperties
<1>2. \A j \in 1 .. Len(s) : s[j] \in S
  BY ElementOfSeq
<1>3. /\ a \in Seq(S) /\ Len(a) = i - 1
      /\ \A j \in 1 .. i - 1 : a[j] = s[j]
  BY <1>1, <1>2, SubSeqProperties
<1>4. /\ b \in Seq(S) /\ Len(b) = Len(s) - i
      /\ \A j \in 1 .. Len(s) - i : b[j] = s[i + j]
  <2>1. \A j \in i + 1 .. Len(s) : s[j] \in S
    BY <1>1, <1>2
  <2>2. /\ b \in Seq(S) /\ Len(b) = IF i + 1 <= Len(s) THEN Len(s) - (i + 1) + 1 ELSE 0
        /\ \A j \in 1 .. Len(s) - (i + 1) + 1 : b[j] = s[(i + 1) + j - 1]
    BY <1>1, <2>1, SubSeqProperties
  <2> HIDE DEF b
  <2>3. Len(b) = Len(s) - i
    <3> DEFINE n == Len(s)
    <3>1. n \in Nat /\ i \in 1 .. n
      BY <1>1
    <3> HIDE DEF n
    <3>2. (IF i + 1 <= n THEN n - (i + 1) + 1 ELSE 0) = n - i
      BY <3>1
    <3> QED BY <2>2, <3>2 DEF n
  <2>4. \A j \in 1 .. Len(s) - i : (i + 1) + j - 1 = i + j /\ j \in 1 .. Len(s) - (i + 1) + 1
    BY <1>1
  <2> QED BY <2>2, <2>3, <2>4
<1>5. r = a \o b
  BY DEF RemoveAt
<1> HIDE DEF r, a, b
<1>6. /\ r \in Seq(S) /\ Len(r) = Len(s) - 1
      /\ \A j \in 1 .. Len(r) : r[j] = IF j <= i - 1 THEN a[j] ELSE b[j - (i - 1)]
  <2>1. r \in Seq(S) /\ Len(r) = Len(a) + Len(b)
    BY <1>3, <1>4, <1>5, ConcatProperties
  <2>2. \A j \in 1 .. Len(a) + Len(b) : r[j] = IF j <= Len(a) THEN a[j] ELSE b[j - Len(a)]
    BY <1>3, <1>4, <1>5, ConcatProperties
  <2> QED BY <1>1, <1>3, <1>4, <2>1, <2>2
<1>7. /\ DOMAIN r = 1 .. Len(s) - 1
      /\ \A j \in 1 .. i - 1 : r[j] = s[j]
      /\ \A j \in i .. Len(s) - 1 : r[j] = s[j + 1]
  <2>1. \A j \in i .. Len(s) - 1 : b[j - (i - 1)] = s[j + 1]
    <3> SUFFICES ASSUME NEW j \in i .. Len(s) - 1 PROVE b[j - (i - 1)] = s[j + 1]
      OBVIOUS
    <3>1. j - (i - 1) \in 1 .. Len(s) - i /\ i + (j - (i - 1)) = j + 1
      BY <1>1
    <3> QED BY <1>4, <3>1
  <2>2. DOMAIN r = 1 .. Len(s) - 1
    BY <1>6, LenProperties
  <2>3. \A j \in 1 .. i - 1 : r[j] = s[j]
    BY <1>1, <1>3, <1>6
  <2>4. \A j \in i .. Len(s) - 1 : r[j] = s[j + 1]
    BY <1>1, <1>6, <2>1
  <2> QED BY <2>2, <2>3, <2>4
<1> DEFINE From(j) == IF j < i THEN j ELSE j + 1
<1>8. \A j \in DOMAIN r : From(j) \in DOMAIN s /\ From(j) # i /\ r[j] = s[From(j)]
  BY <1>1, <1>7
<1>9. \A j \in DOMAIN s : j # i => \E h \in DOMAIN r : r[h] = s[j]
  <2> SUFFICES ASSUME NEW j \in DOMAIN s, j # i PROVE \E h \in DOMAIN r : r[h] = s[j]
    OBVIOUS
  <2>1. CASE j < i
    BY <1>1, <1>7, <2>1
  <2>2. CASE j > i
    <3>1. j - 1 \in i .. Len(s) - 1 /\ (j - 1) + 1 = j
      BY <1>1, <2>2
    <3> QED BY <1>1, <1>7, <3>1
  <2> QED BY <1>1, <2>1, <2>2
<1>10. Range(r) = Range(s) \ {s[i]}
  BY <1>1, <1>8, <1>9 DEF Range, IsInjective
<1>11. IsInjective(r)
  BY <1>1, <1>7, <1>8 DEF IsInjective
<1> QED BY <1>10, <1>11 DEF r

\* Taking the first one.
LEMMA TailRange ==
    ASSUME NEW S, NEW s \in Seq(S), s # << >>, IsInjective(s)
    PROVE  /\ Head(s) \in Range(s) /\ Range(Tail(s)) = Range(s) \ {Head(s)}
           /\ IsInjective(Tail(s))
<1>1. /\ Len(s) \in Nat /\ Len(s) > 0 /\ DOMAIN s = 1 .. Len(s)
      /\ Head(s) = s[1] /\ DOMAIN Tail(s) = 1 .. Len(s) - 1
      /\ \A j \in 1 .. Len(s) - 1 : Tail(s)[j] = s[j + 1]
  BY HeadTailProperties, LenProperties, EmptySeq
<1>2. \A j \in 2 .. Len(s) : \E h \in 1 .. Len(s) - 1 : Tail(s)[h] = s[j]
  <2> SUFFICES ASSUME NEW j \in 2 .. Len(s)
               PROVE  \E h \in 1 .. Len(s) - 1 : Tail(s)[h] = s[j]
    OBVIOUS
  <2>1. j - 1 \in 1 .. Len(s) - 1 /\ (j - 1) + 1 = j
    BY <1>1
  <2> QED BY <1>1, <2>1
<1>3. \A j \in 1 .. Len(s) : j # 1 => j \in 2 .. Len(s)
  BY <1>1
<1>4. \A j \in 1 .. Len(s) - 1 : j + 1 \in 1 .. Len(s) /\ j + 1 # 1
  BY <1>1
<1>5. 1 \in DOMAIN s
  BY <1>1
<1>6. Head(s) \in Range(s)
  BY <1>1, <1>5 DEF Range
<1>7. Range(Tail(s)) = Range(s) \ {Head(s)}
  <2>1. \A h \in DOMAIN Tail(s) : Tail(s)[h] \in Range(s) \ {Head(s)}
    BY <1>1, <1>4, <1>5 DEF Range, IsInjective
  <2>2. \A j \in DOMAIN s : s[j] # Head(s) => s[j] \in Range(Tail(s))
    BY <1>1, <1>2, <1>3 DEF Range
  <2> QED BY <2>1, <2>2 DEF Range
<1>8. IsInjective(Tail(s))
  <2> SUFFICES ASSUME NEW x \in 1 .. Len(s) - 1, NEW y \in 1 .. Len(s) - 1,
                      Tail(s)[x] = Tail(s)[y]
               PROVE  x = y
    BY <1>1 DEF IsInjective
  <2>1. x + 1 = y + 1
    BY <1>1, <1>4 DEF IsInjective
  <2> QED BY <1>1, <2>1
<1> QED BY <1>6, <1>7, <1>8

\* Adding a task at the end.
LEMMA AppendRange ==
    ASSUME NEW S, NEW s \in Seq(S), NEW t \in S, IsInjective(s), t \notin Range(s)
    PROVE  Range(Append(s, t)) = Range(s) \cup {t} /\ IsInjective(Append(s, t))
<1>1. /\ Len(s) \in Nat /\ DOMAIN s = 1 .. Len(s)
      /\ DOMAIN Append(s, t) = 1 .. Len(s) + 1
      /\ \A j \in 1 .. Len(s) : Append(s, t)[j] = s[j]
      /\ Append(s, t)[Len(s) + 1] = t
  BY AppendProperties, LenProperties
<1>2. \A j \in 1 .. Len(s) + 1 : j \in 1 .. Len(s) \/ j = Len(s) + 1
  BY <1>1
<1>3. 1 .. Len(s) \subseteq 1 .. Len(s) + 1 /\ Len(s) + 1 \in 1 .. Len(s) + 1
  BY <1>1
<1> QED BY <1>1, <1>2, <1>3 DEF Range, IsInjective

\* The task a call of insert() is making.
Making(c) == IF pc[c] = "insert" THEN {argTask[c]} ELSE {}

\* OnePlace, and the tasks under construction, which are nowhere else either.
Places ==
    /\ OnePlace
    /\ \A c \in Caller : Making(c) \cap (Range(pending) \cup Range(history)) = {}
    /\ \A c \in Caller, w \in Thread : Busy(w) => wtask[w] \notin Making(c)
    /\ \A c, d \in Caller : dropped[c] \cap Making(d) = {}
    /\ \A c, d \in Caller :
          c # d => dropped[c] \cap dropped[d] = {} /\ Making(c) \cap Making(d) = {}

\* In which state the task of a worker can be.
StatesAt(loc) ==
    IF loc = "start" THEN {"pending"}
    ELSE IF loc \in {"body", "step", "check", "except"} THEN {"running"}
    ELSE {"running", "done", "error"}

\* The place of a task tells its state.
States ==
    /\ \A t \in Task : t > ids => tstate[t] = "new"
    /\ \A t \in Range(pending) : tstate[t] = "pending"
    /\ \A t \in Range(history) : tstate[t] \in {"running", "done", "error"}
    /\ \A c \in Caller : \A t \in dropped[c] \cup Making(c) : tstate[t] = "pending"
    /\ \A w \in Thread : Busy(w) => tstate[wtask[w]] \in StatesAt(wpc[w])

PInv == IInv /\ Places /\ States

\* The lists hold tasks, and so do the hands.
LEMMA PlacesHold ==
    ASSUME IInv
    PROVE  /\ Range(pending) \subseteq Task /\ Range(history) \subseteq Task
           /\ \A i \in DOMAIN pending : pending[i] \in Range(pending)
           /\ \A c \in Caller : dropped[c] \subseteq Task /\ Making(c) \subseteq Task
           /\ \A w \in Thread : Busy(w) => wtask[w] \in Task
<1>1. \A i \in DOMAIN pending : pending[i] \in Task
  BY ElementOfSeq, LenProperties DEF IInv, TypeOK
<1>2. \A i \in DOMAIN history : history[i] \in Task
  BY ElementOfSeq, LenProperties DEF IInv, TypeOK
<1>3. \A c \in Caller : dropped[c] \subseteq Task /\ Making(c) \subseteq Task
  BY DEF IInv, TypeOK, LocalsSet, Making
<1> QED BY <1>1, <1>2, <1>3 DEF IInv, TypeOK, LocalsSet, Range

\* A step that takes tasks out of places, and moves workers no further than
\* their tasks' states allow.
LEMMA PlacesStay ==
    ASSUME PInv, UNCHANGED <<history, ids, tstate>>,
           IsInjective(pending'), Range(pending') \subseteq Range(pending),
           \A c \in Caller : dropped'[c] \subseteq dropped[c],
           \A c \in Caller : Making(c)' \subseteq Making(c),
           \A w \in Thread : Busy(w)' =>
               /\ Busy(w) /\ wtask'[w] = wtask[w]
               /\ StatesAt(wpc[w]) \subseteq StatesAt(wpc'[w])
    PROVE  Places' /\ States'
<1>1. OnePlace'
  BY DEF PInv, Places, OnePlace
<1>2. Places'
  <2>1. \A c \in Caller : Making(c)' \cap (Range(pending') \cup Range(history')) = {}
    BY DEF PInv, Places
  <2>2. \A c \in Caller, w \in Thread : Busy(w)' => wtask'[w] \notin Making(c)'
    BY DEF PInv, Places
  <2>3. \A c, d \in Caller : dropped'[c] \cap Making(d)' = {}
    BY DEF PInv, Places
  <2>4. \A c, d \in Caller :
          c # d => dropped'[c] \cap dropped'[d] = {} /\ Making(c)' \cap Making(d)' = {}
    BY DEF PInv, Places
  <2> QED BY <1>1, <2>1, <2>2, <2>3, <2>4 DEF Places
<1>3. States'
  <2>1. \A c \in Caller : \A t \in dropped'[c] \cup Making(c)' : tstate'[t] = "pending"
    BY DEF PInv, States
  <2>2. \A w \in Thread : Busy(w)' => tstate'[wtask'[w]] \in StatesAt(wpc'[w])
    BY DEF PInv, States
  <2> QED BY <2>1, <2>2 DEF PInv, States
<1> QED BY <1>2, <1>3

\* Nothing of this is touched when a caller leaves the workers, the lists and the
\* tasks alone and starts no new task.
LEMMA CallerElsewhere ==
    ASSUME PInv, NEW c \in Caller, UNCHANGED <<pending, history, ids, tstate>>,
           \A w \in Thread : Busy(w)' => Busy(w) /\ wtask'[w] = wtask[w] /\ wpc'[w] = wpc[w],
           \A d \in Caller \ {c} : pc'[d] = pc[d] /\ argTask'[d] = argTask[d],
           pc'[c] = "insert" => pc[c] = "insert" /\ argTask'[c] = argTask[c],
           \A d \in Caller : dropped'[d] \subseteq dropped[d]
    PROVE  Places' /\ States'
<1>1. \A d \in Caller : Making(d)' \subseteq Making(d)
  BY DEF Making
<1>2. IsInjective(pending')
  BY DEF PInv, Places, OnePlace
<1> QED BY <1>1, <1>2, PlacesStay

\* insert() before its test run makes a task that is nowhere yet.
LEMMA BeginPlaces ==
    ASSUME PInv, NEW c \in Caller, NEW i \in Nat, BeginInsert(c, i)
    PROVE  /\ Places' /\ States'
           /\ \A t \in Task : tstate'[t] # tstate[t] =>
                  tstate[t] = "new" /\ tstate'[t] = "pending"
<1> DEFINE n == ids + 1
<1>1. /\ n \in Task /\ ids \in Nat /\ tstate[n] = "new"
      /\ \A t \in Task : t > n => t > ids /\ t # n
  BY TaskQueueAssumption DEF PInv, IInv, TypeOK, States, BeginInsert
<1>2. ids' = n /\ tstate' = [tstate EXCEPT ![n] = "pending"]
  BY DEF BeginInsert
<1> HIDE DEF n
<1>3. /\ tstate'[n] = "pending"
      /\ \A t \in Task : t # n => tstate'[t] = tstate[t]
  BY <1>1, <1>2 DEF PInv, IInv, TypeOK
<1>4. /\ Making(c)' = {n}
      /\ \A d \in Caller : d # c => Making(d)' = Making(d)
  BY <1>2 DEF PInv, IInv, TypeOK, BeginInsert, Making, n
<1>5. UNCHANGED <<pending, history, wpc, wtask, dropped>>
  BY DEF BeginInsert, queueVars, workerVars
<1>6. \A w \in Thread : Busy(w)' <=> Busy(w)
  BY <1>5 DEF Busy
<1>7. /\ n \notin Range(pending) \cup Range(history)
      /\ \A d \in Caller : n \notin dropped[d] \cup Making(d)
      /\ \A w \in Thread : Busy(w) => wtask[w] # n
  BY <1>1 DEF PInv, States, StatesAt
<1>8. OnePlace'
  BY <1>5, <1>6 DEF PInv, Places, OnePlace
<1>9. Places'
  <2>1. \A d \in Caller : Making(d)' \cap (Range(pending') \cup Range(history')) = {}
    BY <1>4, <1>5, <1>7 DEF PInv, Places
  <2>2. \A d \in Caller, w \in Thread : Busy(w)' => wtask'[w] \notin Making(d)'
    BY <1>4, <1>5, <1>6, <1>7 DEF PInv, Places
  <2>3. \A e, d \in Caller : dropped'[e] \cap Making(d)' = {}
    BY <1>4, <1>5, <1>7 DEF PInv, Places
  <2>4. \A e, d \in Caller :
          e # d => dropped'[e] \cap dropped'[d] = {} /\ Making(e)' \cap Making(d)' = {}
    BY <1>4, <1>5, <1>7 DEF PInv, Places
  <2> QED BY <1>8, <2>1, <2>2, <2>3, <2>4 DEF Places
<1>10. States'
  <2>1. \A t \in Task : t > ids' => tstate'[t] = "new"
    BY <1>1, <1>2, <1>3 DEF PInv, States
  <2>2. \A t \in Range(pending') : tstate'[t] = "pending"
    BY <1>3, <1>5, <1>7, PlacesHold DEF PInv, States
  <2>3. \A t \in Range(history') : tstate'[t] \in {"running", "done", "error"}
    BY <1>3, <1>5, <1>7, PlacesHold DEF PInv, States
  <2>4. \A d \in Caller : \A t \in dropped'[d] \cup Making(d)' : tstate'[t] = "pending"
    BY <1>3, <1>4, <1>5, <1>7, PlacesHold DEF PInv, States
  <2>5. \A w \in Thread : Busy(w)' => tstate'[wtask'[w]] \in StatesAt(wpc'[w])
    BY <1>3, <1>5, <1>6, <1>7, PlacesHold DEF PInv, States
  <2> QED BY <2>1, <2>2, <2>3, <2>4, <2>5 DEF States
<1> QED BY <1>1, <1>3, <1>9, <1>10

\* The locked part of insert() puts it into the list.
LEMMA InsertPlaces ==
    ASSUME PInv, NEW c \in Caller, DoInsert(c)
    PROVE  Places' /\ States'
<1>1. /\ argTask[c] \in Task /\ argIndex[c] \in Nat /\ pending \in Seq(Task)
      /\ Making(c) = {argTask[c]}
  BY DEF PInv, IInv, TypeOK, LocalsSet, DoInsert, Making
<1>2. argTask[c] \notin Range(pending) \cup Range(history)
  BY <1>1 DEF PInv, Places
<1>3. /\ Range(pending') = Range(pending) \cup {argTask[c]}
      /\ IsInjective(pending')
  <2>1. pending' = PyInsert(pending, argIndex[c], argTask[c]) /\ IsInjective(pending)
    BY DEF PInv, Places, OnePlace, DoInsert
  <2>2. argTask[c] \notin Range(pending)
    BY <1>2
  <2> DEFINE t == argTask[c] i == argIndex[c]
  <2>3. t \in Task /\ i \in Nat /\ t \notin Range(pending)
    BY <1>1, <2>2
  <2> HIDE DEF t, i
  <2>4. /\ Range(PyInsert(pending, i, t)) = Range(pending) \cup {t}
        /\ IsInjective(PyInsert(pending, i, t))
    BY <1>1, <2>1, <2>3, PyInsertRange
  <2> QED BY <2>1, <2>4 DEF t, i
<1>4. /\ Making(c)' = {}
      /\ \A d \in Caller : d # c => Making(d)' = Making(d)
      /\ UNCHANGED <<history, ids, tstate, wpc, wtask, dropped>>
  BY DEF PInv, IInv, TypeOK, DoInsert, CallAt, Making, taskVars, workerVars
<1>5. \A w \in Thread : Busy(w)' <=> Busy(w)
  BY <1>4 DEF Busy
<1>6. OnePlace'
  BY <1>1, <1>2, <1>3, <1>4, <1>5 DEF PInv, Places, OnePlace
<1>7. Places'
  BY <1>1, <1>3, <1>4, <1>5, <1>6 DEF PInv, Places
<1>8. States'
  <2>1. tstate[argTask[c]] = "pending"
    BY <1>1 DEF PInv, States
  <2> QED BY <1>3, <1>4, <1>5, <2>1 DEF PInv, States
<1> QED BY <1>7, <1>8

\* remove(), clear() and stop() take tasks out of the list into their hands.
LEMMA DropPlaces ==
    ASSUME PInv, NEW c \in Caller, IsInjective(pending'),
           Range(pending') \cup dropped'[c] \subseteq Range(pending),
           Range(pending') \cap dropped'[c] = {},
           \A d \in Caller : d # c => dropped'[d] = dropped[d],
           \A d \in Caller : Making(d)' \subseteq Making(d),
           UNCHANGED <<history, ids, tstate, wpc, wtask>>
    PROVE  Places' /\ States'
<1>1. \A w \in Thread : Busy(w)' <=> Busy(w)
  BY DEF Busy
<1>2. OnePlace'
  <2>1. Range(pending') \cap Range(history') = {} /\ IsInjective(history')
    BY DEF PInv, Places, OnePlace
  <2>2. \A w \in Thread : Busy(w)' => wtask'[w] \notin Range(pending') \cup Range(history')
    BY <1>1 DEF PInv, Places, OnePlace
  <2>3. \A d \in Caller : dropped'[d] \cap (Range(pending') \cup Range(history')) = {}
    BY DEF PInv, Places, OnePlace
  <2>4. \A d \in Caller, w \in Thread : Busy(w)' => wtask'[w] \notin dropped'[d]
    BY <1>1 DEF PInv, Places, OnePlace
  <2> QED BY <2>1, <2>2, <2>3, <2>4 DEF OnePlace
<1>3. Places'
  <2>1. \A d \in Caller : Making(d)' \cap (Range(pending') \cup Range(history')) = {}
    BY DEF PInv, Places
  <2>2. \A d \in Caller, w \in Thread : Busy(w)' => wtask'[w] \notin Making(d)'
    BY <1>1 DEF PInv, Places
  <2>3. \A e, d \in Caller : dropped'[e] \cap Making(d)' = {}
    BY DEF PInv, Places
  <2>4. \A e, d \in Caller :
          e # d => dropped'[e] \cap dropped'[d] = {} /\ Making(e)' \cap Making(d)' = {}
    BY DEF PInv, Places, OnePlace
  <2> QED BY <1>2, <2>1, <2>2, <2>3, <2>4 DEF Places
<1>4. States'
  <2>1. \A d \in Caller : \A t \in dropped'[d] \cup Making(d)' : tstate'[t] = "pending"
    BY DEF PInv, States
  <2> QED BY <1>1, <2>1 DEF PInv, States
<1> QED BY <1>3, <1>4

\* Marking them cancelled ends their lives.
LEMMA CancelPlaces ==
    ASSUME PInv, NEW c \in Caller, MarkCancelled(c)
    PROVE  /\ Places' /\ States'
           /\ \A t \in Task : tstate'[t] # tstate[t] =>
                  tstate[t] = "pending" /\ tstate'[t] = "cancelled"
<1>1. /\ \A t \in Task : t \in dropped[c] => tstate'[t] = "cancelled"
      /\ \A t \in Task : t \notin dropped[c] => tstate'[t] = tstate[t]
      /\ \A t \in dropped[c] : tstate[t] = "pending"
  BY DEF MarkCancelled, PInv, States
<1>2. /\ dropped'[c] = {}
      /\ \A d \in Caller : d # c => dropped'[d] = dropped[d]
      /\ \A d \in Caller : Making(d)' \subseteq Making(d)
      /\ UNCHANGED <<pending, history, ids, wpc, wtask>>
  BY DEF PInv, IInv, TypeOK, MarkCancelled, Making, queueVars, workerVars
<1>3. \A w \in Thread : Busy(w)' <=> Busy(w)
  BY <1>2 DEF Busy
<1>4. OnePlace'
  <2>1. \A d \in Caller : dropped'[d] \subseteq dropped[d]
    BY <1>2
  <2> QED BY <1>2, <1>3, <2>1 DEF PInv, Places, OnePlace
<1>5. Places'
  BY <1>2, <1>3, <1>4 DEF PInv, Places
<1>6. States'
  <2>1. \A t \in Task : t > ids' => tstate'[t] = "new"
    BY <1>1, <1>2 DEF PInv, States
  <2>2. \A t \in Range(pending') : tstate'[t] = "pending"
    BY <1>1, <1>2, PlacesHold DEF PInv, Places, OnePlace, States
  <2>3. \A t \in Range(history') : tstate'[t] \in {"running", "done", "error"}
    BY <1>1, <1>2, PlacesHold DEF PInv, Places, OnePlace, States
  <2>4. \A d \in Caller : \A t \in dropped'[d] \cup Making(d)' : tstate'[t] = "pending"
    <3> SUFFICES ASSUME NEW d \in Caller, NEW t \in dropped'[d] \cup Making(d)'
                 PROVE  tstate'[t] = "pending"
      OBVIOUS
    <3>1. t \in Task /\ tstate[t] = "pending"
      BY <1>2, PlacesHold DEF PInv, States
    <3>2. t \notin dropped[c]
      BY <1>2 DEF PInv, Places
    <3> QED BY <1>1, <3>1, <3>2
  <2>5. \A w \in Thread : Busy(w)' => tstate'[wtask'[w]] \in StatesAt(wpc'[w])
    BY <1>1, <1>2, <1>3, PlacesHold DEF PInv, Places, OnePlace, States
  <2> QED BY <2>1, <2>2, <2>3, <2>4, <2>5 DEF States
<1> QED BY <1>1, <1>5, <1>6

\* The callers, method by method.
LEMMA CallerPlaces ==
    ASSUME PInv, NEW c \in Caller, CallerNext(c)
    PROVE  /\ Places' /\ States'
           /\ \A t \in Task : tstate'[t] # tstate[t] =>
                  <<tstate[t], tstate'[t]>> \in
                      {<<"new", "pending">>, <<"pending", "cancelled">>}
<1>0. /\ pending \in Seq(Task) /\ IsInjective(pending) /\ Len(pending) \in Nat
      /\ DOMAIN pending = 1 .. Len(pending)
  BY LenProperties DEF PInv, IInv, TypeOK, Places, OnePlace
<1> DEFINE Goal == /\ Places' /\ States'
                   /\ \A t \in Task : tstate'[t] # tstate[t] =>
                          <<tstate[t], tstate'[t]>> \in
                              {<<"new", "pending">>, <<"pending", "cancelled">>}
<1>1. CASE AppendTask(c) \/ RepeatLast(c) \/ \E i \in 0 .. Len(pending) : InsertTask(c, i)
  <2>1. PICK i \in Nat : BeginInsert(c, i)
    BY <1>0, <1>1 DEF AppendTask, RepeatLast, InsertTask
  <2> QED BY <2>1, BeginPlaces
<1>2. CASE DoInsert(c)
  <2>1. tstate' = tstate
    BY <1>2 DEF DoInsert, taskVars
  <2> QED BY <1>2, <2>1, InsertPlaces
<1>3. CASE \E i \in DOMAIN pending : RemoveTask(c, i)
  <2>1. PICK i \in DOMAIN pending : RemoveTask(c, i)
    BY <1>3
  <2>2. /\ i \in 1 .. Len(pending) /\ pending' = RemoveAt(pending, i)
        /\ pending[i] \in Range(pending)
    BY <1>0, <2>1 DEF RemoveTask, Range
  <2>3. Range(pending') = Range(pending) \ {pending[i]} /\ IsInjective(pending')
    BY <1>0, <2>2, RemoveAtRange
  <2>4. /\ dropped'[c] = {pending[i]}
        /\ \A d \in Caller : d # c => dropped'[d] = dropped[d]
        /\ \A d \in Caller : Making(d)' \subseteq Making(d)
        /\ UNCHANGED <<history, ids, tstate, wpc, wtask>>
    BY <2>1 DEF PInv, IInv, TypeOK, RemoveTask, Making, taskVars, workerVars
  <2> QED BY <2>2, <2>3, <2>4, DropPlaces
<1>4. CASE \E i \in DOMAIN pending, j \in 0 .. Len(pending) : MoveTask(c, i, j)
  <2>1. PICK i \in DOMAIN pending, j \in 0 .. Len(pending) : MoveTask(c, i, j)
    BY <1>4
  <2> DEFINE rest == RemoveAt(pending, i)
  <2>2. /\ i \in 1 .. Len(pending) /\ j \in Nat
        /\ pending' = PyInsert(rest, j, pending[i])
        /\ pending[i] \in Range(pending)
    BY <1>0, <2>1 DEF MoveTask, Range
  <2>3. Range(rest) = Range(pending) \ {pending[i]} /\ IsInjective(rest)
    BY <1>0, <2>2, RemoveAtRange
  <2>4. rest \in Seq(Task)
    BY <1>0, <2>2, RemoveAtType
  <2> DEFINE t == pending[i]
  <2>t. t \in Task /\ t \notin Range(rest)
    BY <2>2, <2>3, PlacesHold DEF PInv
  <2> HIDE DEF rest, t
  <2>5. /\ Range(PyInsert(rest, j, t)) = Range(rest) \cup {t}
        /\ IsInjective(PyInsert(rest, j, t))
    BY <2>2, <2>3, <2>4, <2>t, PyInsertRange
  <2>6. /\ UNCHANGED <<history, ids, tstate, wpc, wtask, dropped, pc, argTask>>
        /\ Range(pending') \subseteq Range(pending) /\ IsInjective(pending')
    BY <2>1, <2>2, <2>3, <2>5 DEF MoveTask, taskVars, workerVars, callerVars, t
  <2> QED BY <2>6, PlacesStay DEF Busy, Making
<1>5. ASSUME NEW next \in {"mark", "markStop"}, Drop(c, next)
      PROVE  Goal
  <2>1. /\ pending' = << >> /\ dropped'[c] = Range(pending)
        /\ \A d \in Caller : d # c => dropped'[d] = dropped[d]
        /\ \A d \in Caller : Making(d)' \subseteq Making(d)
        /\ UNCHANGED <<history, ids, tstate, wpc, wtask>>
    BY <1>5 DEF PInv, IInv, TypeOK, Drop, Making, taskVars, workerVars
  <2>2. Range(pending') = {} /\ IsInjective(pending')
    BY <2>1 DEF Range, IsInjective
  <2> QED BY <2>1, <2>2, DropPlaces
<1>6. CASE MarkCancelled(c)
  BY <1>6, CancelPlaces
<1>7. CASE TestFails(c) \/ WaitReturns(c) \/ StopScans(c) \/ StopInterrupt(c)
  <2>1. UNCHANGED <<pending, history, ids, tstate, wpc, wtask>> /\ Returns(c)
    BY <1>7 DEF TestFails, WaitReturns, StopScans, StopInterrupt, queueVars, taskVars, workerVars
  <2>2. /\ \A d \in Caller \ {c} : pc'[d] = pc[d] /\ argTask'[d] = argTask[d]
        /\ pc'[c] # "insert"
        /\ \A d \in Caller : dropped'[d] \subseteq dropped[d]
    BY <2>1 DEF PInv, IInv, TypeOK, Returns
  <2> QED BY <2>1, <2>2, CallerElsewhere DEF Busy
<1>8. CASE EnsureWorker(c)
  <2>1. UNCHANGED <<pending, history, ids, tstate, wtask>> /\ Returns(c)
    BY <1>8 DEF EnsureWorker, taskVars
  <2>2. /\ \A d \in Caller \ {c} : pc'[d] = pc[d] /\ argTask'[d] = argTask[d]
        /\ pc'[c] # "insert"
        /\ \A d \in Caller : dropped'[d] \subseteq dropped[d]
    BY <2>1 DEF PInv, IInv, TypeOK, Returns
  <2>3. \A w \in Thread : Busy(w)' => Busy(w) /\ wpc'[w] = wpc[w]
    BY <1>8 DEF PInv, IInv, TypeOK, EnsureWorker, StartThread, Busy
  <2> QED BY <2>1, <2>2, <2>3, CallerElsewhere
<1>9. CASE StopRead(c)
  <2>1. UNCHANGED <<pending, history, ids, tstate, wpc, wtask, dropped>>
    BY <1>9 DEF StopRead, queueVars, taskVars, workerVars
  <2>2. /\ \A d \in Caller \ {c} : pc'[d] = pc[d] /\ argTask'[d] = argTask[d]
        /\ pc'[c] # "insert"
    BY <1>9 DEF PInv, IInv, TypeOK, StopRead
  <2> QED BY <2>1, <2>2, CallerElsewhere DEF Busy
<1>10. CASE \/ PauseQueue(c) \/ ResumeQueue(c) \/ StopPause(c) \/ CloseQueue(c)
            \/ PauseRunningTask(c) \/ ResumeRunningTask(c) \/ WaitQueue(c)
  <2>1. /\ UNCHANGED <<pending, history, ids, tstate, wpc, wtask, dropped, argTask>>
        /\ \A d \in Caller \ {c} : pc'[d] = pc[d]
        /\ pc'[c] = "insert" => pc[c] = "insert"
    BY <1>10 DEF PInv, IInv, TypeOK, PauseQueue, ResumeQueue, StopPause, CloseQueue, WaitQueue,
         PauseRunningTask, ResumeRunningTask, SetScanPaused, CallAt, queueVars, taskVars,
         workerVars, callerVars
  <2> QED BY <2>1, CallerElsewhere DEF Busy
<1> QED
  BY <1>1, <1>2, <1>3, <1>4, <1>5, <1>6, <1>7, <1>8, <1>9, <1>10
     DEF CallerNext, ClearTasks, StopQueue

\* The task in a worker's hands gets a new state.
LEMMA HandMoves ==
    ASSUME PInv, NEW w \in Thread, Busy(w), NEW st \in {"running", "done", "error"},
           tstate' = [tstate EXCEPT ![wtask[w]] = st],
           UNCHANGED <<pending, history, ids, dropped, pc, argTask>>,
           \A v \in Thread \ {w} : wpc'[v] = wpc[v] /\ wtask'[v] = wtask[v],
           Busy(w)' => wtask'[w] = wtask[w] /\ st \in StatesAt(wpc'[w])
    PROVE  Places' /\ States'
<1>1. /\ wtask[w] \in Task /\ tstate'[wtask[w]] = st
      /\ \A t \in Task : t # wtask[w] => tstate'[t] = tstate[t]
  BY PlacesHold DEF PInv, IInv, TypeOK
<1>2. /\ \A d \in Caller : Making(d)' = Making(d)
      /\ \A v \in Thread : v # w => (Busy(v)' <=> Busy(v))
  BY DEF Making, Busy
<1>3. \A v \in Thread : v # w => ~Busy(v)
  BY DEF PInv, IInv, OneWorker, Busy
<1>4. /\ wtask[w] \notin Range(pending) \cup Range(history)
      /\ \A d \in Caller : wtask[w] \notin dropped[d] \cup Making(d)
  BY DEF PInv, Places, OnePlace
<1>5. OnePlace'
  BY <1>2 DEF PInv, Places, OnePlace
<1>6. Places'
  BY <1>2, <1>5 DEF PInv, Places
<1>7. States'
  <2>1. \A t \in Task : t > ids' => tstate'[t] = "new"
    <3>1. tstate[wtask[w]] # "new"
      BY DEF PInv, States, StatesAt
    <3> QED BY <1>1, <3>1 DEF PInv, States
  <2>2. \A t \in Range(pending') : tstate'[t] = "pending"
    BY <1>1, <1>4, PlacesHold DEF PInv, States
  <2>3. \A t \in Range(history') : tstate'[t] \in {"running", "done", "error"}
    BY <1>1, <1>4, PlacesHold DEF PInv, States
  <2>4. \A d \in Caller : \A t \in dropped'[d] \cup Making(d)' : tstate'[t] = "pending"
    BY <1>1, <1>2, <1>4, PlacesHold DEF PInv, States
  <2>5. \A v \in Thread : Busy(v)' => tstate'[wtask'[v]] \in StatesAt(wpc'[v])
    BY <1>1, <1>2, <1>3
  <2> QED BY <2>1, <2>2, <2>3, <2>4, <2>5 DEF States
<1> QED BY <1>6, <1>7

\* A task that has run goes from the worker's hands to the history.
LEMMA RecordPlaces ==
    ASSUME PInv, NEW w \in Thread, wpc[w] = "finish", Record(w),
           UNCHANGED <<pending, ids, tstate, dropped, pc, argTask>>,
           \A v \in Thread \ {w} : wpc'[v] = wpc[v] /\ wtask'[v] = wtask[v], ~Busy(w)'
    PROVE  Places' /\ States'
<1>1. Busy(w) /\ wtask[w] \in Task /\ wtask[w] \notin Range(history)
  BY PlacesHold DEF PInv, Places, OnePlace, Busy
<1>2. history \in Seq(Task) /\ IsInjective(history)
  BY DEF PInv, IInv, TypeOK, Places, OnePlace
<1>3. Range(history') = Range(history) \cup {wtask[w]} /\ IsInjective(history')
  <2> DEFINE t == wtask[w]
  <2>1. t \in Task /\ t \notin Range(history)
    BY <1>1
  <2> HIDE DEF t
  <2>2. Range(Append(history, t)) = Range(history) \cup {t} /\ IsInjective(Append(history, t))
    BY <1>2, <2>1, AppendRange
  <2> QED BY <2>2 DEF Record, t
<1>4. /\ \A d \in Caller : Making(d)' = Making(d)
      /\ \A v \in Thread : ~Busy(v)'
  BY <1>1 DEF PInv, IInv, OneWorker, Making, Busy
<1>5. /\ wtask[w] \notin Range(pending)
      /\ \A d \in Caller : wtask[w] \notin dropped[d] \cup Making(d)
  BY <1>1 DEF PInv, Places, OnePlace
<1>6. OnePlace'
  BY <1>3, <1>4, <1>5 DEF PInv, Places, OnePlace
<1>7. Places'
  BY <1>3, <1>4, <1>5, <1>6 DEF PInv, Places
<1>8. States'
  <2>1. tstate[wtask[w]] \in {"running", "done", "error"}
    BY <1>1 DEF PInv, States, StatesAt
  <2> QED BY <1>3, <1>4, <2>1 DEF PInv, States
<1> QED BY <1>7, <1>8

\* The worker, step by step.
LEMMA WorkerPlaces ==
    ASSUME PInv, NEW w \in Thread, WorkerStep(w)
    PROVE  /\ Places' /\ States'
           /\ \A t \in Task : tstate'[t] # tstate[t] =>
                  <<tstate[t], tstate'[t]>> \in
                      {<<"pending", "running">>, <<"running", "done">>, <<"running", "error">>}
<1> USE DEF At, Goto
<1>0. /\ wpc \in [Thread -> WorkerPC] /\ wtask \in [Thread -> Task \cup {NoTask}]
      /\ tstate \in [Task -> {"new", "pending", "running", "done", "error", "cancelled"}]
  BY DEF PInv, IInv, TypeOK
<1>p. IsInjective(pending)
  BY DEF PInv, Places, OnePlace
<1>1. CASE RunPop(w)
  <2> DEFINE t == Head(pending)
  <2>1. t \in Range(pending) /\ Range(pending') = Range(pending) \ {t} /\ IsInjective(pending')
    <3>1. pending \in Seq(Task) /\ pending # << >> /\ pending' = Tail(pending)
      BY <1>1 DEF PInv, IInv, TypeOK, RunPop
    <3> QED BY <1>p, <3>1, TailRange
  <2>2. /\ wtask'[w] = t /\ wpc'[w] = "start"
        /\ \A v \in Thread : v # w => wpc'[v] = wpc[v] /\ wtask'[v] = wtask[v]
        /\ UNCHANGED <<history, ids, tstate, dropped, pc, argTask>>
    BY <1>0, <1>1 DEF RunPop, taskVars, callerVars
  <2> HIDE DEF t
  <2>3. /\ \A v \in Thread : v # w => ~Busy(v)'
        /\ \A c \in Caller : Making(c)' = Making(c)
    BY <1>1, <2>2 DEF PInv, IInv, OneWorker, Busy, Making, RunPop
  <2>4. /\ t \notin Range(history)
        /\ \A c \in Caller : t \notin dropped[c] \cup Making(c)
    BY <2>1 DEF PInv, Places, OnePlace
  <2>5. OnePlace'
    BY <2>1, <2>2, <2>3, <2>4 DEF PInv, Places, OnePlace
  <2>6. Places'
    BY <2>1, <2>2, <2>3, <2>4, <2>5 DEF PInv, Places
  <2>7. States'
    <3>1. \A v \in Thread : Busy(v)' => tstate'[wtask'[v]] \in StatesAt(wpc'[v])
      BY <2>1, <2>2, <2>3 DEF PInv, States, StatesAt
    <3> QED BY <2>1, <2>2, <2>3, <3>1 DEF PInv, States
  <2> QED BY <2>2, <2>6, <2>7
<1>2. CASE RunReturn(w) \/ ExecuteFinally(w) \/ ScanStart(w) \/ ScanCheck(w)
           \/ ScanStep(w) \/ BodyRaises(w)
  <2>1. UNCHANGED <<pending, history, ids, tstate, dropped, pc, argTask>>
    BY <1>2 DEF RunReturn, ExecuteFinally, ScanStart, ScanCheck, ScanStep, BodyRaises,
                queueVars, taskVars, callerVars
  <2>2. \A v \in Thread : v # w => wpc'[v] = wpc[v] /\ wtask'[v] = wtask[v]
    BY <1>0, <1>2 DEF RunReturn, ExecuteFinally, ScanStart, ScanCheck, ScanStep, BodyRaises, Ends
  <2>3. Busy(w)' => /\ Busy(w) /\ wtask'[w] = wtask[w]
                    /\ StatesAt(wpc[w]) \subseteq StatesAt(wpc'[w])
    BY <1>0, <1>2 DEF RunReturn, ExecuteFinally, ScanStart, ScanCheck, ScanStep, BodyRaises,
                      Ends, Busy, StatesAt
  <2> QED BY <1>p, <2>1, <2>2, <2>3, PlacesStay DEF Busy, Making
<1>3. CASE ExecuteStart(w) \/ BodyDone(w) \/ ExecuteExcept(w)
  <2>1. /\ UNCHANGED <<pending, history, ids, dropped, pc, argTask, wtask>>
        /\ Busy(w) /\ \A v \in Thread \ {w} : wpc'[v] = wpc[v]
    BY <1>0, <1>3 DEF ExecuteStart, BodyDone, ExecuteExcept, Busy, queueVars, callerVars
  <2>2. PICK st \in {"running", "done", "error"} :
            /\ tstate' = [tstate EXCEPT ![wtask[w]] = st]
            /\ st \in StatesAt(wpc'[w])
            /\ <<tstate[wtask[w]], st>> \in
                  {<<"pending", "running">>, <<"running", "done">>, <<"running", "error">>}
    BY <1>0, <1>3, <2>1 DEF ExecuteStart, BodyDone, ExecuteExcept, PInv, States, StatesAt
  <2>3. Places' /\ States'
    BY <2>1, <2>2, HandMoves
  <2>4. \A t \in Task : tstate'[t] # tstate[t] => t = wtask[w] /\ tstate'[t] = st
    BY <1>0, <2>2
  <2> QED BY <2>2, <2>3, <2>4
<1>4. CASE RunFinish(w)
  <2>1. /\ UNCHANGED <<pending, ids, tstate, dropped, pc, argTask>>
        /\ wpc[w] = "finish" /\ Record(w) /\ ~Busy(w)'
        /\ \A v \in Thread \ {w} : wpc'[v] = wpc[v] /\ wtask'[v] = wtask[v]
    BY <1>0, <1>4 DEF RunFinish, Busy, taskVars, callerVars
  <2> QED BY <2>1, RecordPlaces
<1> QED BY <1>1, <1>2, <1>3, <1>4 DEF WorkerStep

\* A KeyboardInterrupt, wherever it arrives.
LEMMA InterruptPlaces ==
    ASSUME PInv, NEW w \in Thread, Interrupt(w)
    PROVE  /\ Places' /\ States'
           /\ \A t \in Task : tstate'[t] # tstate[t] =>
                  tstate[t] = "pending" /\ tstate'[t] = "running"
<1> USE DEF Hit, Goto
<1>0. /\ wpc \in [Thread -> WorkerPC] /\ wtask \in [Thread -> Task \cup {NoTask}]
      /\ tstate \in [Task -> {"new", "pending", "running", "done", "error", "cancelled"}]
  BY DEF PInv, IInv, TypeOK
<1>p. IsInjective(pending)
  BY DEF PInv, Places, OnePlace
<1>1. CASE InterruptBody(w) \/ InterruptScan(w) \/ InterruptExcept(w)
  <2>1. UNCHANGED <<pending, history, ids, tstate, dropped, pc, argTask, wtask>>
    BY <1>1 DEF InterruptBody, InterruptScan, InterruptExcept, queueVars, taskVars, callerVars
  <2>2. \A v \in Thread : v # w => wpc'[v] = wpc[v]
    BY <1>0, <1>1 DEF InterruptBody, InterruptScan, InterruptExcept, Catch
  <2>3. Busy(w)' => Busy(w) /\ StatesAt(wpc[w]) \subseteq StatesAt(wpc'[w])
    BY <1>0, <1>1 DEF InterruptBody, InterruptScan, InterruptExcept, Catch, Busy, StatesAt
  <2> QED BY <1>p, <2>1, <2>2, <2>3, PlacesStay DEF Busy, Making
<1>2. CASE InterruptWait(w) \/ InterruptFinally(w)
           \/ (InterruptFinish(w) /\ UNCHANGED <<current, history>>)
  <2>1. UNCHANGED <<history, ids, tstate, dropped, pc, argTask>> /\ Ends(w)
    BY <1>2 DEF InterruptWait, InterruptFinally, InterruptFinish, queueVars, taskVars, callerVars
  <2>2. /\ \A v \in Thread : v # w => wpc'[v] = wpc[v] /\ wtask'[v] = wtask[v]
        /\ ~Busy(w)'
    BY <1>0, <2>1 DEF Ends, Busy
  <2>3. IsInjective(pending') /\ Range(pending') \subseteq Range(pending)
    <3>1. \/ pending' = pending
          \/ pending # << >> /\ pending' = Tail(pending)
      BY <1>2 DEF InterruptWait, InterruptFinally, InterruptFinish, queueVars
    <3>2. pending \in Seq(Task)
      BY DEF PInv, IInv, TypeOK
    <3> QED BY <1>p, <3>1, <3>2, TailRange
  <2> QED BY <2>1, <2>2, <2>3, PlacesStay DEF Busy, Making
<1>3. CASE InterruptStart(w)
  <2>1. /\ UNCHANGED <<pending, history, ids, dropped, pc, argTask>>
        /\ Busy(w) /\ Ends(w) /\ tstate[wtask[w]] = "pending"
    BY <1>3 DEF InterruptStart, PInv, States, StatesAt, Busy, queueVars, callerVars
  <2>2. /\ \A v \in Thread : v # w => wpc'[v] = wpc[v] /\ wtask'[v] = wtask[v]
        /\ ~Busy(w)'
    BY <1>0, <2>1 DEF Ends, Busy
  <2>3. CASE tstate' = tstate
    BY <1>p, <2>1, <2>2, <2>3, PlacesStay DEF Busy, Making
  <2>4. CASE tstate' = [tstate EXCEPT ![wtask[w]] = "running"]
    <3>1. Places' /\ States'
      BY <2>1, <2>2, <2>4, HandMoves
    <3>2. \A t \in Task : tstate'[t] # tstate[t] => t = wtask[w] /\ tstate'[t] = "running"
      BY <1>0, <2>4
    <3> QED BY <2>1, <3>1, <3>2
  <2> QED BY <1>3, <2>3, <2>4 DEF InterruptStart
<1>4. CASE InterruptFinish(w) /\ Record(w)
  <2>1. /\ UNCHANGED <<pending, ids, tstate, dropped, pc, argTask>>
        /\ wpc[w] = "finish" /\ ~Busy(w)'
        /\ \A v \in Thread \ {w} : wpc'[v] = wpc[v] /\ wtask'[v] = wtask[v]
    BY <1>0, <1>4 DEF InterruptFinish, Ends, Busy, taskVars, callerVars
  <2> QED BY <1>4, <2>1, RecordPlaces
<1>5. InterruptFinish(w) => UNCHANGED <<current, history>> \/ Record(w)
  BY DEF InterruptFinish
<1> QED BY <1>1, <1>2, <1>3, <1>4, <1>5 DEF Interrupt

\* So every step leaves each task in one place, and changes its state only along
\* its life.
LEMMA StepPlaces ==
    PInv /\ [Next]_vars =>
        /\ PInv'
        /\ \A t \in Task : tstate'[t] # tstate[t] =>
              <<tstate[t], tstate'[t]>> \in
                  {<<"new", "pending">>, <<"pending", "running">>, <<"running", "done">>,
                   <<"running", "error">>, <<"pending", "cancelled">>}
<1> SUFFICES ASSUME PInv, [Next]_vars
             PROVE  /\ Places' /\ States'
                    /\ \A t \in Task : tstate'[t] # tstate[t] =>
                          <<tstate[t], tstate'[t]>> \in
                              {<<"new", "pending">>, <<"pending", "running">>,
                               <<"running", "done">>, <<"running", "error">>,
                               <<"pending", "cancelled">>}
  BY NextInv DEF PInv
<1>1. CASE \E c \in Caller : CallerNext(c)
  BY <1>1, CallerPlaces
<1>2. CASE \E w \in Thread : WorkerStep(w)
  BY <1>2, WorkerPlaces
<1>3. CASE \E w \in Thread : Interrupt(w)
  BY <1>3, InterruptPlaces
<1>4. CASE UNCHANGED vars
  <2>1. UNCHANGED <<pending, history, ids, tstate, dropped, pc, argTask, wpc, wtask>>
    BY <1>4 DEF vars, queueVars, taskVars, workerVars, callerVars
  <2>2. IsInjective(pending')
    BY <2>1 DEF PInv, Places, OnePlace
  <2> QED BY <2>1, <2>2, PlacesStay DEF Busy, Making
<1> QED BY <1>1, <1>2, <1>3, <1>4 DEF Next

LEMMA InitPlaces == Init => PInv
<1> SUFFICES ASSUME Init PROVE Places /\ States
  BY InitInv DEF PInv
<1>1. Range(pending) = {} /\ Range(history) = {} /\ IsInjective(pending) /\ IsInjective(history)
  BY DEF Init, Range, IsInjective
<1>2. /\ \A c \in Caller : Making(c) = {} /\ dropped[c] = {}
      /\ \A w \in Thread : ~Busy(w)
      /\ \A t \in Task : tstate[t] = "new"
  BY DEF Init, Making, Busy
<1> QED BY <1>1, <1>2 DEF Places, OnePlace, States

LEMMA PlacesInvariance == Spec => []PInv
<1>1. PInv /\ [Next]_vars => PInv'
  BY StepPlaces
<1> QED BY <1>1, InitPlaces, PTL DEF Spec

\* No task is in two places or twice in one, whatever the callers do and wherever
\* an interrupt arrives: no task runs twice, and none that was dropped runs.
THEOREM EveryTaskInOnePlace == Spec => []OnePlace
<1>1. PInv => OnePlace
  BY DEF PInv, Places
<1> QED BY <1>1, PlacesInvariance, PTL

\* A task only goes from pending to running to done or error, or from pending to
\* cancelled, whatever callers and interrupts do.
THEOREM TasksLiveOnce == Spec => TaskLife
<1>1. PInv /\ [Next]_vars =>
        [\A t \in Task : tstate'[t] # tstate[t] =>
            <<tstate[t], tstate'[t]>> \in
                {<<"new", "pending">>, <<"pending", "running">>, <<"running", "done">>,
                 <<"running", "error">>, <<"pending", "cancelled">>}]_vars
  BY StepPlaces
<1> QED BY <1>1, PlacesInvariance, PTL DEF Spec, TaskLife

-----------------------------------------------------------------------------
(* The books agree.  As above the callers do not interrupt the worker: an       *)
(* interrupt can lose a task between the queue and `current', or end the thread *)
(* before it told those who wait.                                               *)

\* A task that is being put away has an outcome.
Settled ==
    \A w \in Thread : wpc[w] \in {"finally", "finish"} => tstate[wtask[w]] \in {"done", "error"}

BInv == PInv /\ Quiet /\ CurrentIsRunning /\ DoneIsFinal /\ Settled

\* A step that leaves the worker, the outcomes and the history alone.
LEMMA BooksStay ==
    ASSUME BInv,
           \A t \in Task : tstate'[t] # tstate[t] =>
               tstate'[t] \in {"pending", "cancelled"} /\ tstate[t] \in {"new", "pending"},
           UNCHANGED <<current, history, wtask>>,
           \A w \in Thread : wpc'[w] = wpc[w] \/ (~Busy(w) /\ ~Busy(w)'),
           \A t \in done' \ done : t \in Task /\ tstate'[t] \in {"done", "error", "cancelled"}
    PROVE  CurrentIsRunning' /\ DoneIsFinal' /\ Settled'
<1>1. \A w \in Thread : Busy(w)' <=> Busy(w)
  BY DEF Busy
<1>2. CurrentIsRunning'
  BY <1>1 DEF BInv, CurrentIsRunning
<1>3. DoneIsFinal'
  <2>1. done \subseteq Task
    BY DEF BInv, PInv, IInv, TypeOK
  <2> QED BY <2>1 DEF BInv, DoneIsFinal
<1>4. Settled'
  <2> SUFFICES ASSUME NEW w \in Thread, wpc'[w] \in {"finally", "finish"}
               PROVE  tstate'[wtask'[w]] \in {"done", "error"}
    BY DEF Settled
  <2>1. Busy(w) /\ wpc[w] = wpc'[w] /\ wtask[w] \in Task
    BY <1>1, PlacesHold DEF BInv, PInv, Busy
  <2> QED BY <2>1 DEF BInv, Settled
<1> QED BY <1>2, <1>3, <1>4

LEMMA CallerBooks ==
    ASSUME BInv, NEW c \in Caller, CallerNext(c)
    PROVE  CurrentIsRunning' /\ DoneIsFinal' /\ Settled'
<1>1. \A t \in Task : tstate'[t] # tstate[t] =>
          tstate'[t] \in {"pending", "cancelled"} /\ tstate[t] \in {"new", "pending"}
  BY CallerPlaces DEF BInv
<1>2. UNCHANGED <<current, history, wtask>>
  BY DEF CallerNext, AppendTask, InsertTask, RepeatLast, BeginInsert, TestFails, DoInsert,
         EnsureWorker, RemoveTask, MoveTask, ClearTasks, StopQueue, Drop, MarkCancelled,
         PauseQueue, ResumeQueue, StopRead, StopPause, StopScans, StopInterrupt,
         PauseRunningTask, ResumeRunningTask, SetScanPaused, WaitQueue, WaitReturns,
         CloseQueue, queueVars, workerVars
<1>3. \A w \in Thread : wpc'[w] = wpc[w] \/ (~Busy(w) /\ ~Busy(w)')
  <2>1. CASE EnsureWorker(c)
    BY <2>1 DEF BInv, PInv, IInv, TypeOK, EnsureWorker, StartThread, Busy
  <2>2. CASE ~EnsureWorker(c)
    BY <2>2
       DEF CallerNext, AppendTask, InsertTask, RepeatLast, BeginInsert, TestFails, DoInsert,
         RemoveTask, MoveTask, ClearTasks, StopQueue, Drop, MarkCancelled,
         PauseQueue, ResumeQueue, StopRead, StopPause, StopScans, StopInterrupt,
         PauseRunningTask, ResumeRunningTask, SetScanPaused, WaitQueue, WaitReturns,
         CloseQueue, workerVars
  <2> QED BY <2>1, <2>2
<1>4. \A t \in done' \ done : t \in Task /\ tstate'[t] \in {"done", "error", "cancelled"}
  <2>1. CASE MarkCancelled(c)
    BY <2>1, PlacesHold DEF BInv, PInv, MarkCancelled
  <2>2. CASE ~MarkCancelled(c)
    <3>1. done' = done
      BY <2>2
         DEF CallerNext, AppendTask, InsertTask, RepeatLast, BeginInsert, TestFails, DoInsert,
         EnsureWorker, RemoveTask, MoveTask, ClearTasks, StopQueue, Drop,
         PauseQueue, ResumeQueue, StopRead, StopPause, StopScans, StopInterrupt,
         PauseRunningTask, ResumeRunningTask, SetScanPaused, WaitQueue, WaitReturns,
         CloseQueue, taskVars
    <3> QED BY <3>1
  <2> QED BY <2>1, <2>2
<1> QED BY <1>1, <1>2, <1>3, <1>4, BooksStay

LEMMA WorkerBooks ==
    ASSUME BInv, NEW w \in Thread, WorkerStep(w)
    PROVE  Quiet' /\ CurrentIsRunning' /\ DoneIsFinal' /\ Settled'
<1> USE DEF At, Goto
<1>0. /\ wpc \in [Thread -> WorkerPC] /\ wtask \in [Thread -> Task \cup {NoTask}]
      /\ tstate \in [Task -> {"new", "pending", "running", "done", "error", "cancelled"}]
      /\ done \subseteq Task
      /\ \A v \in Thread : wpc[v] # "off" => v = w
      /\ wpc[w] # "off"
      /\ Busy(w) => wtask[w] \in Task /\ wtask[w] # NoTask
  <2>1. wpc[w] # "off"
    BY DEF WorkerStep, RunPop, RunReturn, ExecuteStart, ScanStart, ScanCheck, ScanStep,
           BodyDone, BodyRaises, ExecuteExcept, ExecuteFinally, RunFinish
  <2>2. Busy(w) => wtask[w] \in Task /\ wtask[w] # NoTask
    BY PlacesHold DEF BInv, PInv, IInv, LocalsSet
  <2> QED BY <2>1, <2>2 DEF BInv, PInv, IInv, TypeOK, OneWorker
<1>1. CASE RunPop(w)
  <2>1. /\ current' = Head(pending) /\ wtask'[w] = Head(pending) /\ wpc'[w] = "start"
        /\ \A v \in Thread : v # w => wpc'[v] = wpc[v] /\ wtask'[v] = wtask[v]
        /\ UNCHANGED <<history, done, tstate, pc, dying, asyncExc>> /\ ~Busy(w)
    BY <1>0, <1>1 DEF RunPop, Busy, taskVars, callerVars
  <2>2. current = NoTask
    BY <1>0, <2>1 DEF BInv, CurrentIsRunning, Busy
  <2>3. \A v \in Thread : Busy(v)' <=> v = w
    BY <1>0, <2>1 DEF Busy
  <2>4. CurrentIsRunning'
    <3>1. \A t \in Task : tstate[t] \in {"running", "done", "error"} => t \in Range(history)
      BY <2>2 DEF BInv, CurrentIsRunning
    <3> QED BY <2>1, <2>3, <3>1 DEF CurrentIsRunning
  <2>5. Settled'
    BY <2>1, <2>3 DEF Settled, Busy
  <2> QED BY <2>1, <2>4, <2>5 DEF BInv, Quiet, DoneIsFinal
<1>2. CASE RunReturn(w)
  <2>1. /\ wpc'[w] = "off" /\ \A v \in Thread : v # w => wpc'[v] = wpc[v]
        /\ \A v \in Thread : asyncExc'[v] = NoTask /\ ~dying'[v]
        /\ UNCHANGED <<current, history, done, tstate, pc>> /\ ~Busy(w)
    BY <1>0, <1>2 DEF BInv, Quiet, RunReturn, Ends, Busy, queueVars, taskVars, callerVars,
                      PInv, IInv, TypeOK
  <2>2. \A v \in Thread : ~Busy(v) /\ ~Busy(v)'
    BY <1>0, <2>1 DEF Busy
  <2> QED BY <2>1, <2>2 DEF BInv, Quiet, CurrentIsRunning, DoneIsFinal, Settled, Busy
<1>3. CASE ScanStart(w) \/ ScanCheck(w) \/ ScanStep(w) \/ BodyRaises(w)
  <2>1. /\ UNCHANGED <<current, history, done, tstate, wtask, pc, dying, asyncExc>>
        /\ Busy(w) /\ wpc'[w] \in {"body", "step", "check", "except"}
        /\ \A v \in Thread : v # w => wpc'[v] = wpc[v]
    BY <1>0, <1>3 DEF ScanStart, ScanCheck, ScanStep, BodyRaises, Busy, queueVars, taskVars,
                      callerVars
  <2>2. \A v \in Thread : Busy(v)' <=> Busy(v)
    BY <2>1 DEF Busy
  <2> QED BY <2>1, <2>2 DEF BInv, Quiet, CurrentIsRunning, DoneIsFinal, Settled
<1>4. CASE ExecuteStart(w) \/ BodyDone(w) \/ ExecuteExcept(w)
  <2>1. /\ UNCHANGED <<current, history, done, wtask, pc, dying, asyncExc>>
        /\ Busy(w) /\ Busy(w)' /\ \A v \in Thread : v # w => wpc'[v] = wpc[v]
    BY <1>0, <1>4 DEF ExecuteStart, BodyDone, ExecuteExcept, Busy, queueVars, callerVars
  <2>2. /\ \A t \in Task : t # wtask[w] => tstate'[t] = tstate[t]
        /\ wpc'[w] = "finally" => tstate'[wtask[w]] \in {"done", "error"}
        /\ wpc'[w] # "finish"
        /\ tstate[wtask[w]] \in {"pending", "running"}
    BY <1>0, <1>4, <2>1 DEF ExecuteStart, BodyDone, ExecuteExcept, BInv, PInv, States, StatesAt
  <2>3. \A v \in Thread : Busy(v)' <=> Busy(v)
    BY <2>1 DEF Busy
  <2>4. current = wtask[w]
    BY <2>1 DEF BInv, CurrentIsRunning
  <2>5. CurrentIsRunning'
    BY <2>1, <2>2, <2>3, <2>4 DEF BInv, CurrentIsRunning
  <2>6. DoneIsFinal'
    BY <1>0, <2>1, <2>2 DEF BInv, DoneIsFinal
  <2>7. Settled'
    BY <1>0, <2>1, <2>2 DEF BInv, Settled
  <2> QED BY <2>1, <2>5, <2>6, <2>7 DEF BInv, Quiet
<1>5. CASE ExecuteFinally(w)
  <2>1. /\ wpc[w] = "finally" /\ wpc'[w] = "finish" /\ \A v \in Thread : v # w => wpc'[v] = wpc[v]
        /\ UNCHANGED <<current, history, tstate, wtask, pc, dying, asyncExc>>
        /\ done' = done \cup {wtask[w]}
    BY <1>0, <1>5 DEF BInv, Quiet, ExecuteFinally, queueVars, callerVars
  <2>2. \A v \in Thread : Busy(v)' <=> Busy(v)
    BY <2>1 DEF Busy
  <2> QED BY <2>1, <2>2 DEF BInv, Quiet, CurrentIsRunning, DoneIsFinal, Settled
<1>6. CASE RunFinish(w)
  <2>1. /\ wpc'[w] = "wait" /\ Busy(w) /\ current' = NoTask
        /\ history' = Append(history, wtask[w])
        /\ \A v \in Thread : v # w => wpc'[v] = wpc[v]
        /\ UNCHANGED <<done, tstate, pc, dying, asyncExc>>
    BY <1>0, <1>6 DEF RunFinish, Record, Busy, taskVars, callerVars
  <2>2. \A v \in Thread : ~Busy(v)'
    BY <1>0, <2>1 DEF Busy
  <2>3. current = wtask[w]
    BY <2>1 DEF BInv, CurrentIsRunning
  <2>4. Range(history') = Range(history) \cup {wtask[w]}
    <3> DEFINE t == wtask[w]
    <3>1. history \in Seq(Task) /\ IsInjective(history)
      BY DEF BInv, PInv, IInv, TypeOK, Places, OnePlace
    <3>2. t \in Task /\ t \notin Range(history)
      BY <1>0, <2>1 DEF BInv, PInv, Places, OnePlace
    <3> HIDE DEF t
    <3>3. Range(Append(history, t)) = Range(history) \cup {t} /\ IsInjective(Append(history, t))
      BY <3>1, <3>2, AppendRange
    <3> QED BY <2>1, <3>3 DEF t
  <2>5. CurrentIsRunning'
    BY <2>1, <2>2, <2>3, <2>4 DEF BInv, CurrentIsRunning
  <2>6. Settled'
    BY <2>2 DEF Settled, Busy
  <2> QED BY <2>1, <2>5, <2>6 DEF BInv, Quiet, DoneIsFinal
<1> QED BY <1>1, <1>2, <1>3, <1>4, <1>5, <1>6 DEF WorkerStep

LEMMA BooksNext ==
    ASSUME NoInterrupts
    PROVE  BInv /\ [Next]_vars => BInv'
<1> SUFFICES ASSUME BInv, [Next]_vars
             PROVE  Quiet' /\ CurrentIsRunning' /\ DoneIsFinal' /\ Settled'
  BY StepPlaces DEF BInv
<1>1. CASE \E c \in Caller : CallerNext(c)
  BY <1>1, CallerQuiet, CallerBooks DEF BInv, PInv
<1>2. CASE \E w \in Thread : WorkerStep(w)
  BY <1>2, WorkerBooks
<1>3. CASE \E w \in Thread : Interrupt(w)
  BY <1>3 DEF BInv, Quiet, Interrupt, InterruptBody, InterruptScan, InterruptWait,
              InterruptStart, InterruptExcept, InterruptFinally, InterruptFinish, Hit
<1>4. CASE UNCHANGED vars
  BY <1>4 DEF BInv, Quiet, CurrentIsRunning, DoneIsFinal, Settled, Busy, vars, queueVars,
              taskVars, workerVars, callerVars
<1> QED BY <1>1, <1>2, <1>3, <1>4 DEF Next

\* As long as nobody interrupts the worker, the queue, its worker and those who
\* wait see the same of every task: `current' is what runs, what ran is there or
\* in the history, and Task.wait() returns only on a final outcome.
THEOREM BooksAreKept ==
    ASSUME NoInterrupts
    PROVE  Spec => []Bookkeeping
<1>1. Init => BInv
  <2> SUFFICES ASSUME Init PROVE BInv
    OBVIOUS
  <2>1. /\ \A w \in Thread : ~Busy(w) /\ current = NoTask /\ done = {}
        /\ \A t \in Task : tstate[t] = "new"
    BY DEF Init, Busy
  <2>2. Quiet
    BY DEF Init, Quiet
  <2> QED BY <2>1, <2>2, InitPlaces DEF BInv, Init, CurrentIsRunning, DoneIsFinal, Settled, Busy
<1>2. BInv /\ [Next]_vars => BInv'
  BY BooksNext
<1>3. BInv => Bookkeeping
  BY DEF BInv, PInv, Places, Bookkeeping
<1> QED BY <1>1, <1>2, <1>3, PTL DEF Spec

=============================================================================
