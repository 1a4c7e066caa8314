------------------------------ MODULE TaskQueue ------------------------------
(* A named queue of eco.utilities.task_queue: tasks appended and edited by     *)
(* several threads (the prompt, the pool threads of the web client, GUI         *)
(* panels) and run one after another on a worker thread that is started on     *)
(* demand.  Each block the code runs under TaskQueue._lock is one action; what  *)
(* it reads or writes outside the lock is a step of its own, so a stale length, *)
(* a stale `current' or a KeyboardInterrupt that arrives late can happen here   *)
(* as it can in the program.                                                    *)
EXTENDS Naturals, Sequences, SequencesExt

CONSTANTS
    Caller,      \* threads that call the queue's methods
    Thread,      \* identities of worker threads
    NoThread,    \* the value of _worker before the first append
    MaxTasks,    \* bound: tasks constructed in a behaviour
    MaxScans,    \* bound: scans started inside one task
    Ops,         \* the queue methods the callers use
    OnError      \* TaskQueue.on_error

AllOps == {"append", "insert", "repeat_last", "remove", "move", "clear", "pause",
           "resume", "stop_running_task", "stop", "wait", "close",
           "pause_running_task", "resume_running_task"}

ASSUME TaskQueueAssumption ==
    /\ MaxTasks \in Nat
    /\ MaxScans \in Nat
    /\ NoThread \notin Thread
    /\ Ops \subseteq AllOps
    /\ OnError \in {"pause", "continue"}

Task == 1 .. MaxTasks       \* Task.id, given out by Task._ids
NoTask == 0

VARIABLES
    pending, current, history, paused, closing, worker,    \* the TaskQueue
    ids, tstate, done, nscans, stopReq, scanPaused,        \* the Tasks and their scans
    wpc, wtask, dying, asyncExc,                           \* the worker threads
    pc, argTask, argIndex, dropped,                        \* the callers
    acked                                                  \* history variable

queueVars == <<pending, current, history, paused, closing, worker>>
scanVars == <<nscans, stopReq, scanPaused>>
taskVars == <<ids, tstate, done, scanVars>>
workerVars == <<wpc, wtask, dying, asyncExc>>
callerVars == <<pc, argTask, argIndex, dropped>>
auxVars == <<acked>>
vars == <<queueVars, taskVars, workerVars, callerVars, auxVars>>

(* acked holds the tasks whose failure Task.wait() had reported when some       *)
(* resume() was called.  It only records.                                      *)

-----------------------------------------------------------------------------
(* Where a thread is.  A worker is "off" before it starts and after it ended.  *)

WorkerPC == {"off", "wait", "start", "body", "step", "check", "except",
             "finally", "finish"}
CallerPC == {"idle", "insert", "ensure", "mark", "markStop", "stopRead",
             "stopPause", "stopSignal", "wait"}

TypeOK ==
    /\ pending \in Seq(Task)
    /\ history \in Seq(Task)
    /\ current \in Task \cup {NoTask}
    /\ paused \in BOOLEAN
    /\ closing \in BOOLEAN
    /\ worker \in Thread \cup {NoThread}
    /\ ids \in 0 .. MaxTasks
    /\ tstate \in [Task -> {"new", "pending", "running", "done", "error", "cancelled"}]
    /\ done \subseteq Task
    /\ nscans \in [Task -> 0 .. MaxScans]
    /\ stopReq \in [Task -> 0 .. MaxScans]
    /\ scanPaused \in [Task -> BOOLEAN]
    /\ wpc \in [Thread -> WorkerPC]
    /\ wtask \in [Thread -> Task \cup {NoTask}]
    /\ dying \in [Thread -> BOOLEAN]
    /\ asyncExc \in [Thread -> Task \cup {NoTask}]
    /\ pc \in [Caller -> CallerPC]
    /\ argTask \in [Caller -> Task \cup {NoTask}]
    /\ argIndex \in [Caller -> Nat]
    /\ dropped \in [Caller -> SUBSET Task]
    /\ acked \subseteq Task

Init ==
    /\ pending = << >> /\ history = << >> /\ current = NoTask
    /\ paused = FALSE /\ closing = FALSE /\ worker = NoThread
    /\ ids = 0
    /\ tstate = [t \in Task |-> "new"]
    /\ done = {}
    /\ nscans = [t \in Task |-> 0]
    /\ stopReq = [t \in Task |-> 0]
    /\ scanPaused = [t \in Task |-> FALSE]
    /\ wpc = [w \in Thread |-> "off"]
    /\ wtask = [w \in Thread |-> NoTask]
    /\ dying = [w \in Thread |-> FALSE]
    /\ asyncExc = [w \in Thread |-> NoTask]
    /\ pc = [c \in Caller |-> "idle"]
    /\ argTask = [c \in Caller |-> NoTask]
    /\ argIndex = [c \in Caller |-> 0]
    /\ dropped = [c \in Caller |-> {}]
    /\ acked = {}

-----------------------------------------------------------------------------
(* Adding and editing.                                                         *)

\* list.insert(i, t): Python clamps the index to the length.
PyInsert(s, i, t) == InsertAt(s, IF i < Len(s) THEN i + 1 ELSE Len(s) + 1, t)

\* A method call begins: the caller is free and uses this method.
Calls(c, op) == op \in Ops /\ pc[c] = "idle"

\* The call returns; what it had in local variables is gone.
Returns(c) ==
    /\ pc' = [pc EXCEPT ![c] = "idle"]
    /\ argTask' = [argTask EXCEPT ![c] = NoTask]
    /\ argIndex' = [argIndex EXCEPT ![c] = 0]
    /\ dropped' = [dropped EXCEPT ![c] = {}]

\* The call goes on at loc.
CallAt(c, loc) ==
    pc' = [pc EXCEPT ![c] = loc] /\ UNCHANGED <<argTask, argIndex, dropped>>

\* insert() up to its test run: the Task is constructed, the index is fixed.
BeginInsert(c, i) ==
    /\ ids < MaxTasks
    /\ ids' = ids + 1
    /\ tstate' = [tstate EXCEPT ![ids + 1] = "pending"]
    /\ argTask' = [argTask EXCEPT ![c] = ids + 1]
    /\ argIndex' = [argIndex EXCEPT ![c] = i]
    /\ pc' = [pc EXCEPT ![c] = "insert"]
    /\ UNCHANGED <<queueVars, done, scanVars, workerVars, dropped, acked>>

\* append() reads len(self._pending) without the lock, before the test run.
AppendTask(c) == Calls(c, "append") /\ BeginInsert(c, Len(pending))

InsertTask(c, i) == Calls(c, "insert") /\ BeginInsert(c, i)

\* The task repeat_last() copies.
LastTask ==
    IF pending # << >> THEN Last(pending)
    ELSE IF current # NoTask THEN current
    ELSE IF history # << >> THEN Last(history) ELSE NoTask

RepeatLast(c) ==
    Calls(c, "repeat_last") /\ LastTask # NoTask /\ BeginInsert(c, Len(pending))

\* The test run finds problems: QueueTestError, nothing is appended.
TestFails(c) ==
    /\ pc[c] = "insert"
    /\ Returns(c)
    /\ UNCHANGED <<queueVars, taskVars, workerVars, auxVars>>

\* Mutant: insert() does not start the worker.
DoInsertOnly(c) ==
    /\ pc[c] = "insert"
    /\ pending' = PyInsert(pending, argIndex[c], argTask[c])
    /\ Returns(c)
    /\ UNCHANGED <<current, history, paused, closing, worker, taskVars, workerVars,
                   auxVars>>

\* The locked part of insert().
DoInsert(c) ==
    /\ pc[c] = "insert"
    /\ pending' = PyInsert(pending, argIndex[c], argTask[c])
    /\ CallAt(c, "ensure")
    /\ UNCHANGED <<current, history, paused, closing, worker, taskVars, workerVars,
                   auxVars>>

\* Mutant: a thread that is running a task is taken for a dead one.
WorkerWaiting == worker # NoThread /\ wpc[worker] = "wait"

WorkerAlive == worker # NoThread /\ wpc[worker] # "off"

\* A new thread for the queue; the one before it has ended.
StartThread(w) ==
    /\ wpc[w] = "off"
    /\ worker' = w
    /\ wpc' = [wpc EXCEPT ![w] = "wait"]

EnsureWorker(c) ==
    /\ pc[c] = "ensure"
    /\ Returns(c)
    /\ IF WorkerAlive
       THEN UNCHANGED <<worker, wpc>>
       ELSE \E w \in Thread : StartThread(w)
    /\ UNCHANGED <<pending, current, history, paused, closing, taskVars,
                   wtask, dying, asyncExc, auxVars>>

\* Mutant: remove() only marks the task.
RemoveMarkOnly(c, i) ==
    /\ Calls(c, "remove")
    /\ i \in DOMAIN pending
    /\ dropped' = [dropped EXCEPT ![c] = {pending[i]}]
    /\ pc' = [pc EXCEPT ![c] = "mark"]
    /\ UNCHANGED <<queueVars, taskVars, workerVars, argTask, argIndex, auxVars>>

RemoveTask(c, i) ==
    /\ Calls(c, "remove")
    /\ i \in DOMAIN pending
    /\ pending' = RemoveAt(pending, i)
    /\ dropped' = [dropped EXCEPT ![c] = {pending[i]}]
    /\ pc' = [pc EXCEPT ![c] = "mark"]
    /\ UNCHANGED <<current, history, paused, closing, worker, taskVars, workerVars,
                   argTask, argIndex, auxVars>>

MoveTask(c, i, j) ==
    /\ Calls(c, "move")
    /\ i \in DOMAIN pending
    /\ pending' = PyInsert(RemoveAt(pending, i), j, pending[i])
    /\ UNCHANGED <<current, history, paused, closing, worker, taskVars, workerVars,
                   callerVars, auxVars>>

\* clear(), and the first half of stop(): take the whole list under the lock.
Drop(c, next) ==
    /\ pending' = << >>
    /\ dropped' = [dropped EXCEPT ![c] = Range(pending)]
    /\ pc' = [pc EXCEPT ![c] = next]
    /\ UNCHANGED <<current, history, paused, closing, worker, taskVars, workerVars,
                   argTask, argIndex, auxVars>>

ClearTasks(c) == Calls(c, "clear") /\ Drop(c, "mark")

StopQueue(c) == Calls(c, "stop") /\ Drop(c, "markStop")

\* remove() and clear() mark what they took after they released the lock.
MarkCancelled(c) ==
    /\ pc[c] \in {"mark", "markStop"}
    /\ tstate' = [t \in Task |-> IF t \in dropped[c] THEN "cancelled" ELSE tstate[t]]
    /\ done' = done \cup dropped[c]
    /\ dropped' = [dropped EXCEPT ![c] = {}]
    /\ pc' = [pc EXCEPT ![c] = IF pc[c] = "mark" THEN "idle" ELSE "stopRead"]
    /\ UNCHANGED <<queueVars, ids, scanVars, workerVars, argTask, argIndex, auxVars>>

-----------------------------------------------------------------------------
(* Flow control.                                                               *)

PauseQueue(c) ==
    /\ Calls(c, "pause")
    /\ paused' = TRUE
    /\ UNCHANGED <<pending, current, history, closing, worker, taskVars, workerVars,
                   callerVars, auxVars>>

Failed == {t \in Task : tstate[t] = "error"}

ResumeQueue(c) ==
    /\ Calls(c, "resume")
    /\ paused' = FALSE
    /\ acked' = acked \cup (Failed \cap done)
    /\ CallAt(c, "ensure")
    /\ UNCHANGED <<pending, current, history, closing, worker, taskVars, workerVars>>

\* stop_running_task() looks at self.current without the lock ...
StopRead(c) ==
    /\ Calls(c, "stop_running_task") \/ pc[c] = "stopRead"
    /\ argTask' = [argTask EXCEPT ![c] = current]
    /\ pc' = [pc EXCEPT ![c] = IF current = NoTask THEN "idle" ELSE "stopPause"]
    /\ UNCHANGED <<queueVars, taskVars, workerVars, argIndex, dropped, auxVars>>

\* ... pauses the queue ...
StopPause(c) ==
    /\ pc[c] = "stopPause"
    /\ paused' = TRUE
    /\ CallAt(c, "stopSignal")
    /\ UNCHANGED <<pending, current, history, closing, worker, taskVars, workerVars,
                   auxVars>>

\* ... and asks the scans the task has registered to stop,
StopScans(c) ==
    /\ pc[c] = "stopSignal"
    /\ nscans[argTask[c]] > 0
    /\ stopReq' = [stopReq EXCEPT ![argTask[c]] = nscans[argTask[c]]]
    /\ scanPaused' = [scanPaused EXCEPT ![argTask[c]] = FALSE]
    /\ Returns(c)
    /\ UNCHANGED <<queueVars, ids, tstate, done, nscans, workerVars, auxVars>>

\* or leaves a KeyboardInterrupt for the worker thread, whatever that runs by
\* now.  asyncExc keeps the task the call was about; a dead thread is not hit.
StopInterrupt(c) ==
    /\ pc[c] = "stopSignal"
    /\ nscans[argTask[c]] = 0
    /\ asyncExc' = IF WorkerAlive THEN [asyncExc EXCEPT ![worker] = argTask[c]]
                                  ELSE asyncExc
    /\ Returns(c)
    /\ UNCHANGED <<queueVars, taskVars, wpc, wtask, dying, auxVars>>

\* pause_running_task() / resume_running_task() act on the task's latest scan.
SetScanPaused(c, op, value) ==
    /\ Calls(c, op)
    /\ current # NoTask
    /\ nscans[current] > 0
    /\ scanPaused' = [scanPaused EXCEPT ![current] = value]
    /\ UNCHANGED <<queueVars, ids, tstate, done, nscans, stopReq, workerVars,
                   callerVars, auxVars>>

PauseRunningTask(c) == SetScanPaused(c, "pause_running_task", TRUE)

ResumeRunningTask(c) == SetScanPaused(c, "resume_running_task", FALSE)

\* Mutant: wait() does not look at the pause.
IdleUnlessPending == current = NoTask /\ pending = << >>

Idle == current = NoTask /\ (pending = << >> \/ paused)

WaitQueue(c) ==
    /\ Calls(c, "wait")
    /\ CallAt(c, "wait")
    /\ UNCHANGED <<queueVars, taskVars, workerVars, auxVars>>

WaitReturns(c) ==
    /\ pc[c] = "wait"
    /\ Idle
    /\ Returns(c)
    /\ UNCHANGED <<queueVars, taskVars, workerVars, auxVars>>

CloseQueue(c) ==
    /\ Calls(c, "close")
    /\ closing' = TRUE
    /\ UNCHANGED <<pending, current, history, paused, worker, taskVars, workerVars,
                   callerVars, auxVars>>

CallerNext(c) ==
    \/ AppendTask(c) \/ RepeatLast(c) \/ TestFails(c) \/ DoInsert(c) \/ EnsureWorker(c)
    \/ \E i \in 0 .. Len(pending) : InsertTask(c, i)
    \/ \E i \in DOMAIN pending : RemoveTask(c, i)
    \/ \E i \in DOMAIN pending, j \in 0 .. Len(pending) : MoveTask(c, i, j)
    \/ ClearTasks(c) \/ StopQueue(c) \/ MarkCancelled(c)
    \/ PauseQueue(c) \/ ResumeQueue(c)
    \/ StopRead(c) \/ StopPause(c) \/ StopScans(c) \/ StopInterrupt(c)
    \/ PauseRunningTask(c) \/ ResumeRunningTask(c)
    \/ WaitQueue(c) \/ WaitReturns(c) \/ CloseQueue(c)

-----------------------------------------------------------------------------
(* The worker thread.  A pending KeyboardInterrupt is raised before the thread *)
(* gets any further, so the ordinary steps need asyncExc[w] = NoTask.          *)

At(w, loc) == wpc[w] = loc /\ asyncExc[w] = NoTask

Goto(w, loc) == wpc' = [wpc EXCEPT ![w] = loc]

\* The thread ends; its locals go with it.
Ends(w) ==
    /\ Goto(w, "off")
    /\ wtask' = [wtask EXCEPT ![w] = NoTask]
    /\ dying' = [dying EXCEPT ![w] = FALSE]
    /\ asyncExc' = [asyncExc EXCEPT ![w] = NoTask]

\* _run: wait for something to do, take the first task.
RunPop(w) ==
    /\ At(w, "wait")
    /\ ~closing /\ ~paused /\ pending # << >>
    /\ pending' = Tail(pending)
    /\ current' = Head(pending)
    /\ wtask' = [wtask EXCEPT ![w] = Head(pending)]
    /\ Goto(w, "start")
    /\ UNCHANGED <<history, paused, closing, worker, taskVars, dying, asyncExc,
                   callerVars, auxVars>>

RunReturn(w) ==
    /\ At(w, "wait")
    /\ closing
    /\ Ends(w)
    /\ UNCHANGED <<queueVars, taskVars, callerVars, auxVars>>

\* _execute up to its try.
ExecuteStart(w) ==
    /\ At(w, "start")
    /\ tstate' = [tstate EXCEPT ![wtask[w]] = "running"]
    /\ Goto(w, "body")
    /\ UNCHANGED <<queueVars, ids, done, scanVars, wtask, dying, asyncExc,
                   callerVars, auxVars>>

\* The command runs a scan: StepScan.scan_all calls register_scan.
ScanStart(w) ==
    /\ At(w, "body")
    /\ nscans[wtask[w]] < MaxScans
    /\ nscans' = [nscans EXCEPT ![wtask[w]] = @ + 1]
    /\ scanPaused' = [scanPaused EXCEPT ![wtask[w]] = FALSE]
    /\ Goto(w, "check")
    /\ UNCHANGED <<queueVars, ids, tstate, done, stopReq, wtask, dying, asyncExc,
                   callerVars, auxVars>>

StopRequested(t) == stopReq[t] = nscans[t]

\* The checkpoint between two steps of the scan.
ScanCheck(w) ==
    /\ At(w, "check")
    /\ ~scanPaused[wtask[w]]
    /\ Goto(w, IF StopRequested(wtask[w]) THEN "body" ELSE "step")
    /\ UNCHANGED <<queueVars, taskVars, wtask, dying, asyncExc, callerVars, auxVars>>

\* A step was taken: more steps follow, or the scan is over ("body": it ended,
\* or a step failed and scan_all swallowed that; "except": its end failed).
ScanStep(w) ==
    /\ At(w, "step")
    /\ \E next \in {"check", "body", "except"} : Goto(w, next)
    /\ UNCHANGED <<queueVars, taskVars, wtask, dying, asyncExc, callerVars, auxVars>>

BodyDone(w) ==
    /\ At(w, "body")
    /\ tstate' = [tstate EXCEPT ![wtask[w]] = "done"]
    /\ Goto(w, "finally")
    /\ UNCHANGED <<queueVars, ids, done, scanVars, wtask, dying, asyncExc,
                   callerVars, auxVars>>

BodyRaises(w) ==
    /\ At(w, "body")
    /\ Goto(w, "except")
    /\ UNCHANGED <<queueVars, taskVars, wtask, dying, asyncExc, callerVars, auxVars>>

\* except BaseException: record the error.
ExecuteExcept(w) ==
    /\ At(w, "except")
    /\ tstate' = [tstate EXCEPT ![wtask[w]] = "error"]
    /\ Goto(w, "finally")
    /\ UNCHANGED <<queueVars, ids, done, scanVars, wtask, dying, asyncExc,
                   callerVars, auxVars>>

\* finally: everybody in Task.wait() goes on.
ExecuteFinally(w) ==
    /\ At(w, "finally")
    /\ done' = done \cup {wtask[w]}
    /\ IF dying[w]
       THEN Ends(w)
       ELSE Goto(w, "finish") /\ UNCHANGED <<wtask, dying, asyncExc>>
    /\ UNCHANGED <<queueVars, ids, tstate, scanVars, callerVars, auxVars>>

\* Mutant: history.append(self.current) after self.current = None.
RecordCleared(w) == current' = NoTask /\ history' = Append(history, NoTask)

\* Mutant: self.current is left alone.
RecordOnly(w) == current' = current /\ history' = Append(history, wtask[w])

\* The worker puts the task away.
Record(w) == current' = NoTask /\ history' = Append(history, wtask[w])

\* Mutant: on_error is not looked at.
PausedAnyway(w) == paused

PausedAfter(w) == paused \/ (tstate[wtask[w]] = "error" /\ OnError = "pause")

\* _run: the locked part after _execute.
RunFinish(w) ==
    /\ At(w, "finish")
    /\ Record(w)
    /\ paused' = PausedAfter(w)
    /\ wtask' = [wtask EXCEPT ![w] = NoTask]
    /\ Goto(w, "wait")
    /\ UNCHANGED <<pending, closing, worker, taskVars, dying, asyncExc, callerVars, auxVars>>

WorkerStep(w) ==
    \/ RunPop(w) \/ RunReturn(w) \/ ExecuteStart(w)
    \/ ScanStart(w) \/ ScanCheck(w) \/ ScanStep(w)
    \/ BodyDone(w) \/ BodyRaises(w) \/ ExecuteExcept(w) \/ ExecuteFinally(w)
    \/ RunFinish(w)

-----------------------------------------------------------------------------
(* The KeyboardInterrupt of stop_running_task() reaches the worker thread.     *)
(* Inside the try it becomes the task's error; anywhere else in _run or        *)
(* _execute nothing catches it and it ends the thread.                         *)

Hit(w, loc) == wpc[w] = loc /\ asyncExc[w] # NoTask

Catch(w, loc) == Goto(w, loc) /\ asyncExc' = [asyncExc EXCEPT ![w] = NoTask]

InterruptBody(w) ==
    /\ Hit(w, "body")
    /\ Catch(w, "except")
    /\ UNCHANGED <<queueVars, taskVars, wtask, dying, callerVars, auxVars>>

\* In a scan the bare except of scan_all swallows it; in the end of the scan,
\* which runs after that except, it propagates.
InterruptScan(w) ==
    /\ Hit(w, "step") \/ Hit(w, "check")
    /\ Catch(w, "body") \/ Catch(w, "except")
    /\ UNCHANGED <<queueVars, taskVars, wtask, dying, callerVars, auxVars>>

\* In the wait loop, or between pop(0) and the assignment of self.current.
InterruptWait(w) ==
    /\ Hit(w, "wait")
    /\ Ends(w)
    /\ \/ pending' = pending
       \/ ~closing /\ ~paused /\ pending # << >> /\ pending' = Tail(pending)
    /\ UNCHANGED <<current, history, paused, closing, worker, taskVars, callerVars, auxVars>>

\* In _execute before its try.
InterruptStart(w) ==
    /\ Hit(w, "start")
    /\ Ends(w)
    /\ tstate' \in {tstate, [tstate EXCEPT ![wtask[w]] = "running"]}
    /\ UNCHANGED <<queueVars, ids, done, scanVars, callerVars, auxVars>>

\* In the except clause, before or (at "finally", the task in error) after the
\* task's state is set: the finally clause still runs, then the thread ends.
InterruptExcept(w) ==
    /\ Hit(w, "except") \/ (Hit(w, "finally") /\ tstate[wtask[w]] = "error")
    /\ Catch(w, "finally")
    /\ dying' = [dying EXCEPT ![w] = TRUE]
    /\ UNCHANGED <<queueVars, taskVars, wtask, callerVars, auxVars>>

\* In the finally clause before _done.set().
InterruptFinally(w) ==
    /\ Hit(w, "finally")
    /\ Ends(w)
    /\ UNCHANGED <<queueVars, taskVars, callerVars, auxVars>>

\* After _execute: before, or half way through, the locked block that ends a task.
InterruptFinish(w) ==
    /\ Hit(w, "finish")
    /\ Ends(w)
    /\ \/ UNCHANGED <<current, history>>
       \/ Record(w)
    /\ UNCHANGED <<pending, paused, closing, worker, taskVars, callerVars, auxVars>>

Interrupt(w) ==
    \/ InterruptBody(w) \/ InterruptScan(w) \/ InterruptWait(w) \/ InterruptStart(w)
    \/ InterruptExcept(w) \/ InterruptFinally(w) \/ InterruptFinish(w)

Next ==
    \/ \E c \in Caller : CallerNext(c)
    \/ \E w \in Thread : WorkerStep(w) \/ Interrupt(w)

Spec == Init /\ [][Next]_vars

\* A method that began goes on; wait() polls; worker threads are scheduled and
\* the commands of the tasks come to an end.
CallerProceeds(c) ==
    \/ DoInsert(c) \/ EnsureWorker(c) \/ MarkCancelled(c) \/ StopPause(c)
    \/ StopScans(c) \/ StopInterrupt(c) \/ (pc[c] = "stopRead" /\ StopRead(c))

Fairness ==
    /\ \A c \in Caller : WF_vars(CallerProceeds(c)) /\ WF_vars(WaitReturns(c))
    /\ \A w \in Thread : WF_vars(WorkerStep(w)) /\ WF_vars(Interrupt(w))

FairSpec == Spec /\ Fairness

-----------------------------------------------------------------------------
(* Safety.                                                                     *)

Busy(w) == wpc[w] \notin {"off", "wait"}

\* Two worker threads never run tasks at the same time, although any call may
\* start a thread and the old one may just be dying (_ensure_worker).
OneTaskAtATime == \A v, w \in Thread : Busy(v) /\ Busy(w) => v = w

\* A task is in one place only, once: waiting, in the hands of a worker, taken
\* out by remove()/clear(), or in the history.  So no task runs twice, and one
\* that was dropped while the worker looked for work does not run at all.
OnePlace ==
    /\ IsInjective(pending) /\ IsInjective(history)
    /\ Range(pending) \cap Range(history) = {}
    /\ \A w \in Thread : Busy(w) => wtask[w] \notin Range(pending) \cup Range(history)
    /\ \A c \in Caller : dropped[c] \cap (Range(pending) \cup Range(history)) = {}
    /\ \A c \in Caller, w \in Thread : Busy(w) => wtask[w] \notin dropped[c]

\* A task only goes pending -> running -> done | error, or pending -> cancelled
\* (the comment in Task.__init__), whatever callers and interrupts do.
TaskLife ==
    [][\A t \in Task : tstate'[t] # tstate[t] =>
          <<tstate[t], tstate'[t]>> \in
              {<<"new", "pending">>, <<"pending", "running">>, <<"running", "done">>,
               <<"running", "error">>, <<"pending", "cancelled">>}]_vars

\* Without interrupts: `current' is what the worker has in its hands, and what
\* ran is there or in the history, never lost between the two (_run).
CurrentIsRunning ==
    /\ \A w \in Thread : Busy(w) => current = wtask[w]
    /\ current # NoTask => \E w \in Thread : Busy(w)
    /\ \A t \in Task : tstate[t] \in {"running", "done", "error"} =>
          t = current \/ t \in Range(history)

\* Without interrupts: whoever waits for a task is woken only when the task's
\* outcome is final (Task.wait reads exception and result right after).
DoneIsFinal ==
    \A t \in done : tstate[t] \in {"done", "error", "cancelled"}

\* Without interrupts, what the queue, its worker and those who wait see of a
\* task agrees.
Bookkeeping == OnePlace /\ CurrentIsRunning /\ DoneIsFinal

\* "When a task fails, the queue pauses so later tasks don't run on a broken
\* step": with on_error = "pause" no task is started while some task has failed
\* and nobody called resume() since.
FailureHolds ==
    [][\A w \in Thread : RunPop(w) => Failed \subseteq acked]_vars

-----------------------------------------------------------------------------
(* Liveness.                                                                   *)

\* A task that waits is run or dropped, unless the queue is paused or closed.
PendingIsServed ==
    \A t \in Task : t \in Range(pending) ~> t \in done \/ paused \/ closing

\* TaskQueue.wait() returns, unless the queue is closed or somebody keeps pausing
\* and resuming it for ever (each look at the queue can then come too early).
WaitEnds ==
    (<>[]paused \/ <>[]~paused) =>
        \A c \in Caller : pc[c] = "wait" ~> pc[c] # "wait" \/ closing

=============================================================================
