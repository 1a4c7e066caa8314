------------------------------- MODULE MainThread -------------------------------
(* The main-thread heartbeat and the questions that worker threads ask         *)
(* through it.  Workers put calls into a queue; the main thread runs them in a *)
(* tick, which its Qt loop starts (a wake event) or, while user code runs, a   *)
(* signal of the watchdog thread.  A question is such a call, which is shown   *)
(* to the user until he answers.  The heartbeat is installed with              *)
(* scope = "cells", as a session does it.  No part of eco registers a service,  *)
(* so that the driver's timer runs in cells only, where Qt's loop does not; it  *)
(* is left out with them.                                                       *)
EXTENDS Naturals, Sequences, FiniteSets

CONSTANTS
    Asker,    \* workers that ask the user
    Caller,   \* workers that have a function run on the main thread (on_main)
    None,
    MaxWakes  \* bound: no worker begins a call while so many wakes are queued

ASSUME MainThreadAssumption ==
    /\ Asker \cap Caller = {} /\ None \notin Asker \cup Caller
    /\ IsFiniteSet(Asker) /\ IsFiniteSet(Caller)
    /\ MaxWakes \in Nat \ {0}

Worker == Asker \cup Caller

VARIABLES
    qt,         \* what there is of Qt: an app, _qt_seen, the driver _qt
    terminal,   \* the shell has a terminal
    cell,       \* _cells > 0
    handler,    \* the main thread is in a handler of Qt, outside of a tick
    signalled,  \* SIGUSR2 is on its way to the main thread
    wakes,      \* wake events in the queue of Qt's loop
    calls,      \* _calls
    tick,       \* where the main thread is in _tick
    left,       \* iterations _run_calls has left
    shown,      \* the question that is shown in a tick
    prompt,     \* the question that is shown above the prompt
    pending,    \* _pending
    lock,       \* the asker that has _dispatch_lock
    pc,         \* where each worker is
    resolved,   \* the workers whose call or question has its result
    noticed     \* history: _qt_seen was set between the test and the tick

tickVars == <<tick, left, noticed>>
askVars == <<shown, prompt, pending, resolved>>
workerVars == <<lock, pc>>
vars == <<qt, terminal, cell, handler, signalled, wakes, calls,
          tick, left, shown, prompt, pending, lock, pc, resolved, noticed>>

TypeOK ==
    /\ qt \in {"none", "app", "seen", "driver"}
    /\ {terminal, cell, handler, signalled, noticed} \subseteq BOOLEAN
    /\ wakes \in 0..(MaxWakes + Cardinality(Worker))
    /\ calls \in Seq(Worker) /\ Len(calls) <= Cardinality(Worker)
    /\ tick \in {"no", "begin", "pump", "run"}
    /\ left \in 0..Cardinality(Worker)
    /\ {shown, prompt, lock} \subseteq Asker \cup {None}
    /\ pending \subseteq Asker
    /\ pc \in [Worker -> {"idle", "lock", "append", "wake", "wait"}]
    /\ resolved \subseteq Worker

\* A window of eco's has asked for the driver, or there is no Qt yet.
Init ==
    /\ qt \in {"none", "driver"}
    /\ terminal \in BOOLEAN
    /\ cell = FALSE /\ handler = FALSE
    /\ signalled = FALSE /\ wakes = 0 /\ calls = <<>>
    /\ tick = "no" /\ left = 0 /\ noticed = FALSE
    /\ shown = None /\ prompt = None /\ pending = {} /\ resolved = {}
    /\ lock = None /\ pc = [w \in Worker |-> "idle"]

-----------------------------------------------------------------------------
(* Workers.                                                                    *)

At(w, loc) == pc[w] = loc
Goto(w, loc) == pc' = [pc EXCEPT ![w] = loc]

\* ask(): one question at a time.  A call of on_main goes to the queue at once.
Ask(w) ==
    /\ At(w, "idle")
    /\ wakes < MaxWakes
    /\ Goto(w, IF w \in Asker THEN "lock" ELSE "append")
    /\ UNCHANGED <<qt, terminal, cell, handler, signalled, wakes, calls,
                   tickVars, askVars, lock>>

TakeLock(w) ==
    /\ At(w, "lock")
    /\ lock = None
    /\ lock' = w
    /\ Goto(w, "append")
    /\ UNCHANGED <<qt, terminal, cell, handler, signalled, wakes, calls,
                   tickVars, askVars>>

Emit == wakes' = IF qt = "driver" THEN wakes + 1 ELSE wakes

\* Mutant: the loop is woken before the call is in the queue.
CallSoonWakeFirst(w) ==
    \/ /\ At(w, "append")
       /\ Emit
       /\ Goto(w, "wake")
       /\ UNCHANGED <<qt, terminal, cell, handler, signalled, calls,
                      tickVars, askVars, lock>>
    \/ /\ At(w, "wake")
       /\ calls' = Append(calls, w)
       /\ Goto(w, "wait")
       /\ UNCHANGED <<qt, terminal, cell, handler, signalled, wakes,
                      tickVars, askVars, lock>>

\* call_soon(): the call, and then the wake event.  The call may be over by then.
CallSoon(w) ==
    \/ /\ At(w, "append")
       /\ calls' = Append(calls, w)
       /\ Goto(w, "wake")
       /\ UNCHANGED <<qt, terminal, cell, handler, signalled, wakes,
                      tickVars, askVars, lock>>
    \/ /\ At(w, "wake")
       /\ Emit
       /\ Goto(w, "wait")
       /\ UNCHANGED <<qt, terminal, cell, handler, signalled, calls,
                      tickVars, askVars, lock>>

\* The result is there: the worker goes on, without the lock.
Return(w) ==
    /\ At(w, "wait")
    /\ w \in resolved
    /\ resolved' = resolved \ {w}
    /\ Goto(w, "idle")
    /\ lock' = IF lock = w THEN None ELSE lock
    /\ UNCHANGED <<qt, terminal, cell, handler, signalled, wakes, calls,
                   tickVars, shown, prompt, pending>>

-----------------------------------------------------------------------------
(* What the main thread does by itself.                                        *)

\* It is in user code, in Qt's loop or at the prompt, and in no tick.
Free == tick = "no" /\ ~handler

\* Qt's loop runs, if there is Qt: at the prompt, or while a question is shown
\* above it.
InLoop == Free /\ ~cell /\ qt # "none"

\* pre_run_cell: the driver is made if there is an application by now.
CellBegin ==
    /\ Free /\ ~cell /\ prompt = None
    /\ cell' = TRUE
    /\ qt' = IF qt = "none" THEN "none" ELSE "driver"
    /\ UNCHANGED <<terminal, handler, signalled, wakes, calls, tickVars,
                   askVars, workerVars>>

\* post_run_cell.
CellEnd ==
    /\ Free /\ cell
    /\ cell' = FALSE
    /\ UNCHANGED <<qt, terminal, handler, signalled, wakes, calls, tickVars,
                   askVars, workerVars>>

\* User code makes an application without eco, or a window of eco's does.
MakeApplication ==
    /\ Free /\ cell /\ qt = "none"
    /\ qt' \in {"app", "driver"}
    /\ UNCHANGED <<terminal, cell, handler, signalled, wakes, calls, tickVars,
                   askVars, workerVars>>

\* A handler of Qt, such as a closeEvent: out of Qt's loop, or out of a cell,
\* where eco's own run under hold().
HandlerBegin ==
    /\ Free /\ qt # "none"
    /\ handler' = TRUE
    /\ UNCHANGED <<qt, terminal, cell, signalled, wakes, calls, tickVars,
                   askVars, workerVars>>

HandlerEnd ==
    /\ handler /\ tick = "no"
    /\ handler' = FALSE
    /\ UNCHANGED <<qt, terminal, cell, signalled, wakes, calls, tickVars,
                   askVars, workerVars>>

-----------------------------------------------------------------------------
(* The watchdog.                                                               *)

Hold == handler /\ cell
QtSeen == qt \in {"seen", "driver"}
MayInterrupt == cell \/ ~QtSeen

\* It notices an application of somebody else's.
Notice ==
    /\ qt = "app"
    /\ qt' = "seen"
    /\ noticed' = (tick = "begin")
    /\ UNCHANGED <<terminal, cell, handler, signalled, wakes, calls,
                   tick, left, askVars, workerVars>>

\* It signals, when something is due.  That the loop is not alive is a matter of
\* time: in a cell the main thread is not in Qt's loop.
Signal ==
    /\ ~signalled /\ ~Hold /\ MayInterrupt
    /\ QtSeen \/ calls # <<>>
    /\ signalled' = TRUE
    /\ UNCHANGED <<qt, terminal, cell, handler, wakes, calls, tickVars,
                   askVars, workerVars>>

-----------------------------------------------------------------------------
(* Ticks.                                                                      *)

\* Mutant: the handler of the signal does not test again.
InterruptUntested ==
    /\ signalled
    /\ signalled' = FALSE
    /\ tick' = IF tick = "no" /\ ~Hold THEN "begin" ELSE tick
    /\ noticed' = FALSE
    /\ UNCHANGED <<qt, terminal, cell, handler, wakes, calls, left,
                   askVars, workerVars>>

\* _on_signal(): the state may be another one than when the watchdog looked.
Interrupt ==
    /\ signalled
    /\ signalled' = FALSE
    /\ tick' = IF MayInterrupt /\ tick = "no" /\ ~Hold THEN "begin" ELSE tick
    /\ noticed' = IF tick = "no" THEN FALSE ELSE noticed
    /\ UNCHANGED <<qt, terminal, cell, handler, wakes, calls, left,
                   askVars, workerVars>>

RunCalls == tick' = "run" /\ left' = Len(calls)

\* A tick of a signal makes the driver, and pumps Qt's events if there is one.
TickBegin ==
    /\ tick = "begin"
    /\ qt' = IF QtSeen THEN "driver" ELSE qt
    /\ IF QtSeen THEN tick' = "pump" /\ left' = left ELSE RunCalls
    /\ UNCHANGED <<terminal, cell, handler, signalled, wakes, calls, noticed,
                   askVars, workerVars>>

\* The wakes that are delivered inside of the tick have no tick of their own.
Pump ==
    /\ tick = "pump"
    /\ wakes' = 0
    /\ RunCalls
    /\ UNCHANGED <<qt, terminal, cell, handler, signalled, calls, noticed,
                   askVars, workerVars>>

\* A wake event in Qt's loop: _on_wake().
Wake ==
    /\ InLoop /\ wakes > 0
    /\ wakes' = wakes - 1
    /\ RunCalls
    /\ UNCHANGED <<qt, terminal, cell, handler, signalled, calls, noticed,
                   askVars, workerVars>>

\* The same in the loop of a question that a tick shows: the call has to wait.
WakeInTick ==
    /\ shown # None /\ qt # "none" /\ wakes > 0
    /\ wakes' = wakes - 1
    /\ UNCHANGED <<qt, terminal, cell, handler, signalled, calls, tickVars,
                   askVars, workerVars>>

\* _dispatch(): at the prompt the question is left to prompt_toolkit; else it is
\* shown right here, if there is a channel.
Dispatch(a) ==
    \/ /\ terminal /\ ~cell
       /\ prompt' = a /\ UNCHANGED <<shown, pending>>
    \/ /\ IF terminal THEN cell ELSE qt # "none"
       /\ shown' = a /\ UNCHANGED <<prompt, pending>>
    \/ /\ ~terminal /\ qt = "none"
       /\ pending' = pending \cup {a} /\ UNCHANGED <<shown, prompt>>

\* _run_calls(): as many calls as there were at its begin.
RunCall ==
    /\ tick = "run" /\ shown = None
    /\ left > 0 /\ calls # <<>>
    /\ calls' = Tail(calls) /\ left' = left - 1
    /\ IF Head(calls) \in Asker
       THEN Dispatch(Head(calls)) /\ resolved' = resolved
       ELSE resolved' = resolved \cup {Head(calls)} /\ UNCHANGED <<shown, prompt, pending>>
    /\ UNCHANGED <<qt, terminal, cell, handler, signalled, wakes, tick, noticed,
                   workerVars>>

TickEnd ==
    /\ tick = "run" /\ shown = None
    /\ left = 0 \/ calls = <<>>
    /\ tick' = "no" /\ left' = 0
    /\ UNCHANGED <<qt, terminal, cell, handler, signalled, wakes, calls, noticed,
                   askVars, workerVars>>

-----------------------------------------------------------------------------
(* The user: an answer, Ctrl-C, or the timeout of the channel.                 *)

AnswerShown ==
    /\ shown # None
    /\ shown' = None /\ resolved' = resolved \cup {shown}
    /\ UNCHANGED <<qt, terminal, cell, handler, signalled, wakes, calls,
                   tickVars, prompt, pending, workerVars>>

\* Mutant: what is typed at the prompt resolves the question of the dialog.
AnswerPromptOther ==
    /\ prompt # None /\ Free
    /\ prompt' = None /\ resolved' = resolved \cup {shown}
    /\ UNCHANGED <<qt, terminal, cell, handler, signalled, wakes, calls,
                   tickVars, shown, pending, workerVars>>

AnswerPrompt ==
    /\ prompt # None /\ Free
    /\ prompt' = None /\ resolved' = resolved \cup {prompt}
    /\ UNCHANGED <<qt, terminal, cell, handler, signalled, wakes, calls,
                   tickVars, shown, pending, workerVars>>

\* answer(), from any thread.
AnswerPending ==
    /\ \E a \in pending : pending' = pending \ {a} /\ resolved' = resolved \cup {a}
    /\ UNCHANGED <<qt, terminal, cell, handler, signalled, wakes, calls,
                   tickVars, shown, prompt, workerVars>>

-----------------------------------------------------------------------------
WorkerStep(w) == TakeLock(w) \/ CallSoon(w) \/ Return(w)
Tick == TickBegin \/ Pump \/ RunCall \/ TickEnd
User == AnswerShown \/ AnswerPrompt \/ AnswerPending

Next ==
    \/ \E w \in Worker : Ask(w) \/ WorkerStep(w)
    \/ CellBegin \/ CellEnd \/ MakeApplication \/ HandlerBegin \/ HandlerEnd
    \/ Notice \/ Signal \/ Interrupt
    \/ Wake \/ WakeInTick \/ Tick
    \/ User

Spec == Init /\ [][Next]_vars

\* The threads go on and the user answers what he is shown.  A tick that can
\* start again and again does start: the watchdog and Qt try without end, while
\* handlers of Qt and cells that are over at once can be in their way.  That a
\* cell ends, or another one begins, is up to the user.
FairSpec ==
    /\ Spec
    /\ \A w \in Worker : WF_vars(CallSoon(w) \/ Return(w)) /\ SF_vars(TakeLock(w))
    /\ WF_vars(HandlerEnd) /\ WF_vars(Notice) /\ WF_vars(Tick)
    /\ SF_vars(Signal) /\ SF_vars(Interrupt /\ tick' = "begin") /\ SF_vars(Wake)
    /\ WF_vars(AnswerShown) /\ SF_vars(AnswerPrompt) /\ WF_vars(AnswerPending)

-----------------------------------------------------------------------------
(* Properties.                                                                 *)

\* Qt's events are never pumped from inside of a handler of Qt: a window is not
\* sent an event in its own closeEvent, with the one exception that the watchdog
\* notices a foreign application between the test and the tick.
NoReentry == tick = "pump" /\ handler => noticed

\* A question that is asked while Qt is serviced, or in a session without Qt, is
\* resolved: it is shown whatever the main thread does, whichever wake events
\* the dialogs swallow, and the asker that waits for the lock comes next.
QuestionsEnd ==
    \A a \in Asker :
        /\ At(a, "append") /\ qt = "driver" ~> At(a, "idle")
        /\ At(a, "append") /\ qt = "none" ~> At(a, "idle") \/ qt # "none"

=============================================================================
