------------------------------- MODULE StepScan -------------------------------
(* A step scan of eco.acquisition.scan: scan_all runs one step after another   *)
(* on its own thread while operators pause, resume, stop and save it from      *)
(* others.  A step moves the adjustables, starts the counters that follow,     *)
(* lets the leading counter acquire, records the step and calls the end-step   *)
(* callbacks, which may find the step bad (the DAQ's checker: it is measured   *)
(* again) or add steps (the driver of an adaptive scan).  A saved scan can be  *)
(* finished later by a new one built from the file.                            *)
EXTENDS Naturals, Sequences, SequencesExt

CONSTANTS
    N,           \* planned values at construction
    MaxPoints,   \* AdaptiveDriver.max_points; N for a fixed scan
    Batch,       \* points an adaptive scan adds at a time; 0 for a fixed scan
    F,           \* counters that follow the leading one
    MaxBad,      \* bound: steps the checker finds bad
    MaxRuns,     \* bound: calls of scan_all
    Failures,    \* what may raise an exception
    Ops          \* what the operators call

AllFailures == {"start_scan", "start_step", "move", "follower", "acquire",
                "end_step", "end_scan"}
AllOps == {"pause", "resume", "stop", "save", "resume_from_file"}

ASSUME StepScanAssumption ==
    /\ N \in Nat \ {0} /\ MaxPoints \in Nat /\ N <= MaxPoints
    /\ Batch \in Nat /\ F \in Nat /\ MaxBad \in Nat /\ MaxRuns \in Nat
    /\ Failures \subseteq AllFailures
    /\ Ops \subseteq AllOps

\* A position to measure.  Its number is also its place on the grid.
Value == 1 .. MaxPoints
Follower == 1 .. F

VARIABLES
    todo, pulses,        \* _values_todo, pulses_per_step
    done, nextStep,      \* _values_done, next_step
    indexPlan,           \* grid_specs["index_plan"]
    info,                \* scan_info: what was recorded of each step
    ok,                  \* _current_step_ok
    exhausted,           \* AdaptiveDriver._done
    event, stopRequested, started,  \* _pause_event, _stop_requested, _have_run_...
    up, windows,         \* the followers: which are started, what each collected
    pc, raising,         \* the scan's thread; an exception waits for the followers
    outcome,             \* how the last scan_all ended
    bad, runs,           \* counts for the bounds
    saved,               \* the file written by save_paused_scan
    planned, earlier, exact, failed, woken   \* history variables

stepVars == <<todo, pulses, done, nextStep, indexPlan, info, exhausted, planned>>
counterVars == <<up, windows>>
flagVars == <<event, stopRequested, woken>>
runVars == <<started, outcome, runs>>
saveVars == <<saved, earlier, exact>>
threadVars == <<pc, raising, failed>>
vars == <<stepVars, ok, counterVars, flagVars, threadVars, runVars, bad, saveVars>>

(* The history variables only record.  planned is every value the scan was     *)
(* ever to measure; earlier what the scan that was saved had measured; exact   *)
(* says that it measured nothing more after the file was begun; failed is what *)
(* has raised; woken says that the last of pause and request_stop was a stop.  *)

NoFile == [values |-> << >>, pulses |-> << >>, grid |-> << >>, done |-> << >>,
           state |-> "none"]

PCs == {"idle", "check", "begin", "move", "start", "acquire", "stop", "record",
        "endStep", "popValue", "popPulses", "drop", "end"}

Entry == [value : Value, grid : Value]

First(n) == [i \in 1 .. n |-> i]

\* pulses_per_step holds, for each value, the pulses asked for there: the value
\* stands for them, so that a value with another one's pulses shows.
Init ==
    /\ todo = First(N) /\ pulses = First(N) /\ indexPlan = First(N) /\ planned = First(N)
    /\ done = << >> /\ nextStep = 0 /\ info = << >>
    /\ ok = TRUE /\ exhausted = (Batch = 0)
    /\ event = TRUE /\ stopRequested = FALSE /\ started = FALSE /\ woken = FALSE
    /\ up = {} /\ windows = [f \in Follower |-> << >>]
    /\ pc = "idle" /\ raising = FALSE /\ outcome = "none" /\ failed = {}
    /\ bad = 0 /\ runs = 0
    /\ saved = NoFile /\ earlier = << >> /\ exact = TRUE

-----------------------------------------------------------------------------
(* scan_all.                                                                   *)

\* The scan's thread goes on at loc.
Goto(loc) == pc' = loc /\ UNCHANGED failed

\* what raises: the bare except of scan_all takes the exception, the scan ends.
Raises(what, loc) ==
    /\ what \in Failures
    /\ failed \subseteq {what}                \* bound: one kind of failure in a scan
    /\ failed' = failed \cup {what}
    /\ pc' = loc

Fails(what) == Raises(what, "end")

\* scan_all is called, for the first time or to go on where it ended.  The
\* start-scan callbacks run once; a follower's begins a new list of windows.
ScanAll ==
    /\ pc = "idle"
    /\ runs < MaxRuns
    /\ runs' = runs + 1
    /\ \/ /\ Goto("check")
          /\ started' = TRUE
          /\ windows' = IF started THEN windows ELSE [f \in Follower |-> << >>]
          /\ outcome' = "none"
       \/ /\ ~started /\ Raises("start_scan", "idle")
          /\ outcome' = "raised"
          /\ UNCHANGED <<started, windows>>
    /\ UNCHANGED <<stepVars, ok, up, flagVars, raising, bad, saveVars>>

\* Between two steps: wait while paused, then look whether to stop.
Checkpoint ==
    /\ pc = "check"
    /\ event
    /\ Goto(IF stopRequested THEN "end" ELSE "begin")
    /\ UNCHANGED <<stepVars, ok, counterVars, flagVars, raising, runVars, bad, saveVars>>

\* do_next_step: the start-step callbacks run, also when no step is left.
StartStep ==
    /\ pc = "begin"
    /\ ok' = TRUE
    /\ \/ Goto(IF todo = << >> THEN "end" ELSE "move")
       \/ Fails("start_step")
    /\ UNCHANGED <<stepVars, counterVars, flagVars, raising, runVars, bad, saveVars>>

\* set_target_value and wait for every adjustable.
Move ==
    /\ pc = "move"
    /\ Goto("start") \/ Fails("move")
    /\ UNCHANGED <<stepVars, ok, counterVars, flagVars, raising, runVars, bad, saveVars>>

\* The one of a set of followers that comes first in the list of counters.
FirstOf(S) == CHOOSE f \in S : \A g \in S : f <= g

\* The followers start one after another, before the try around the acquisition.
StartFollower ==
    /\ pc = "start"
    /\ \/ up = Follower /\ Goto("acquire") /\ UNCHANGED up
       \/ up # Follower /\ up' = up \cup {FirstOf(Follower \ up)} /\ Goto("start")
       \/ up # Follower /\ Fails("follower") /\ UNCHANGED up
    /\ UNCHANGED <<stepVars, ok, windows, flagVars, raising, runVars, bad, saveVars>>

\* Mutant: the followers are stopped only after a good acquisition.
AcquireUnguarded ==
    /\ pc = "acquire"
    /\ \/ Goto("stop")
       \/ Fails("acquire")
    /\ UNCHANGED <<stepVars, ok, counterVars, flagVars, raising, runVars, bad, saveVars>>

\* The leading counter acquires; the finally stops the followers either way.
Acquire ==
    /\ pc = "acquire"
    /\ \/ Goto("stop") /\ raising' = FALSE
       \/ Raises("acquire", "stop") /\ raising' = TRUE
    /\ UNCHANGED <<stepVars, ok, counterVars, flagVars, runVars, bad, saveVars>>

\* A follower closes its window of this step; the last one ends the finally.
StopFollower ==
    /\ pc = "stop"
    /\ \/ /\ up = {}
          /\ Goto(IF raising THEN "end" ELSE "record")
          /\ raising' = FALSE
          /\ UNCHANGED counterVars
       \/ /\ up # {}
          /\ up' = up \ {FirstOf(up)}
          /\ windows' = [windows EXCEPT ![FirstOf(up)] = Append(@, Head(todo))]
          /\ Goto("stop")
          /\ UNCHANGED raising
       \/ /\ up # {}
          /\ Fails("follower")
          /\ raising' = FALSE
          /\ UNCHANGED counterVars
    /\ UNCHANGED <<stepVars, ok, flagVars, runVars, bad, saveVars>>

\* append_scan_info, before the end-step callbacks.
Record ==
    /\ pc = "record"
    /\ info' = Append(info, [value |-> Head(todo), grid |-> indexPlan[nextStep + 1]])
    /\ Goto("endStep")
    /\ UNCHANGED <<todo, pulses, done, nextStep, indexPlan, exhausted, planned, ok,
                   counterVars, flagVars, raising, runVars, bad, saveVars>>

-----------------------------------------------------------------------------
(* The end-step callbacks.                                                     *)

\* Mutant: the step that was just measured is not counted.
RemainingOne ==
    IF MaxPoints + 1 > nextStep + Len(todo) THEN MaxPoints + 1 - nextStep - Len(todo) ELSE 0

\* AdaptiveDriver._remaining_points.
Remaining == IF MaxPoints > nextStep + Len(todo) THEN MaxPoints - nextStep - Len(todo) ELSE 0

\* AdaptiveDriver._refill: up to a batch of new points, or the end of the scan
\* (nothing left, planning failed, every proposed point was measured before).
Refill ==
    \E k \in 0 .. (IF Batch < Remaining THEN Batch ELSE Remaining) :
      LET new == [i \in 1 .. k |-> Len(planned) + i]
      IN  /\ exhausted' = (k = 0)
          /\ todo' = todo \o new
          /\ pulses' = pulses \o new
          /\ indexPlan' = indexPlan \o new
          /\ planned' = planned \o new

\* AdaptiveDriver._on_step_end: todo[1] is the step that was just measured.
AdaptiveStepEnd ==
    IF Len(todo) <= 1 /\ ~exhausted
    THEN Refill
    ELSE UNCHANGED <<todo, pulses, indexPlan, exhausted, planned>>

\* The end-step callbacks: the checker first, the adaptive driver last.
EndStep ==
    /\ pc = "endStep"
    /\ \/ /\ Goto("popValue")
          /\ AdaptiveStepEnd
          /\ UNCHANGED <<ok, bad>>
       \/ /\ bad < MaxBad
          /\ bad' = bad + 1
          /\ ok' = FALSE
          /\ Goto("drop")
          /\ UNCHANGED <<todo, pulses, indexPlan, exhausted, planned>>
       \/ /\ Fails("end_step")
          /\ UNCHANGED <<ok, bad, todo, pulses, indexPlan, exhausted, planned>>
    /\ UNCHANGED <<done, nextStep, info, counterVars, flagVars, raising, runVars, saveVars>>

-----------------------------------------------------------------------------
(* The step counts, or it does not.                                            *)

\* Mutant: the pulses of a bad step are taken off their list.
DropPulses ==
    /\ pc = "drop"
    /\ info' = Front(info)
    /\ pulses' = Tail(pulses) \o <<Head(pulses)>>
    /\ Goto("check")
    /\ UNCHANGED <<todo, done, nextStep, indexPlan, exhausted, planned, ok, counterVars,
                   flagVars, raising, runVars, bad, saveVars>>

\* Mutant: the record of a bad step stays.
KeepRecord ==
    /\ pc = "drop"
    /\ Goto("check")
    /\ UNCHANGED <<stepVars, ok, counterVars, flagVars, raising, runVars, bad, saveVars>>

\* remove_last_scan_info_entry: the step will be measured again.
DropRecord ==
    /\ pc = "drop"
    /\ info' = Front(info)
    /\ Goto("check")
    /\ UNCHANGED <<todo, pulses, done, nextStep, indexPlan, exhausted, planned, ok,
                   counterVars, flagVars, raising, runVars, bad, saveVars>>

PopValue ==
    /\ pc = "popValue"
    /\ done' = Append(done, Head(todo))
    /\ todo' = Tail(todo)
    /\ Goto("popPulses")
    /\ UNCHANGED <<pulses, nextStep, indexPlan, info, exhausted, planned, ok, counterVars,
                   flagVars, raising, runVars, bad, saveVars>>

PopPulses ==
    /\ pc = "popPulses"
    /\ pulses' = Tail(pulses)
    /\ nextStep' = nextStep + 1
    /\ Goto("check")
    /\ UNCHANGED <<todo, done, indexPlan, info, exhausted, planned, ok, counterVars,
                   flagVars, raising, runVars, bad, saveVars>>

\* The finally of scan_all: end-scan callbacks, back to the initial values.
EndScan ==
    /\ pc = "end"
    /\ \/ Goto("idle") /\ outcome' = "returned"
       \/ Raises("end_scan", "idle") /\ outcome' = "raised"
    /\ UNCHANGED <<stepVars, ok, counterVars, flagVars, raising, started, runs, bad,
                   saveVars>>

ScanStep ==
    \/ Checkpoint \/ StartStep \/ Move \/ StartFollower \/ Acquire \/ StopFollower
    \/ Record \/ EndStep \/ DropRecord \/ PopValue \/ PopPulses \/ EndScan

-----------------------------------------------------------------------------
(* The operators.                                                              *)

Pause ==
    /\ "pause" \in Ops
    /\ event' = FALSE
    /\ woken' = FALSE
    /\ UNCHANGED <<stepVars, ok, counterVars, stopRequested, threadVars, runVars, bad,
                   saveVars>>

Resume ==
    /\ "resume" \in Ops
    /\ event' = TRUE
    /\ UNCHANGED <<stepVars, ok, counterVars, stopRequested, woken, threadVars, runVars,
                   bad, saveVars>>

\* Mutant: request_stop() does not wake a paused scan.
StopOnly ==
    /\ "stop" \in Ops
    /\ stopRequested' = TRUE
    /\ woken' = TRUE
    /\ UNCHANGED <<stepVars, ok, counterVars, event, threadVars, runVars, bad, saveVars>>

RequestStop ==
    /\ "stop" \in Ops
    /\ stopRequested' = TRUE
    /\ event' = TRUE
    /\ woken' = TRUE
    /\ UNCHANGED <<stepVars, ok, counterVars, threadVars, runVars, bad, saveVars>>

\* save_paused_scan -> snapshot_remaining: the values are copied first ...
SaveValues ==
    /\ "save" \in Ops
    /\ runs > 0
    /\ saved.state = "none"
    /\ saved' = [NoFile EXCEPT !.values = todo, !.done = done, !.state = "half"]
    /\ UNCHANGED <<stepVars, ok, counterVars, flagVars, threadVars, runVars, bad, earlier,
                   exact>>

\* ... and the pulses and the grid a moment later.  Nothing holds the scan's thread.
SavePulses ==
    /\ saved.state = "half"
    /\ saved' = [saved EXCEPT !.pulses = pulses, !.grid = indexPlan, !.state = "file"]
    /\ UNCHANGED <<stepVars, ok, counterVars, flagVars, threadVars, runVars, bad, earlier,
                   exact>>

\* Another scan, of the values and pulses given, on the grid that was saved.
Rebuild(values, pulsesOf) ==
    /\ todo' = values /\ pulses' = pulsesOf /\ indexPlan' = saved.grid
    /\ done' = << >> /\ nextStep' = 0 /\ info' = << >>
    /\ exhausted' = TRUE
    /\ ok' = TRUE /\ event' = TRUE /\ stopRequested' = FALSE /\ started' = FALSE
    /\ up' = {} /\ windows' = [f \in Follower |-> << >>]
    /\ outcome' = "none" /\ failed' = {} /\ woken' = FALSE
    /\ runs' = 0
    /\ saved' = NoFile
    /\ earlier' = done
    /\ exact' = (saved.done = done)
    /\ UNCHANGED <<pc, raising, bad, planned>>

\* Mutant: the scan is rebuilt from what was planned, not from what was left.
ResumeAll ==
    /\ "resume_from_file" \in Ops
    /\ pc = "idle" /\ saved.state = "file" /\ earlier = << >>
    /\ Len(saved.values) = Len(saved.pulses)
    /\ Rebuild(First(N), First(N))

\* resume_scan_call: a new, fixed StepScan of the saved values, built when the
\* queue has finished the saved one.
ResumeFromFile ==
    /\ "resume_from_file" \in Ops
    /\ pc = "idle"
    /\ saved.state = "file"
    /\ Len(saved.values) = Len(saved.pulses)
    /\ earlier = << >>                       \* bound: a scan is resumed once
    /\ Rebuild(saved.values, saved.pulses)

Operator == Pause \/ Resume \/ RequestStop \/ SaveValues \/ SavePulses \/ ResumeFromFile

Next == ScanAll \/ ScanStep \/ Operator

Spec == Init /\ [][Next]_vars

\* The scan's thread is scheduled, and what it waits for comes to an end.
FairSpec == Spec /\ WF_vars(ScanStep)

-----------------------------------------------------------------------------
(* Properties.                                                                 *)

\* Every variable has its type (scan.py, StepScan.__init__).
TypeOK ==
    /\ {todo, pulses, done, indexPlan, planned, earlier} \subseteq Seq(Value)
    /\ nextStep \in 0 .. MaxPoints
    /\ info \in Seq(Entry)
    /\ {ok, exhausted, event, stopRequested, started, raising, exact, woken} \subseteq BOOLEAN
    /\ up \subseteq Follower
    /\ windows \in [Follower -> Seq(Value)]
    /\ pc \in PCs
    /\ outcome \in {"none", "returned", "raised"}
    /\ failed \subseteq AllFailures
    /\ bad \in 0 .. MaxBad /\ runs \in 0 .. MaxRuns
    /\ saved \in [values : Seq(Value), pulses : Seq(Value), grid : Seq(Value),
                  done : Seq(Value), state : {"none", "half", "file"}]

\* No value is lost, measured twice or taken out of order, through pauses, stops,
\* repeated and failed steps, added points and a second call of scan_all; nor by
\* saving the scan and finishing it from the file, when it went no further in
\* between (do_next_step, _refill, snapshot_remaining, resume_scan_call).
NothingLost == exact => earlier \o done \o todo = planned

\* A value is measured with the pulses that were asked for it: the two lists, which
\* are changed one after the other and saved one after the other, stay in step
\* (do_next_step reads pulses_per_step[0] long after _values_todo[0]).
RightPulses == pc = "acquire" /\ exact => Head(pulses) = Head(todo)

\* Between two steps scan_info tells exactly what was done: the records of bad steps
\* are gone and those of counted steps are there, each at the place of the grid where
\* it was measured, also after added points.  An end-step callback that raises leaves
\* a record of a step that does not count, and a scan that was resumed from a file
\* counts its places from the first one on (do_next_step).
InfoMatchesDone ==
    pc \in {"idle", "check", "begin"} /\ "end_step" \notin failed =>
        /\ [i \in DOMAIN info |-> info[i].value] = done
        /\ earlier = << >> => \A i \in DOMAIN info : info[i].grid = info[i].value

\* A follower is up only during the acquisition: whatever else goes wrong in a
\* step, no counter keeps collecting into the next one or after the scan, unless a
\* follower itself failed (the try/finally of do_next_step).  As long as no step was
\* repeated, its windows are those of the recorded steps, in their order.
FollowersStopped ==
    "follower" \notin failed =>
        /\ pc \notin {"start", "acquire", "stop"} => up = {}
        /\ pc \in {"idle", "check"} /\ failed = {} /\ bad = 0 =>
              \A f \in Follower : windows[f] = [i \in DOMAIN info |-> info[i].value]

\* An adaptive scan never measures more points than its budget (max_points), at
\* whatever step the driver counts what is left (_remaining_points, _refill).
Budget == Len(done) + Len(todo) <= MaxPoints

\* A scan that is asked to stop ends, paused or not, unless it is paused afterwards
\* (request_stop: "a stopped-while-paused scan actually exits").
StopEnds == woken ~> (pc = "idle" \/ ~woken)

=============================================================================
