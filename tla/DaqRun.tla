--------------------------------- MODULE DaqRun --------------------------------
(* What the DAQ client does for one run beside the acquisitions, in the order of *)
(* its callbacks (callbacks_start_scan, _end_step, _end_scan): status and row at *)
(* the start, scan_info after every step, status and scan_info at the end.  The  *)
(* timers of the uploads, the thread of the row and the status server go their   *)
(* own ways beside and after the scan.                                           *)
EXTENDS AuxUpload

CONSTANTS Faults, MaxRestarts     \* of RunStatus

VARIABLES
    stage, useServer, memory, row, ready, restarts, jpc, read, pushed, statusFile,
    writers, crossed, wrote, spoiled, lostPush,   \* of RunStatus
    last                                          \* the last scan_info is written

Status == INSTANCE RunStatus

ASSUME DaqRunAssumption ==
    /\ MaxRestarts \in Nat
    /\ Torn \notin Status!Blocks

statusVars ==
    <<stage, useServer, memory, row, ready, restarts, jpc, read, pushed, statusFile,
      writers, crossed, wrote, spoiled, lostPush>>
allVars == <<vars, statusVars, last>>

RunInit == Init /\ Status!Init /\ last = FALSE

\* One run: its scan is not in the middle of writing scan_info.
AtRest == \A k \in Run : pc[k] \in {"idle", "torn", "unsent"}

\* No status is taken at the end of a scan of which no step was counted: there was
\* none, its callbacks raised, or it was to be repeated.  The start fails before
\* the first step, and nothing that matters here follows the last scan_info.
Counted ==
    /\ stage = "scan" /\ stage' \in {"capture_end", "local_end"} => \A k \in Run : file[k] >= 1
    /\ stage = "scan" /\ stage' = "failed" => \A k \in Run : pc[k] = "idle" /\ file[k] = 0
    /\ stage = "over" => ~last

StatusCallback ==
    /\ AtRest
    /\ Status!Scan /\ Counted
    /\ UNCHANGED <<vars, last>>

\* After each step; one that raises ends the steps.  MaxCalls leaves room for the
\* last call.
StepCallback(k) ==
    /\ stage = "scan" /\ pc[k] = "idle"
    /\ BeginWrite(k) /\ file[k] + 1 < MaxCalls
    /\ UNCHANGED <<statusVars, last>>

EndCallback(k) ==
    /\ stage = "over" /\ ~last
    /\ BeginWrite(k)
    /\ last' = TRUE
    /\ UNCHANGED statusVars

Callback ==
    \/ StatusCallback
    \/ \E k \in Run : EndCallback(k)
    \/ /\ \E k \in Run : EndWrite(k) \/ Schedule(k) \/ Raises(k)
       /\ UNCHANGED <<statusVars, last>>

Upload(k, i) == TimerStep(k, i) /\ UNCHANGED <<statusVars, last>>

FillRow ==
    /\ Status!Collect \/ Status!GiveUp
    /\ UNCHANGED <<vars, last>>

Server ==
    /\ Status!Restart \/ Status!Recover \/ \E b \in Status!Block : Status!JobStep(b)
    /\ UNCHANGED <<vars, last>>

RunNext ==
    \/ Callback \/ FillRow \/ Server
    \/ \E k \in Run : StepCallback(k) \/ \E i \in Call : Upload(k, i)

RunSpec == RunInit /\ [][RunNext]_allVars

\* The callbacks go on, whether or not a scan has more steps; timers expire,
\* requests are answered, and the thread of the row has a time-out.  Nothing is
\* asked of the server.
FairRunSpec ==
    /\ RunSpec
    /\ WF_allVars(Callback)
    /\ WF_allVars(Status!GiveUp /\ UNCHANGED <<vars, last>>)
    /\ \A k \in Run, i \in Call : WF_allVars(Upload(k, i))

-----------------------------------------------------------------------------
(* The properties of the parts.                                                *)

\* The type invariant of the part that is not proved.
StatusTypeOK == Status!TypeOK

\* What was in status.json stays there, but for overlapping writers, a writer that
\* a restart killed, a write that raised, a whole file that could not be read, and
\* a session that falls back with a place-holder.
BlocksKept == Status!BlocksKept

\* A row that is filled from the job has the values that were pushed for it.
PushIsInRow == Status!PushIsInRow

\* In the end every run whose start did not fail has its row, or append_run()
\* raised, and the broker has the last scan_info, unless its upload was refused or
\* the call that wrote it raised; after callbacks that went through that is the
\* one with what the end of the scan has added.
RunIsFiled ==
    <>[](/\ stage \in {"over", "aborted", "failed"}
         /\ stage = "over" => last
         /\ row # "waiting" /\ (row = "none" => stage = "failed")
         /\ \A k \in Run : \/ pc[k] \in {"torn", "unsent"}
                           \/ pc[k] = "idle" /\ (copy[k] = file[k] \/ k \in refused))

\* "adding status_run_end must not drop the status_run_start already on disk".
StartSurvives == Status!StartSurvives

=============================================================================
