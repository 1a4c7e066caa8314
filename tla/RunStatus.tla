------------------------------- MODULE RunStatus -------------------------------
(* The status of one run: the DAQ client has a block of it taken when the scan  *)
(* starts and one when it ends, each by a job of the status server or, when the *)
(* server does not take it, by itself; both go to one status.json.  The row of  *)
(* the run table is filled from the first, in a thread that waits for the job.  *)
(* Jobs are threads of the server and share no lock: a job reads the file, adds *)
(* its block and writes all of it again.                                        *)
EXTENDS Naturals

CONSTANTS
    Torn,         \* a file that cannot be parsed: truncated, or half written
    Faults,       \* "refuse": the server does not take a request, "lose": its
                  \* answer is lost, "error": a job fails, "raise": a call of
                  \* the session raises, "read": a whole file cannot be read
    MaxRestarts   \* bound: restarts of the server

\* The keys status_run_start and status_run_end.  "empty" is the place-holder
\* of a block the server was asked for.
Block == {"start", "end"}
Blocks == [Block -> {"none", "empty", "full"}]
NoBlocks == [b \in Block |-> "none"]

VARIABLES
    stage,      \* where the callbacks of the scan are
    useServer,  \* scan._eco_status_server_ok
    memory,     \* the blocks the session holds: namespace_status
    row,        \* of the run table: "none", "waiting", what filled it, or "lost"
    ready,      \* the server answers and is READY
    restarts,
    jpc,        \* of each block: where its job is; "gone" after a restart
    read,       \* what a job has read of the file
    pushed,     \* the server has values pushed for the start block
    statusFile, \* status.json
    writers,    \* who has it open for writing
    crossed,    \* history: writers whose file another opened meanwhile
    wrote,      \* history: blocks that were in a whole file
    spoiled,    \* history: two writers overlapped, one died or raised, a whole file
                \* could not be read, or the session wrote a place-holder
    lostPush    \* history: the push of values failed

scanVars == <<stage, useServer, memory>>
serverVars == <<ready, restarts>>
fileVars == <<statusFile, writers, crossed, wrote, spoiled>>
vars == <<scanVars, row, serverVars, jpc, read, pushed, fileVars, lostPush>>

Running == {"snapshot", "open", "write", "upload"}

TypeOK ==
    /\ stage \in {"begin", "capture", "local", "write", "upload", "row", "later", "scan",
               "capture_end", "local_end", "write_end", "upload_end", "over",
               "failed", "aborted"}
    /\ useServer \in BOOLEAN /\ memory \in Blocks
    /\ row \in {"none", "waiting", "session", "server", "bare", "devices", "lost"}
    /\ ready \in BOOLEAN /\ restarts \in 0..MaxRestarts
    /\ jpc \in [Block -> Running \cup {"none", "done", "error", "gone"}]
    /\ read \in [Block -> Blocks] /\ pushed \in BOOLEAN
    /\ statusFile \in Blocks \cup {Torn}
    /\ writers \subseteq Block \cup {"session"} /\ crossed \subseteq writers
    /\ wrote \subseteq Block /\ spoiled \in BOOLEAN /\ lostPush \in BOOLEAN
    /\ writers # {} => statusFile = Torn
    /\ \A b \in Block : b \in writers <=> jpc[b] = "write"
    /\ "session" \in writers <=> stage \in {"write", "write_end"}

Init ==
    /\ stage = "begin" /\ useServer = FALSE /\ memory = NoBlocks /\ row = "none"
    /\ ready = TRUE /\ restarts = 0
    /\ jpc = [b \in Block |-> "none"] /\ read = [b \in Block |-> NoBlocks]
    /\ pushed = FALSE /\ lostPush = FALSE
    /\ statusFile = NoBlocks /\ writers = {} /\ crossed = {} /\ wrote = {} /\ spoiled = FALSE

-----------------------------------------------------------------------------
(* The file.  A writer truncates it, or writes over it in place, and is not     *)
(* done before it closes it.                                                    *)

\* Who is about to write what it has read, or writes.
Busy == {b \in Block : jpc[b] \in {"open", "write"}} \cup writers

Opens(w) ==
    /\ statusFile' = Torn
    /\ writers' = writers \cup {w}
    /\ crossed' = IF writers = {} THEN {} ELSE writers'
    /\ wrote' = wrote

\* Of two writers at the same time either may win, or the file is a mixture.
Closes(w, blocks) ==
    /\ writers' = writers \ {w} /\ crossed' = crossed \ {w}
    /\ statusFile' \in IF writers' # {} THEN {Torn}
                 ELSE IF w \in crossed THEN {Torn, blocks}
                 ELSE {blocks}
    /\ wrote' = IF statusFile' = Torn THEN wrote
                ELSE wrote \cup {b \in Block : blocks[b] = "full"}
    /\ spoiled' = spoiled

\* A dump that raises: the file is closed as it is.
Breaks(w) ==
    /\ statusFile' = Torn
    /\ writers' = writers \ {w} /\ crossed' = crossed \ {w}
    /\ wrote' = wrote
    /\ spoiled' = TRUE

-----------------------------------------------------------------------------
(* The callbacks of the scan.  One that raises takes the ones after it along:   *)
(* at the start the scan "failed", at the end it is "aborted".                  *)

\* use_status_server(): decided once per scan, from /health.
Decide ==
    /\ stage = "begin"
    /\ useServer' \in IF ready /\ "refuse" \notin Faults THEN {TRUE} ELSE {ready, FALSE}
    /\ stage' = IF useServer' THEN "capture" ELSE "local"
    /\ UNCHANGED <<memory, row, serverVars, jpc, read, pushed, fileVars, lostPush>>

\* _capture_on_server(): the server answers when it has started the job.
\* Without an answer the session does not know of the job.
Capture(b, taken, fallback) ==
    /\ \/ /\ ready
          /\ jpc' = [jpc EXCEPT ![b] = "snapshot"]
          /\ \/ memory' = [memory EXCEPT ![b] = "empty"] /\ stage' = taken
             \/ "lose" \in Faults /\ memory' = memory /\ stage' = fallback
       \/ /\ ~ready \/ "refuse" \in Faults
          /\ stage' = fallback
          /\ UNCHANGED <<jpc, memory>>
    /\ UNCHANGED <<useServer, row, serverVars, read, pushed, fileVars, lostPush>>

\* append_start_status_to_scan(), by the server ...
CaptureStart == stage = "capture" /\ Capture("start", "row", "local")

\* ... or by the session, which writes what it holds.
LocalStart ==
    /\ stage = "local"
    /\ memory' = [memory EXCEPT !["start"] = "full"]
    /\ Opens("session")
    /\ spoiled' = (spoiled \/ Busy # {})
    /\ stage' = "write"
    /\ UNCHANGED <<useServer, row, serverVars, jpc, read, pushed, lostPush>>

\* Mutant: the file is left open.
LocalWriteOpen ==
    /\ stage \in {"write", "write_end"}
    /\ stage' = IF stage = "write" THEN "upload" ELSE "upload_end"
    /\ UNCHANGED <<useServer, memory, row, serverVars, jpc, read, pushed, fileVars, lostPush>>

LocalWrite ==
    /\ stage \in {"write", "write_end"}
    /\ Closes("session", memory)
    /\ stage' = IF stage = "write" THEN "upload" ELSE "upload_end"
    /\ UNCHANGED <<useServer, memory, row, serverVars, jpc, read, pushed, lostPush>>

\* The status has a value without JSON form, or the disk is full.
LocalWriteFails ==
    /\ "raise" \in Faults /\ stage \in {"write", "write_end"}
    /\ Breaks("session")
    /\ stage' = IF stage = "write" THEN "failed" ELSE "aborted"
    /\ UNCHANGED <<useServer, memory, row, serverVars, jpc, read, pushed, lostPush>>

\* append_aux(), which the session waits for.
SessionUpload ==
    /\ stage \in {"upload", "upload_end"}
    /\ stage' = IF stage = "upload" THEN "row" ELSE "over"
    /\ UNCHANGED <<useServer, memory, row, serverVars, jpc, read, pushed, fileVars, lostPush>>

\* The namespace gives no status, the file cannot be opened, the broker refuses
\* append_aux(), a strict session has no server, or another callback raises.
AtStart == {"begin", "capture", "local", "upload", "row", "later", "scan"}
AtEnd == {"capture_end", "local_end", "upload_end", "over"}

CallbackRaises ==
    /\ "raise" \in Faults /\ stage \in AtStart \cup AtEnd
    /\ stage' = IF stage \in AtStart THEN "failed" ELSE "aborted"
    /\ UNCHANGED <<useServer, memory, row, serverVars, jpc, read, pushed, fileVars, lostPush>>

\* _append_run_to_runtable(): an append_run() that raises is only reported.
Row(filled) == row' \in {filled} \cup (IF "raise" \in Faults THEN {"lost"} ELSE {})

\* The row is filled at once from values the session has; values the server
\* cannot see are pushed to it first, ...
AppendRow ==
    /\ stage = "row"
    /\ IF memory["start"] = "full"
       THEN /\ Row("session") /\ stage' = "scan"
            /\ UNCHANGED <<pushed, lostPush>>
       ELSE /\ \/ ready /\ pushed' = TRUE /\ lostPush' = lostPush
               \/ (~ready \/ "refuse" \in Faults) /\ pushed' = pushed /\ lostPush' = TRUE
            /\ row' = row /\ stage' = "later"
    /\ UNCHANGED <<useServer, memory, serverVars, jpc, read, fileVars>>

\* ... and a thread waits for the job.
StartLater ==
    /\ stage = "later"
    /\ row' = "waiting" /\ stage' = "scan"
    /\ UNCHANGED <<useServer, memory, serverVars, jpc, read, pushed, fileVars, lostPush>>

\* append_status_to_scan_and_store(): nothing when no step was done.
EndScan ==
    /\ stage = "scan"
    /\ \/ stage' = "over"
       \/ stage' = IF useServer THEN "capture_end" ELSE "local_end"
    /\ UNCHANGED <<useServer, memory, row, serverVars, jpc, read, pushed, fileVars, lostPush>>

CaptureEnd == stage = "capture_end" /\ Capture("end", "over", "local_end")

LocalEnd ==
    /\ stage = "local_end"
    /\ memory' = [memory EXCEPT !["end"] = "full"]
    /\ Opens("session")
    /\ spoiled' = (spoiled \/ Busy # {} \/ memory["start"] = "empty")
    /\ stage' = "write_end"
    /\ UNCHANGED <<useServer, row, serverVars, jpc, read, pushed, lostPush>>

Scan ==
    \/ Decide \/ CaptureStart \/ LocalStart \/ LocalWrite \/ LocalWriteFails
    \/ SessionUpload \/ AppendRow \/ StartLater
    \/ EndScan \/ CaptureEnd \/ LocalEnd \/ CallbackRaises

-----------------------------------------------------------------------------
(* The thread that fills the row.                                              *)

\* Mutant: every poll asks for the values, and takes what was pushed.
CollectEarly ==
    /\ row = "waiting" /\ jpc["start"] \in Running \cup {"done"}
    /\ pushed' = FALSE
    /\ IF jpc["start"] = "done"
       THEN /\ row' = IF pushed THEN "server" ELSE "bare"
            /\ memory' = [memory EXCEPT !["start"] = "full"]
       ELSE UNCHANGED <<row, memory>>
    /\ UNCHANGED <<stage, useServer, serverVars, jpc, read, fileVars, lostPush>>

\* The job is done: its values, with those that were pushed, are handed out once
\* and fill the row and the place-holder.
Collect ==
    /\ row = "waiting" /\ jpc["start"] = "done"
    /\ Row(IF pushed THEN "server" ELSE "bare")
    /\ pushed' = FALSE
    /\ memory' = [memory EXCEPT !["start"] = "full"]
    /\ UNCHANGED <<stage, useServer, serverVars, jpc, read, fileVars, lostPush>>

\* Mutant: an exception ends the thread, no row is appended.
GiveUpSilently ==
    /\ row = "waiting"
    /\ row' = "none"
    /\ UNCHANGED <<scanVars, serverVars, jpc, read, pushed, fileVars, lostPush>>

\* The job failed or is not known, there is no answer, or the time is up: the
\* devices are read instead.
GiveUp ==
    /\ row = "waiting"
    /\ Row("devices")
    /\ UNCHANGED <<scanVars, serverVars, jpc, read, pushed, fileVars, lostPush>>

-----------------------------------------------------------------------------
(* The server: the thread of a job, and write_status_snapshot().               *)

JobGoto(b, loc) == jpc' = [jpc EXCEPT ![b] = loc]

jobRest == <<scanVars, row, serverVars, pushed, lostPush>>

\* Mutant: the file is not read.
ReadNothing(b) ==
    /\ jpc[b] = "snapshot"
    /\ JobGoto(b, "open")
    /\ read' = [read EXCEPT ![b] = NoBlocks]
    /\ spoiled' = (spoiled \/ Busy # {})
    /\ UNCHANGED <<jobRest, statusFile, writers, crossed, wrote>>

\* The snapshot is taken, then the file is read; what cannot be parsed is dropped,
\* and so is a file that cannot be read, or that another host does not see yet.
ReadFile(b) ==
    /\ jpc[b] = "snapshot"
    /\ JobGoto(b, "open")
    /\ \E found \in (IF statusFile = Torn THEN {} ELSE {statusFile})
                    \cup (IF statusFile = Torn \/ "read" \in Faults THEN {NoBlocks} ELSE {}) :
          /\ read' = [read EXCEPT ![b] = found]
          /\ spoiled' = (spoiled \/ Busy # {} \/ statusFile \notin {Torn, found})
    /\ UNCHANGED <<jobRest, statusFile, writers, crossed, wrote>>

OpenFile(b) ==
    /\ jpc[b] = "open"
    /\ JobGoto(b, "write")
    /\ Opens(b)
    /\ UNCHANGED <<jobRest, read, spoiled>>

\* The block is added to what was read.
WriteFile(b) ==
    /\ jpc[b] = "write"
    /\ JobGoto(b, "upload")
    /\ Closes(b, [read[b] EXCEPT ![b] = "full"])
    /\ UNCHANGED <<jobRest, read>>

Upload(b) ==
    /\ jpc[b] = "upload"
    /\ JobGoto(b, "done")
    /\ UNCHANGED <<jobRest, read, fileVars>>

\* The snapshot is refused while the namespace is rebuilt, the file cannot be
\* opened, a dump raises, the broker does not answer, ...
JobFails(b) ==
    /\ "error" \in Faults /\ jpc[b] \in Running
    /\ JobGoto(b, "error")
    /\ IF jpc[b] = "write" THEN Breaks(b) ELSE UNCHANGED fileVars
    /\ UNCHANGED <<jobRest, read>>

\* /admin/restart, or a crash: the threads, the jobs and what was pushed are gone.
Restart ==
    /\ restarts < MaxRestarts
    /\ restarts' = restarts + 1 /\ ready' = FALSE
    /\ jpc' = [b \in Block |-> IF jpc[b] = "none" THEN "none" ELSE "gone"]
    /\ pushed' = FALSE
    /\ writers' = writers \ Block /\ crossed' = crossed \ Block
    /\ spoiled' = (spoiled \/ writers \cap Block # {})
    /\ UNCHANGED <<scanVars, row, read, statusFile, wrote, lostPush>>

Recover ==
    /\ ~ready
    /\ ready' = TRUE
    /\ UNCHANGED <<scanVars, row, restarts, jpc, read, pushed, fileVars, lostPush>>

JobStep(b) ==
    \/ ReadFile(b) \/ OpenFile(b) \/ WriteFile(b) \/ Upload(b) \/ JobFails(b)

Next ==
    \/ Scan \/ Collect \/ GiveUp \/ Restart \/ Recover
    \/ \E b \in Block : JobStep(b)

Spec == Init /\ [][Next]_vars

-----------------------------------------------------------------------------
(* Properties.                                                                 *)

\* What was once in the file stays there, whoever writes what in which order,
\* however requests are refused, answers are lost and snapshots and uploads fail,
\* unless two writers overlap, a restart kills a writer, a write raises, a whole
\* file cannot be read, or the session falls back at the end of a scan whose first
\* block it does not have.
BlocksKept ==
    writers = {} /\ ~spoiled =>
        statusFile # Torn /\ \A b \in wrote : statusFile[b] = "full"

\* A row that is filled from the job has the values that were pushed for it.
PushIsInRow == row = "bare" => lostPush

\* "adding status_run_end must not drop the status_run_start already on disk".
StartSurvives ==
    writers = {} /\ "start" \in wrote => statusFile # Torn /\ statusFile["start"] = "full"

=============================================================================
