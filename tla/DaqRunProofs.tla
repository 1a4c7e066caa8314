----------------------------- MODULE DaqRunProofs ------------------------------
(* Proofs about what the DAQ client does for a run: about the uploads of its    *)
(* scan_info (AuxUpload), its status and its row (RunStatus), for any number of *)
(* steps, restarts and faults, and that the run of DaqRun is a run of both.     *)
EXTENDS DaqRun, TLAPS

-----------------------------------------------------------------------------
(* The uploads.                                                                *)

\* The timer of a call that was not scheduled yet does not exist; and while the
\* file is written there is none for its content.
Fresh ==
    /\ \A k \in Run, i \in Call : i > file[k] => timer[k][i] = "none"
    /\ \A k \in Run : pc[k] = "written" => file[k] # 0 /\ timer[k][file[k]] = "none"
    /\ \A k \in Run : pc[k] = "writing" => file[k] < MaxCalls

IInv == TypeOK /\ Fresh /\ LastUploadCounts

-----------------------------------------------------------------------------

\* The thread of a scan keeps the invariant: Schedule cancels the timer of an
\* older call, since that of the new one does not exist yet.
LEMMA ScanKeeps ==
    ASSUME IInv, NEW k \in Run, Scan(k)
    PROVE  IInv'
<1> USE AuxUploadAssumption DEF IInv, TypeOK, Fresh, LastUploadCounts, Call, TimerStates
<1>1. CASE BeginWrite(k)
  BY <1>1 DEF BeginWrite
<1>2. CASE EndWrite(k)
  <2>1. file[k] + 1 \in Call /\ timer[k][file[k] + 1] = "none"
    BY <1>2 DEF EndWrite
  <2>2. TypeOK'
    BY <1>2, <2>1 DEF EndWrite
  <2>3. Fresh'
    BY <1>2, <2>1 DEF EndWrite
  <2>4. LastUploadCounts'
    BY <1>2 DEF EndWrite
  <2> QED BY <2>2, <2>3, <2>4
<1>3. CASE Schedule(k)
  <2>1. file[k] \in Call /\ slot[k] # file[k]
    <3>1. file[k] \in Call
      <4>1. file[k] \in 0..MaxCalls /\ file[k] # 0
        BY <1>3 DEF Schedule
      <4> QED BY <4>1
    <3>2. timer[k][file[k]] = "none"
      BY <1>3 DEF Schedule
    <3>3. slot[k] = file[k] => timer[k][file[k]] \in {"waiting", "fired"}
      BY <3>1
    <3> QED BY <3>1, <3>2, <3>3
  <2>2. timer' \in [Run -> [Call -> TimerStates]]
    BY <1>3 DEF Schedule
  <2>3. timer'[k][file[k]] = "waiting"
    BY <1>3, <2>1 DEF Schedule
  <2>4. TypeOK'
    BY <1>3, <2>1, <2>2, <2>3 DEF Schedule
  <2>5. Fresh'
    BY <1>3, <2>1 DEF Schedule
  <2>6. LastUploadCounts'
    BY <1>3, <2>1, <2>3 DEF Schedule
  <2> QED BY <2>4, <2>5, <2>6
<1>4. CASE Raises(k)
  <2>1. /\ pc' \in [Run -> {"idle", "writing", "written", "torn", "unsent"}]
        /\ \A l \in Run : pc'[l] \in {"idle", "writing", "written"} => pc[l] = pc'[l]
        /\ UNCHANGED <<file, copy, slot, timer, refused>>
    <3>1. PICK p \in {"torn", "unsent"} : pc' = [pc EXCEPT ![k] = p]
      BY <1>4 DEF Raises
    <3> QED BY <3>1, <1>4 DEF Raises
  <2> QED BY <2>1
<1> QED BY <1>1, <1>2, <1>3, <1>4 DEF Scan

\* The thread of a timer keeps the invariant.
LEMMA TimerKeeps ==
    ASSUME IInv, NEW k \in Run, NEW i \in Call, TimerStep(k, i)
    PROVE  IInv'
<1> USE AuxUploadAssumption DEF IInv, TypeOK, Fresh, LastUploadCounts, Call, TimerStates
<1>1. CASE Expire(k, i)   BY <1>1 DEF Expire
<1>2. CASE Fire(k, i)     BY <1>2 DEF Fire
<1>3. CASE Copied(k, i)   BY <1>3 DEF Copied
<1>4. CASE Refused(k, i)  BY <1>4 DEF Refused
<1> QED BY <1>1, <1>2, <1>3, <1>4 DEF TimerStep

\* The invariant holds to begin with, and every step keeps it.
THEOREM Invariance == Spec => []IInv
<1>1. Init => IInv
  BY AuxUploadAssumption
     DEF Init, IInv, TypeOK, Fresh, LastUploadCounts, Call, TimerStates
<1>2. IInv /\ [Next]_vars => IInv'
  <2>1. ASSUME IInv, UNCHANGED vars PROVE IInv'
    BY <2>1 DEF IInv, TypeOK, Fresh, LastUploadCounts, vars
  <2> QED BY <2>1, ScanKeeps, TimerKeeps DEF Next
<1> QED BY <1>1, <1>2, PTL DEF Spec

\* Type correctness, with it that _debounce_timers has no timer that has run.
THEOREM Typed == Spec => []TypeOK
<1>1. IInv => TypeOK
  BY DEF IInv
<1> QED BY Invariance, <1>1, PTL

\* The upload of the last call is never cancelled, and when it is over the broker
\* has the whole file (_debounced_append_aux).
THEOREM LastUploadIsNotLost == Spec => []LastUploadCounts
<1>1. IInv => LastUploadCounts
  BY DEF IInv
<1> QED BY Invariance, <1>1, PTL

-----------------------------------------------------------------------------
(* The status and the row: the inductive invariant.                            *)

\* Before a block of the end can have been asked for.
Early == stage \in {"begin", "capture", "local", "write", "upload", "row", "later",
                    "scan", "capture_end", "failed"}

\* ... nothing of it is anywhere, and the same for the block of the start.
NothingEarly ==
    /\ Early => /\ jpc["end"] = "none" /\ "end" \notin wrote /\ memory["end"] # "full"
                /\ \A b \in Status!Block : read[b]["end"] # "full"
                /\ statusFile # Torn => statusFile["end"] # "full"
    /\ stage \in {"begin", "capture"} => jpc["start"] = "none"

\* The session has the block of the start, or its place-holder.
StartKnown ==
    /\ stage \notin {"begin", "capture", "local", "failed"} => memory["start"] # "none"
    /\ stage \in {"write", "upload"} => memory["start"] = "full"

\* Unless the file is spoiled there is one reader or writer of it at a time, and he
\* has all that is in it.
OneAtATime ==
    ~spoiled =>
        /\ \A x, y \in Status!Busy : x = y
        /\ crossed = {}
        /\ \A b \in Status!Block : jpc[b] \in {"open", "write"} =>
              \A c \in wrote : read[b][c] = "full"
        /\ stage \in {"write", "write_end"} => \A c \in wrote : memory[c] = "full"

\* The values for a row that waits were pushed, or the session knows better, or
\* the job is gone with them.
RowHasPush ==
    /\ stage \in {"begin", "capture", "local", "write", "upload", "row", "later"} =>
          row = "none" \/ row = "session"
    /\ stage = "row" /\ memory["start"] # "full" => jpc["start"] # "none"
    /\ stage = "later" \/ row = "waiting" =>
          /\ stage \notin {"begin", "capture", "local", "write", "upload", "row"}
          /\ jpc["start"] # "none"
          /\ pushed \/ lostPush \/ jpc["start"] = "gone"

StatusInv ==
    /\ Status!TypeOK /\ NothingEarly /\ StartKnown /\ OneAtATime /\ RowHasPush
    /\ Status!BlocksKept /\ Status!PushIsInRow

\* The groups of variables of the actions.
USE DEF Status!scanVars, Status!serverVars, Status!fileVars, Status!jobRest

\* Whoever closes the file leaves it torn or with the blocks he has, and it counts
\* what is in a whole file.
LEMMA CloseFile ==
    ASSUME NEW w \in writers, NEW blocks \in Status!Blocks, Status!Closes(w, blocks),
           Status!TypeOK
    PROVE  /\ writers' = writers \ {w} /\ crossed' = crossed \ {w} /\ spoiled' = spoiled
           /\ statusFile' \in {Torn, blocks}
           /\ writers' # {} => statusFile' = Torn
           /\ w \notin crossed /\ writers' = {} => statusFile' = blocks
           /\ wrote \subseteq wrote' /\ wrote' \subseteq Status!Block
           /\ \A b \in wrote' : b \in wrote \/ blocks[b] = "full"
BY DEF Status!Closes, Status!TypeOK

\* The callbacks that do not touch the file.
LEMMA CallbackInv ==
    ASSUME StatusInv,
           \/ Status!Decide \/ Status!CaptureStart \/ Status!AppendRow \/ Status!StartLater
           \/ Status!EndScan \/ Status!CaptureEnd \/ Status!SessionUpload
           \/ Status!CallbackRaises
    PROVE  StatusInv'
<1> USE DaqRunAssumption
        DEF StatusInv, Status!TypeOK, NothingEarly, StartKnown, OneAtATime, RowHasPush, Early,
            Status!BlocksKept, Status!PushIsInRow, Status!Busy, Status!Block, Status!Blocks,
            Status!Running
<1>1. CASE Status!Decide
  BY <1>1 DEF Status!Decide
<1>2. CASE Status!CaptureStart
  BY <1>2 DEF Status!CaptureStart, Status!Capture
<1>3. CASE Status!AppendRow
  <2>1. CASE memory["start"] = "full"
    BY <1>3, <2>1 DEF Status!AppendRow, Status!Row
  <2>2. CASE memory["start"] # "full"
    <3>1. /\ stage = "row" /\ stage' = "later" /\ jpc["start"] # "none"
          /\ pushed' \in BOOLEAN /\ lostPush' \in BOOLEAN /\ (pushed' \/ lostPush')
          /\ lostPush => lostPush'
      BY <1>3, <2>2 DEF Status!AppendRow
    <3>2. UNCHANGED <<useServer, row, Status!serverVars, memory, jpc, read, Status!fileVars>>
      BY <1>3, <2>2 DEF Status!AppendRow
    <3> QED BY <3>1, <3>2
  <2> QED BY <2>1, <2>2
<1>4. CASE Status!StartLater
  BY <1>4 DEF Status!StartLater
<1>5. CASE Status!EndScan
  BY <1>5 DEF Status!EndScan
<1>6. CASE Status!CaptureEnd
  BY <1>6 DEF Status!CaptureEnd, Status!Capture
<1>7. CASE Status!SessionUpload
  BY <1>7 DEF Status!SessionUpload
<1>8. CASE Status!CallbackRaises
  BY <1>8 DEF Status!CallbackRaises, Status!AtStart, Status!AtEnd
<1> QED BY <1>1, <1>2, <1>3, <1>4, <1>5, <1>6, <1>7, <1>8

\* The session writes its blocks: at the start it has all that is in the file, ...
LEMMA LocalStartInv ==
    ASSUME StatusInv, Status!LocalStart
    PROVE  StatusInv'
<1> USE DaqRunAssumption
        DEF StatusInv, Status!TypeOK, NothingEarly, StartKnown, OneAtATime, RowHasPush, Early,
            Status!BlocksKept, Status!PushIsInRow, Status!Busy, Status!Block, Status!Blocks,
            Status!Running
<1>1. /\ stage = "local" /\ stage' = "write" /\ memory' = [memory EXCEPT !["start"] = "full"]
      /\ statusFile' = Torn /\ writers' = writers \cup {"session"} /\ wrote' = wrote
      /\ crossed' = IF writers = {} THEN {} ELSE writers'
      /\ spoiled' = (spoiled \/ Status!Busy # {})
      /\ UNCHANGED <<useServer, row, Status!serverVars, jpc, read, pushed, lostPush>>
  BY DEF Status!LocalStart, Status!Opens
<1>2. /\ memory' \in Status!Blocks
      /\ writers' \subseteq Status!Block \cup {"session"} /\ crossed' \subseteq writers'
  BY <1>1
<1>3. Status!TypeOK'
  BY <1>1, <1>2
<1>4. NothingEarly' /\ StartKnown' /\ RowHasPush'
  BY <1>1
<1>5. OneAtATime'
  BY <1>1
<1>6. Status!BlocksKept' /\ Status!PushIsInRow'
  BY <1>1
<1> QED BY <1>3, <1>4, <1>5, <1>6

\* ... and at the end all but a block it has only a place-holder of.
LEMMA LocalEndInv ==
    ASSUME StatusInv, Status!LocalEnd
    PROVE  StatusInv'
<1> USE DaqRunAssumption
        DEF StatusInv, Status!TypeOK, NothingEarly, StartKnown, OneAtATime, RowHasPush, Early,
            Status!BlocksKept, Status!PushIsInRow, Status!Busy, Status!Block, Status!Blocks,
            Status!Running
<1>1. /\ stage = "local_end" /\ stage' = "write_end"
      /\ memory' = [memory EXCEPT !["end"] = "full"]
      /\ statusFile' = Torn /\ writers' = writers \cup {"session"} /\ wrote' = wrote
      /\ crossed' = IF writers = {} THEN {} ELSE writers'
      /\ spoiled' = (spoiled \/ Status!Busy # {} \/ memory["start"] = "empty")
      /\ UNCHANGED <<useServer, row, Status!serverVars, jpc, read, pushed, lostPush>>
  BY DEF Status!LocalEnd, Status!Opens
<1>2. /\ memory' \in Status!Blocks
      /\ writers' \subseteq Status!Block \cup {"session"} /\ crossed' \subseteq writers'
  BY <1>1
<1>3. Status!TypeOK'
  BY <1>1, <1>2
<1>4. NothingEarly' /\ StartKnown' /\ RowHasPush'
  BY <1>1
<1>5. OneAtATime'
  BY <1>1
<1>6. Status!BlocksKept' /\ Status!PushIsInRow'
  BY <1>1
<1> QED BY <1>3, <1>4, <1>5, <1>6

\* What the session leaves in the file when it closes it.
LEMMA LocalWriteInv ==
    ASSUME StatusInv, Status!LocalWrite
    PROVE  StatusInv'
<1> USE DaqRunAssumption
        DEF StatusInv, Status!TypeOK, NothingEarly, StartKnown, OneAtATime, RowHasPush, Early,
            Status!BlocksKept, Status!PushIsInRow, Status!Busy, Status!Block, Status!Blocks,
            Status!Running
<1>1. "session" \in writers /\ memory \in Status!Blocks /\ Status!Closes("session", memory)
  BY DEF Status!LocalWrite
<1>2. /\ writers' = writers \ {"session"} /\ crossed' = crossed \ {"session"}
      /\ spoiled' = spoiled
      /\ statusFile' \in {Torn, memory}
      /\ writers' # {} => statusFile' = Torn
      /\ "session" \notin crossed /\ writers' = {} => statusFile' = memory
      /\ wrote \subseteq wrote' /\ wrote' \subseteq Status!Block
      /\ \A b \in wrote' : b \in wrote \/ memory[b] = "full"
  BY <1>1, CloseFile
<1>3. /\ stage \in {"write", "write_end"}
      /\ stage' = IF stage = "write" THEN "upload" ELSE "upload_end"
      /\ UNCHANGED <<useServer, memory, row, Status!serverVars, jpc, read, pushed, lostPush>>
  BY DEF Status!LocalWrite
<1>4. Status!TypeOK'
  BY <1>1, <1>2, <1>3
<1>7. RowHasPush' /\ StartKnown' /\ Status!PushIsInRow'
  BY <1>1, <1>3
<1>5. NothingEarly'
  BY <1>2, <1>3
<1>6. Status!BlocksKept' /\ OneAtATime'
  <2>1. CASE spoiled
    BY <1>2, <1>3, <2>1
  <2>2. CASE ~spoiled
    <3>1. /\ \A b \in Status!Block : jpc[b] \notin {"open", "write"}
          /\ writers' = {} /\ crossed = {} /\ statusFile' = memory /\ memory # Torn
          /\ \A b \in wrote' : memory[b] = "full"
      <4>1. "session" \in Status!Busy /\ \A x \in Status!Busy : x = "session"
        BY <1>1, <2>2
      <4> QED BY <4>1, <2>2, <1>2, <1>3
    <3> QED BY <3>1, <1>2, <1>3
  <2> QED BY <2>1, <2>2
<1> QED BY <1>4, <1>5, <1>6, <1>7

\* A dump of the session that raises: the file is torn and counts as spoiled.
LEMMA LocalWriteFailsInv ==
    ASSUME StatusInv, Status!LocalWriteFails
    PROVE  StatusInv'
<1> USE DaqRunAssumption
        DEF StatusInv, Status!TypeOK, NothingEarly, StartKnown, OneAtATime, RowHasPush, Early,
            Status!BlocksKept, Status!PushIsInRow, Status!Busy, Status!Block, Status!Blocks,
            Status!Running
<1>1. /\ stage \in {"write", "write_end"}
      /\ stage' = IF stage = "write" THEN "failed" ELSE "aborted"
      /\ statusFile' = Torn /\ spoiled' = TRUE /\ wrote' = wrote
      /\ writers' = writers \ {"session"} /\ crossed' = crossed \ {"session"}
      /\ UNCHANGED <<useServer, memory, row, Status!serverVars, jpc, read, pushed, lostPush>>
  BY DEF Status!LocalWriteFails, Status!Breaks
<1>2. Status!TypeOK'
  BY <1>1
<1>3. NothingEarly' /\ StartKnown' /\ RowHasPush'
  BY <1>1
<1>4. OneAtATime' /\ Status!BlocksKept' /\ Status!PushIsInRow'
  BY <1>1
<1> QED BY <1>2, <1>3, <1>4

\* The thread of the row.
LEMMA RowInvariant ==
    ASSUME StatusInv, Status!Collect \/ Status!GiveUp
    PROVE  StatusInv'
<1> USE DaqRunAssumption
        DEF StatusInv, Status!TypeOK, NothingEarly, StartKnown, OneAtATime, RowHasPush, Early,
            Status!BlocksKept, Status!PushIsInRow, Status!Busy, Status!Block, Status!Blocks,
            Status!Running
<1>1. CASE Status!Collect
  <2>1. /\ row = "waiting" /\ jpc["start"] = "done"
        /\ row' \in {IF pushed THEN "server" ELSE "bare", "lost"}
        /\ pushed' = FALSE /\ memory' = [memory EXCEPT !["start"] = "full"]
        /\ UNCHANGED <<stage, useServer, Status!serverVars, jpc, read, Status!fileVars, lostPush>>
    BY <1>1 DEF Status!Collect, Status!Row
  <2>2. memory' \in Status!Blocks /\ memory'["end"] = memory["end"] /\ memory'["start"] = "full"
    BY <2>1
  <2>3. Status!TypeOK'
    BY <2>1, <2>2
  <2>4. NothingEarly' /\ StartKnown' /\ Status!BlocksKept'
    BY <2>1, <2>2
  <2>5. OneAtATime'
    BY <2>1, <2>2
  <2>6. RowHasPush' /\ Status!PushIsInRow'
    BY <2>1, <2>2
  <2> QED BY <2>3, <2>4, <2>5, <2>6
<1>2. CASE Status!GiveUp
  BY <1>2 DEF Status!GiveUp, Status!Row
<1> QED BY <1>1, <1>2

\* A restart: a writer that dies spoils the file, and a job that is gone has lost
\* what was pushed for it.
LEMMA RestartInv ==
    ASSUME StatusInv, Status!Restart \/ Status!Recover
    PROVE  StatusInv'
<1> USE DaqRunAssumption
        DEF StatusInv, Status!TypeOK, NothingEarly, StartKnown, OneAtATime, RowHasPush, Early,
            Status!BlocksKept, Status!PushIsInRow, Status!Busy, Status!Block, Status!Blocks,
            Status!Running
<1>1. CASE Status!Restart
  <2>1. /\ restarts' = restarts + 1 /\ restarts < MaxRestarts /\ ready' = FALSE
        /\ jpc' = [b \in Status!Block |-> IF jpc[b] = "none" THEN "none" ELSE "gone"]
        /\ pushed' = FALSE
        /\ writers' = writers \ Status!Block /\ crossed' = crossed \ Status!Block
        /\ spoiled' = (spoiled \/ writers \cap Status!Block # {})
        /\ UNCHANGED <<Status!scanVars, row, read, statusFile, wrote, lostPush>>
    BY <1>1 DEF Status!Restart
  <2>2. \A b \in Status!Block : jpc'[b] = IF jpc[b] = "none" THEN "none" ELSE "gone"
    BY <2>1
  <2>3. Status!TypeOK'
    <3>1. restarts' \in 0..MaxRestarts /\ spoiled' \in BOOLEAN
      BY <2>1
    <3>2. /\ jpc' \in [Status!Block -> Status!Running \cup {"none", "done", "error", "gone"}]
          /\ \A b \in Status!Block : jpc'[b] # "write" /\ b \notin writers'
      BY <2>1, <2>2
    <3>3. /\ writers' \subseteq Status!Block \cup {"session"} /\ crossed' \subseteq writers'
          /\ writers' # {} => statusFile' = Torn
          /\ "session" \in writers' <=> stage' \in {"write", "write_end"}
      BY <2>1
    <3> QED BY <2>1, <3>1, <3>2, <3>3
  <2>4. NothingEarly' /\ StartKnown'
    BY <2>1, <2>2
  <2>5. Status!BlocksKept'
    BY <2>1
  <2>6. OneAtATime'
    BY <2>1, <2>2
  <2>7. RowHasPush' /\ Status!PushIsInRow'
    BY <2>1, <2>2
  <2> QED BY <2>3, <2>4, <2>5, <2>6, <2>7
<1>2. CASE Status!Recover
  BY <1>2 DEF Status!Recover
<1> QED BY <1>1, <1>2

\* The steps of a job beside its write.
LEMMA JobInv ==
    ASSUME StatusInv, NEW b \in Status!Block,
           Status!ReadFile(b) \/ Status!OpenFile(b) \/ Status!Upload(b) \/ Status!JobFails(b)
    PROVE  StatusInv'
<1> USE DaqRunAssumption
        DEF StatusInv, Status!TypeOK, NothingEarly, StartKnown, OneAtATime, RowHasPush, Early,
            Status!BlocksKept, Status!PushIsInRow, Status!Busy, Status!Block, Status!Blocks,
            Status!Running
<1>1. CASE Status!ReadFile(b)
  <2>0. PICK found :
              /\ found = Status!NoBlocks \/ (statusFile # Torn /\ found = statusFile)
              /\ read' = [read EXCEPT ![b] = found]
              /\ spoiled' = (spoiled \/ Status!Busy # {} \/ statusFile \notin {Torn, found})
    BY <1>1 DEF Status!ReadFile
  <2>1. /\ jpc[b] = "snapshot" /\ jpc' = [jpc EXCEPT ![b] = "open"]
        /\ read' = [read EXCEPT ![b] = found]
        /\ spoiled' \in BOOLEAN
        /\ ~spoiled' => ~spoiled /\ Status!Busy = {} /\ statusFile \in {Torn, found}
        /\ spoiled => spoiled'
        /\ UNCHANGED <<Status!jobRest, statusFile, writers, crossed, wrote>>
    BY <1>1, <2>0 DEF Status!ReadFile, Status!JobGoto
  <2>2. /\ read'[b] \in Status!Blocks /\ \A c \in Status!Block : c # b => read'[c] = read[c]
        /\ read' \in [Status!Block -> Status!Blocks]
        /\ read'[b] = found
        /\ \A c \in Status!Block : read'[b][c] = "full" =>
              statusFile # Torn /\ statusFile[c] = "full"
    <3>1. /\ Status!NoBlocks \in Status!Blocks
          /\ \A c \in Status!Block : Status!NoBlocks[c] = "none"
      BY DEF Status!NoBlocks
    <3>2. CASE found = Status!NoBlocks
      BY <2>1, <3>1, <3>2
    <3>3. CASE statusFile # Torn /\ found = statusFile
      BY <2>1, <3>3
    <3> QED BY <2>0, <3>2, <3>3
  <2>3. Status!TypeOK'
    <3>1. jpc' \in [Status!Block -> Status!Running \cup {"none", "done", "error", "gone"}]
      BY <2>1
    <3>2. \A c \in Status!Block : c \in writers <=> jpc'[c] = "write"
      BY <2>1
    <3> QED BY <2>1, <2>2, <3>1, <3>2
  <2>4. NothingEarly' /\ StartKnown'
    BY <2>1, <2>2
  <2>5. Status!BlocksKept'
    BY <2>1
  <2>6. OneAtATime'
    <3>1. CASE spoiled'
      BY <3>1
    <3>2. CASE ~spoiled'
      <4>1. Status!Busy = {} /\ writers = {} /\ ~spoiled
        BY <2>1, <3>2
      <4>2. \A c \in wrote : read'[b][c] = "full"
        <5>1. statusFile # Torn /\ \A c \in wrote : statusFile[c] = "full"
          BY <4>1
        <5>2. read'[b] = statusFile
          BY <5>1, <2>1, <2>2, <3>2
        <5> QED BY <5>1, <5>2
      <4>3. Status!Busy' = {b}
        BY <4>1, <2>1
      <4> QED BY <4>1, <4>2, <4>3, <2>1
    <3> QED BY <3>1, <3>2
  <2>7. RowHasPush' /\ Status!PushIsInRow'
    BY <2>1
  <2> QED BY <2>3, <2>4, <2>5, <2>6, <2>7
<1>2. CASE Status!OpenFile(b)
  BY <1>2 DEF Status!OpenFile, Status!JobGoto, Status!Opens
<1>3. CASE Status!Upload(b)
  BY <1>3 DEF Status!Upload, Status!JobGoto
<1>4. CASE Status!JobFails(b)
  <2>1. CASE jpc[b] = "write"
    <3>1. /\ jpc' = [jpc EXCEPT ![b] = "error"]
          /\ statusFile' = Torn /\ spoiled' = TRUE /\ wrote' = wrote
          /\ writers' = writers \ {b} /\ crossed' = crossed \ {b}
          /\ UNCHANGED <<Status!jobRest, read>>
      BY <1>4, <2>1 DEF Status!JobFails, Status!JobGoto, Status!Breaks
    <3>2. Status!TypeOK'
      BY <3>1
    <3>3. NothingEarly' /\ StartKnown' /\ RowHasPush'
      BY <3>1, <2>1
    <3>4. OneAtATime' /\ Status!BlocksKept' /\ Status!PushIsInRow'
      BY <3>1
    <3> QED BY <3>2, <3>3, <3>4
  <2>2. CASE jpc[b] # "write"
    <3>1. /\ jpc[b] \in {"snapshot", "open", "upload"} /\ jpc' = [jpc EXCEPT ![b] = "error"]
          /\ UNCHANGED <<Status!jobRest, Status!fileVars, read>>
      BY <1>4, <2>2 DEF Status!JobFails, Status!JobGoto
    <3>2. Status!TypeOK'
      BY <3>1
    <3>3. NothingEarly' /\ StartKnown' /\ RowHasPush'
      BY <3>1
    <3>4. OneAtATime' /\ Status!BlocksKept' /\ Status!PushIsInRow'
      BY <3>1
    <3> QED BY <3>2, <3>3, <3>4
  <2> QED BY <2>1, <2>2
<1> QED BY <1>1, <1>2, <1>3, <1>4

\* What a job leaves in the file when it closes it.
LEMMA WriteInv ==
    ASSUME StatusInv, NEW b \in Status!Block, Status!WriteFile(b)
    PROVE  StatusInv'
<1> DEFINE blocks == [read[b] EXCEPT ![b] = "full"]
<1> USE DaqRunAssumption
        DEF StatusInv, Status!TypeOK, NothingEarly, StartKnown, OneAtATime, RowHasPush, Early,
            Status!BlocksKept, Status!PushIsInRow, Status!Busy, Status!Block, Status!Blocks,
            Status!Running
<1>1. b \in writers /\ blocks \in Status!Blocks /\ Status!Closes(b, blocks)
  BY DEF Status!WriteFile
<1>2. /\ writers' = writers \ {b} /\ crossed' = crossed \ {b}
      /\ spoiled' = spoiled
      /\ statusFile' \in {Torn, blocks}
      /\ writers' # {} => statusFile' = Torn
      /\ b \notin crossed /\ writers' = {} => statusFile' = blocks
      /\ wrote \subseteq wrote' /\ wrote' \subseteq Status!Block
      /\ \A c \in wrote' : c \in wrote \/ blocks[c] = "full"
  BY <1>1, CloseFile
<1>3. /\ jpc[b] = "write" /\ jpc' = [jpc EXCEPT ![b] = "upload"]
      /\ UNCHANGED <<Status!jobRest, read>>
  BY DEF Status!WriteFile, Status!JobGoto
<1>4. Status!TypeOK' /\ RowHasPush' /\ StartKnown' /\ Status!PushIsInRow'
  BY <1>1, <1>2, <1>3
<1>5. NothingEarly'
  BY <1>1, <1>2, <1>3
<1>6. Status!BlocksKept' /\ OneAtATime'
  <2>1. CASE spoiled
    BY <1>2, <1>3, <2>1
  <2>2. CASE ~spoiled
    <3>1. /\ \A c \in Status!Block : jpc'[c] \notin {"open", "write"}
          /\ writers' = {} /\ crossed = {} /\ statusFile' = blocks /\ blocks # Torn
          /\ \A c \in wrote' : blocks[c] = "full"
      <4>1. b \in Status!Busy /\ \A x \in Status!Busy : x = b
        BY <1>1, <2>2
      <4> QED BY <4>1, <2>2, <1>1, <1>2, <1>3
    <3> QED BY <3>1, <1>2, <1>3
  <2> QED BY <2>1, <2>2
<1> QED BY <1>4, <1>5, <1>6

\* Every step of the status and the row keeps the invariant.
LEMMA StatusNext == StatusInv /\ [Status!Next]_(Status!vars) => StatusInv'
<1> SUFFICES ASSUME StatusInv, [Status!Next]_(Status!vars) PROVE StatusInv'
  OBVIOUS
<1>1. CASE Status!Scan
  BY <1>1, CallbackInv, LocalStartInv, LocalEndInv, LocalWriteInv, LocalWriteFailsInv
     DEF Status!Scan
<1>2. CASE Status!Collect \/ Status!GiveUp
  BY <1>2, RowInvariant
<1>3. CASE Status!Restart \/ Status!Recover
  BY <1>3, RestartInv
<1>4. ASSUME NEW b \in Status!Block, Status!JobStep(b) PROVE StatusInv'
  BY <1>4, JobInv, WriteInv DEF Status!JobStep
<1>5. CASE UNCHANGED Status!vars
  BY <1>5 DEF Status!vars, StatusInv, Status!TypeOK, NothingEarly, StartKnown, OneAtATime,
              RowHasPush, Early, Status!BlocksKept, Status!PushIsInRow, Status!Busy
<1> QED BY <1>1, <1>2, <1>3, <1>4, <1>5 DEF Status!Next

LEMMA StatusStarts == Status!Init => StatusInv
<1> SUFFICES ASSUME Status!Init PROVE StatusInv
  OBVIOUS
<1> USE DaqRunAssumption DEF Status!Init, Status!Block, Status!Blocks
<1>1. /\ Status!NoBlocks \in Status!Blocks
      /\ \A b \in Status!Block : Status!NoBlocks[b] = "none"
  BY DEF Status!NoBlocks
<1>2. Status!TypeOK
  <2>1. /\ stage = "begin" /\ useServer = FALSE /\ memory \in Status!Blocks /\ row = "none"
        /\ ready = TRUE /\ restarts \in 0..MaxRestarts /\ pushed = FALSE /\ lostPush = FALSE
        /\ statusFile \in Status!Blocks /\ writers = {} /\ crossed = {} /\ wrote = {}
        /\ spoiled = FALSE
    BY <1>1
  <2>2. /\ jpc \in [Status!Block -> Status!Running \cup {"none", "done", "error", "gone"}]
        /\ \A b \in Status!Block : jpc[b] = "none"
    OBVIOUS
  <2>3. read \in [Status!Block -> Status!Blocks]
    BY <1>1
  <2> QED BY <2>1, <2>2, <2>3 DEF Status!TypeOK
<1>3. NothingEarly /\ StartKnown
  BY <1>1 DEF NothingEarly, Early, StartKnown
<1>4. OneAtATime
  BY DEF OneAtATime, Status!Busy
<1>5. RowHasPush /\ Status!BlocksKept /\ Status!PushIsInRow
  BY <1>1 DEF RowHasPush, Status!BlocksKept, Status!PushIsInRow
<1> QED BY <1>2, <1>3, <1>4, <1>5 DEF StatusInv

-----------------------------------------------------------------------------
(* The run is a run of both parts.                                             *)

\* Every step of the run is a step of the status and the row, or leaves them.
THEOREM RunIsStatus == RunSpec => Status!Spec
<1>1. RunInit => Status!Init
  BY DEF RunInit
<1>2. [RunNext]_allVars => [Status!Next]_(Status!vars)
  <2> SUFFICES ASSUME [RunNext]_allVars PROVE [Status!Next]_(Status!vars)
    OBVIOUS
  <2>1. CASE StatusCallback
    BY <2>1 DEF StatusCallback, Status!Next
  <2>2. CASE FillRow
    BY <2>2 DEF FillRow, Status!Next
  <2>3. CASE Server
    BY <2>3 DEF Server, Status!Next
  <2>4. CASE UNCHANGED statusVars
    BY <2>4 DEF statusVars, Status!vars
  <2>5. Callback => StatusCallback \/ UNCHANGED statusVars
    BY DEF Callback, EndCallback
  <2>6. ASSUME NEW k \in Run, StepCallback(k) \/ \E i \in Call : Upload(k, i)
        PROVE  UNCHANGED statusVars
    BY <2>6 DEF StepCallback, Upload
  <2>7. CASE UNCHANGED allVars
    BY <2>7, <2>4 DEF allVars
  <2> QED BY <2>1, <2>2, <2>3, <2>4, <2>5, <2>6, <2>7 DEF RunNext
<1> QED BY <1>1, <1>2, PTL DEF RunSpec, Status!Spec

\* Every step of the run is a step of the uploads, or leaves them.
THEOREM RunIsAuxUpload == RunSpec => Spec
<1>1. RunInit => Init
  BY DEF RunInit
<1>2. [RunNext]_allVars => [Next]_vars
  <2> SUFFICES ASSUME [RunNext]_allVars PROVE [Next]_vars
    OBVIOUS
  <2>1. ASSUME NEW k \in Run, BeginWrite(k) \/ EndWrite(k) \/ Schedule(k) \/ Raises(k)
        PROVE  Next
    BY <2>1 DEF Next, Scan
  <2>2. ASSUME NEW k \in Run, NEW i \in Call, TimerStep(k, i) PROVE Next
    BY <2>2 DEF Next
  <2>3. Callback => Next \/ UNCHANGED vars
    BY <2>1 DEF Callback, StatusCallback, EndCallback
  <2>4. FillRow \/ Server => UNCHANGED vars
    BY DEF FillRow, Server
  <2>5. ASSUME NEW k \in Run, StepCallback(k) \/ \E i \in Call : Upload(k, i) PROVE Next
    BY <2>5, <2>1, <2>2 DEF StepCallback, Upload
  <2>6. CASE UNCHANGED allVars
    BY <2>6 DEF allVars
  <2> QED BY <2>3, <2>4, <2>5, <2>6 DEF RunNext
<1> QED BY <1>1, <1>2, PTL DEF RunSpec, Spec

-----------------------------------------------------------------------------
(* What holds of every run.                                                    *)

\* The invariant holds of the status and the row.
LEMMA StatusInvariance == RunSpec => []StatusInv
<1>1. Status!Spec => []StatusInv
  BY StatusStarts, StatusNext, PTL DEF Status!Spec
<1> QED BY RunIsStatus, <1>1, PTL

\* Type correctness: with it that whoever writes status.json has it open, and that
\* it cannot be parsed meanwhile.
THEOREM StatusTyped == RunSpec => []StatusTypeOK
<1>1. StatusInv => StatusTypeOK
  BY DEF StatusInv, StatusTypeOK
<1> QED BY StatusInvariance, <1>1, PTL

\* What was in status.json stays there, whatever requests the server refuses,
\* whatever answers are lost and snapshots and uploads fail, unless two writers of
\* the file overlap, a restart kills one, a write raises, a whole file cannot be
\* read, or the session writes the place-holder of a block the server was to take
\* (write_status_snapshot, append_status_to_scan_and_store).
THEOREM BlocksAreKept == RunSpec => []BlocksKept
<1>1. StatusInv => BlocksKept
  BY DEF StatusInv, BlocksKept
<1> QED BY StatusInvariance, <1>1, PTL

\* No row is filled from the job without the values that were pushed for it
\* (_create_runtable_metadata_append_status_to_runtable).
THEOREM RowHasWhatWasPushed == RunSpec => []PushIsInRow
<1>1. StatusInv => PushIsInRow
  BY DEF StatusInv, PushIsInRow
<1> QED BY StatusInvariance, <1>1, PTL

\* In a run, too, the upload of the last call is not lost.
THEOREM LastUploadOfRun == RunSpec => []LastUploadCounts
BY RunIsAuxUpload, LastUploadIsNotLost, PTL

=============================================================================
