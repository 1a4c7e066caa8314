------------------------------- MODULE AuxUpload -------------------------------
(* The scan_info file of a run: a scan's thread writes it after every step, and *)
(* its upload is put off as long as steps follow each other, by a timer that    *)
(* each call replaces (copy_scan_info_to_raw, _debounced_append_aux).  A timer  *)
(* that fires runs in its own thread and asks the broker to copy the file as it *)
(* is by then; the scan does not wait for any of that.                          *)
EXTENDS Naturals

CONSTANTS
    Run,      \* the keys: a pgroup and a run number, each with its scan's thread
    Torn,     \* a copy that was taken while the file was being written
    MaxCalls  \* bound: steps of a scan

ASSUME AuxUploadAssumption ==
    /\ MaxCalls \in Nat
    /\ Torn \notin Nat

Call == 1..MaxCalls

VARIABLES
    pc,       \* of each scan: "idle", "writing" the file, "written"; after a call
              \* that raised "torn" or, with the file whole, "unsent"
    file,     \* the call whose content the file has, 0 before the first
    copy,     \* the content of the broker's copy, or Torn
    slot,     \* _debounce_timers: the call whose timer it has, or 0
    timer,    \* of each call of a scan: its timer and the thread the timer becomes
    refused   \* history: runs of which an upload failed since the last call

vars == <<pc, file, copy, slot, timer, refused>>

TimerStates == {"none", "waiting", "cancelled", "fired", "posting", "failed", "done"}

TypeOK ==
    /\ pc \in [Run -> {"idle", "writing", "written", "torn", "unsent"}]
    /\ file \in [Run -> 0..MaxCalls]
    /\ copy \in [Run -> 0..MaxCalls \cup {Torn}]
    /\ slot \in [Run -> 0..MaxCalls]
    /\ timer \in [Run -> [Call -> TimerStates]]
    /\ refused \subseteq Run
    /\ \A k \in Run : slot[k] # 0 => timer[k][slot[k]] \in {"waiting", "fired"}

Init ==
    /\ pc = [k \in Run |-> "idle"]
    /\ file = [k \in Run |-> 0] /\ copy = [k \in Run |-> 0]
    /\ slot = [k \in Run |-> 0]
    /\ timer = [k \in Run |-> [i \in Call |-> "none"]]
    /\ refused = {}

-----------------------------------------------------------------------------
(* The thread of the scan.                                                     *)

\* A step has ended: the file is overwritten in place, ...
BeginWrite(k) ==
    /\ pc[k] \in {"idle", "torn", "unsent"} /\ file[k] < MaxCalls
    /\ pc' = [pc EXCEPT ![k] = "writing"]
    /\ UNCHANGED <<file, copy, slot, timer, refused>>

EndWrite(k) ==
    /\ pc[k] = "writing"
    /\ pc' = [pc EXCEPT ![k] = "written"]
    /\ file' = [file EXCEPT ![k] = @ + 1]
    /\ UNCHANGED <<copy, slot, timer, refused>>

\* ... then, under _debounce_lock, the timer that is pending is cancelled, which
\* does nothing to one that has fired, and a new one is started.
Schedule(k) ==
    LET i == file[k] IN
    /\ pc[k] = "written"
    /\ pc' = [pc EXCEPT ![k] = "idle"]
    /\ slot' = [slot EXCEPT ![k] = i]
    /\ timer' = [timer EXCEPT ![k] = [j \in Call |->
            IF j = i THEN "waiting"
            ELSE IF j = slot[k] /\ timer[k][j] = "waiting" THEN "cancelled"
            ELSE timer[k][j]]]
    /\ refused' = refused \ {k}
    /\ UNCHANGED <<file, copy>>

\* The call raises: the directory or the file cannot be opened, a value has no
\* JSON form, which leaves half a file, or the group cannot be changed.
Raises(k) ==
    /\ pc[k] \in {"writing", "written"}
    /\ pc' \in {[pc EXCEPT ![k] = "unsent"]}
            \cup (IF pc[k] = "writing" THEN {[pc EXCEPT ![k] = "torn"]} ELSE {})
    /\ UNCHANGED <<file, copy, slot, timer, refused>>

-----------------------------------------------------------------------------
(* The threads of the timers.                                                  *)

\* The interval is over and the timer was not cancelled: fire() is called, ...
Expire(k, i) ==
    /\ timer[k][i] = "waiting"
    /\ timer' = [timer EXCEPT ![k][i] = "fired"]
    /\ UNCHANGED <<pc, file, copy, slot, refused>>

\* Mutant: what is popped is cancelled.
FireCancels(k, i) ==
    /\ timer[k][i] = "fired"
    /\ slot' = [slot EXCEPT ![k] = 0]
    /\ timer' = [timer EXCEPT ![k] = [j \in Call |->
            IF j = i THEN "posting"
            ELSE IF j = slot[k] /\ timer[k][j] = "waiting" THEN "cancelled"
            ELSE timer[k][j]]]
    /\ UNCHANGED <<pc, file, copy, refused>>

\* ... waits for _debounce_lock and pops whatever timer the key has by then.
Fire(k, i) ==
    /\ timer[k][i] = "fired"
    /\ slot' = [slot EXCEPT ![k] = 0]
    /\ timer' = [timer EXCEPT ![k][i] = "posting"]
    /\ UNCHANGED <<pc, file, copy, refused>>

\* Mutant: the upload sends what the file was when it was scheduled.
CopiedOld(k, i) ==
    /\ timer[k][i] = "posting"
    /\ copy' = [copy EXCEPT ![k] = i]
    /\ timer' = [timer EXCEPT ![k][i] = "done"]
    /\ UNCHANGED <<pc, file, slot, refused>>

\* append_aux(): the broker copies the file as it is now.
Copied(k, i) ==
    /\ timer[k][i] = "posting"
    /\ copy' = [copy EXCEPT ![k] = IF pc[k] \in {"writing", "torn"} THEN Torn ELSE file[k]]
    /\ timer' = [timer EXCEPT ![k][i] = "done"]
    /\ UNCHANGED <<pc, file, slot, refused>>

\* The group cannot be changed or the request fails: the thread ends.
Refused(k, i) ==
    /\ timer[k][i] = "posting"
    /\ timer' = [timer EXCEPT ![k][i] = "failed"]
    /\ refused' = refused \cup {k}
    /\ UNCHANGED <<pc, file, copy, slot>>

Scan(k) == BeginWrite(k) \/ EndWrite(k) \/ Schedule(k) \/ Raises(k)

TimerStep(k, i) == Expire(k, i) \/ Fire(k, i) \/ Copied(k, i) \/ Refused(k, i)

Next == \E k \in Run : Scan(k) \/ \E i \in Call : TimerStep(k, i)

Spec == Init /\ [][Next]_vars

-----------------------------------------------------------------------------
(* Properties.                                                                 *)

\* Between two steps the upload of the last call is on its way or was refused,
\* or the broker has the whole file: no cancelled timer, no timer that fires late
\* and pops the entry of another, and no earlier call that raised costs the run
\* its last scan_info.
LastUploadCounts ==
    \A k \in Run : pc[k] = "idle" /\ file[k] # 0 =>
        \/ timer[k][file[k]] \in {"waiting", "fired", "posting", "failed"}
        \/ timer[k][file[k]] = "done" /\ copy[k] = file[k]

=============================================================================
