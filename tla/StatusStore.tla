------------------------------ MODULE StatusStore ------------------------------
(* The namespace store of the status server: one worker thread builds and      *)
(* rebuilds the namespace in the background while the threads of the server    *)
(* start, stop and drop recordings and ask for rebuilds.  What a recording     *)
(* does with its updates is the matter of Recording; here it is attached to    *)
(* the objects of one build of the namespace, and its buffers are handed out   *)
(* once.                                                                       *)
EXTENDS Naturals, FiniteSets

CONSTANTS
    Client,     \* threads of the server
    Rec,        \* ids of recordings, each used once
    None,       \* no thread, no recording
    MaxReinits  \* bound: rebuilds that are asked for

ASSUME StatusStoreAssumption ==
    /\ None \notin Client \cup Rec
    /\ MaxReinits \in Nat

VARIABLES
    state,       \* NamespaceMonitorStore.state
    generation,  \* its generation
    namespace,   \* self.namespace is not None
    objects,     \* the objects the namespace holds: a number per teardown
    built,       \* those in _direct and _monitorable; 0 at first
    wpc, wmode,  \* where the worker is, and in which mode
    toStop,      \* the recordings its stop_all_recordings() still has to stop
    stopping,    \* the one it is stopping
    recLock,     \* the thread that holds _recordings_lock
    cpc, about,  \* where a client's call is, and its recording
    overtaken,   \* history: clients that found READY before a rebuild stopped all
    st,          \* of each recording
    attached,    \* the objects its monitors are attached to while it runs, or 0
    late,        \* history: running recordings started by a client in `overtaken'
    taker,       \* history: who took its buffers: "none", "client" or "reinit"
    blank,       \* history: recordings of which stop_recording() returned no data
    asked        \* rebuilds asked for

storeVars == <<state, generation, namespace, objects, built>>
workerVars == <<wpc, wmode, toStop, stopping>>
clientVars == <<recLock, cpc, about, overtaken>>
recVars == <<st, attached, late, taker, blank>>
vars == <<storeVars, workerVars, clientVars, recVars, asked>>

BusyStates == {"IMPORTING", "INITIALIZING", "REINITIALIZING"}

TypeOK ==
    /\ state \in BusyStates \cup {"READY", "FAILED"}
    /\ generation \in 0..(MaxReinits + 1) /\ asked \in 0..MaxReinits
    /\ namespace \in BOOLEAN
    /\ objects \in 1..(MaxReinits + 1) /\ built \in 0..objects
    /\ wpc \in {"none", "import", "stop", "halt", "swap", "teardown", "init",
                "build", "finish", "ready", "failed"}
    /\ wmode \in {"build", "names", "init", "reimport"}
    /\ toStop \subseteq Rec /\ stopping \in Rec \cup {None}
    /\ recLock \in Client \cup {None}
    /\ cpc \in [Client -> {"idle", "lock", "attach", "halt", "swap"}]
    /\ about \in [Client -> Rec \cup {None}]
    /\ overtaken \subseteq Client
    /\ st \in [Rec -> {"none", "running", "halted", "stopped", "gone"}]
    /\ attached \in [Rec -> 0..objects]
    /\ late \subseteq Rec /\ blank \subseteq Rec
    /\ taker \in [Rec -> {"none", "client", "reinit"}]
    /\ state \notin BusyStates => wpc = "none"

\* start() has been called.
Init ==
    /\ state = "IMPORTING" /\ generation = 0
    /\ namespace = FALSE /\ objects = 1 /\ built = 0
    /\ wpc = "import" /\ wmode = "build" /\ toStop = {} /\ stopping = None
    /\ recLock = None
    /\ cpc = [c \in Client |-> "idle"] /\ about = [c \in Client |-> None]
    /\ overtaken = {}
    /\ st = [r \in Rec |-> "none"] /\ attached = [r \in Rec |-> 0]
    /\ late = {} /\ taker = [r \in Rec |-> "none"] /\ blank = {}
    /\ asked = 0

Goto(c, loc, r) ==
    /\ cpc' = [cpc EXCEPT ![c] = loc]
    /\ about' = [about EXCEPT ![c] = r]

WorkerGoto(loc) == wpc' = loc

-----------------------------------------------------------------------------
(* Recordings.                                                                 *)

\* start_recording(): refused while the store is not ready ...
StartCheck(c) ==
    /\ cpc[c] = "idle" /\ state = "READY"
    /\ \E r \in Rec : st[r] \in {"none", "running"} /\ Goto(c, "lock", r)
    /\ UNCHANGED <<storeVars, workerVars, recLock, overtaken, recVars, asked>>

\* ... or the id runs already; the objects are looked up under the lock.
StartAttach(c) ==
    LET r == about[c] IN
    /\ cpc[c] = "lock" /\ recLock = None
    /\ IF st[r] = "none"
       THEN /\ recLock' = c
            /\ Goto(c, "attach", r)
            /\ attached' = [attached EXCEPT ![r] = built]
            /\ overtaken' = overtaken
       ELSE /\ Goto(c, "idle", None)
            /\ overtaken' = overtaken \ {c}
            /\ UNCHANGED <<recLock, attached>>
    /\ UNCHANGED <<storeVars, workerVars, st, late, taker, blank, asked>>

\* session.start() has returned; only now is the recording listed.
StartDone(c) ==
    LET r == about[c] IN
    /\ cpc[c] = "attach"
    /\ st' = [st EXCEPT ![r] = "running"]
    /\ late' = late \cup {s \in {r} : c \in overtaken}
    /\ overtaken' = overtaken \ {c}
    /\ recLock' = None
    /\ Goto(c, "idle", None)
    /\ UNCHANGED <<storeVars, workerVars, attached, taker, blank, asked>>

\* Mutant: the lock is not taken.
StopTakeUnlocked(c) ==
    /\ cpc[c] = "idle"
    /\ \E r \in Rec : st[r] = "running" /\ Goto(c, "halt", r)
    /\ UNCHANGED <<storeVars, workerVars, recLock, overtaken, recVars, asked>>

\* stop_recording(): an error unless it runs.
StopTake(c) ==
    /\ cpc[c] = "idle" /\ recLock = None
    /\ \E r \in Rec : st[r] = "running" /\ Goto(c, "halt", r)
    /\ recLock' = c
    /\ UNCHANGED <<storeVars, workerVars, overtaken, recVars, asked>>

\* session.stop(): the monitors are stopped, stopped_at is set, ...
Halts(r) ==
    /\ st' = [st EXCEPT ![r] = IF @ = "running" THEN "halted" ELSE @]
    /\ attached' = [attached EXCEPT ![r] = 0]
    /\ late' = late \ {r}

StopHalt(c) ==
    /\ cpc[c] = "halt"
    /\ Halts(about[c])
    /\ Goto(c, "swap", about[c])
    /\ UNCHANGED <<storeVars, workerVars, recLock, overtaken, taker, blank, asked>>

\* ... and the buffers are handed to whom comes first.
Swaps(r, who) ==
    /\ st' = [st EXCEPT ![r] = IF @ = "halted" THEN "stopped" ELSE @]
    /\ taker' = [taker EXCEPT ![r] = IF @ = "none" THEN who ELSE @]

StopSwap(c) ==
    LET r == about[c] IN
    /\ cpc[c] = "swap"
    /\ Swaps(r, "client")
    /\ blank' = blank \cup {s \in {r} : taker[r] # "none"}
    /\ recLock' = None
    /\ Goto(c, "idle", None)
    /\ UNCHANGED <<storeVars, workerVars, overtaken, attached, late, asked>>

\* drop_recording(): stopped_at is set, whether or not the buffers are out.
Drop(c) ==
    /\ cpc[c] = "idle" /\ recLock = None
    /\ \E r \in Rec : st[r] \in {"halted", "stopped"} /\ st' = [st EXCEPT ![r] = "gone"]
    /\ UNCHANGED <<storeVars, workerVars, clientVars, attached, late, taker, blank, asked>>

-----------------------------------------------------------------------------
(* Asking for a rebuild.                                                       *)

\* start_reinit(), under _lock: a build that runs is not joined by another.
StartReinit(c) ==
    /\ cpc[c] = "idle" /\ asked < MaxReinits
    /\ state \notin BusyStates
    /\ asked' = asked + 1
    /\ IF namespace
       THEN state' = "REINITIALIZING" /\ wpc' = "stop" /\ wmode' \in {"names", "init", "reimport"}
       ELSE state' = "IMPORTING" /\ wpc' = "import" /\ wmode' = "build"
    /\ UNCHANGED <<generation, namespace, objects, built, toStop, stopping, clientVars, recVars>>

-----------------------------------------------------------------------------
(* The worker: _build_worker and _reinit_worker.                               *)

clientRest == <<clientVars, recVars, asked>>

\* The build ends in a state.
Ends(s) == state' = s /\ wpc' = "none"

\* An exception: the first build gives up, a rebuild tries to make do.
Raises == IF wmode = "build" THEN Ends("FAILED") ELSE wpc' = "failed" /\ state' = state

Import ==
    /\ wpc = "import"
    /\ \/ namespace' = TRUE /\ state' = "INITIALIZING" /\ WorkerGoto("init")
       \/ Ends("FAILED") /\ namespace' \in BOOLEAN
    /\ UNCHANGED <<generation, objects, built, wmode, toStop, stopping, clientRest>>

\* Mutant: the recordings go on.
StopAllForgets ==
    /\ wpc = "stop"
    /\ toStop' = {}
    /\ overtaken' = overtaken \cup {c \in Client : cpc[c] = "lock"}
    /\ WorkerGoto("halt")
    /\ UNCHANGED <<storeVars, wmode, stopping, recLock, cpc, about, recVars, asked>>

\* stop_all_recordings(): those that run are listed under the lock ...
StopAll ==
    /\ wpc = "stop" /\ recLock = None
    /\ toStop' = {r \in Rec : st[r] = "running"}
    /\ overtaken' = overtaken \cup {c \in Client : cpc[c] = "lock"}
    /\ WorkerGoto("halt")
    /\ UNCHANGED <<storeVars, wmode, stopping, recLock, cpc, about, recVars, asked>>

\* ... and stopped without it, their data dropped.
StopAllHalt ==
    /\ wpc = "halt"
    /\ IF toStop = {}
       THEN WorkerGoto("teardown") /\ UNCHANGED <<stopping, toStop, st, attached, late>>
       ELSE \E r \in toStop :
                /\ Halts(r)
                /\ stopping' = r /\ toStop' = toStop \ {r}
                /\ WorkerGoto("swap")
    /\ UNCHANGED <<storeVars, wmode, clientVars, taker, blank, asked>>

StopAllSwap ==
    /\ wpc = "swap"
    /\ Swaps(stopping, "reinit")
    /\ stopping' = None
    /\ WorkerGoto("halt")
    /\ UNCHANGED <<storeVars, wmode, toStop, clientVars, attached, late, blank, asked>>

\* reinitialize() tears objects down and makes new ones, errors are swallowed;
\* _reimport_namespace() leaves no namespace when the import fails; mode "init"
\* leaves the objects alone.  Whatever else raises here may do so before or after
\* the objects are gone.
Teardown ==
    /\ wpc = "teardown"
    /\ \/ wmode \in {"names", "reimport"} /\ objects' = objects + 1 /\ namespace' = TRUE
          /\ WorkerGoto("init") /\ state' = state
       \/ wmode = "init" /\ UNCHANGED <<objects, namespace, state>> /\ WorkerGoto("init")
       \/ Raises /\ objects' \in {objects, objects + 1}
          /\ namespace' = (wmode # "reimport" \/ objects' # objects)
    /\ UNCHANGED <<generation, built, wmode, toStop, stopping, clientRest>>

InitNamespace ==
    /\ wpc = "init"
    /\ \/ WorkerGoto("build") /\ state' = state
       \/ Raises
    /\ UNCHANGED <<generation, namespace, objects, built, wmode, toStop, stopping, clientRest>>

\* _build_monitors(): looks the objects up again.
BuildMonitors ==
    /\ wpc = "build"
    /\ \/ built' = objects /\ WorkerGoto("finish") /\ state' = state
       \/ Raises /\ built' = built
    /\ UNCHANGED <<generation, namespace, objects, wmode, toStop, stopping, clientRest>>

\* Mutant: READY is told before the generation is counted.
FinishEarly ==
    /\ wpc = "finish"
    /\ state' = "READY"
    /\ WorkerGoto("ready")
    /\ UNCHANGED <<generation, namespace, objects, built, wmode, toStop, stopping, clientRest>>

\* _finish_build(): the generation first, ...
Finish ==
    /\ wpc = "finish"
    /\ generation' = generation + 1
    /\ WorkerGoto("ready")
    /\ UNCHANGED <<state, namespace, objects, built, wmode, toStop, stopping, clientRest>>

\* ... then READY.
FinishReady ==
    /\ wpc = "ready"
    /\ Ends("READY")
    /\ UNCHANGED <<generation, namespace, objects, built, wmode, toStop, stopping, clientRest>>

\* Mutant: the state is left as it is.
ReinitFailedHangs ==
    /\ wpc = "failed"
    /\ built' = IF namespace THEN objects ELSE built
    /\ UNCHANGED <<state, generation, namespace, objects, workerVars, clientRest>>

\* A failed rebuild: the monitors are built once more; without a namespace, or
\* when that raises too, the store has failed.  The generation stays.
ReinitFailed ==
    /\ wpc = "failed"
    /\ \/ namespace /\ built' = objects /\ Ends("READY")
       \/ built' = built /\ Ends("FAILED")
    /\ UNCHANGED <<generation, namespace, objects, wmode, toStop, stopping, clientRest>>

WorkerStep ==
    \/ Import \/ StopAll \/ StopAllHalt \/ StopAllSwap \/ Teardown \/ InitNamespace
    \/ BuildMonitors \/ Finish \/ FinishReady \/ ReinitFailed

ClientGoesOn(c) == StartAttach(c) \/ StartDone(c) \/ StopHalt(c) \/ StopSwap(c)

Next ==
    \/ WorkerStep
    \/ \E c \in Client :
        StartCheck(c) \/ StopTake(c) \/ Drop(c) \/ StartReinit(c) \/ ClientGoesOn(c)

Spec == Init /\ [][Next]_vars

\* A call that holds the lock goes on: attaching and stopping monitors are calls
\* with time-outs.  The worker gets the lock some time among the clients that
\* take it again and again.
FairSpec ==
    /\ Spec
    /\ SF_vars(WorkerStep)
    /\ \A c \in Client : WF_vars(ClientGoesOn(c))

-----------------------------------------------------------------------------
(* Properties.                                                                 *)

\* While the store serves, what it serves from was looked up after the last
\* teardown, also when the rebuild failed half-way; and no recording goes on
\* with objects that were torn down, unless its start had found the store ready
\* before a rebuild stopped all others.
ReadyIsCurrent ==
    state = "READY" =>
        /\ namespace /\ built = objects
        /\ \A r \in Rec \ late : st[r] = "running" => attached[r] = objects

\* stop_recording() returns what was recorded: of two clients that stop the same
\* recording one is refused, and only a rebuild that stops it at that moment can
\* take the data away.
StopGivesData == \A r \in blank : taker[r] = "reinit"

\* Every build ends, in whatever way, although it has to wait for the lock that
\* a start of a recording holds while it attaches thousands of monitors.
BuildEnds == state \in BusyStates ~> state \notin BusyStates

=============================================================================
