------------------------------- MODULE Recording -------------------------------
(* RecordingSession of the status server, for one channel: what the monitor    *)
(* callback, the sampler, a backfill from a status file and the start of an    *)
(* overlapping recording do to a session's two lists, and what stop() hands    *)
(* out.  No lock is shared with the callbacks: an append is two appends, of    *)
(* the value and of its timestamp, and another thread may come in between.     *)
(* An observation (an update, or the value of a status file) is a number; it   *)
(* stands for its value in one list and for its timestamp in the other.  A PV   *)
(* that disconnects while its seed is read yields None for either.             *)
EXTENDS Naturals, Sequences, FiniteSets, SequencesExt

CONSTANTS
    Session,      \* recordings
    None,         \* no session, no observation
    Modes,        \* the modes a recording may be started with
    Cap,          \* max_points_per_channel of each session
    Flaky,        \* recordings during whose start the PV may disconnect
    Large,        \* updates with more elements than max_value_elements
    MaxUpdates,   \* bound: updates the IOC sends
    MaxBackfills  \* bound: status files that backfill

ASSUME RecordingAssumption ==
    /\ Modes \subseteq {"all", "throttle", "sample"}
    /\ Cap \in [Session -> Nat]
    /\ MaxUpdates \in Nat /\ MaxBackfills \in Nat
    /\ Flaky \subseteq Session
    /\ Large \subseteq 1..MaxUpdates
    /\ None \notin Session \cup Nat

VARIABLES
    now,           \* the last update of the PV
    attached,      \* the sessions whose callback the PV has
    delivering,    \* the callbacks still to be called for that update
    mode,          \* of each session
    phase,         \* of each session: where start() or stop() is
    source,        \* the sibling whose buffer start() copies
    seed,          \* the value start() has read to seed the buffer, or Unread
    vals, stamps,  \* _buffers[name]["values"], ["timestamps"]
    latest,        \* _latest[name]
    lastTs,        \* last_ts[name] of the sampler
    writer,        \* the threads that append, and what they are about to append
    backfills,     \* status files used so far
    out,           \* what stop() handed out
    due,           \* history: the observations whose append was completed
    copied,        \* history: how many of them start() copied
    torn           \* history: sessions with two appends inside each other, a
                   \* copy or a seed taken in the middle of an update, or a
                   \* seed that could not be read

bufVars == <<vals, stamps>>
pvVars == <<now, attached, delivering>>
startVars == <<mode, source, seed, copied>>
recordingVars == <<pvVars, startVars, phase, bufVars, latest, lastTs, writer,
                   backfills, out, due, torn>>

\* Observations; Unread stands for the None that a read may yield instead.
Stamps == 0..(MaxUpdates + MaxBackfills)
Unread == MaxUpdates + MaxBackfills + 1
Obs == 0..(MaxUpdates + MaxBackfills + 1)
Backfilled == (MaxUpdates + 1)..(MaxUpdates + MaxBackfills)

\* The threads that run _append: the CA thread, a request's thread that
\* backfills, and of each session the sampler and the thread in start().
CA == <<"ca", None>>
Filler == <<"fill", None>>
Sampler(s) == <<"sampler", s>>
Starter(s) == <<"start", s>>
Writer == {CA, Filler} \cup {Sampler(s) : s \in Session} \cup {Starter(s) : s \in Session}

Phases == {"new", "copy", "get", "stamp", "seed", "add", "running",
           "stopping", "swap", "stopped"}
Idle == [pc |-> "idle", s |-> None, v |-> 0, t |-> 0]
Writing == [pc : {"value", "stamp"}, s : Session, v : Obs, t : Obs]

\* The type invariant.  None may be among the values (a seed that was not read),
\* but never among the timestamps, in the buffer or in what is handed out.
RecordingTypeOK ==
    /\ now \in 0..MaxUpdates
    /\ attached \subseteq Session /\ delivering \subseteq Session
    /\ mode \in [Session -> Modes] /\ phase \in [Session -> Phases]
    /\ source \in [Session -> Session \cup {None}]
    /\ seed \in [Session -> Obs]
    /\ vals \in [Session -> Seq(Obs)] /\ stamps \in [Session -> Seq(Stamps)]
    /\ latest \in [Session -> {<< >>} \cup (Obs \X Obs)]
    /\ lastTs \in [Session -> Obs \cup {None}]
    /\ writer \in [Writer -> {Idle} \cup Writing]
    /\ backfills \in 0..MaxBackfills
    /\ out \in [Session -> [values : Seq(Obs), stamps : Seq(Stamps)]]
    /\ due \in [Session -> Seq(Obs)] /\ copied \in [Session -> Nat]
    /\ torn \subseteq Session
    \* The test of the length is not locked: each backfill may add a point too many.
    /\ \A s \in Session : Len(vals[s]) <= Cap[s] + backfills

RecordingInit ==
    /\ now = 0 /\ attached = {} /\ delivering = {}
    /\ mode \in [Session -> Modes]
    /\ phase = [s \in Session |-> "new"]
    /\ source = [s \in Session |-> None]
    /\ seed = [s \in Session |-> 0]
    /\ vals = [s \in Session |-> << >>] /\ stamps = [s \in Session |-> << >>]
    /\ latest = [s \in Session |-> << >>]
    /\ lastTs = [s \in Session |-> None]
    /\ writer = [w \in Writer |-> Idle]
    /\ backfills = 0
    /\ out = [s \in Session |-> [values |-> << >>, stamps |-> << >>]]
    /\ due = [s \in Session |-> << >>] /\ copied = [s \in Session |-> 0]
    /\ torn = {}

Free(w) == writer[w].pc = "idle"
At(w, loc) == writer[w].pc = loc
Goto(w, loc) == writer' = [writer EXCEPT ![w].pc = loc]
Becomes(s, loc) == phase' = [phase EXCEPT ![s] = loc]
\* The lists that the callbacks write are still those of the session.
Live(s) == phase[s] # "stopped"

-----------------------------------------------------------------------------
(* _append.                                                                    *)

\* _append(buffers[name], v, t) is called: a full buffer and a large value drop
\* the update.
Appends(w, s, v, t) ==
    IF Len(vals[s]) >= Cap[s] \/ v \in Large
    THEN writer' = writer
    ELSE writer' = [writer EXCEPT ![w] = [pc |-> "value", s |-> s, v |-> v, t |-> t]]

\* buf["values"].append(value); the change from array to list is not modelled.
AppendValue(w) ==
    LET s == writer[w].s IN
    /\ At(w, "value")
    /\ Goto(w, "stamp")
    /\ vals' = IF Live(s) THEN [vals EXCEPT ![s] = Append(@, writer[w].v)] ELSE vals
    /\ torn' = torn \cup {q \in {s} : \E u \in Writer : At(u, "stamp") /\ writer[u].s = s}
    /\ UNCHANGED <<pvVars, startVars, phase, stamps, latest, lastTs, backfills, out, due>>

\* Mutant: the timestamp is appended as it comes.
AppendStampRaw(w) ==
    LET s == writer[w].s IN
    /\ At(w, "stamp")
    /\ writer' = [writer EXCEPT ![w] = Idle]
    /\ IF Live(s)
       THEN /\ stamps' = [stamps EXCEPT ![s] = Append(@, writer[w].t)]
            /\ due' = [due EXCEPT ![s] = Append(@, writer[w].v)]
       ELSE UNCHANGED <<stamps, due>>
    /\ UNCHANGED <<pvVars, startVars, phase, vals, latest, lastTs, backfills, out, torn>>

\* buf["timestamps"].append(timestamp); without one it is the time of day.
StampOf(t) == IF t = Unread THEN now ELSE t

AppendStamp(w) ==
    LET s == writer[w].s IN
    /\ At(w, "stamp")
    /\ writer' = [writer EXCEPT ![w] = Idle]
    /\ IF Live(s)
       THEN /\ stamps' = [stamps EXCEPT ![s] = Append(@, StampOf(writer[w].t))]
            /\ due' = [due EXCEPT ![s] = Append(@, writer[w].v)]
       ELSE UNCHANGED <<stamps, due>>
    /\ UNCHANGED <<pvVars, startVars, phase, vals, latest, lastTs, backfills, out, torn>>

-----------------------------------------------------------------------------
(* The CA thread: an update is handed to every callback in turn.               *)

Update ==
    /\ now < MaxUpdates
    /\ delivering = {} /\ Free(CA)
    /\ now' = now + 1
    /\ delivering' = attached
    /\ UNCHANGED <<attached, startVars, phase, bufVars, latest, lastTs, writer,
                   backfills, out, due, torn>>

\* _on_update called by thread w with value v and timestamp t.
OnUpdate(w, s, v, t) ==
    \/ mode[s] = "sample" /\ latest' = [latest EXCEPT ![s] = <<v, t>>] /\ writer' = writer
    \/ mode[s] = "throttle" /\ UNCHANGED <<latest, writer>>  \* too soon
    \/ mode[s] # "sample" /\ Appends(w, s, v, t) /\ latest' = latest

\* A callback that was removed meanwhile is not called.
Deliver(s) ==
    /\ Free(CA)
    /\ s \in delivering
    /\ delivering' = delivering \ {s}
    /\ IF s \in attached THEN OnUpdate(CA, s, now, now) ELSE UNCHANGED <<latest, writer>>
    /\ UNCHANGED <<now, attached, startVars, phase, bufVars, lastTs, backfills, out, due, torn>>

-----------------------------------------------------------------------------
(* The sampler thread of a session, in mode sample.                            *)

\* Mutant: the sampler stores whatever is in the slot at every tick.
TickAlways(s) ==
    /\ mode[s] = "sample" /\ phase[s] = "running"
    /\ Free(Sampler(s))
    /\ latest[s] # << >>
    /\ lastTs' = [lastTs EXCEPT ![s] = latest[s][2]]
    /\ Appends(Sampler(s), s, latest[s][1], latest[s][2])
    /\ UNCHANGED <<pvVars, startVars, phase, bufVars, latest, backfills, out, due, torn>>

\* A tick: the slot is stored if its timestamp is not that of the last tick, or
\* if it has none.
Tick(s) ==
    /\ mode[s] = "sample" /\ phase[s] = "running"
    /\ Free(Sampler(s))
    /\ latest[s] # << >>
    /\ latest[s][2] = Unread \/ latest[s][2] # lastTs[s]
    /\ lastTs' = [lastTs EXCEPT ![s] = latest[s][2]]
    /\ Appends(Sampler(s), s, latest[s][1], latest[s][2])
    /\ UNCHANGED <<pvVars, startVars, phase, bufVars, latest, backfills, out, due, torn>>

-----------------------------------------------------------------------------
(* start(): copy what a running sibling has, seed with the current value, add  *)
(* the callback.  Recordings are started one after another (_recordings_lock). *)

Starting == {s \in Session : phase[s] \in {"copy", "get", "stamp", "seed", "add"}}

HasData(q) == phase[q] \in {"running", "stopping", "swap"} /\ vals[q] # << >>

\* The last points of a list, as many as the session may hold.
LastPoints(list, s) ==
    SubSeq(list, IF Len(list) > Cap[s] THEN Len(list) - Cap[s] + 1 ELSE 1, Len(list))

\* No sibling has data for the channel, or values is copied from the first that has.
StartCopy(s) ==
    /\ phase[s] = "new" /\ Starting = {}
    /\ \/ /\ \A q \in Session : ~HasData(q)
          /\ Becomes(s, "get")
          /\ UNCHANGED <<source, vals, due, copied, torn>>
       \/ \E q \in Session :
            /\ HasData(q)
            /\ source' = [source EXCEPT ![s] = q]
            /\ vals' = [vals EXCEPT ![s] = LastPoints(vals[q], s)]
            \* until the timestamps are copied: how many values there were
            /\ copied' = [copied EXCEPT ![s] = Len(vals[q])]
            /\ due' = [due EXCEPT ![s] = LastPoints(vals[q], s)]
            /\ torn' = torn \cup {r \in {s} : q \in torn}
            /\ Becomes(s, "copy")
    /\ UNCHANGED <<pvVars, mode, seed, stamps, latest, lastTs, writer, backfills, out>>

\* ... and then timestamps, still under the sibling's _lock.
CopyStamps(s) ==
    /\ phase[s] = "copy"
    /\ stamps' = [stamps EXCEPT ![s] = LastPoints(stamps[source[s]], s)]
    /\ torn' = torn \cup {q \in {s} : \/ source[s] \in torn
                                       \/ copied[s] # Len(stamps[source[s]])}
    /\ copied' = [copied EXCEPT ![s] = Len(vals[s])]
    /\ source' = [source EXCEPT ![s] = None]
    /\ Becomes(s, "get")
    /\ UNCHANGED <<pvVars, mode, seed, vals, latest, lastTs, writer, backfills, out, due>>

\* pv.get(), which is not checked: None when the PV went away in the meantime.
\* No seed at all when it was not connected or is not monitored.
SeedGet(s) ==
    /\ phase[s] = "get"
    /\ \/ /\ Becomes(s, "stamp")
          /\ \E v \in IF s \in Flaky THEN {now, Unread} ELSE {now} :
                seed' = [seed EXCEPT ![s] = v]
       \/ Becomes(s, "add") /\ seed' = seed
    /\ UNCHANGED <<pvVars, mode, source, copied, bufVars, latest, lastTs, writer,
                   backfills, out, due, torn>>

\* pv.timestamp, which a PV that was never read does not have, and the callback
\* is called by the starting thread.
SeedStamp(s) ==
    /\ phase[s] = "stamp"
    /\ \E t \in IF seed[s] = Unread THEN {now, Unread} ELSE {now} :
            OnUpdate(Starter(s), s, seed[s], t)
    /\ torn' = torn \cup {q \in {s} : seed[s] # now}
    /\ seed' = [seed EXCEPT ![s] = 0]
    /\ Becomes(s, "seed")
    /\ UNCHANGED <<pvVars, mode, source, copied, bufVars, lastTs, backfills, out, due>>

SeedDone(s) ==
    /\ phase[s] = "seed" /\ Free(Starter(s))
    /\ Becomes(s, "add")
    /\ UNCHANGED <<pvVars, startVars, bufVars, latest, lastTs, writer, backfills, out, due, torn>>

\* pv.add_callback(), the sampler, and the session is in _recordings.
AddCallback(s) ==
    /\ phase[s] = "add"
    /\ attached' = attached \cup {s}
    /\ Becomes(s, "running")
    /\ UNCHANGED <<now, delivering, startVars, bufVars, latest, lastTs, writer,
                   backfills, out, due, torn>>

-----------------------------------------------------------------------------
(* backfill_from_status: one value for a channel that has none.                *)

Backfill(s) ==
    /\ backfills < MaxBackfills
    /\ Free(Filler)
    /\ phase[s] = "running"
    /\ vals[s] = << >>
    /\ backfills' = backfills + 1
    /\ Appends(Filler, s, MaxUpdates + backfills', MaxUpdates + backfills')
    /\ UNCHANGED <<pvVars, startVars, phase, bufVars, latest, lastTs, out, due, torn>>

-----------------------------------------------------------------------------
(* stop().                                                                     *)

\* The sampler is told to stop.  The join gives up after five seconds, so a
\* tick may still be under way.
StopSampler(s) ==
    /\ phase[s] = "running"
    /\ Becomes(s, "stopping")
    /\ UNCHANGED <<pvVars, startVars, bufVars, latest, lastTs, writer, backfills, out, due, torn>>

StopMonitors(s) ==
    /\ phase[s] = "stopping"
    /\ attached' = attached \ {s}
    /\ Becomes(s, "swap")
    /\ UNCHANGED <<now, delivering, startVars, bufVars, latest, lastTs, writer,
                   backfills, out, due, torn>>

\* Mutant: both lists are handed out as they are.
HandedWhole(s) == [values |-> vals[s], stamps |-> stamps[s]]

\* Both lists up to the length of the shorter one.
Handed(s) ==
    LET n == IF Len(vals[s]) < Len(stamps[s]) THEN Len(vals[s]) ELSE Len(stamps[s])
    IN  [values |-> SubSeq(vals[s], 1, n), stamps |-> SubSeq(stamps[s], 1, n)]

\* Under _lock, which the start of another recording holds while it copies.
StopSwap(s) ==
    /\ phase[s] = "swap"
    /\ \A q \in Session : phase[q] = "copy" => source[q] # s
    /\ out' = [out EXCEPT ![s] = Handed(s)]
    /\ vals' = [vals EXCEPT ![s] = << >>] /\ stamps' = [stamps EXCEPT ![s] = << >>]
    /\ Becomes(s, "stopped")
    /\ latest' = [latest EXCEPT ![s] = << >>]  \* nobody reads it any more
    /\ lastTs' = [lastTs EXCEPT ![s] = None]
    /\ UNCHANGED <<pvVars, startVars, writer, backfills, due, torn>>

RecordingNext ==
    \/ Update
    \/ \E w \in Writer : AppendValue(w) \/ AppendStamp(w)
    \/ \E s \in Session :
        \/ Deliver(s) \/ Tick(s) \/ Backfill(s)
        \/ StartCopy(s) \/ CopyStamps(s) \/ SeedGet(s) \/ SeedStamp(s) \/ SeedDone(s)
        \/ AddCallback(s)
        \/ StopSampler(s) \/ StopMonitors(s) \/ StopSwap(s)

RecordingSpec == RecordingInit /\ [][RecordingNext]_recordingVars

-----------------------------------------------------------------------------
(* Properties.                                                                 *)

\* stop() hands out exactly the points whose append was completed, in their
\* order and each with its own timestamp, whatever the callbacks were doing
\* when it came: only two appends inside each other (a backfill beside a
\* callback), a copy or a seed taken in the middle of an update, or a seed that
\* could not be read, may spoil a recording.
Faithful ==
    \A s \in Session \ torn :
        phase[s] = "stopped" => out[s] = [values |-> due[s], stamps |-> due[s]]

\* The points of a recording are in the order of the updates.  None is there
\* twice, although the sampler looks at a slot that nobody empties, and the
\* buffer is filled from a sibling, a seed and the callback: only the seed may
\* repeat the last point copied from a sibling.
InOrder ==
    \A s \in Session \ torn :
        Range(due[s]) \cap Backfilled = {} =>
            \A i, j \in DOMAIN due[s] : i < j =>
                \/ due[s][i] < due[s][j]
                \/ due[s][i] = due[s][j] /\ i <= copied[s]

=============================================================================
