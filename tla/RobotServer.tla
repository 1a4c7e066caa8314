------------------------------ MODULE RobotServer ------------------------------
(* The robot server: commands that HTTP clients submit, abort and stop, the    *)
(* one cancellation token that commands, poller, recovery loop and stop        *)
(* requests share through the link, and the state the server tells clients.    *)
(* How a change of state travels to them is the matter of EventBus.  The model *)
(* begins when start() has returned.                                           *)
EXTENDS Naturals, FiniteSets

CONSTANTS
    Request,     \* threads of the HTTP server
    Command,     \* the ids of the commands that are submitted
    None,        \* no command
    MaxTroubles, \* bound: times the controller becomes unreachable, plus restarts
    Ops          \* what clients do

ASSUME RobotServerAssumption ==
    /\ Command = 1..Cardinality(Command)
    /\ None \notin Command \cup Request /\ Request \cap Command = {}
    /\ MaxTroubles \in Nat
    /\ Ops \subseteq {"submit", "background", "abort", "stop", "restart"}

VARIABLES
    state,         \* RobotServerApp._state
    token,         \* the cancellation token is set
    reachable,     \* the controller answers
    offline,       \* robot.state is OFFLINE or connected is false
    polling,       \* the poller runs
    foreground,    \* executor._foreground
    fgLock,        \* the thread that holds _foreground_lock
    kind,          \* of each command, as long as it is running or in _run
    cpc,           \* where its thread is in _run
    rpc, target,   \* where a request is, and the command it aborts
    vpc,           \* where the recovery loop is
    wasOffline,    \* its was_offline
    troubles,      \* how often either of the two bounded things happened
    acked,         \* history: begun commands whose abort was acknowledged
    overtook,      \* history: Ready was set under a foreground command
    botched        \* history: a restart failed after the last good setup

robotVars == <<token, reachable, offline, polling>>
commandVars == <<foreground, fgLock, kind, cpc, acked>>
requestVars == <<rpc, target>>
recoveryVars == <<vpc, wasOffline>>
historyVars == <<overtook, botched>>
vars == <<state, robotVars, commandVars, requestVars, recoveryVars, troubles, historyVars>>

TypeOK ==
    /\ state \in {"Ready", "Busy", "Fault"}
    /\ {token, reachable, offline, polling, wasOffline} \subseteq BOOLEAN
    /\ {overtook, botched} \subseteq BOOLEAN
    /\ foreground \in Command \cup {None}
    /\ fgLock \in Command \cup Request \cup {None}
    /\ kind \in [Command -> {"none", "front", "back"}]
    /\ cpc \in [Command -> {"none", "made", "queued", "eval", "release", "ready", "told", "done"}]
    /\ rpc \in [Request -> {"idle", "busy", "pool", "cancel", "abort", "stop",
                            "raised", "setup", "restarted"}]
    /\ target \in [Request -> Command \cup {None}]
    /\ \A r \in Request : target[r] # None <=> rpc[r] \in {"busy", "pool", "cancel", "abort"}
    /\ vpc \in {"wait", "setup", "ready?", "ready"}
    /\ troubles \in 0..MaxTroubles
    /\ acked \subseteq Command

Init ==
    /\ state \in {"Ready", "Fault"}
    /\ token = FALSE /\ reachable = TRUE /\ polling = TRUE
    /\ offline = (state = "Fault")
    /\ foreground = None /\ fgLock = None
    /\ kind = [c \in Command |-> "none"]
    /\ cpc = [c \in Command |-> "none"]
    /\ rpc = [r \in Request |-> "idle"] /\ target = [r \in Request |-> None]
    /\ vpc = "wait" /\ wasOffline = TRUE
    /\ troubles = 0
    /\ acked = {} /\ overtook = FALSE /\ botched = FALSE

-----------------------------------------------------------------------------
(* Common to all threads.                                                      *)

\* Val3Link.call(): a call raises while the token is set, or without an answer.
CallWorks == ~token /\ reachable
CallRaises == token \/ ~reachable

\* set_state, under _state_lock.
SetState(v) == state' = v

-----------------------------------------------------------------------------
(* Requests.                                                                   *)

Ready(r, op) == rpc[r] = "idle" /\ op \in Ops
At(r, loc) == rpc[r] = loc
Goto(r, loc) == rpc' = [rpc EXCEPT ![r] = loc]

\* The next command, as long as there are ids.
NextId(c) == cpc[c] = "none" /\ \A d \in Command : d < c => cpc[d] # "none"

\* status is RUNNING from the submission until the evaluation has ended.
Running(c) == cpc[c] \in {"made", "queued", "eval"}

\* submit("...&"): the command goes to the pool.
SubmitBackground(r) ==
    /\ Ready(r, "background")
    /\ \E c \in Command :
        /\ NextId(c)
        /\ kind' = [kind EXCEPT ![c] = "back"]
        /\ cpc' = [cpc EXCEPT ![c] = "queued"]
    /\ UNCHANGED <<state, robotVars, foreground, fgLock, acked, requestVars,
                   recoveryVars, troubles, historyVars>>

\* The command takes the place in front.
TakesFront(r, c) ==
    /\ fgLock' = r /\ foreground' = c
    /\ kind' = [kind EXCEPT ![c] = "front"]
    /\ cpc' = [cpc EXCEPT ![c] = "made"]
    /\ target' = [target EXCEPT ![r] = c]
    /\ overtook' = FALSE
    /\ Goto(r, "busy")

\* Mutant: the test of _foreground is dropped.
SubmitAnyway(r) ==
    /\ Ready(r, "submit")
    /\ fgLock = None
    /\ \E c \in Command : NextId(c) /\ TakesFront(r, c)
    /\ UNCHANGED <<state, robotVars, acked, recoveryVars, troubles, botched>>

\* submit("..."): refused while another command is in front.
Submit(r) ==
    /\ Ready(r, "submit")
    /\ fgLock = None
    /\ \E c \in Command :
        /\ NextId(c)
        /\ \/ foreground = None /\ TakesFront(r, c)
           \/ /\ foreground # None
              /\ cpc' = [cpc EXCEPT ![c] = "done"]
              /\ UNCHANGED <<fgLock, foreground, kind, rpc, target, overtook>>
    /\ UNCHANGED <<state, robotVars, acked, recoveryVars, troubles, botched>>

\* _set_foreground calls on_state_change, still under the lock.
SubmitBusy(r) ==
    /\ At(r, "busy")
    /\ SetState("Busy")
    /\ Goto(r, "pool")
    /\ UNCHANGED <<robotVars, commandVars, target, recoveryVars, troubles,
                   overtook, botched>>

\* The lock is released and the command goes to the pool.
SubmitPool(r) ==
    /\ At(r, "pool")
    /\ fgLock' = None
    /\ cpc' = [cpc EXCEPT ![target[r]] = "queued"]
    /\ target' = [target EXCEPT ![r] = None]
    /\ Goto(r, "idle")
    /\ UNCHANGED <<state, robotVars, foreground, kind, acked, 
                   recoveryVars, troubles, historyVars>>

\* Mutant: only a command that is there is asked for its status.
AbortReadNone(r) ==
    /\ Ready(r, "abort")
    /\ \E c \in {foreground} \cup Command :
        /\ c # None => Running(c)
        /\ target' = [target EXCEPT ![r] = c]
    /\ Goto(r, "cancel")
    /\ UNCHANGED <<state, robotVars, commandVars, recoveryVars, troubles, historyVars>>

\* abort(): the foreground command, or any by its id; it must be running.
AbortRead(r) ==
    /\ Ready(r, "abort")
    /\ \E c \in {foreground} \cup Command :
        /\ c # None /\ Running(c)
        /\ target' = [target EXCEPT ![r] = c]
    /\ Goto(r, "cancel")
    /\ UNCHANGED <<state, robotVars, commandVars, recoveryVars, troubles, historyVars>>

\* ... and then the token, whoever uses the link by then.
AbortCancel(r) ==
    /\ At(r, "cancel")
    /\ token' = TRUE
    /\ acked' = acked \cup {c \in {target[r]} : cpc[c] = "eval"}
    /\ target' = [target EXCEPT ![r] = None]
    /\ Goto(r, "idle")
    /\ UNCHANGED <<state, reachable, offline, polling, foreground, fgLock, kind,
                   cpc, recoveryVars, troubles, historyVars>>

\* /api/stop: executor.abort(), ...
Stop(r) ==
    /\ Ready(r, "stop")
    /\ IF foreground # None /\ Running(foreground)
       THEN Goto(r, "abort") /\ target' = [target EXCEPT ![r] = foreground]
       ELSE Goto(r, "stop") /\ target' = target
    /\ UNCHANGED <<state, robotVars, commandVars, recoveryVars, troubles, historyVars>>

StopAbort(r) ==
    /\ At(r, "abort")
    /\ token' = TRUE
    /\ acked' = acked \cup {c \in {target[r]} : cpc[c] = "eval"}
    /\ target' = [target EXCEPT ![r] = None]
    /\ Goto(r, "stop")
    /\ UNCHANGED <<state, reachable, offline, polling, foreground, fgLock, kind,
                   cpc, recoveryVars, troubles, historyVars>>

\* ... and robot.stop(), a call over the link, like reset_motion() and resume()
\* after it, on which nothing here depends.
StopCall(r) ==
    /\ At(r, "stop")
    /\ \/ CallWorks /\ Goto(r, "idle")
       \/ CallRaises /\ Goto(r, "raised")
    /\ UNCHANGED <<state, robotVars, commandVars, target, recoveryVars,
                   troubles, historyVars>>

\* The request for a stop is answered with an error.
StopRaised(r) ==
    /\ At(r, "raised")
    /\ Goto(r, "idle")
    /\ UNCHANGED <<state, robotVars, commandVars, target, recoveryVars,
                   troubles, historyVars>>

\* restart(): the poller is stopped, setup() and the state follow.
Restart(r) ==
    /\ Ready(r, "restart")
    /\ troubles < MaxTroubles
    /\ troubles' = troubles + 1
    /\ polling' = FALSE
    /\ Goto(r, "setup")
    /\ UNCHANGED <<state, token, reachable, offline, commandVars, target, recoveryVars,
                   historyVars>>

RestartSetup(r) ==
    /\ At(r, "setup")
    /\ \/ /\ CallWorks
          /\ SetState("Ready") /\ offline' = FALSE /\ botched' = FALSE
          /\ overtook' = (overtook \/ foreground # None)
       \/ /\ CallRaises
          /\ SetState("Fault") /\ offline' \in {offline, ~reachable} /\ botched' = TRUE
          /\ overtook' = overtook
    /\ Goto(r, "restarted")
    /\ UNCHANGED <<token, reachable, polling, commandVars, target, recoveryVars, troubles>>

RestartDone(r) ==
    /\ At(r, "restarted")
    /\ polling' = TRUE
    /\ Goto(r, "idle")
    /\ UNCHANGED <<state, token, reachable, offline, commandVars, target, 
                   recoveryVars, troubles, historyVars>>

RequestGoesOn(r) ==
    \/ SubmitBusy(r) \/ SubmitPool(r) \/ AbortCancel(r) \/ StopAbort(r) \/ StopCall(r)
    \/ StopRaised(r) \/ RestartSetup(r) \/ RestartDone(r)

RequestBegins(r) ==
    \/ SubmitBackground(r) \/ Submit(r) \/ AbortRead(r) \/ Stop(r) \/ Restart(r)

-----------------------------------------------------------------------------
(* The threads of the commands: _run.                                          *)

CommandAt(c, loc) == cpc[c] = loc

\* Mutant: every command clears the token when it begins.
RunBeginAlways(c) ==
    /\ CommandAt(c, "queued")
    /\ token' = FALSE
    /\ cpc' = [cpc EXCEPT ![c] = "eval"]
    /\ UNCHANGED <<state, reachable, offline, polling, foreground, fgLock, kind,
                   acked, requestVars, recoveryVars, troubles, historyVars>>

\* A foreground command clears the token, also of an abort meant for it.
RunBegin(c) ==
    /\ CommandAt(c, "queued")
    /\ token' = (token /\ kind[c] = "back")
    /\ cpc' = [cpc EXCEPT ![c] = "eval"]
    /\ UNCHANGED <<state, reachable, offline, polling, foreground, fgLock, kind,
                   acked, requestVars, recoveryVars, troubles, historyVars>>

\* No longer of interest to anybody but the client that asks for its result.
Over(c) == kind' = [kind EXCEPT ![c] = "none"] /\ cpc' = [cpc EXCEPT ![c] = "done"]

\* A command goes on as long as its calls work.  It completes or fails, or is
\* aborted by the first call after the token was set.
RunEnd(c) ==
    /\ CommandAt(c, "eval")
    /\ acked' = acked \ {c}
    /\ \/ kind[c] = "front" /\ cpc' = [cpc EXCEPT ![c] = "release"] /\ kind' = kind
       \/ kind[c] = "back" /\ Over(c)
    /\ UNCHANGED <<state, robotVars, foreground, fgLock, requestVars, recoveryVars,
                   troubles, historyVars>>

\* Mutant: the state is told before _foreground_lock is taken.
RunReleaseUnlocked(c) ==
    /\ CommandAt(c, "release")
    /\ foreground' = (IF foreground = c THEN None ELSE foreground)
    /\ cpc' = [cpc EXCEPT ![c] = "ready"]
    /\ UNCHANGED <<state, robotVars, fgLock, kind, acked, requestVars, recoveryVars,
                   troubles, historyVars>>

\* finally: under _foreground_lock, _foreground is cleared if it is this command.
RunRelease(c) ==
    /\ CommandAt(c, "release")
    /\ fgLock = None
    /\ IF foreground = c
       THEN /\ fgLock' = c /\ foreground' = None
            /\ cpc' = [cpc EXCEPT ![c] = "ready"]
            /\ kind' = kind
       ELSE Over(c) /\ UNCHANGED <<fgLock, foreground>>
    /\ UNCHANGED <<state, robotVars, acked, requestVars, recoveryVars, troubles, historyVars>>

\* ... the state is told, whatever it was, ...
RunReady(c) ==
    /\ CommandAt(c, "ready")
    /\ SetState("Ready")
    /\ cpc' = [cpc EXCEPT ![c] = "told"]
    /\ UNCHANGED <<robotVars, foreground, fgLock, kind, acked, requestVars,
                   recoveryVars, troubles, overtook, botched>>

\* ... and the lock is released.
RunDone(c) ==
    /\ CommandAt(c, "told")
    /\ fgLock' = (IF fgLock = c THEN None ELSE fgLock)
    /\ Over(c)
    /\ UNCHANGED <<state, robotVars, foreground, acked, requestVars,
                   recoveryVars, troubles, historyVars>>

CommandStep(c) == RunBegin(c) \/ RunRelease(c) \/ RunReady(c) \/ RunDone(c)

-----------------------------------------------------------------------------
(* The controller, the poller and the recovery loop.                           *)

ControllerDrops ==
    /\ reachable /\ troubles < MaxTroubles
    /\ reachable' = FALSE
    /\ troubles' = troubles + 1
    /\ UNCHANGED <<state, token, offline, polling, commandVars, requestVars, recoveryVars,
                   historyVars>>

ControllerBack ==
    /\ ~reachable
    /\ reachable' = TRUE
    /\ UNCHANGED <<state, token, offline, polling, commandVars, requestVars, recoveryVars,
                   troubles, historyVars>>

\* update(): Cancelled is passed on and leaves the robot's state as it was.
Poll ==
    /\ polling /\ ~token
    /\ offline # ~reachable
    /\ offline' = ~reachable
    /\ UNCHANGED <<state, token, reachable, polling, commandVars, requestVars, recoveryVars,
                   troubles, historyVars>>

RecoveryAt(loc) == vpc = loc

RecoveryLook ==
    /\ RecoveryAt("wait")
    /\ \/ /\ offline
          /\ wasOffline' = TRUE
          /\ SetState("Fault")
          /\ vpc' = vpc
       \/ /\ ~offline /\ wasOffline
          /\ wasOffline' = FALSE
          /\ vpc' = "setup"
          /\ state' = state
    /\ UNCHANGED <<robotVars, commandVars, requestVars, troubles, overtook, botched>>

\* Mutant: a failed setup is not tried again.
RecoverySetupOnce ==
    /\ RecoveryAt("setup")
    /\ \/ CallWorks /\ vpc' = "ready?" /\ offline' = FALSE /\ botched' = FALSE
       \/ CallRaises /\ vpc' = "wait" /\ offline' \in {offline, ~reachable} /\ botched' = botched
    /\ wasOffline' = wasOffline
    /\ UNCHANGED <<state, token, reachable, polling, commandVars, requestVars, troubles, overtook>>

\* setup() raises when the token is set, too; it is then tried again.  Its own
\* update() notices whether the controller answers.
RecoverySetup ==
    /\ RecoveryAt("setup")
    /\ \/ /\ CallWorks
          /\ vpc' = "ready?" /\ wasOffline' = wasOffline
          /\ offline' = FALSE /\ botched' = FALSE
       \/ /\ CallRaises
          /\ vpc' = "wait" /\ wasOffline' = TRUE
          /\ offline' \in {offline, ~reachable} /\ botched' = botched
    /\ UNCHANGED <<state, token, reachable, polling, commandVars, requestVars, troubles, overtook>>

\* if not self.executor.busy: ...
RecoveryTest ==
    /\ RecoveryAt("ready?")
    /\ vpc' = IF foreground = None THEN "ready" ELSE "wait"
    /\ UNCHANGED <<state, robotVars, commandVars, requestVars, wasOffline, troubles, historyVars>>

\* ... self.set_state("Ready"), although a command may have come meanwhile.
RecoveryReady ==
    /\ RecoveryAt("ready")
    /\ SetState("Ready")
    /\ overtook' = (overtook \/ foreground # None)
    /\ vpc' = "wait"
    /\ UNCHANGED <<robotVars, commandVars, requestVars, wasOffline, troubles, botched>>

RecoveryStep == RecoveryLook \/ RecoverySetup \/ RecoveryTest \/ RecoveryReady

Next ==
    \/ \E r \in Request : RequestBegins(r) \/ RequestGoesOn(r)
    \/ \E c \in Command : CommandStep(c) \/ RunEnd(c)
    \/ ControllerDrops \/ ControllerBack \/ Poll
    \/ RecoveryStep

Spec == Init /\ [][Next]_vars

\* Threads in the middle of something go on, the poller polls and the recovery
\* loop looks again and again; commands end.  Nothing makes the controller come
\* back.
Fairness ==
    /\ \A r \in Request : WF_vars(RequestGoesOn(r))
    /\ \A c \in Command : WF_vars(CommandStep(c) \/ RunEnd(c))
    /\ WF_vars(Poll) /\ WF_vars(RecoveryStep)

FairSpec == Spec /\ Fairness

-----------------------------------------------------------------------------
(* Properties.                                                                 *)

\* Once an abort of a foreground command that has begun was acknowledged, no
\* call of that command reaches the controller any more: nobody clears the
\* shared token before the command is over.
AbortStays == \A c \in acked : kind[c] = "front" => token

\* One command at a time is in front: from the moment its submission is accepted
\* until it has ended, whatever others are submitted, aborted or still clean up.
OneInFront ==
    \A c, d \in Command :
        /\ kind[c] = "front" /\ kind[d] = "front" /\ c # d
        /\ Running(c)
        => ~Running(d)

\* While nobody is between the two halves of a change (_foreground_lock is free),
\* Busy means that a foreground command is there, and while one is there the
\* state is not Ready: eco's client relies on Busy to mean that its command
\* would not run now.  Only the recovery loop and restart(), which say Ready
\* without the lock, may break the second half.
BusyIsTold ==
    fgLock = None =>
        /\ state = "Busy" => foreground # None
        /\ foreground # None /\ ~overtook => state # "Ready"

\* When the controller stays reachable and no abort is left pending, the server
\* leaves Fault for good, unless its last restart failed.
FaultEnds ==
    <>[](reachable /\ ~token /\ ~botched) => <>[](state # "Fault")

=============================================================================
