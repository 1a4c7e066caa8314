-------------------------------- MODULE Claims --------------------------------
(* The claims of eco.utilities.task_queue: a running queue task owns the       *)
(* adjustables it moves, and the gate every Changer passes (check_claim) keeps *)
(* everybody else away from them.  Several queues run tasks at the same time;  *)
(* a move runs in a thread of its own that inherits the task it was started    *)
(* from, may start further moves (the motors under a virtual adjustable) and   *)
(* may outlive the task.                                                       *)
EXTENDS Naturals

CONSTANTS
    Task,       \* the tasks of all queues
    NoTask,     \* current_task() at the prompt and in GUI callbacks
    Adj,        \* adjustables
    NoAdj,      \* what a thread that is not moving anything moves
    Mover       \* identities of Changer threads

ASSUME ClaimsAssumption ==
    /\ NoTask \notin Task
    /\ NoAdj \notin Adj

VARIABLES
    tstate,     \* Task.state, and whether _release_task has run
    claims,     \* _claims: the owner of each adjustable
    madj,       \* what each mover thread moves
    mtask,      \* the context it inherited: its task ...
    mforced,    \* ... and whether it is inside forced()
    bypassed    \* history: it was admitted past a claim, or its claim was freed

moverVars == <<madj, mtask, mforced, bypassed>>
claimVars == <<tstate, claims, moverVars>>

\* bypassed only records: it marks the moves somebody explicitly allowed beside
\* the owner's (with forced(), or by release()).

ClaimsTypeOK ==
    /\ tstate \in [Task -> {"pending", "running", "over", "released"}]
    /\ claims \in [Adj -> Task \cup {NoTask}]
    /\ madj \in [Mover -> Adj \cup {NoAdj}]
    /\ mtask \in [Mover -> Task \cup {NoTask}]
    /\ mforced \in [Mover -> BOOLEAN]
    /\ bypassed \in [Mover -> BOOLEAN]

ClaimsInit ==
    /\ tstate = [t \in Task |-> "pending"]
    /\ claims = [a \in Adj |-> NoTask]
    /\ madj = [m \in Mover |-> NoAdj]
    /\ mtask = [m \in Mover |-> NoTask]
    /\ mforced = [m \in Mover |-> FALSE]
    /\ bypassed = [m \in Mover |-> FALSE]

-----------------------------------------------------------------------------
(* The life of a task, as far as the claims see it (TaskQueue._execute).       *)

TaskStarts(t) ==
    /\ tstate[t] = "pending"
    /\ tstate' = [tstate EXCEPT ![t] = "running"]
    /\ UNCHANGED <<claims, moverVars>>

\* The state is set to done or error before the claims are released.
TaskOver(t) ==
    /\ tstate[t] = "running"
    /\ tstate' = [tstate EXCEPT ![t] = "over"]
    /\ UNCHANGED <<claims, moverVars>>

ReleaseTask(t) ==
    /\ tstate[t] = "over"
    /\ tstate' = [tstate EXCEPT ![t] = "released"]
    /\ claims' = [a \in Adj |-> IF claims[a] = t THEN NoTask ELSE claims[a]]
    /\ UNCHANGED moverVars

-----------------------------------------------------------------------------
(* Claiming and moving.                                                        *)

\* The owner still counts: its task is running.
Owned(a) == claims[a] # NoTask /\ tstate[claims[a]] = "running"

\* Mutant: _claim takes the adjustable whoever owns it.
ClaimAnyway(a, t) == claims' = [claims EXCEPT ![a] = t]

\* Mutant: the entry's adjustable is taken for its owner.
ClaimSwapped(a, t) == claims' = IF Owned(a) THEN claims ELSE [claims EXCEPT ![a] = a]

\* _claim: an adjustable another running task owns stays its own.
Claim(a, t) ==
    claims' = IF Owned(a) THEN claims ELSE [claims EXCEPT ![a] = t]

\* A scan of task t starts: register_scan claims its adjustables one by one.
RegisterScan(t, a) ==
    /\ tstate[t] = "running"
    /\ Claim(a, t)
    /\ UNCHANGED <<tstate, moverVars>>

\* check_claim lets a write to a from a thread of task t through.
Admits(a, t, force) == ~Owned(a) \/ claims[a] = t \/ force

\* Mutant: the first move of an unclaimed adjustable claims nothing.
GateOnly(a, t) == claims' = IF Owned(a) THEN claims ELSE [claims EXCEPT ![a] = NoTask]

\* What check_claim leaves behind: a dead owner's claim is dropped and an
\* unclaimed adjustable goes to the writer's task, if it has one.
GateClaims(a, t) == claims' = IF Owned(a) THEN claims ELSE [claims EXCEPT ![a] = t]

\* A Changer of a is made in the context <<t, force>> and runs in thread m.  A
\* write the gate refuses raises MoveBlocked and changes nothing.
Write(m, a, t, force) ==
    /\ madj[m] = NoAdj
    /\ Admits(a, t, force)
    /\ GateClaims(a, t)
    /\ madj' = [madj EXCEPT ![m] = a]
    /\ mtask' = [mtask EXCEPT ![m] = t]
    /\ mforced' = [mforced EXCEPT ![m] = force]
    /\ bypassed' = [bypassed EXCEPT ![m] = Owned(a) /\ claims[a] # t]
    /\ UNCHANGED tstate

\* From the prompt, a GUI panel or the web: no task.
PromptMoves(m, a) == \E force \in BOOLEAN : Write(m, a, NoTask, force)

\* From the task's own worker thread.
TaskMoves(m, a, t) ==
    tstate[t] = "running" /\ \E force \in BOOLEAN : Write(m, a, t, force)

\* From a thread that is moving something itself, in the context it inherited.
MoverMoves(m, a, by) == madj[by] # NoAdj /\ Write(m, a, mtask[by], mforced[by])

MoveEnds(m) ==
    /\ madj[m] # NoAdj
    /\ madj' = [madj EXCEPT ![m] = NoAdj]
    /\ mtask' = [mtask EXCEPT ![m] = NoTask]
    /\ mforced' = [mforced EXCEPT ![m] = FALSE]
    /\ bypassed' = [bypassed EXCEPT ![m] = FALSE]
    /\ UNCHANGED <<tstate, claims>>

\* queues[...].release(a): the moves under way lose their protection.
Release(a) ==
    /\ claims[a] # NoTask
    /\ claims' = [claims EXCEPT ![a] = NoTask]
    /\ bypassed' = [m \in Mover |-> bypassed[m] \/ madj[m] = a]
    /\ UNCHANGED <<tstate, madj, mtask, mforced>>

ClaimsNext ==
    \/ \E t \in Task : TaskStarts(t) \/ TaskOver(t) \/ ReleaseTask(t)
    \/ \E t \in Task, a \in Adj : RegisterScan(t, a)
    \/ \E m \in Mover, a \in Adj :
          \/ PromptMoves(m, a)
          \/ \E t \in Task : TaskMoves(m, a, t)
          \/ \E by \in Mover : MoverMoves(m, a, by)
    \/ \E m \in Mover : MoveEnds(m)
    \/ \E a \in Adj : Release(a)

ClaimsSpec == ClaimsInit /\ [][ClaimsNext]_claimVars

-----------------------------------------------------------------------------
(* Safety.                                                                     *)

\* m moves a for a task that is still running, and nobody waived its claim.
Protected(m) ==
    /\ madj[m] # NoAdj
    /\ mtask[m] # NoTask
    /\ tstate[mtask[m]] = "running"
    /\ ~bypassed[m]

\* A move of a running task is covered by a claim for as long as it lasts, also
\* when it was started by a move of a move and whoever wrote meanwhile.
MovesAreClaimed == \A m \in Mover : Protected(m) => claims[madj[m]] = mtask[m]

\* Two running tasks never move the same adjustable at the same time unless one
\* of them was explicitly let through (forced() or release()).
Exclusive ==
    \A m, n \in Mover :
        Protected(m) /\ Protected(n) /\ madj[m] = madj[n] => mtask[m] = mtask[n]

\* A running task loses an adjustable only through release(): no write of
\* anybody, forced or not, and no scan of another task takes it away.
ClaimsAreKept ==
    [][\A a \in Adj : Owned(a) /\ claims'[a] # claims[a] =>
          claims'[a] = NoTask /\ tstate' = tstate /\ madj' = madj]_claimVars

=============================================================================
