------------------------------ MODULE SessionProofs -----------------------------
(* Proofs about what the threads of a session share beside the queues: the     *)
(* write gate of the adjustables (Claims), for every set of tasks, adjustables  *)
(* and movers, and the main thread (MainThread), however many workers there are.*)
EXTENDS MainThread, Claims, FiniteSetTheorems, SequenceTheorems, TLAPS

-----------------------------------------------------------------------------
(* The claims.                                                                 *)

\* Only a task that has started can have moves under way.
MovesHaveStarted == \A m \in Mover : mtask[m] # NoTask => tstate[mtask[m]] # "pending"

\* The claim of a move protects it, and the gate is the only way in.
ClaimsInv == ClaimsTypeOK /\ MovesAreClaimed /\ MovesHaveStarted

\* Nothing is claimed and nothing moves at first.
LEMMA ClaimsStart == ClaimsInit => ClaimsInv
  BY ClaimsAssumption DEF ClaimsInit, ClaimsInv, ClaimsTypeOK, MovesAreClaimed, MovesHaveStarted, Protected

\* A task that starts or ends changes no claim of a running task, and the moves
\* of a task that has not started or has ended are not protected.
LEMMA ClaimsTask ==
    ASSUME ClaimsInv, NEW t \in Task, TaskStarts(t) \/ TaskOver(t) \/ ReleaseTask(t)
    PROVE  ClaimsInv'
<1> USE ClaimsAssumption DEF ClaimsInv, ClaimsTypeOK, MovesAreClaimed, MovesHaveStarted, Protected,
                             moverVars
<1>1. CASE TaskStarts(t)
  BY <1>1 DEF TaskStarts
<1>2. CASE TaskOver(t)
  BY <1>2 DEF TaskOver
<1>3. CASE ReleaseTask(t)
  BY <1>3 DEF ReleaseTask
<1> QED
  BY <1>1, <1>2, <1>3

\* A write claims what it moves, and takes nothing from a running task.
LEMMA ClaimsWrite ==
    ASSUME ClaimsInv, NEW m \in Mover, NEW a \in Adj, NEW t \in Task \cup {NoTask},
           NEW force \in BOOLEAN, t # NoTask => tstate[t] # "pending",
           Write(m, a, t, force)
    PROVE  ClaimsInv'
<1>1. ClaimsTypeOK'
  BY DEF ClaimsInv, ClaimsTypeOK, Write, GateClaims, Owned
<1>2. ASSUME NEW n \in Mover, Protected(n)'
      PROVE  claims'[madj'[n]] = mtask'[n]
  <2> USE ClaimsAssumption DEF ClaimsInv, ClaimsTypeOK, MovesAreClaimed, Protected, Write, Owned
  <2>1. CASE n = m
    BY <1>2, <2>1 DEF GateClaims, Admits
  <2>2. CASE n # m
    BY <1>2, <2>2 DEF GateClaims
  <2> QED
    BY <2>1, <2>2
<1>3. MovesHaveStarted'
  BY DEF ClaimsInv, ClaimsTypeOK, MovesHaveStarted, Write
<1> QED
  BY <1>1, <1>2, <1>3 DEF ClaimsInv, MovesAreClaimed

\* A scan that registers, a move that ends and release() keep it, too.
LEMMA ClaimsOther ==
    ASSUME ClaimsInv,
           \/ \E t \in Task, a \in Adj : RegisterScan(t, a)
           \/ \E m \in Mover : MoveEnds(m)
           \/ \E a \in Adj : Release(a)
    PROVE  ClaimsInv'
<1> USE ClaimsAssumption DEF ClaimsInv, ClaimsTypeOK, MovesAreClaimed, MovesHaveStarted, Protected,
                             moverVars
<1>1. ASSUME NEW t \in Task, NEW a \in Adj, RegisterScan(t, a) PROVE ClaimsInv'
  BY <1>1 DEF RegisterScan, Claim, Owned
<1>2. ASSUME NEW m \in Mover, MoveEnds(m) PROVE ClaimsInv'
  BY <1>2 DEF MoveEnds
<1>3. ASSUME NEW a \in Adj, Release(a) PROVE ClaimsInv'
  BY <1>3 DEF Release
<1> QED
  BY <1>1, <1>2, <1>3

\* Every step keeps the invariant.
LEMMA ClaimsStep == ClaimsInv /\ [ClaimsNext]_claimVars => ClaimsInv'
<1> SUFFICES ASSUME ClaimsInv, [ClaimsNext]_claimVars PROVE ClaimsInv'
  OBVIOUS
<1>1. ASSUME NEW m \in Mover, NEW a \in Adj,
             \/ PromptMoves(m, a)
             \/ \E t \in Task : TaskMoves(m, a, t)
             \/ \E by \in Mover : MoverMoves(m, a, by)
      PROVE  ClaimsInv'
  <2>1. \A by \in Mover : /\ mtask[by] \in Task \cup {NoTask} /\ mforced[by] \in BOOLEAN
                          /\ mtask[by] # NoTask => tstate[mtask[by]] # "pending"
    BY DEF ClaimsInv, ClaimsTypeOK, MovesHaveStarted
  <2> QED
    BY <1>1, <2>1, ClaimsWrite DEF PromptMoves, TaskMoves, MoverMoves
<1>2. CASE UNCHANGED claimVars
  BY <1>2 DEF claimVars, moverVars, ClaimsInv, ClaimsTypeOK, MovesAreClaimed, MovesHaveStarted, Protected
<1> QED
  BY <1>1, <1>2, ClaimsTask, ClaimsOther DEF ClaimsNext

\* The invariant holds of every reachable state.
LEMMA ClaimsInvariance == ClaimsSpec => []ClaimsInv
BY ClaimsStart, ClaimsStep, PTL DEF ClaimsSpec

\* Type correctness of the claims and of the moves under way.
THEOREM ClaimsTyped == ClaimsSpec => []ClaimsTypeOK
<1>1. ClaimsInv => ClaimsTypeOK
  BY DEF ClaimsInv
<1> QED
  BY <1>1, ClaimsInvariance, PTL

\* Every protected move is covered by a claim of its task.
THEOREM Covered == ClaimsSpec => []MovesAreClaimed
<1>1. ClaimsInv => MovesAreClaimed
  BY DEF ClaimsInv
<1> QED
  BY <1>1, ClaimsInvariance, PTL

\* For any number of queues, tasks, adjustables and moves under way: two running
\* tasks never move the same adjustable unless one was explicitly let through.
THEOREM NoTwoMovers == ClaimsSpec => []Exclusive
<1>1. MovesAreClaimed => Exclusive
  BY DEF MovesAreClaimed, Exclusive
<1> QED
  BY <1>1, Covered, PTL

\* A running task keeps what it claimed until release() frees it.
THEOREM OnlyReleaseFrees == ClaimsSpec => ClaimsAreKept
<1>1. ClaimsInv /\ [ClaimsNext]_claimVars =>
          [\A a \in Adj : Owned(a) /\ claims'[a] # claims[a] =>
              claims'[a] = NoTask /\ tstate' = tstate /\ madj' = madj]_claimVars
  <2> SUFFICES ASSUME ClaimsInv, ClaimsNext, NEW a \in Adj, Owned(a), claims'[a] # claims[a]
               PROVE  claims'[a] = NoTask /\ tstate' = tstate /\ madj' = madj
    BY DEF claimVars
  <2> USE DEF ClaimsInv, ClaimsTypeOK, Owned, moverVars
  <2>1. ASSUME NEW t \in Task, TaskStarts(t) \/ TaskOver(t) \/ ReleaseTask(t) PROVE FALSE
    BY <2>1 DEF TaskStarts, TaskOver, ReleaseTask
  <2>2. ASSUME NEW t \in Task, NEW b \in Adj, RegisterScan(t, b) PROVE FALSE
    BY <2>2 DEF RegisterScan, Claim
  <2>3. ASSUME NEW m \in Mover, NEW b \in Adj, NEW t \in Task \cup {NoTask},
               NEW force \in BOOLEAN, Write(m, b, t, force)
        PROVE  FALSE
    BY <2>3 DEF Write, GateClaims
  <2>4. ASSUME NEW m \in Mover, MoveEnds(m) PROVE FALSE
    BY <2>4 DEF MoveEnds
  <2>5. ASSUME NEW b \in Adj, Release(b) PROVE claims'[a] = NoTask /\ tstate' = tstate /\ madj' = madj
    BY <2>5 DEF Release
  <2>6. \A by \in Mover : mtask[by] \in Task \cup {NoTask} /\ mforced[by] \in BOOLEAN
    OBVIOUS
  <2>7. ASSUME NEW m \in Mover, NEW b \in Adj,
               \/ PromptMoves(m, b)
               \/ \E t \in Task : TaskMoves(m, b, t)
               \/ \E by \in Mover : MoverMoves(m, b, by)
        PROVE  FALSE
    BY <2>3, <2>6, <2>7 DEF PromptMoves, TaskMoves, MoverMoves
  <2> QED
    BY <2>1, <2>2, <2>4, <2>5, <2>7 DEF ClaimsNext
<1> QED
  BY <1>1, ClaimsStart, ClaimsStep, PTL DEF ClaimsSpec, ClaimsAreKept

-----------------------------------------------------------------------------
(* The main thread and the handlers of Qt.                                     *)

\* A tick that is about to begin inside of a handler was let in because no
\* application was known.
BeginKnowsNoQt == tick = "begin" /\ handler => ~QtSeen \/ noticed

\* A tick that pumps has the driver, so that nothing is left to notice.
PumpHasDriver == tick = "pump" => qt = "driver"

TicksInv == BeginKnowsNoQt /\ PumpHasDriver /\ NoReentry

\* What the steps of the workers, the user and most of the main thread leave
\* alone: they cannot disturb the invariant.
tickState == <<qt, handler, tick, noticed>>

\* Without a change of those, the invariant stays.
LEMMA Undisturbed == TicksInv /\ UNCHANGED tickState => TicksInv'
  BY DEF TicksInv, BeginKnowsNoQt, PumpHasDriver, NoReentry, QtSeen, tickState

\* A handler begins, and the application and the cells change, outside of ticks.
LEMMA OutsideTicks ==
    TicksInv /\ (CellBegin \/ CellEnd \/ MakeApplication \/ HandlerBegin \/ HandlerEnd) => TicksInv'
<1> SUFFICES ASSUME TicksInv,
                    CellBegin \/ CellEnd \/ MakeApplication \/ HandlerBegin \/ HandlerEnd
             PROVE  TicksInv'
  OBVIOUS
<1>1. tick' = "no"
  BY DEF CellBegin, CellEnd, MakeApplication, HandlerBegin, HandlerEnd, Free, tickVars
<1> QED BY <1>1 DEF TicksInv, BeginKnowsNoQt, PumpHasDriver, NoReentry

\* The steps of the watchdog and of the ticks.
LEMMA InsideTicks ==
    TicksInv /\ (Notice \/ Signal \/ Interrupt \/ Wake \/ WakeInTick \/ Tick) => TicksInv'
<1> SUFFICES ASSUME TicksInv, Notice \/ Signal \/ Interrupt \/ Wake \/ WakeInTick \/ Tick
             PROVE  TicksInv'
  OBVIOUS
<1> USE DEF TicksInv, BeginKnowsNoQt, PumpHasDriver, NoReentry, QtSeen
<1>1. CASE Notice
  <2>1. CASE tick = "begin"
    <3>1. noticed'
      BY <1>1, <2>1, Zenon DEF Notice
    <3>2. tick' = "begin"
      BY <1>1, <2>1 DEF Notice
    <3> QED BY <3>1, <3>2
  <2>2. CASE tick # "begin"
    \* A tick that pumps has made the driver: there is nothing left to notice.
    <3>1. tick' # "begin" /\ tick' # "pump"
      BY <1>1, <2>2 DEF Notice
    <3> QED BY <3>1
  <2> QED BY <2>1, <2>2
<1>2. CASE Signal
  BY <1>2 DEF Signal, tickVars
<1>3. CASE Interrupt
  <2>1. CASE tick' = tick
    BY <1>3, <2>1 DEF Interrupt
  <2>2. CASE tick' # tick
    \* The tick was let in: outside of a cell, because nothing of Qt was known.
    <3>1. MayInterrupt /\ ~Hold /\ tick' = "begin"
      BY <1>3, <2>2 DEF Interrupt
    <3>2. handler => ~QtSeen
      BY <3>1 DEF MayInterrupt, Hold
    <3> QED BY <1>3, <3>1, <3>2 DEF Interrupt
  <2> QED BY <2>1, <2>2
<1>4. CASE Wake
  BY <1>4 DEF Wake, RunCalls
<1>5. CASE WakeInTick
  BY <1>5 DEF WakeInTick, tickVars
<1>6. CASE TickBegin
  BY <1>6 DEF TickBegin, RunCalls
<1>7. CASE Pump \/ RunCall \/ TickEnd
  BY <1>7 DEF Pump, RunCall, TickEnd, RunCalls
<1> QED BY <1>1, <1>2, <1>3, <1>4, <1>5, <1>6, <1>7 DEF Tick

\* The invariant holds to begin with, and every step keeps it.
LEMMA TicksKeep == (Init => TicksInv) /\ (TicksInv /\ [Next]_vars => TicksInv')
<1>1. Init => TicksInv
  BY DEF Init, TicksInv, BeginKnowsNoQt, PumpHasDriver, NoReentry
<1>2. ASSUME TicksInv, [Next]_vars PROVE TicksInv'
  <2>1. CASE \E w \in Worker : Ask(w) \/ WorkerStep(w)
    <3>1. UNCHANGED tickState
      BY <2>1 DEF Ask, WorkerStep, TakeLock, CallSoon, Return, tickVars, tickState
    <3> QED BY <1>2, <3>1, Undisturbed
  <2>2. CASE User
    <3>1. UNCHANGED tickState
      BY <2>2 DEF User, AnswerShown, AnswerPrompt, AnswerPending, tickVars, tickState
    <3> QED BY <1>2, <3>1, Undisturbed
  <2>3. CASE UNCHANGED vars
    <3>1. UNCHANGED tickState
      BY <2>3 DEF vars, tickState
    <3> QED BY <1>2, <3>1, Undisturbed
  <2> QED BY <1>2, <2>1, <2>2, <2>3, OutsideTicks, InsideTicks DEF Next
<1> QED BY <1>1, <1>2

\* Qt's events are never pumped from inside of a handler (mainthread.py: the
\* rule of _may_interrupt, which _on_signal tests again), unless the watchdog
\* notices an application between that test and the tick.
THEOREM HandlersAreNotReentered == Spec => []NoReentry
<1>1. TicksInv => NoReentry
  BY DEF TicksInv
<1> QED BY TicksKeep, <1>1, PTL DEF Spec

-----------------------------------------------------------------------------
(* The main thread and the questions.                                          *)

\* A call on its way has a worker that is about to wake the loop, or waits.
Calling(w) == pc[w] \in {"wake", "wait"}

\* A call is in one place only: in the queue, in a dialog, at the prompt, among
\* the pending ones, or over.
OnePlaceOfCall ==
    /\ \A i, j \in 1 .. Len(calls) : calls[i] = calls[j] => i = j
    /\ \A i \in 1 .. Len(calls) :
          Calling(calls[i]) /\ calls[i] \notin resolved \cup pending \cup {shown, prompt}
    /\ \A w \in resolved : Calling(w) /\ w \notin pending \cup {shown, prompt}
    /\ \A w \in pending : Calling(w) /\ w \notin {shown, prompt}
    /\ shown # None => Calling(shown) /\ shown # prompt
    /\ prompt # None => Calling(prompt)

\* A question on its way belongs to the asker that has the lock, which only askers
\* wait for.
Asked(a) == pc[a] \in {"append", "wake", "wait"}
AskerHasLock ==
    /\ \A a \in Asker : Asked(a) => lock = a
    /\ \A w \in Worker : pc[w] = "lock" => w \in Asker

\* Each worker wakes the loop once for a call it began with room for it.
Awake == {w \in Worker : pc[w] \in {"lock", "append", "wake"}}
WakesInv == wakes + Cardinality(Awake) <= MaxWakes + Cardinality(Worker)

\* A sequence without repetitions is no longer than its set is large.
LEMMA NoRepetition ==
    ASSUME NEW S, IsFiniteSet(S), NEW s \in Seq(S),
           \A i, j \in 1 .. Len(s) : s[i] = s[j] => i = j
    PROVE  Len(s) <= Cardinality(S)
<1>1. Len(s) \in Nat /\ s \in [1 .. Len(s) -> S] /\ Cardinality(S) \in Nat
  BY LenProperties, FS_CardinalityType
<1>2. IsFiniteSet(1 .. Len(s)) /\ Cardinality(1 .. Len(s)) = Len(s)
  <2>1. 1 \in Int /\ Len(s) \in Int
    BY <1>1
  <2>2. Cardinality(1 .. Len(s)) = IF 1 > Len(s) THEN 0 ELSE Len(s) - 1 + 1
    BY <2>1, FS_Interval
  <2>3. IsFiniteSet(1 .. Len(s))
    BY <2>1, FS_Interval
  <2> QED BY <1>1, <2>2, <2>3
<1>3. ~(Cardinality(S) < Cardinality(1 .. Len(s)))
  BY <1>1, <1>2, FS_PigeonHole
<1> QED BY <1>1, <1>2, <1>3

CallsInv == TypeOK /\ OnePlaceOfCall /\ AskerHasLock /\ WakesInv

\* The types but for the bounds, which follow from where the calls are.
Shapes ==
    /\ qt \in {"none", "app", "seen", "driver"}
    /\ {terminal, cell, handler, signalled, noticed} \subseteq BOOLEAN
    /\ wakes \in Nat /\ calls \in Seq(Worker) /\ left \in 0..Cardinality(Worker)
    /\ tick \in {"no", "begin", "pump", "run"}
    /\ {shown, prompt, lock} \subseteq Asker \cup {None}
    /\ pending \subseteq Asker
    /\ pc \in [Worker -> {"idle", "lock", "append", "wake", "wait"}]
    /\ resolved \subseteq Worker

\* There are finitely many workers, and as many awake.
LEMMA Finite ==
    /\ IsFiniteSet(Worker) /\ Cardinality(Worker) \in Nat /\ IsFiniteSet(Awake)
    /\ Cardinality(Awake) \in Nat /\ Cardinality(Awake) <= Cardinality(Worker)
<1>1. IsFiniteSet(Worker)
  BY MainThreadAssumption, FS_Union DEF Worker
<1>2. Awake \in SUBSET Worker
  BY DEF Awake
<1> QED BY <1>1, <1>2, FS_Subset, FS_CardinalityType

LEMMA Bounds == Shapes /\ OnePlaceOfCall /\ WakesInv => TypeOK
<1> SUFFICES ASSUME Shapes, OnePlaceOfCall, WakesInv PROVE TypeOK
  OBVIOUS
<1>1. IsFiniteSet(Worker) /\ Cardinality(Worker) \in Nat /\ Cardinality(Awake) \in Nat
  BY Finite DEF Shapes
<1>2. Len(calls) <= Cardinality(Worker)
  BY <1>1, NoRepetition DEF Shapes, OnePlaceOfCall
<1>3. wakes \in 0..(MaxWakes + Cardinality(Worker))
  BY <1>1, MainThreadAssumption DEF Shapes, WakesInv
<1> QED BY <1>2, <1>3 DEF Shapes, TypeOK

\* Both in the next state.
LEMMA BoundsNext ==
    /\ Shapes' /\ OnePlaceOfCall' /\ WakesInv' => TypeOK'
    /\ Cardinality(Awake') \in Nat /\ Cardinality(Awake') <= Cardinality(Worker)
<1>1. (Shapes /\ OnePlaceOfCall /\ WakesInv => TypeOK)'
  BY Bounds, PTL
<1>2. (Cardinality(Awake) \in Nat /\ Cardinality(Awake) <= Cardinality(Worker))'
  BY Finite, PTL
<1> QED BY <1>1, <1>2

\* What is no part of a call: the flags, Qt, and the place of the main thread.
Surroundings ==
    /\ qt \in {"none", "app", "seen", "driver"}
    /\ {terminal, cell, handler, signalled, noticed} \subseteq BOOLEAN
    /\ left \in 0..Cardinality(Worker)
    /\ tick \in {"no", "begin", "pump", "run"}

\* A step that leaves the calls alone keeps the invariant.
LEMMA CallsUntouched ==
    ASSUME CallsInv, Surroundings', UNCHANGED <<calls, askVars, workerVars>>,
           wakes' \in Nat, wakes' <= wakes
    PROVE  CallsInv'
<1> USE DEF CallsInv, askVars, workerVars
<1>1. Shapes'
  BY DEF TypeOK, Shapes, Surroundings
<1>2. OnePlaceOfCall' /\ AskerHasLock'
  BY DEF OnePlaceOfCall, AskerHasLock, Calling, Asked
<1>3. WakesInv'
  <2>1. Awake' = Awake
    BY DEF Awake
  <2>2. Cardinality(Awake) \in Nat /\ Cardinality(Worker) \in Nat /\ wakes \in Nat
    BY Finite, MainThreadAssumption DEF TypeOK
  <2> QED BY <2>1, <2>2, MainThreadAssumption DEF WakesInv
<1> QED BY <1>1, <1>2, <1>3, BoundsNext

\* The cells, the handlers, the watchdog and the ticks but for their calls.
LEMMA MainThreadCalls ==
    ASSUME CallsInv,
           \/ CellBegin \/ CellEnd \/ MakeApplication \/ HandlerBegin \/ HandlerEnd
           \/ Notice \/ Signal \/ Interrupt \/ Wake \/ WakeInTick
           \/ TickBegin \/ Pump \/ TickEnd
    PROVE  CallsInv'
<1>1. /\ Cardinality(Worker) \in Nat /\ wakes \in Nat
      /\ Len(calls) \in 0..Cardinality(Worker) /\ 0 \in 0..Cardinality(Worker)
  <2>1. Cardinality(Worker) \in Nat
    BY Finite
  <2> QED BY <2>1, LenProperties, MainThreadAssumption DEF CallsInv, TypeOK
<1>2. Surroundings
  BY DEF CallsInv, TypeOK, Surroundings
<1>3. CASE CellBegin \/ CellEnd \/ MakeApplication \/ HandlerBegin \/ HandlerEnd
  <2>1. Surroundings' /\ UNCHANGED <<calls, askVars, workerVars, wakes>>
    BY <1>2, <1>3 DEF Surroundings, CellBegin, CellEnd, MakeApplication, HandlerBegin,
                      HandlerEnd, tickVars
  <2> QED BY <1>1, <2>1, CallsUntouched
<1>4. CASE Notice \/ Signal \/ Interrupt
  <2>1. Surroundings'
    <3>1. noticed' \in BOOLEAN
      BY <1>2, <1>4 DEF Surroundings, Notice, Signal, Interrupt, tickVars
    <3> QED BY <1>2, <1>4, <3>1 DEF Surroundings, Notice, Signal, Interrupt, tickVars
  <2>2. UNCHANGED <<calls, askVars, workerVars, wakes>>
    BY <1>4 DEF Notice, Signal, Interrupt
  <2> QED BY <1>1, <2>1, <2>2, CallsUntouched
<1>5. CASE Wake \/ WakeInTick \/ TickBegin \/ Pump \/ TickEnd
  <2>1. Surroundings'
    BY <1>1, <1>2, <1>5 DEF Surroundings, Wake, WakeInTick, TickBegin, Pump, TickEnd,
                            RunCalls, tickVars
  <2>2. UNCHANGED <<calls, askVars, workerVars>> /\ wakes' \in Nat /\ wakes' <= wakes
    BY <1>1, <1>5 DEF Wake, WakeInTick, TickBegin, Pump, TickEnd
  <2> QED BY <2>1, <2>2, CallsUntouched
<1> QED BY <1>3, <1>4, <1>5

\* A call is appended by a worker that has none anywhere, and wakes the loop once.
LEMMA WorkerCalls ==
    ASSUME CallsInv, NEW w \in Worker, Ask(w) \/ TakeLock(w) \/ CallSoon(w) \/ Return(w)
    PROVE  CallsInv'
<1> USE DEF CallsInv, At, Goto
<1>1. /\ IsFiniteSet(Awake) /\ Cardinality(Awake) \in Nat /\ Cardinality(Worker) \in Nat
      /\ Cardinality(Awake) <= Cardinality(Worker) /\ wakes \in Nat /\ MaxWakes \in Nat
  BY Finite, MainThreadAssumption DEF TypeOK
<1>2. CASE Ask(w)
  <2>1. Shapes' /\ wakes' = wakes /\ wakes < MaxWakes
    BY <1>2 DEF TypeOK, Shapes, Ask, tickVars, askVars
  <2>2. OnePlaceOfCall' /\ AskerHasLock'
    BY <1>2 DEF TypeOK, OnePlaceOfCall, AskerHasLock, Calling, Asked, Ask, askVars
  <2>3. WakesInv'
    <3>1. Cardinality(Awake') \in Nat /\ Cardinality(Awake') <= Cardinality(Worker)
      BY BoundsNext
    <3> QED BY <1>1, <2>1, <3>1 DEF WakesInv
  <2> QED BY <2>1, <2>2, <2>3, BoundsNext
<1>3. CASE TakeLock(w)
  <2>0. w \in Asker
    BY <1>3 DEF TakeLock, AskerHasLock
  <2>1. Shapes'
    BY <1>3, <2>0 DEF TypeOK, Shapes, TakeLock, tickVars, askVars
  <2>2. OnePlaceOfCall'
    BY <1>3 DEF TypeOK, OnePlaceOfCall, Calling, TakeLock, askVars
  <2>4. AskerHasLock'
    <3>1. \A a \in Asker : ~Asked(a)
      BY <1>3, MainThreadAssumption DEF AskerHasLock, TakeLock
    <3> QED BY <1>3, <2>0, <3>1 DEF TypeOK, AskerHasLock, Asked, TakeLock
  <2>3. Awake' = Awake /\ wakes' = wakes
    BY <1>3 DEF TypeOK, Awake, TakeLock
  <2> QED BY <2>1, <2>2, <2>3, <2>4, BoundsNext DEF WakesInv
<1>4. CASE At(w, "append") /\ CallSoon(w)
  <2>1. /\ pc[w] = "append" /\ calls' = Append(calls, w)
        /\ pc' = [pc EXCEPT ![w] = "wake"]
        /\ UNCHANGED <<qt, terminal, cell, handler, signalled, wakes, tickVars, askVars, lock>>
    BY <1>4 DEF CallSoon
  <2>2. /\ calls \in Seq(Worker) /\ calls' \in Seq(Worker) /\ Len(calls') = Len(calls) + 1
        /\ Len(calls) \in Nat
        /\ \A i \in 1 .. Len(calls) : calls'[i] = calls[i]
        /\ calls'[Len(calls) + 1] = w
    BY <2>1, AppendProperties, LenProperties DEF TypeOK
  <2>3. Shapes'
    BY <2>1, <2>2 DEF TypeOK, Shapes, tickVars, askVars
  <2>4. /\ \A i \in 1 .. Len(calls) : calls[i] # w
        /\ w \notin resolved \cup pending \cup {shown, prompt}
    <3>1. ~Calling(w) /\ w # None
      BY <2>1, MainThreadAssumption DEF Calling, Worker
    <3> QED BY <3>1 DEF OnePlaceOfCall
  <2>5. \A v \in Worker : v # w => pc'[v] = pc[v]
    BY <2>1 DEF TypeOK
  <2>6. OnePlaceOfCall'
    <3>1. \A i \in 1 .. Len(calls') : i \in 1 .. Len(calls) \/ i = Len(calls) + 1
      BY <2>2
    <3>2. Calling(w)' /\ \A v \in Worker : Calling(v) => Calling(v)'
      BY <2>1, <2>5 DEF TypeOK, Calling
    <3>3. \A i \in 1 .. Len(calls) : calls[i] \in Worker
      BY <2>2, ElementOfSeq
    <3>4. /\ shown \in Worker \cup {None} /\ prompt \in Worker \cup {None}
          /\ pending \subseteq Worker /\ resolved \subseteq Worker
      BY DEF TypeOK, Worker
    <3>5. \A i, j \in 1 .. Len(calls') : calls'[i] = calls'[j] => i = j
      BY <2>2, <2>4, <3>1 DEF OnePlaceOfCall
    <3>6. \A i \in 1 .. Len(calls') :
              /\ pc'[calls'[i]] \in {"wake", "wait"}
              /\ calls'[i] \notin resolved' \cup pending' \cup {shown', prompt'}
      <4>1. UNCHANGED <<resolved, pending, shown, prompt>>
        BY <2>1 DEF askVars
      <4> SUFFICES ASSUME NEW i \in 1 .. Len(calls')
                   PROVE  /\ pc'[calls'[i]] \in {"wake", "wait"}
                          /\ calls'[i] \notin resolved \cup pending \cup {shown, prompt}
        BY <4>1
      <4>2. CASE i = Len(calls) + 1
        BY <2>2, <2>4, <3>2, <4>2 DEF Calling
      <4>3. CASE i \in 1 .. Len(calls)
        <5>1. calls'[i] = calls[i] /\ calls[i] \in Worker
          BY <2>2, <3>3, <4>3
        <5>2. Calling(calls[i]) /\ calls[i] \notin resolved \cup pending \cup {shown, prompt}
          BY <4>3 DEF OnePlaceOfCall
        <5> QED BY <3>2, <5>1, <5>2 DEF Calling
      <4> QED BY <3>1, <4>2, <4>3
    <3>7. UNCHANGED <<resolved, pending, shown, prompt>>
      BY <2>1 DEF askVars
    <3>8. /\ \A v \in resolved' : Calling(v)' /\ v \notin pending' \cup {shown', prompt'}
          /\ \A v \in pending' : Calling(v)' /\ v \notin {shown', prompt'}
          /\ shown' # None => Calling(shown)' /\ shown' # prompt'
          /\ prompt' # None => Calling(prompt)'
      BY <3>2, <3>4, <3>7 DEF OnePlaceOfCall, Calling
    <3> QED BY <3>5, <3>6, <3>8 DEF OnePlaceOfCall, Calling
  <2>7. AskerHasLock'
    BY <2>1 DEF TypeOK, AskerHasLock, Asked
  <2>8. Awake' = Awake /\ wakes' = wakes
    BY <2>1 DEF TypeOK, Awake
  <2> QED BY <2>3, <2>6, <2>7, <2>8, BoundsNext DEF WakesInv
<1>5. CASE At(w, "wake") /\ CallSoon(w)
  <2>1. /\ pc[w] = "wake" /\ pc' = [pc EXCEPT ![w] = "wait"]
        /\ wakes' = wakes \/ wakes' = wakes + 1
        /\ UNCHANGED <<qt, terminal, cell, handler, signalled, calls, tickVars, askVars, lock>>
    BY <1>5 DEF CallSoon, Emit
  <2>2. Shapes'
    BY <1>1, <2>1 DEF TypeOK, Shapes, tickVars, askVars
  <2>3. OnePlaceOfCall' /\ AskerHasLock'
    BY <2>1 DEF TypeOK, OnePlaceOfCall, AskerHasLock, Calling, Asked, askVars
  <2>4. Awake' = Awake \ {w} /\ w \in Awake
    BY <2>1 DEF TypeOK, Awake
  <2>5. Cardinality(Awake') = Cardinality(Awake) - 1
    BY <1>1, <2>4, FS_RemoveElement
  <2>6. WakesInv'
    BY <1>1, <2>1, <2>5 DEF WakesInv
  <2> QED BY <2>2, <2>3, <2>6, BoundsNext
<1>6. CASE Return(w)
  <2>1. /\ pc[w] = "wait" /\ w \in resolved /\ resolved' = resolved \ {w}
        /\ pc' = [pc EXCEPT ![w] = "idle"]
        /\ lock' = IF lock = w THEN None ELSE lock
        /\ UNCHANGED <<qt, terminal, cell, handler, signalled, wakes, calls, tickVars,
                       shown, prompt, pending>>
    BY <1>6 DEF Return
  <2>2. Shapes'
    BY <2>1 DEF TypeOK, Shapes, tickVars
  <2>3. OnePlaceOfCall'
    BY <2>1 DEF TypeOK, OnePlaceOfCall, Calling
  <2>4. AskerHasLock'
    BY <2>1 DEF TypeOK, AskerHasLock, Asked
  <2>5. Awake' = Awake /\ wakes' = wakes
    BY <2>1 DEF TypeOK, Awake
  <2> QED BY <2>2, <2>3, <2>4, <2>5, BoundsNext DEF WakesInv
<1> QED BY <1>2, <1>3, <1>4, <1>5, <1>6 DEF CallSoon

\* A call leaves the queue for one other place, and a question that is answered
\* leaves that.
LEMMA CallsGoOn ==
    ASSUME CallsInv, RunCall \/ AnswerShown \/ AnswerPrompt \/ AnswerPending
    PROVE  CallsInv'
<1> USE DEF CallsInv
<1>1. UNCHANGED <<qt, terminal, cell, handler, signalled, wakes, tick, noticed, lock, pc>>
  BY DEF RunCall, AnswerShown, AnswerPrompt, AnswerPending, workerVars, tickVars
<1>2. AskerHasLock' /\ WakesInv'
  BY <1>1 DEF AskerHasLock, Asked, WakesInv, Awake
<1>3. CASE RunCall
  <2> DEFINE a == Head(calls)
  <2>1. /\ calls \in Seq(Worker) /\ calls # <<>> /\ calls' = Tail(calls)
        /\ left > 0 /\ left' = left - 1
    BY <1>3 DEF TypeOK, RunCall
  <2>2. /\ a \in Worker /\ a = calls[1] /\ Len(calls) \in Nat /\ Len(calls) > 0
        /\ calls' \in Seq(Worker) /\ Len(calls') = Len(calls) - 1
        /\ \A i \in 1 .. Len(calls') : calls'[i] = calls[i + 1]
    BY <2>1, HeadTailProperties, LenProperties, EmptySeq
  <2>3. \/ a \in Asker /\ prompt' = a /\ UNCHANGED <<shown, pending, resolved>>
        \/ a \in Asker /\ shown' = a /\ UNCHANGED <<prompt, pending, resolved>>
        \/ a \in Asker /\ pending' = pending \cup {a} /\ UNCHANGED <<shown, prompt, resolved>>
        \/ resolved' = resolved \cup {a} /\ UNCHANGED <<shown, prompt, pending>>
    BY <1>3 DEF RunCall, Dispatch
  <2>4. /\ Calling(a) /\ a \notin resolved \cup pending \cup {shown, prompt}
        /\ a # None
        /\ \A i \in 1 .. Len(calls') : calls'[i] # a
    <3>1. 1 \in 1 .. Len(calls)
      BY <2>2
    <3>2. \A i \in 1 .. Len(calls') : i + 1 \in 1 .. Len(calls) /\ i + 1 # 1
      BY <2>2
    <3> QED BY <2>2, <3>1, <3>2, MainThreadAssumption DEF OnePlaceOfCall, Worker
  <2>5. Shapes'
    <3>1. left' \in 0..Cardinality(Worker)
      BY <2>1, Finite DEF TypeOK
    <3> QED BY <1>1, <2>2, <2>3, <3>1 DEF TypeOK, Shapes
  <2>6. OnePlaceOfCall'
    <3>1. \A i \in 1 .. Len(calls') : i + 1 \in 1 .. Len(calls)
      BY <2>2
    <3>2. \A i, j \in 1 .. Len(calls') : i + 1 = j + 1 => i = j
      BY <2>2
    <3>3. \A i, j \in 1 .. Len(calls') : calls'[i] = calls'[j] => i = j
      BY <2>2, <3>1, <3>2 DEF OnePlaceOfCall
    <3>4. \A i \in 1 .. Len(calls') :
              /\ Calling(calls'[i]) /\ calls'[i] # a
              /\ calls'[i] \notin resolved \cup pending \cup {shown, prompt}
      BY <2>2, <2>4, <3>1 DEF OnePlaceOfCall
    <3>5. \A v : Calling(v)' <=> Calling(v)
      BY <1>1 DEF Calling
    <3> QED BY <2>3, <2>4, <3>3, <3>4, <3>5 DEF OnePlaceOfCall
  <2> QED BY <1>2, <2>5, <2>6, BoundsNext
<1>4. CASE AnswerShown \/ AnswerPrompt \/ AnswerPending
  <2>1. UNCHANGED <<calls, left>>
    BY <1>4 DEF AnswerShown, AnswerPrompt, AnswerPending, tickVars
  <2>2. PICK a \in Asker :
          /\ resolved' = resolved \cup {a}
          /\ \/ a = shown /\ shown' = None /\ UNCHANGED <<prompt, pending>>
             \/ a = prompt /\ prompt' = None /\ UNCHANGED <<shown, pending>>
             \/ a \in pending /\ pending' = pending \ {a} /\ UNCHANGED <<shown, prompt>>
    BY <1>4 DEF TypeOK, AnswerShown, AnswerPrompt, AnswerPending
  <2>3. a # None /\ a \in Worker
    BY MainThreadAssumption DEF Worker
  <2>4. Shapes'
    <3>1. wakes \in Nat
      BY Finite, MainThreadAssumption DEF TypeOK
    <3> QED BY <1>1, <2>1, <2>2, <2>3, <3>1 DEF TypeOK, Shapes
  <2>5. OnePlaceOfCall'
    <3>1. pc' = pc
      BY <1>1
    <3>2. a \notin {calls[i] : i \in 1 .. Len(calls)} /\ Calling(a) /\ a \notin resolved
      BY <2>2, <2>3 DEF OnePlaceOfCall
    <3>6. None \notin {calls[i] : i \in 1 .. Len(calls)} \cup resolved \cup pending
      <4>1. \A i \in 1 .. Len(calls) : calls[i] \in Worker
        BY ElementOfSeq DEF TypeOK
      <4>2. None \notin Worker /\ pending \cup resolved \subseteq Worker
        BY MainThreadAssumption DEF TypeOK, Worker
      <4> QED BY <4>1, <4>2
    <3>3. CASE a = shown /\ shown' = None /\ UNCHANGED <<prompt, pending>>
      BY <2>1, <2>2, <2>3, <3>1, <3>2, <3>3, <3>6 DEF OnePlaceOfCall, Calling
    <3>4. CASE a = prompt /\ prompt' = None /\ UNCHANGED <<shown, pending>>
      BY <2>1, <2>2, <2>3, <3>1, <3>2, <3>4, <3>6 DEF OnePlaceOfCall, Calling
    <3>5. CASE a \in pending /\ pending' = pending \ {a} /\ UNCHANGED <<shown, prompt>>
      BY <2>1, <2>2, <3>1, <3>2, <3>5 DEF OnePlaceOfCall, Calling
    <3> QED BY <2>2, <3>3, <3>4, <3>5
  <2> QED BY <1>2, <2>4, <2>5, BoundsNext
<1> QED BY <1>3, <1>4

LEMMA CallsStart == Init => CallsInv
<1> SUFFICES ASSUME Init PROVE CallsInv
  OBVIOUS
<1>1. Shapes
  <2>1. 0 \in 0..Cardinality(Worker) /\ <<>> \in Seq(Worker)
    BY Finite, EmptySeq
  <2>2. pc \in [Worker -> {"idle", "lock", "append", "wake", "wait"}]
    BY DEF Init
  <2> QED BY <2>1, <2>2 DEF Init, Shapes
<1>2. OnePlaceOfCall /\ AskerHasLock
  BY DEF Init, OnePlaceOfCall, AskerHasLock, Asked, Worker
<1>3. WakesInv
  BY <1>1, Finite, MainThreadAssumption DEF Init, WakesInv, Shapes
<1> QED BY <1>1, <1>2, <1>3, Bounds DEF CallsInv

LEMMA CallsKeep == CallsInv /\ [Next]_vars => CallsInv'
<1> SUFFICES ASSUME CallsInv, [Next]_vars PROVE CallsInv'
  OBVIOUS
<1>1. CASE UNCHANGED vars
  <2>1. Surroundings' /\ wakes' \in Nat
    BY <1>1, Finite, MainThreadAssumption DEF CallsInv, TypeOK, Surroundings, vars
  <2> QED BY <1>1, <2>1, CallsUntouched DEF vars, askVars, workerVars
<1> QED BY <1>1, MainThreadCalls, WorkerCalls, CallsGoOn DEF Next, WorkerStep, Tick, User

LEMMA CallsInvariance == Spec => []CallsInv
BY CallsStart, CallsKeep, PTL DEF Spec

\* Type correctness, with it that the queue of the calls has no more than one call
\* of each worker, and the loop no more wake events than there are workers that
\* wake it (call_soon).
THEOREM MainThreadTyped == Spec => []TypeOK
<1>1. CallsInv => TypeOK
  BY DEF CallsInv
<1> QED BY CallsInvariance, <1>1, PTL

\* A question is in one place, and it stays shown until it is answered: no other
\* takes its dialog or its place above the prompt (ask() has _dispatch_lock).
QuestionsAreKept ==
    [][/\ shown # None => shown' \in {shown, None}
       /\ prompt # None => prompt' \in {prompt, None}]_vars

\* A question that is shown is not replaced by another.
THEOREM NoQuestionIsReplaced == Spec => QuestionsAreKept
<1>1. CallsInv /\ [Next]_vars =>
          [/\ shown # None => shown' \in {shown, None}
           /\ prompt # None => prompt' \in {prompt, None}]_vars
  <2> SUFFICES ASSUME CallsInv, Next
               PROVE  /\ shown # None => shown' \in {shown, None}
                      /\ prompt # None => prompt' \in {prompt, None}
    BY DEF vars
  <2>1. CASE RunCall
    <3>1. /\ calls \in Seq(Worker) /\ calls # <<>> /\ 1 \in 1 .. Len(calls)
          /\ Head(calls) = calls[1]
      BY <2>1, LenProperties, EmptySeq DEF RunCall, CallsInv, TypeOK
    <3>2. Head(calls) \in Asker => lock = Head(calls)
      BY <3>1 DEF CallsInv, OnePlaceOfCall, AskerHasLock, Calling, Asked
    <3>3. /\ shown # None => lock = shown
          /\ prompt # None => lock = prompt
      BY DEF CallsInv, TypeOK, OnePlaceOfCall, AskerHasLock, Calling, Asked
    <3> QED BY <2>1, <3>2, <3>3 DEF RunCall, Dispatch
  <2>2. CASE \E w \in Worker : Ask(w) \/ WorkerStep(w)
    BY <2>2 DEF Ask, WorkerStep, TakeLock, CallSoon, Return, askVars
  <2>3. CASE User
    BY <2>3 DEF User, AnswerShown, AnswerPrompt, AnswerPending
  <2>4. CASE \/ CellBegin \/ CellEnd \/ MakeApplication \/ HandlerBegin \/ HandlerEnd
             \/ Notice \/ Signal \/ Interrupt \/ Wake \/ WakeInTick
             \/ TickBegin \/ Pump \/ TickEnd
    BY <2>4 DEF CellBegin, CellEnd, MakeApplication, HandlerBegin, HandlerEnd, Notice,
                Signal, Interrupt, Wake, WakeInTick, TickBegin, Pump, TickEnd, askVars
  <2> QED BY <2>1, <2>2, <2>3, <2>4 DEF Next, Tick
<1> QED BY <1>1, CallsInvariance, PTL DEF Spec, QuestionsAreKept

=============================================================================
