---------------------------- MODULE StatusStoreProofs ----------------------------
(* Proofs about the namespace store: type correctness, a ready store serves     *)
(* what exists, and stop_recording() returns what was recorded, for any number  *)
(* of clients, recordings and rebuilds.                                          *)
EXTENDS StatusStore, TLAPS

-----------------------------------------------------------------------------
(* The parts of the inductive invariant.                                       *)

\* Every rebuild counts one generation and tears down once, at most.
Counted ==
    /\ generation + (IF wpc \in {"none", "ready", "failed"} THEN 0 ELSE 1) <= asked + 1
    /\ objects + (IF wpc \in {"stop", "halt", "swap", "teardown"} THEN 1 ELSE 0) <= asked + 1

\* A client that is attaching or stopping a recording has _recordings_lock.
Locked == \A c \in Client : cpc[c] \in {"attach", "halt", "swap"} => recLock = c

\* What the worker and a ready store know of the namespace.
Looked ==
    /\ wpc \notin {"none", "import", "failed"} => namespace
    /\ wpc \in {"finish", "ready"} => built = objects
    /\ state = "READY" => namespace /\ built = objects

\* A client that is about to attach, and was not overtaken by a rebuild, will
\* attach to the objects there are; from stop_all_recordings() to the teardown
\* all others are overtaken.
Attaching ==
    /\ \A c \in Client \ overtaken :
         /\ cpc[c] \in {"lock", "attach"} => built = objects
         /\ cpc[c] = "attach" => attached[about[c]] = objects
    /\ wpc \in {"halt", "swap", "teardown"} =>
         \A c \in Client : cpc[c] \in {"lock", "attach"} => c \in overtaken

\* Recordings go on with the objects there are; none goes on when the objects
\* are torn down.
Running ==
    /\ \A r \in Rec \ late : st[r] = "running" => attached[r] = objects
    /\ wpc \in {"halt", "swap"} => \A r \in Rec \ late : st[r] = "running" => r \in toStop
    /\ wpc = "teardown" => \A r \in Rec \ late : st[r] # "running"

\* A recording that has not been stopped has its buffers, and whoever is about
\* to take them from a client was the worker.
Booked ==
    /\ \A r \in Rec : st[r] \in {"none", "running"} => taker[r] = "none"
    /\ \A c \in Client :
         /\ cpc[c] # "idle" => about[c] \in Rec
         /\ cpc[c] = "attach" => st[about[c]] = "none"
         /\ cpc[c] = "halt" => st[about[c]] # "none"
         /\ cpc[c] = "swap" => st[about[c]] \notin {"none", "running"}
         /\ cpc[c] \in {"halt", "swap"} => taker[about[c]] # "client"
    /\ \A r \in toStop : st[r] # "none"
    /\ wpc = "swap" => stopping \in Rec /\ st[stopping] \notin {"none", "running"}

IInv == TypeOK /\ Counted /\ Locked /\ Looked /\ Attaching /\ Running /\ Booked /\ StopGivesData

-----------------------------------------------------------------------------
(* Type correctness.                                                           *)

\* The steps of the clients keep the types and the count.
LEMMA ClientTyped ==
    ASSUME IInv, NEW c \in Client,
           StartCheck(c) \/ StopTake(c) \/ Drop(c) \/ StartReinit(c) \/ ClientGoesOn(c)
    PROVE  TypeOK' /\ Counted'
<1> USE StatusStoreAssumption
    DEF IInv, TypeOK, Counted, Booked, Goto, BusyStates, storeVars, workerVars, clientVars, recVars
<1>1. CASE StartCheck(c)   BY <1>1 DEF StartCheck
<1>2. CASE StopTake(c)     BY <1>2 DEF StopTake
<1>3. CASE Drop(c)         BY <1>3 DEF Drop
<1>4. CASE StartReinit(c)  BY <1>4 DEF StartReinit
<1>5. CASE StartAttach(c)  BY <1>5 DEF StartAttach
<1>6. CASE StartDone(c)    BY <1>6 DEF StartDone
<1>7. CASE StopHalt(c)     BY <1>7 DEF StopHalt, Halts
<1>8. CASE StopSwap(c)     BY <1>8 DEF StopSwap, Swaps
<1> QED BY <1>1, <1>2, <1>3, <1>4, <1>5, <1>6, <1>7, <1>8 DEF ClientGoesOn

\* After a teardown there is a namespace or there is none.
LEMMA TornDown ==
    ASSUME namespace \in BOOLEAN, Teardown
    PROVE  namespace' \in BOOLEAN
<1>1. CASE namespace' = TRUE
  BY <1>1
<1>2. CASE UNCHANGED namespace
  BY <1>2
<1>3. CASE namespace' = (wmode # "reimport" \/ objects' # objects)
  <2> DEFINE kept == wmode # "reimport" \/ objects' # objects
  <2>1. CASE kept
    BY <1>3, <2>1
  <2>2. CASE ~kept
    BY <1>3, <2>2
  <2> QED BY <2>1, <2>2
<1> QED BY <1>1, <1>2, <1>3 DEF Teardown

\* So do those of the worker.
LEMMA WorkerTyped ==
    ASSUME IInv, WorkerStep
    PROVE  TypeOK' /\ Counted'
<1> USE StatusStoreAssumption
    DEF IInv, TypeOK, Counted, Booked, BusyStates, WorkerGoto, Ends, Raises, clientRest,
        storeVars, workerVars, clientVars, recVars
<1>1. CASE Import
  <2>1. namespace' \in BOOLEAN
    BY <1>1 DEF Import
  <2> QED BY <1>1, <2>1 DEF Import
<1>2. CASE StopAll        BY <1>2 DEF StopAll
<1>3. CASE StopAllHalt    BY <1>3 DEF StopAllHalt, Halts
<1>4. CASE StopAllSwap    BY <1>4 DEF StopAllSwap, Swaps
<1>5. CASE Teardown
  <2>1. namespace' \in BOOLEAN
    BY <1>5, TornDown
  <2>2. objects' \in {objects, objects + 1} /\ objects' \in 1..(MaxReinits + 1)
    BY <1>5 DEF Teardown
  <2>3. attached \in [Rec -> 0..objects']
    BY <2>2
  <2>4. state' \in BusyStates \cup {"FAILED"} /\ wpc' \in {"init", "none", "failed"}
        /\ (state' = "FAILED" => wpc' = "none")
        /\ wpc = "teardown"
        /\ UNCHANGED <<generation, built, wmode, toStop, stopping, clientRest>>
    BY <1>5 DEF Teardown
  <2>5. TypeOK'
    BY <2>1, <2>2, <2>3, <2>4
  <2>6. objects + 1 <= asked + 1 /\ generation + 1 <= asked + 1
    BY <2>4
  <2>7. objects \in Nat /\ generation \in Nat /\ asked \in Nat
        /\ objects' \in {objects, objects + 1} /\ asked' = asked /\ generation' = generation
        /\ wpc' \notin {"stop", "halt", "swap", "teardown"}
    BY <2>2, <2>4
  <2>8. generation' + 0 <= asked' + 1 /\ generation' + 1 <= asked' + 1 /\ objects' + 0 <= asked' + 1
    <3>1. CASE objects' = objects
      BY ONLY <2>6, <2>7, <3>1
    <3>2. CASE objects' = objects + 1
      BY ONLY <2>6, <2>7, <3>2
    <3> QED BY <2>7, <3>1, <3>2
  <2>9. Counted'
    <3>1. CASE wpc' = "init"
      BY ONLY <2>8, <3>1 DEF Counted
    <3>2. CASE wpc' \in {"none", "failed"}
      BY ONLY <2>8, <3>2 DEF Counted
    <3> QED BY <2>4, <3>1, <3>2
  <2> HIDE DEF TypeOK, Counted
  <2> QED BY <2>5, <2>9
<1>6. CASE InitNamespace  BY <1>6 DEF InitNamespace
<1>7. CASE BuildMonitors  BY <1>7 DEF BuildMonitors
<1>8. CASE Finish         BY <1>8 DEF Finish
<1>9. CASE FinishReady    BY <1>9 DEF FinishReady
<1>10. CASE ReinitFailed  BY <1>10 DEF ReinitFailed
<1> QED BY <1>1, <1>2, <1>3, <1>4, <1>5, <1>6, <1>7, <1>8, <1>9, <1>10 DEF WorkerStep

-----------------------------------------------------------------------------
(* The namespace and the recordings.                                           *)

\* The steps of the clients keep what is known of the objects.
LEMMA ClientCurrent ==
    ASSUME IInv, NEW c \in Client,
           StartCheck(c) \/ StopTake(c) \/ Drop(c) \/ StartReinit(c) \/ ClientGoesOn(c)
    PROVE  Locked' /\ Looked' /\ Attaching' /\ Running'
<1> USE StatusStoreAssumption
    DEF IInv, TypeOK, Locked, Looked, Attaching, Running, Booked, Goto, BusyStates,
        storeVars, workerVars, clientVars, recVars
<1>1. CASE StartCheck(c)   BY <1>1 DEF StartCheck
<1>2. CASE StopTake(c)     BY <1>2 DEF StopTake
<1>3. CASE Drop(c)         BY <1>3 DEF Drop
<1>4. CASE StartReinit(c)  BY <1>4 DEF StartReinit
<1>5. CASE StartAttach(c)  BY <1>5 DEF StartAttach
<1>6. CASE StartDone(c)    BY <1>6 DEF StartDone
<1>7. CASE StopHalt(c)     BY <1>7 DEF StopHalt, Halts
<1>8. CASE StopSwap(c)     BY <1>8 DEF StopSwap, Swaps
<1> QED BY <1>1, <1>2, <1>3, <1>4, <1>5, <1>6, <1>7, <1>8 DEF ClientGoesOn

\* So do those of the worker.
LEMMA WorkerCurrent ==
    ASSUME IInv, WorkerStep
    PROVE  Locked' /\ Looked' /\ Attaching' /\ Running'
<1> USE StatusStoreAssumption
    DEF IInv, TypeOK, Locked, Looked, Attaching, Running, Booked, BusyStates, WorkerGoto,
        Ends, Raises, clientRest, storeVars, workerVars, clientVars, recVars
<1>1. CASE Import         BY <1>1 DEF Import
<1>2. CASE StopAll        BY <1>2 DEF StopAll
<1>3. CASE StopAllHalt    BY <1>3 DEF StopAllHalt, Halts
<1>4. CASE StopAllSwap    BY <1>4 DEF StopAllSwap, Swaps
<1>5. CASE Teardown       BY <1>5 DEF Teardown
<1>6. CASE InitNamespace  BY <1>6 DEF InitNamespace
<1>7. CASE BuildMonitors  BY <1>7 DEF BuildMonitors
<1>8. CASE Finish         BY <1>8 DEF Finish
<1>9. CASE FinishReady    BY <1>9 DEF FinishReady
<1>10. CASE ReinitFailed  BY <1>10 DEF ReinitFailed
<1> QED BY <1>1, <1>2, <1>3, <1>4, <1>5, <1>6, <1>7, <1>8, <1>9, <1>10 DEF WorkerStep

-----------------------------------------------------------------------------
(* The buffers.                                                                *)

\* The steps of the clients keep the books.
LEMMA ClientBooked ==
    ASSUME IInv, NEW c \in Client,
           StartCheck(c) \/ StopTake(c) \/ Drop(c) \/ StartReinit(c) \/ ClientGoesOn(c)
    PROVE  Booked' /\ StopGivesData'
<1> USE StatusStoreAssumption
    DEF IInv, TypeOK, Locked, Booked, StopGivesData, Goto,
        storeVars, workerVars, clientVars, recVars
<1>1. CASE StartCheck(c)   BY <1>1 DEF StartCheck
<1>2. CASE StopTake(c)     BY <1>2 DEF StopTake
<1>3. CASE Drop(c)         BY <1>3 DEF Drop
<1>4. CASE StartReinit(c)  BY <1>4 DEF StartReinit
<1>5. CASE StartAttach(c)  BY <1>5 DEF StartAttach
<1>6. CASE StartDone(c)    BY <1>6 DEF StartDone
<1>7. CASE StopHalt(c)     BY <1>7 DEF StopHalt, Halts
<1>8. CASE StopSwap(c)     BY <1>8 DEF StopSwap, Swaps
<1> QED BY <1>1, <1>2, <1>3, <1>4, <1>5, <1>6, <1>7, <1>8 DEF ClientGoesOn

\* So do those of the worker.
LEMMA WorkerBooked ==
    ASSUME IInv, WorkerStep
    PROVE  Booked' /\ StopGivesData'
<1> USE StatusStoreAssumption
    DEF IInv, TypeOK, Booked, StopGivesData, WorkerGoto, Ends, Raises, clientRest,
        storeVars, workerVars, clientVars, recVars
<1>1. CASE Import         BY <1>1 DEF Import
<1>2. CASE StopAll        BY <1>2 DEF StopAll
<1>3. CASE StopAllHalt    BY <1>3 DEF StopAllHalt, Halts
<1>4. CASE StopAllSwap    BY <1>4 DEF StopAllSwap, Swaps
<1>5. CASE Teardown \/ InitNamespace \/ BuildMonitors
  BY <1>5 DEF Teardown, InitNamespace, BuildMonitors
<1>6. CASE Finish \/ FinishReady \/ ReinitFailed
  BY <1>6 DEF Finish, FinishReady, ReinitFailed
<1> QED BY <1>1, <1>2, <1>3, <1>4, <1>5, <1>6 DEF WorkerStep

-----------------------------------------------------------------------------

\* The invariant holds to begin with, and every step keeps it.
THEOREM Invariance == Spec => []IInv
<1>1. ASSUME Init PROVE IInv
  <2> USE <1>1, StatusStoreAssumption DEF Init
  <2>1. namespace \in BOOLEAN /\ ~namespace
    OBVIOUS
  <2>2. TypeOK
    <3>1. 1 \in 1..(MaxReinits + 1) /\ objects \in 1..(MaxReinits + 1) /\ built \in 0..objects
          /\ generation \in 0..(MaxReinits + 1) /\ asked \in 0..MaxReinits
      OBVIOUS
    <3>2. attached \in [Rec -> 0..objects]
      OBVIOUS
    <3> QED BY <2>1, <3>1, <3>2 DEF TypeOK, BusyStates
  <2>3. Counted
    BY DEF Counted
  <2>4. Locked /\ Attaching
    BY DEF Locked, Attaching
  <2>5. Looked
    BY DEF Looked
  <2>6. Running /\ Booked /\ StopGivesData
    BY DEF Running, Booked, StopGivesData
  <2> QED BY <2>2, <2>3, <2>4, <2>5, <2>6 DEF IInv
<1>2. IInv /\ [Next]_vars => IInv'
  <2>1. ASSUME IInv, WorkerStep PROVE IInv'
    BY <2>1, WorkerTyped, WorkerCurrent, WorkerBooked DEF IInv
  <2>2. ASSUME IInv, NEW c \in Client,
               StartCheck(c) \/ StopTake(c) \/ Drop(c) \/ StartReinit(c) \/ ClientGoesOn(c)
        PROVE  IInv'
    BY <2>2, ClientTyped, ClientCurrent, ClientBooked DEF IInv
  <2>3. ASSUME IInv, UNCHANGED vars PROVE IInv'
    BY <2>3 DEF IInv, TypeOK, Counted, Locked, Looked, Attaching, Running, Booked,
                StopGivesData, vars, storeVars, workerVars, clientVars, recVars
  <2> QED BY <2>1, <2>2, <2>3 DEF Next
<1> QED BY <1>1, <1>2, PTL DEF Spec

\* Type correctness of the namespace store.
THEOREM Typed == Spec => []TypeOK
<1>1. IInv => TypeOK
  BY DEF IInv
<1> QED BY Invariance, <1>1, PTL

\* A store that is ready serves the objects there are, and its recordings are
\* attached to them (_build_monitors, _finish_build, stop_all_recordings), but
\* for those that were started by clients a rebuild had overtaken.
THEOREM ReadyStoreIsCurrent == Spec => []ReadyIsCurrent
<1>1. IInv => ReadyIsCurrent
  BY DEF IInv, Looked, Running, ReadyIsCurrent
<1> QED BY Invariance, <1>1, PTL

\* stop_recording() returns what was recorded, unless a rebuild took it.
THEOREM StopsGiveData == Spec => []StopGivesData
<1>1. IInv => StopGivesData
  BY DEF IInv
<1> QED BY Invariance, <1>1, PTL

=============================================================================
