--------------------------- MODULE RobotServerProofs ---------------------------
(* Proofs about the robot server: type correctness, at most one command in     *)
(* front, an acknowledged abort that stays, and a Busy that clients may trust, *)
(* for any number of requests and commands.                                    *)
EXTENDS RobotServer, TLAPS

-----------------------------------------------------------------------------
(* Type correctness.                                                           *)

\* What the proofs need of the constants.
LEMMA ConstantsTyped ==
    /\ None \notin Command /\ None \notin Request
    /\ \A x \in Request : x \notin Command
    /\ MaxTroubles \in Nat
  BY RobotServerAssumption

\* The bounded counter of troubles.
LEMMA Counted ==
    ASSUME TypeOK, troubles < MaxTroubles, troubles' = troubles + 1
    PROVE  troubles' \in 0..MaxTroubles
<1>1. troubles \in Nat /\ MaxTroubles \in Nat
  BY ConstantsTyped DEF TypeOK
<1> QED BY <1>1

\* The requests' own steps keep the types.
LEMMA RequestTyped ==
    ASSUME TypeOK, NEW r \in Request, RequestBegins(r) \/ RequestGoesOn(r)
    PROVE  TypeOK'
<1> USE ConstantsTyped
    DEF TypeOK, Ready, At, Goto, SetState, robotVars, commandVars, requestVars,
        recoveryVars, historyVars
<1>1. CASE SubmitBackground(r)  BY <1>1 DEF SubmitBackground
<1>2. CASE Submit(r)
  <2>1. PICK c \in Command : \/ foreground = None /\ TakesFront(r, c)
                            \/ /\ cpc' = [cpc EXCEPT ![c] = "done"]
                               /\ UNCHANGED <<fgLock, foreground, kind, rpc, target, overtook>>
    BY <1>2 DEF Submit
  <2>2. CASE TakesFront(r, c)
    BY <1>2, <2>2 DEF Submit, TakesFront
  <2>3. CASE UNCHANGED <<fgLock, foreground, kind, rpc, target, overtook>>
    BY <1>2, <2>1, <2>3 DEF Submit, TakesFront
  <2> QED BY <2>1, <2>2, <2>3
<1>3. CASE AbortRead(r)         BY <1>3 DEF AbortRead
<1>4. CASE Stop(r)              BY <1>4 DEF Stop
<1>5. CASE Restart(r)
  <2>1. troubles' \in 0..MaxTroubles
    BY <1>5, Counted DEF Restart
  <2> QED BY <1>5, <2>1 DEF Restart
<1>6. CASE SubmitBusy(r)        BY <1>6 DEF SubmitBusy
<1>7. CASE SubmitPool(r)        BY <1>7 DEF SubmitPool
<1>8. CASE AbortCancel(r)       BY <1>8 DEF AbortCancel
<1>9. CASE StopAbort(r)         BY <1>9 DEF StopAbort
<1>10. CASE StopCall(r)         BY <1>10 DEF StopCall
<1>11. CASE StopRaised(r)       BY <1>11 DEF StopRaised
<1>12. CASE RestartSetup(r)     BY <1>12 DEF RestartSetup
<1>13. CASE RestartDone(r)      BY <1>13 DEF RestartDone
<1> QED BY <1>1, <1>2, <1>3, <1>4, <1>5, <1>6, <1>7, <1>8, <1>9, <1>10, <1>11, <1>12, <1>13
        DEF RequestBegins, RequestGoesOn

\* So do the commands'.
LEMMA CommandTyped ==
    ASSUME TypeOK, NEW c \in Command, CommandStep(c) \/ RunEnd(c)
    PROVE  TypeOK'
<1> USE ConstantsTyped
    DEF TypeOK, CommandAt, Over, SetState, robotVars, commandVars, requestVars,
        recoveryVars, historyVars
<1>1. CASE RunBegin(c)    BY <1>1 DEF RunBegin
<1>2. CASE RunEnd(c)      BY <1>2 DEF RunEnd
<1>3. CASE RunRelease(c)  BY <1>3 DEF RunRelease
<1>4. CASE RunReady(c)    BY <1>4 DEF RunReady
<1>5. CASE RunDone(c)     BY <1>5 DEF RunDone
<1> QED BY <1>1, <1>2, <1>3, <1>4, <1>5 DEF CommandStep

\* And those of the controller, the poller and the recovery loop.
LEMMA RecoveryTyped ==
    ASSUME TypeOK, ControllerDrops \/ ControllerBack \/ Poll \/ RecoveryStep
    PROVE  TypeOK'
<1> USE ConstantsTyped
    DEF TypeOK, RecoveryAt, SetState, robotVars, commandVars, requestVars,
        recoveryVars, historyVars
<1>1. CASE ControllerDrops
  <2>1. troubles' \in 0..MaxTroubles
    BY <1>1, Counted DEF ControllerDrops
  <2> QED BY <1>1, <2>1 DEF ControllerDrops
<1>2. CASE ControllerBack   BY <1>2 DEF ControllerBack
<1>3. CASE Poll             BY <1>3 DEF Poll
<1>4. CASE RecoveryLook     BY <1>4 DEF RecoveryLook
<1>5. CASE RecoverySetup    BY <1>5 DEF RecoverySetup
<1>6. CASE RecoveryTest     BY <1>6 DEF RecoveryTest
<1>7. CASE RecoveryReady    BY <1>7 DEF RecoveryReady
<1> QED BY <1>1, <1>2, <1>3, <1>4, <1>5, <1>6, <1>7 DEF RecoveryStep

\* Type correctness of the robot server.
THEOREM Typed == Spec => []TypeOK
<1>1. Init => TypeOK
  <2> SUFFICES ASSUME Init PROVE TypeOK
    OBVIOUS
  <2>1. {token, reachable, offline, polling, wasOffline} \subseteq BOOLEAN
    <3>1. offline \in BOOLEAN
      <4>1. CASE state = "Fault"  BY <4>1 DEF Init
      <4>2. CASE state # "Fault"  BY <4>2 DEF Init
      <4> QED BY <4>1, <4>2
    <3>2. token \in BOOLEAN /\ reachable \in BOOLEAN /\ polling \in BOOLEAN
          /\ wasOffline \in BOOLEAN
      BY DEF Init
    <3> QED BY <3>1, <3>2
  <2>2. \A r \in Request : target[r] = None /\ rpc[r] = "idle"
    BY DEF Init
  <2>3. /\ state \in {"Ready", "Fault"} /\ {overtook, botched} \subseteq BOOLEAN
        /\ foreground = None /\ fgLock = None /\ vpc = "wait"
        /\ troubles \in 0..MaxTroubles /\ acked = {}
    <3>1. overtook = FALSE /\ botched = FALSE
      BY DEF Init
    <3>2. state \in {"Ready", "Fault"} /\ vpc = "wait" /\ troubles = 0 /\ acked = {}
      BY DEF Init
    <3>3. foreground = None /\ fgLock = None
      BY DEF Init
    <3>4. 0 \in 0..MaxTroubles
      BY ConstantsTyped
    <3> QED BY <3>1, <3>2, <3>3, <3>4
  <2>4. /\ kind \in [Command -> {"none"}] /\ cpc \in [Command -> {"none"}]
        /\ rpc \in [Request -> {"idle"}] /\ target \in [Request -> {None}]
    BY DEF Init
  <2> QED BY <2>1, <2>2, <2>3, <2>4, ConstantsTyped DEF TypeOK
<1>2. TypeOK /\ [Next]_vars => TypeOK'
  <2> SUFFICES ASSUME TypeOK, [Next]_vars PROVE TypeOK'
    OBVIOUS
  <2>1. CASE UNCHANGED vars
    BY <2>1 DEF TypeOK, vars, robotVars, commandVars, requestVars, recoveryVars, historyVars
  <2> QED BY <2>1, RequestTyped, CommandTyped, RecoveryTyped DEF Next
<1> QED BY <1>1, <1>2, PTL DEF Spec

-----------------------------------------------------------------------------
(* Who is in front, and who has the lock.                                      *)

\* From its acceptance until _run clears _foreground.
Holds(c) == cpc[c] \in {"made", "queued", "eval", "release"}

\* _foreground is the command that is in front.
FrontIsForeground == \A c \in Command : kind[c] = "front" /\ Holds(c) <=> foreground = c

KindIsKnown == \A c \in Command : Holds(c) => kind[c] \in {"front", "back"}

\* A submission that tells Busy has the lock, for the command it made.
SubmitHasLock ==
    \A r \in Request : rpc[r] \in {"busy", "pool"} =>
        fgLock = r /\ foreground = target[r] /\ target[r] \in Command /\ cpc[target[r]] = "made"

\* A command that tells Ready has the lock, and nothing is in front.
CommandHasLock ==
    \A c \in Command : cpc[c] \in {"ready", "told"} => fgLock = c /\ foreground = None

Links == FrontIsForeground /\ KindIsKnown /\ SubmitHasLock /\ CommandHasLock

\* The requests' steps keep the links.
LEMMA RequestLinks ==
    ASSUME TypeOK, Links, NEW r \in Request, RequestBegins(r) \/ RequestGoesOn(r)
    PROVE  Links'
<1> USE ConstantsTyped
    DEF Links, FrontIsForeground, KindIsKnown, SubmitHasLock, CommandHasLock, Holds, TypeOK,
        Ready, At, Goto, commandVars, requestVars
<1>1. CASE SubmitBackground(r)
  <2>1. PICK c \in Command : /\ cpc[c] = "none"
                             /\ kind' = [kind EXCEPT ![c] = "back"]
                             /\ cpc' = [cpc EXCEPT ![c] = "queued"]
    BY <1>1 DEF SubmitBackground, NextId
  <2> QED BY <1>1, <2>1 DEF SubmitBackground
<1>2. CASE Submit(r)
  <2>1. PICK c \in Command : /\ cpc[c] = "none"
                             /\ \/ foreground = None /\ TakesFront(r, c)
                                \/ /\ cpc' = [cpc EXCEPT ![c] = "done"]
                                   /\ UNCHANGED <<fgLock, foreground, kind, rpc, target>>
    BY <1>2 DEF Submit, NextId
  <2>2. fgLock = None
    BY <1>2 DEF Submit
  <2>3. CASE foreground = None /\ TakesFront(r, c)
    BY <2>1, <2>2, <2>3 DEF TakesFront
  <2>4. CASE UNCHANGED <<fgLock, foreground, kind, rpc, target>>
    BY <2>1, <2>2, <2>4 DEF TakesFront
  <2> QED BY <2>1, <2>3, <2>4
<1>3. CASE AbortRead(r)         BY <1>3 DEF AbortRead
<1>4. CASE Stop(r)              BY <1>4 DEF Stop
<1>5. CASE Restart(r)           BY <1>5 DEF Restart
<1>6. CASE SubmitBusy(r)        BY <1>6 DEF SubmitBusy
<1>7. CASE SubmitPool(r)        BY <1>7 DEF SubmitPool
<1>8. CASE AbortCancel(r)       BY <1>8 DEF AbortCancel
<1>9. CASE StopAbort(r)         BY <1>9 DEF StopAbort
<1>10. CASE StopCall(r)         BY <1>10 DEF StopCall
<1>11. CASE StopRaised(r)       BY <1>11 DEF StopRaised
<1>12. CASE RestartSetup(r)     BY <1>12 DEF RestartSetup
<1>13. CASE RestartDone(r)      BY <1>13 DEF RestartDone
<1> QED BY <1>1, <1>2, <1>3, <1>4, <1>5, <1>6, <1>7, <1>8, <1>9, <1>10, <1>11, <1>12, <1>13
        DEF RequestBegins, RequestGoesOn

\* So do the commands' steps.
LEMMA CommandLinks ==
    ASSUME TypeOK, Links, NEW c \in Command, CommandStep(c) \/ RunEnd(c)
    PROVE  Links'
<1> USE ConstantsTyped
    DEF Links, FrontIsForeground, KindIsKnown, SubmitHasLock, CommandHasLock, Holds, TypeOK,
        CommandAt, Over, requestVars
<1>1. CASE RunBegin(c)    BY <1>1 DEF RunBegin
<1>2. CASE RunEnd(c)      BY <1>2 DEF RunEnd
<1>3. CASE RunRelease(c)  BY <1>3 DEF RunRelease
<1>4. CASE RunReady(c)    BY <1>4 DEF RunReady
<1>5. CASE RunDone(c)     BY <1>5 DEF RunDone
<1> QED BY <1>1, <1>2, <1>3, <1>4, <1>5 DEF CommandStep

\* The rest of the server has no part in them.
LEMMA OtherLinks ==
    ASSUME Links, UNCHANGED <<commandVars, requestVars>>
    PROVE  Links'
  BY DEF Links, FrontIsForeground, KindIsKnown, SubmitHasLock, CommandHasLock, Holds,
         commandVars, requestVars

\* The links hold at all times.
LEMMA AlwaysLinked == Spec => []Links
<1>1. Init => Links
  BY ConstantsTyped DEF Init, Links, FrontIsForeground, KindIsKnown, SubmitHasLock,
     CommandHasLock, Holds
<1>2. TypeOK /\ Links /\ [Next]_vars => Links'
  <2> SUFFICES ASSUME TypeOK, Links, [Next]_vars PROVE Links'
    OBVIOUS
  <2>1. CASE ControllerDrops \/ ControllerBack \/ Poll \/ RecoveryStep
    <3>1. UNCHANGED <<commandVars, requestVars>>
      BY <2>1 DEF ControllerDrops, ControllerBack, Poll, RecoveryStep, RecoveryLook,
         RecoverySetup, RecoveryTest, RecoveryReady
    <3> QED BY <3>1, OtherLinks
  <2>2. CASE UNCHANGED vars
    <3>1. UNCHANGED <<commandVars, requestVars>>
      BY <2>2 DEF vars
    <3> QED BY <3>1, OtherLinks
  <2> QED BY <2>1, <2>2, RequestLinks, CommandLinks DEF Next
<1> QED BY <1>1, <1>2, Typed, PTL DEF Spec

\* At most one command at a time is in front (commands.py: _foreground is tested
\* and set under _foreground_lock, and cleared only by its own command).
THEOREM OneCommandInFront == Spec => []OneInFront
<1>1. Links => OneInFront
  BY DEF Links, FrontIsForeground, OneInFront, Running, Holds
<1> QED BY <1>1, AlwaysLinked, PTL

-----------------------------------------------------------------------------
(* The abort of a command that runs.                                           *)

\* An abort that counts is one of a command in its evaluation, and it stands.
Aborted == (\A c \in acked : c \in Command /\ cpc[c] = "eval") /\ AbortStays

\* No request clears the token, or brings a command out of its evaluation.
LEMMA RequestAborted ==
    ASSUME TypeOK, Links, Aborted, NEW r \in Request, RequestBegins(r) \/ RequestGoesOn(r)
    PROVE  Aborted'
<1> USE ConstantsTyped
    DEF Aborted, AbortStays, TypeOK, Ready, At, Goto, robotVars, commandVars, requestVars
<1>1. CASE SubmitBackground(r)  BY <1>1 DEF SubmitBackground, NextId
<1>2. CASE Submit(r)            BY <1>2 DEF Submit, NextId, TakesFront
<1>3. CASE AbortRead(r)         BY <1>3 DEF AbortRead
<1>4. CASE Stop(r)              BY <1>4 DEF Stop
<1>5. CASE Restart(r)           BY <1>5 DEF Restart
<1>6. CASE SubmitBusy(r)        BY <1>6 DEF SubmitBusy
<1>7. CASE SubmitPool(r)
  <2>1. target[r] \in Command /\ cpc[target[r]] = "made"
    BY <1>7 DEF SubmitPool, Links, SubmitHasLock
  <2> QED BY <1>7, <2>1 DEF SubmitPool
<1>8. CASE AbortCancel(r)       BY <1>8 DEF AbortCancel
<1>9. CASE StopAbort(r)         BY <1>9 DEF StopAbort
<1>10. CASE StopCall(r)         BY <1>10 DEF StopCall
<1>11. CASE StopRaised(r)       BY <1>11 DEF StopRaised
<1>12. CASE RestartSetup(r)     BY <1>12 DEF RestartSetup
<1>13. CASE RestartDone(r)      BY <1>13 DEF RestartDone
<1> QED BY <1>1, <1>2, <1>3, <1>4, <1>5, <1>6, <1>7, <1>8, <1>9, <1>10, <1>11, <1>12, <1>13
        DEF RequestBegins, RequestGoesOn

\* A command clears the token when it begins in front: then it is the command
\* in front, and no other one is evaluated there.
LEMMA CommandAborted ==
    ASSUME TypeOK, Links, Aborted, NEW c \in Command, CommandStep(c) \/ RunEnd(c)
    PROVE  Aborted'
<1> USE ConstantsTyped
    DEF Aborted, AbortStays, TypeOK, CommandAt, Over, robotVars, commandVars, requestVars
<1>1. CASE RunBegin(c)
  <2>1. \A d \in acked : d # c /\ cpc'[d] = "eval"
    BY <1>1 DEF RunBegin
  <2>2. ASSUME NEW d \in acked, kind[d] = "front" PROVE token'
    <3>1. foreground = d
      BY <2>2 DEF Links, FrontIsForeground, Holds
    <3>2. kind[c] = "back"
      BY <1>1, <2>1, <3>1 DEF RunBegin, Links, FrontIsForeground, KindIsKnown, Holds
    <3>3. token
      BY <2>2
    <3> QED BY <1>1, <3>2, <3>3, Zenon DEF RunBegin
  <2>3. UNCHANGED <<acked, kind>>
    BY <1>1 DEF RunBegin
  <2> QED BY <2>1, <2>2, <2>3
<1>2. CASE RunEnd(c)      BY <1>2 DEF RunEnd
<1>3. CASE RunRelease(c)  BY <1>3 DEF RunRelease
<1>4. CASE RunReady(c)    BY <1>4 DEF RunReady
<1>5. CASE RunDone(c)     BY <1>5 DEF RunDone
<1> QED BY <1>1, <1>2, <1>3, <1>4, <1>5 DEF CommandStep

\* The rest leaves the token and the commands alone.
LEMMA OtherAborted ==
    ASSUME Aborted, UNCHANGED <<token, kind, cpc, acked>>
    PROVE  Aborted'
  BY DEF Aborted, AbortStays

\* An acknowledged abort of the running foreground command stays in force until
\* the command is over (commands.py:166 clears the token all commands share).
THEOREM AbortsStay == Spec => []AbortStays
<1>1. Init => Aborted
  BY DEF Init, Aborted, AbortStays
<1>2. TypeOK /\ Links /\ Aborted /\ [Next]_vars => Aborted'
  <2> SUFFICES ASSUME TypeOK, Links, Aborted, [Next]_vars PROVE Aborted'
    OBVIOUS
  <2>1. CASE ControllerDrops \/ ControllerBack \/ Poll \/ RecoveryStep
    <3>1. UNCHANGED <<token, kind, cpc, acked>>
      BY <2>1 DEF ControllerDrops, ControllerBack, Poll, RecoveryStep, RecoveryLook,
         RecoverySetup, RecoveryTest, RecoveryReady, robotVars, commandVars
    <3> QED BY <3>1, OtherAborted
  <2>2. CASE UNCHANGED vars
    <3>1. UNCHANGED <<token, kind, cpc, acked>>
      BY <2>2 DEF vars, robotVars, commandVars
    <3> QED BY <3>1, OtherAborted
  <2> QED BY <2>1, <2>2, RequestAborted, CommandAborted DEF Next
<1>3. Aborted => AbortStays
  BY DEF Aborted
<1> QED BY <1>1, <1>2, <1>3, Typed, AlwaysLinked, PTL DEF Spec

-----------------------------------------------------------------------------
(* What the state tells.                                                       *)

\* A submission that has told Busy is not contradicted before it gives the lock
\* back, but by those who have no lock.
BusyStands == \A r \in Request : rpc[r] = "pool" /\ ~overtook => state # "Ready"

\* A command that has told Ready is not contradicted at all.
ReadyStands == \A c \in Command : cpc[c] = "told" => state # "Busy"

Told == BusyStands /\ ReadyStands /\ BusyIsTold

\* Requests: Busy is said with the lock, Ready and Fault by restart() without it.
LEMMA RequestTold ==
    ASSUME TypeOK, Links, Told, NEW r \in Request, RequestBegins(r) \/ RequestGoesOn(r)
    PROVE  Told'
<1> USE ConstantsTyped
    DEF Told, BusyStands, ReadyStands, BusyIsTold, Links, SubmitHasLock, CommandHasLock,
        TypeOK, Ready, At, Goto, SetState, robotVars, commandVars, requestVars, historyVars
<1>1. CASE SubmitBackground(r)  BY <1>1 DEF SubmitBackground, NextId
<1>2. CASE Submit(r)
  <2>1. PICK c \in Command : /\ cpc[c] = "none"
                             /\ \/ TakesFront(r, c)
                                \/ /\ cpc' = [cpc EXCEPT ![c] = "done"]
                                   /\ UNCHANGED <<fgLock, foreground, rpc, target, overtook>>
    BY <1>2 DEF Submit, NextId
  <2>2. fgLock = None /\ UNCHANGED state
    BY <1>2 DEF Submit
  <2>3. CASE TakesFront(r, c)
    BY <2>1, <2>2, <2>3 DEF TakesFront
  <2>4. CASE UNCHANGED <<fgLock, foreground, rpc, target, overtook>>
    BY <2>1, <2>2, <2>4, <1>2 DEF Submit, TakesFront
  <2> QED BY <2>1, <2>3, <2>4
<1>3. CASE AbortRead(r)         BY <1>3 DEF AbortRead
<1>4. CASE Stop(r)              BY <1>4 DEF Stop
<1>5. CASE Restart(r)           BY <1>5 DEF Restart
<1>6. CASE SubmitBusy(r)        BY <1>6 DEF SubmitBusy
<1>7. CASE SubmitPool(r)        BY <1>7 DEF SubmitPool
<1>8. CASE AbortCancel(r)       BY <1>8 DEF AbortCancel
<1>9. CASE StopAbort(r)         BY <1>9 DEF StopAbort
<1>10. CASE StopCall(r)         BY <1>10 DEF StopCall
<1>11. CASE StopRaised(r)       BY <1>11 DEF StopRaised
<1>12. CASE RestartSetup(r)     BY <1>12 DEF RestartSetup
<1>13. CASE RestartDone(r)      BY <1>13 DEF RestartDone
<1> QED BY <1>1, <1>2, <1>3, <1>4, <1>5, <1>6, <1>7, <1>8, <1>9, <1>10, <1>11, <1>12, <1>13
        DEF RequestBegins, RequestGoesOn

\* Commands: Ready is said with the lock, when nothing is in front.
LEMMA CommandTold ==
    ASSUME TypeOK, Links, Told, NEW c \in Command, CommandStep(c) \/ RunEnd(c)
    PROVE  Told'
<1> USE ConstantsTyped
    DEF Told, BusyStands, ReadyStands, BusyIsTold, Links, SubmitHasLock, CommandHasLock,
        TypeOK, CommandAt, Over, SetState, robotVars, requestVars, historyVars
<1>1. CASE RunBegin(c)    BY <1>1 DEF RunBegin
<1>2. CASE RunEnd(c)      BY <1>2 DEF RunEnd
<1>3. CASE RunRelease(c)  BY <1>3 DEF RunRelease
<1>4. CASE RunReady(c)    BY <1>4 DEF RunReady
<1>5. CASE RunDone(c)     BY <1>5 DEF RunDone
<1> QED BY <1>1, <1>2, <1>3, <1>4, <1>5 DEF CommandStep

\* The recovery loop: Fault contradicts nothing, and a Ready under a command is
\* on record.
LEMMA RecoveryTold ==
    ASSUME Links, Told, ControllerDrops \/ ControllerBack \/ Poll \/ RecoveryStep
    PROVE  Told'
<1> USE DEF Told, BusyStands, ReadyStands, BusyIsTold, SetState, robotVars, commandVars,
            requestVars, historyVars
<1>1. CASE ControllerDrops  BY <1>1 DEF ControllerDrops
<1>2. CASE ControllerBack   BY <1>2 DEF ControllerBack
<1>3. CASE Poll             BY <1>3 DEF Poll
<1>4. CASE RecoveryLook     BY <1>4 DEF RecoveryLook
<1>5. CASE RecoverySetup    BY <1>5 DEF RecoverySetup
<1>6. CASE RecoveryTest     BY <1>6 DEF RecoveryTest
<1>7. CASE RecoveryReady
  <2>1. state' = "Ready" /\ UNCHANGED <<fgLock, foreground, cpc, rpc>>
    BY <1>7 DEF RecoveryReady
  <2>2. foreground # None \/ overtook => overtook'
    BY <1>7 DEF RecoveryReady
  <2>3. \A r \in Request : rpc[r] = "pool" => foreground # None
    BY ConstantsTyped DEF Links, SubmitHasLock
  <2> QED BY <2>1, <2>2, <2>3
<1> QED BY <1>1, <1>2, <1>3, <1>4, <1>5, <1>6, <1>7 DEF RecoveryStep

\* With _foreground_lock free, Busy means that a command is in front, and a
\* command in front means that the state is not Ready, but for those who say
\* Ready without the lock (app.py: the recovery loop and restart()).
THEOREM BusyCanBeTrusted == Spec => []BusyIsTold
<1>1. Init => Told
  BY DEF Init, Told, BusyStands, ReadyStands, BusyIsTold
<1>2. TypeOK /\ Links /\ Told /\ [Next]_vars => Told'
  <2> SUFFICES ASSUME TypeOK, Links, Told, [Next]_vars PROVE Told'
    OBVIOUS
  <2>1. CASE UNCHANGED vars
    BY <2>1 DEF vars, Told, BusyStands, ReadyStands, BusyIsTold, commandVars, requestVars,
       historyVars
  <2> QED BY <2>1, RequestTold, CommandTold, RecoveryTold DEF Next
<1>3. Told => BusyIsTold
  BY DEF Told
<1> QED BY <1>1, <1>2, <1>3, Typed, AlwaysLinked, PTL DEF Spec

=============================================================================
