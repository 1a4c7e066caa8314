----------------------------- MODULE StepScanProofs -----------------------------
(* Proofs about StepScan for every number of values, points, followers, bad     *)
(* steps and runs, whatever fails and whatever the operators call.              *)
EXTENDS StepScan, SequenceTheorems, WellFoundedInduction, TLAPS

-----------------------------------------------------------------------------
(* The inductive invariant.                                                    *)

\* The value was taken off its list and its pulses were not, yet.
Popping == pc = "popPulses"

\* What the records say was measured.
Values(records) == [i \in DOMAIN records |-> records[i].value]

\* A list of the places of a grid, in their order: each value is its own place.
OnGrid(list) == \A i \in DOMAIN list : list[i] = i

\* The lists go together: the pulses have one more while a step is popped, the
\* place of every value is on the grid, and the grid fits into the budget.
Lengths ==
    /\ Len(pulses) = IF Popping THEN Len(todo) + 1 ELSE Len(todo)
    /\ Len(done) = IF Popping THEN nextStep + 1 ELSE nextStep
    /\ Len(done) + Len(todo) <= Len(indexPlan)
    /\ Len(indexPlan) <= MaxPoints

\* A step that is under way has its value.
StepHasValue ==
    pc \in {"move", "start", "acquire", "stop", "record", "endStep", "popValue", "drop"}
        => todo # << >>

Grids == OnGrid(indexPlan) /\ OnGrid(planned) /\ OnGrid(saved.grid)

\* A scan that may grow has all that was ever planned on its grid; only one that
\* was resumed can be inexact.
Growing ==
    /\ ~exhausted => earlier = << >> /\ indexPlan = planned
    /\ earlier = << >> => exact

PulsesInStep == exact => todo = IF Popping THEN Tail(pulses) ELSE pulses

\* The file has what was left when it was begun: as long as nothing more was
\* measured it is what is left now, except while the last step is counted, when
\* points may have been added.  Its pulses are those of now or were taken while
\* a step was popped; then there is one too many.
FileIsCurrent ==
    /\ Len(saved.done) <= Len(done)
    /\ saved.state # "none" => Len(saved.values) <= Len(indexPlan)
    /\ saved.state = "file" => Len(saved.values) <= Len(saved.grid)
                               /\ Len(saved.grid) <= MaxPoints
    /\ saved.state # "none" /\ saved.done = done /\ pc # "popValue" =>
          /\ saved.values = todo
          /\ saved.state = "file" =>
                saved.pulses = pulses \/ Len(saved.pulses) = Len(saved.values) + 1

\* The records are those of the counted steps, and of the one that is counted
\* next, unless an end-step callback raised.
RecordsMatch ==
    "end_step" \notin failed =>
        Values(info) = IF pc \in {"endStep", "popValue", "drop"}
                       THEN Append(done, Head(todo)) ELSE done

RecordsOnGrid == earlier = << >> => \A i \in DOMAIN info : info[i].grid = info[i].value

\* The followers that are up, and the windows they have closed.
FollowersInStep ==
    "follower" \notin failed =>
        /\ pc \notin {"start", "acquire", "stop"} => up = {}
        /\ pc = "acquire" => up = Follower

\* Nobody has failed and no step was bad.
Smooth == failed = {} /\ bad = 0

WindowsMatch ==
    /\ Smooth => \A f \in Follower :
          windows[f] = IF pc = "record" \/ (pc = "stop" /\ f \notin up)
                       THEN Append(Values(info), Head(todo)) ELSE Values(info)
    /\ raising => failed # {} /\ pc = "stop"
    /\ pc = "drop" => bad # 0
    /\ ~started => info = << >> /\ pc = "idle"

IInv ==
    /\ TypeOK /\ Lengths /\ StepHasValue /\ Grids /\ Growing /\ NothingLost
    /\ PulsesInStep /\ FileIsCurrent /\ RecordsMatch /\ RecordsOnGrid
    /\ FollowersInStep /\ WindowsMatch

-----------------------------------------------------------------------------
(* Lists.                                                                      *)

\* Moving the first of one list to the end of another changes nothing of both.
LEMMA MoveOver ==
    ASSUME NEW S, NEW s \in Seq(S), NEW t \in Seq(S), t # << >>
    PROVE  Append(s, Head(t)) \o Tail(t) = s \o t
<1>1. Len(t) \in Nat /\ Len(t) > 0 /\ Head(t) \in S /\ Tail(t) \in Seq(S)
  BY EmptySeq, LenProperties, HeadTailProperties
<1>2. <<Head(t)>> \in Seq(S) /\ Len(<<Head(t)>>) = 1 /\ <<Head(t)>>[1] = Head(t)
  BY <1>1
<1>3. <<Head(t)>> \o Tail(t) = t
  <2>1. /\ <<Head(t)>> \o Tail(t) \in Seq(S) /\ Len(<<Head(t)>> \o Tail(t)) = Len(t)
        /\ \A i \in 1 .. Len(t) : (<<Head(t)>> \o Tail(t))[i]
              = IF i <= 1 THEN <<Head(t)>>[i] ELSE Tail(t)[i - 1]
    BY <1>1, <1>2, HeadTailProperties, ConcatProperties
  <2>2. \A i \in 1 .. Len(t) : (<<Head(t)>> \o Tail(t))[i] = t[i]
    BY <1>1, <1>2, <2>1, HeadTailProperties
  <2> QED BY <2>1, <2>2, SeqEqual
<1>4. Append(s, Head(t)) = s \o <<Head(t)>>
  BY <1>1, AppendIsConcat
<1>5. (s \o <<Head(t)>>) \o Tail(t) = s \o (<<Head(t)>> \o Tail(t))
  BY <1>1, <1>2, ConcatAssociative
<1> QED
  BY <1>3, <1>4, <1>5

\* What a list of records says is a list of values.
LEMMA ValuesType ==
    ASSUME NEW r \in Seq(Entry)
    PROVE  /\ Values(r) \in Seq(Value)
           /\ Len(Values(r)) = Len(r)
           /\ \A i \in 1 .. Len(r) : Values(r)[i] = r[i].value /\ r[i].value \in Value
<1>1. Len(r) \in Nat /\ DOMAIN r = 1 .. Len(r)
  BY LenProperties
<1>2. ASSUME NEW i \in 1 .. Len(r) PROVE r[i].value \in Value
  <2>1. r[i] \in Entry
    BY ElementOfSeq
  <2> QED BY <2>1 DEF Entry
<1>3. Values(r) = [i \in 1 .. Len(r) |-> r[i].value]
  BY <1>1 DEF Values
<1> QED
  BY <1>1, <1>2, <1>3

\* One more record says one more value.
LEMMA ValuesAppend ==
    ASSUME NEW r \in Seq(Entry), NEW e \in Entry
    PROVE  Append(r, e) \in Seq(Entry) /\ Values(Append(r, e)) = Append(Values(r), e.value)
<1> DEFINE q == Append(r, e)
           v == Append(Values(r), e.value)
<1>1. /\ q \in Seq(Entry) /\ Len(q) = Len(r) + 1 /\ q[Len(r) + 1] = e
      /\ \A i \in 1 .. Len(r) : q[i] = r[i]
  BY AppendProperties
<1>2. e.value \in Value /\ Len(r) \in Nat
  BY LenProperties DEF Entry
<1>3. Values(r) \in Seq(Value) /\ Len(Values(r)) = Len(r)
      /\ \A i \in 1 .. Len(r) : Values(r)[i] = r[i].value
  BY ValuesType
<1>4. /\ v \in Seq(Value) /\ Len(v) = Len(r) + 1 /\ v[Len(r) + 1] = e.value
      /\ \A i \in 1 .. Len(r) : v[i] = r[i].value
  BY <1>2, <1>3, AppendProperties
<1> HIDE DEF q, v
<1>5. Values(q) \in Seq(Value) /\ Len(Values(q)) = Len(r) + 1
      /\ \A i \in 1 .. Len(r) + 1 : Values(q)[i] = q[i].value
  BY <1>1, ValuesType
<1>6. ASSUME NEW i \in 1 .. Len(r) + 1 PROVE Values(q)[i] = v[i]
  <2>1. CASE i = Len(r) + 1
    BY <1>1, <1>2, <1>4, <1>5, <2>1
  <2>2. CASE i \in 1 .. Len(r)
    BY <1>1, <1>4, <1>5, <2>2
  <2> QED BY <1>2, <2>1, <2>2
<1>7. Values(q) = v
  BY <1>4, <1>5, <1>6, SeqEqual
<1> QED
  BY <1>1, <1>7 DEF q, v

\* Taking back the last record leaves what was said before it.
LEMMA ValuesFront ==
    ASSUME NEW r \in Seq(Entry)
    PROVE  /\ Front(r) \in Seq(Entry)
           /\ \A i \in DOMAIN Front(r) : i \in DOMAIN r /\ Front(r)[i] = r[i]
           /\ \A s \in Seq(Value), v \in Value :
                 Values(r) = Append(s, v) => Values(Front(r)) = s
<1> DEFINE n == Len(r) - 1
<1>1. Len(r) \in Nat /\ DOMAIN r = 1 .. Len(r)
  BY LenProperties
<1>2. /\ Front(r) \in Seq(Entry)
      /\ Len(Front(r)) = IF 1 <= n THEN n ELSE 0
      /\ \A i \in 1 .. n : Front(r)[i] = r[i]
  <2>1. \A i \in 1 .. n : r[i] \in Entry
    BY <1>1, ElementOfSeq
  <2>2. /\ SubSeq(r, 1, n) \in Seq(Entry)
        /\ Len(SubSeq(r, 1, n)) = IF 1 <= n THEN n - 1 + 1 ELSE 0
        /\ \A i \in 1 .. n - 1 + 1 : SubSeq(r, 1, n)[i] = r[1 + i - 1]
    BY <1>1, <2>1, SubSeqProperties
  <2> QED BY <1>1, <2>2 DEF Front
<1>3. DOMAIN Front(r) = 1 .. n
  <2>1. DOMAIN Front(r) = 1 .. Len(Front(r))
    BY <1>2, LenProperties
  <2>2. CASE 1 <= n
    BY <1>1, <1>2, <2>1, <2>2
  <2>3. CASE ~(1 <= n)
    <3>1. Len(Front(r)) = 0 /\ 1 .. 0 = {} /\ 1 .. n = {}
      BY <1>1, <1>2, <2>3
    <3> QED BY <2>1, <3>1
  <2> QED BY <2>2, <2>3
<1>4. ASSUME NEW s \in Seq(Value), NEW v \in Value, Values(r) = Append(s, v)
      PROVE  Values(Front(r)) = s
  <2>1. Len(Values(r)) = Len(r) /\ \A i \in 1 .. Len(r) : Values(r)[i] = r[i].value
    BY ValuesType
  <2>2. Len(Append(s, v)) = Len(s) + 1 /\ \A i \in 1 .. Len(s) : Append(s, v)[i] = s[i]
    BY AppendProperties
  <2>3. Len(s) \in Nat /\ Len(s) = n
    <3>1. Len(s) \in Nat
      BY LenProperties
    <3>2. Len(r) = Len(s) + 1
      BY <1>4, <2>1, <2>2
    <3> QED BY <1>1, <3>1, <3>2
  <2>4. Values(Front(r)) \in Seq(Value) /\ Len(Values(Front(r))) = Len(Front(r))
        /\ \A i \in 1 .. Len(Front(r)) : Values(Front(r))[i] = Front(r)[i].value
    BY <1>2, ValuesType
  <2>5. Len(Front(r)) = n
    BY <1>2, <2>3
  <2>6. ASSUME NEW i \in 1 .. n PROVE Values(Front(r))[i] = s[i]
    <3>1. s[i] = r[i].value
      <4>1. i \in 1 .. Len(r) /\ i \in 1 .. Len(s)
        BY <1>1, <2>3
      <4> QED BY <1>4, <2>1, <2>2, <4>1
    <3> QED BY <1>2, <2>4, <2>5, <3>1
  <2> QED BY <2>3, <2>4, <2>5, <2>6, SeqEqual
<1>5. ASSUME NEW i \in DOMAIN Front(r) PROVE i \in DOMAIN r /\ Front(r)[i] = r[i]
  <2>1. i \in 1 .. n
    BY <1>3
  <2>2. Front(r)[i] = r[i]
    BY <1>2, <2>1
  <2>3. i \in 1 .. Len(r)
    BY <1>1, <2>1
  <2> QED BY <1>1, <2>2, <2>3
<1>6. \A i \in DOMAIN Front(r) : i \in DOMAIN r /\ Front(r)[i] = r[i]
  BY <1>5
<1>7. \A s \in Seq(Value), v \in Value : Values(r) = Append(s, v) => Values(Front(r)) = s
  BY <1>4
<1>8. Front(r) \in Seq(Entry)
  BY <1>2
<1> QED
  BY <1>6, <1>7, <1>8

\* The points that are added.
Points(n, k) == [i \in 1 .. k |-> n + i]

\* A list of values with added points is one, and a grid stays a grid.
LEMMA AddPoints ==
    ASSUME NEW list \in Seq(Value), NEW n \in Nat, NEW k \in Nat, n + k <= MaxPoints
    PROVE  /\ Points(n, k) \in Seq(Value)
           /\ list \o Points(n, k) \in Seq(Value)
           /\ Len(list \o Points(n, k)) = Len(list) + k
           /\ list # << >> => list \o Points(n, k) # << >>
                              /\ Head(list \o Points(n, k)) = Head(list)
           /\ OnGrid(list) /\ n = Len(list) => OnGrid(list \o Points(n, k))
<1> USE StepScanAssumption
<1>1. Points(n, k) \in Seq(Value) /\ Len(Points(n, k)) = k
      /\ \A i \in 1 .. k : Points(n, k)[i] = n + i
  <2>1. \A i \in 1 .. k : n + i \in Value
    BY DEF Value
  <2> QED BY <2>1 DEF Points
<1>2. /\ list \o Points(n, k) \in Seq(Value)
      /\ Len(list \o Points(n, k)) = Len(list) + k
      /\ Len(list) \in Nat /\ DOMAIN list = 1 .. Len(list)
      /\ \A i \in 1 .. Len(list) + k : (list \o Points(n, k))[i] =
                IF i <= Len(list) THEN list[i] ELSE Points(n, k)[i - Len(list)]
  <2>1. /\ list \o Points(n, k) \in Seq(Value)
        /\ Len(list \o Points(n, k)) = Len(list) + Len(Points(n, k))
        /\ \A i \in 1 .. Len(list) + Len(Points(n, k)) : (list \o Points(n, k))[i] =
                IF i <= Len(list) THEN list[i] ELSE Points(n, k)[i - Len(list)]
    BY <1>1, ConcatProperties
  <2> QED BY <1>1, <2>1, LenProperties
<1>3. ASSUME list # << >>
      PROVE  list \o Points(n, k) # << >> /\ Head(list \o Points(n, k)) = Head(list)
  <2>1. Len(list) > 0
    BY <1>3, EmptySeq
  <2> QED BY <1>2, <2>1
<1>4. ASSUME OnGrid(list), n = Len(list) PROVE OnGrid(list \o Points(n, k))
  <2>1. DOMAIN (list \o Points(n, k)) = 1 .. n + k
    BY <1>2, <1>4, LenProperties
  <2> SUFFICES ASSUME NEW i \in 1 .. n + k PROVE (list \o Points(n, k))[i] = i
    BY <2>1 DEF OnGrid
  <2>2. CASE i <= n
    BY <1>2, <1>4, <2>2 DEF OnGrid
  <2>3. CASE i > n
    BY <1>1, <1>2, <1>4, <2>3
  <2>4. i <= n \/ i > n
    OBVIOUS
  <2> QED BY <2>2, <2>3, <2>4
<1> QED
  BY <1>1, <1>2, <1>3, <1>4

\* The first of a set of followers is one of them.
Less == {p \in Nat \X Nat : p[1] < p[2]}

LEMMA FirstOfIsOne == ASSUME NEW S \in SUBSET Follower, S # {} PROVE FirstOf(S) \in S
<1>1. S \subseteq Nat
  BY StepScanAssumption DEF Follower
<1>2. IsWellFoundedOn(Less, Nat)
  BY NatLessThanWellFounded DEF OpToRel, Less
<1>3. PICK f \in S : \A g \in S : <<g, f>> \notin Less
  BY <1>1, <1>2, WFMin
<1>4. ASSUME NEW g \in S PROVE f <= g
  <2>1. f \in Nat /\ g \in Nat /\ <<g, f>> \in Nat \X Nat
    BY <1>1
  <2>2. <<g, f>>[1] = g /\ <<g, f>>[2] = f
    OBVIOUS
  <2>3. ~(g < f)
    BY <1>3, <2>1, <2>2 DEF Less
  <2> QED BY <2>1, <2>3
<1> QED
  BY <1>4 DEF FirstOf

-----------------------------------------------------------------------------
(* The steps that leave the lists alone.                                       *)

\* Where the lists and the records are being changed.
Counting == {"endStep", "popValue", "popPulses", "drop"}

\* What the invariant says of the lists, the records and the file.
ListsOK ==
    /\ Lengths /\ Grids /\ Growing /\ NothingLost /\ PulsesInStep
    /\ FileIsCurrent /\ RecordsMatch /\ RecordsOnGrid

\* A step outside of that part leaves it true.
LEMMA ListsUntouched ==
    ASSUME IInv, UNCHANGED <<stepVars, saveVars>>, pc \notin Counting, pc' \notin Counting,
           failed \subseteq failed'
    PROVE  ListsOK'
<1> USE DEF IInv, stepVars, saveVars, Counting
<1>1. Lengths' /\ Grids' /\ Growing' /\ NothingLost' /\ PulsesInStep'
  BY DEF Lengths, Grids, OnGrid, Growing, NothingLost, PulsesInStep, Popping
<1>2. FileIsCurrent'
  BY DEF FileIsCurrent
<1>3. RecordsMatch' /\ RecordsOnGrid'
  BY DEF RecordsMatch, RecordsOnGrid, Values
<1> QED BY <1>1, <1>2, <1>3 DEF ListsOK

\* The steps of the scan's thread before and after it counts a step, first those
\* that leave the followers alone.
LEMMA OwnSteps ==
    ASSUME IInv, ScanAll \/ Checkpoint \/ StartStep \/ Move \/ EndScan
    PROVE  IInv'
<1> USE StepScanAssumption DEF Goto, Raises, Fails, stepVars, saveVars, counterVars, flagVars
<1>1. /\ UNCHANGED <<stepVars, saveVars, up, bad, raising>>
      /\ pc \notin Counting \cup {"record", "stop", "start", "acquire"}
      /\ pc' \notin Counting \cup {"record", "stop", "acquire"}
      /\ failed \subseteq failed'
  BY DEF ScanAll, Checkpoint, StartStep, Move, EndScan, Counting, runVars
<1>2. ListsOK'
  BY <1>1, ListsUntouched
<1>3. StepHasValue'
  BY DEF IInv, StepHasValue, ScanAll, Checkpoint, StartStep, Move, EndScan
<1>4. TypeOK'
  <2> USE DEF IInv, TypeOK, PCs, AllFailures, runVars
  <2>1. CASE ScanAll
    <3>1. runs' \in 0 .. MaxRuns
      BY <2>1 DEF ScanAll
    <3>2. windows' \in [Follower -> Seq(Value)]
      <4>1. [f \in Follower |-> << >>] \in [Follower -> Seq(Value)]
        OBVIOUS
      <4> QED BY <2>1, <4>1 DEF ScanAll
    <3> QED BY <2>1, <3>1, <3>2 DEF ScanAll
  <2>2. CASE Checkpoint \/ StartStep \/ Move
    BY <2>2 DEF Checkpoint, StartStep, Move
  <2>3. CASE EndScan
    BY <2>3 DEF EndScan
  <2> QED BY <2>1, <2>2, <2>3
<1>5. FollowersInStep'
  BY <1>1 DEF IInv, FollowersInStep
<1>6. WindowsMatch'
  <2>1. UNCHANGED <<info, up, bad>> /\ Values(info)' = Values(info)
    BY <1>1 DEF Values
  <2>2. CASE ScanAll
    <3>1. ASSUME ~started, NEW f \in Follower PROVE << >> = Values(info)
      BY <3>1 DEF IInv, WindowsMatch, Values
    <3> QED BY <1>1, <2>1, <2>2, <3>1 DEF IInv, WindowsMatch, Smooth, ScanAll, Counting
  <2>3. CASE ~ScanAll
    <3>1. UNCHANGED <<windows, started>> /\ started
      BY <2>3 DEF IInv, WindowsMatch, Checkpoint, StartStep, Move, EndScan, runVars
    <3> QED BY <1>1, <2>1, <3>1 DEF IInv, WindowsMatch, Smooth, Counting
  <2> QED BY <2>2, <2>3
<1> QED BY <1>2, <1>3, <1>4, <1>5, <1>6 DEF IInv, ListsOK

\* The acquisition, and the followers around it.
LEMMA AcquisitionSteps ==
    ASSUME IInv, StartFollower \/ Acquire \/ StopFollower
    PROVE  IInv'
<1> USE StepScanAssumption DEF Goto, Raises, Fails, stepVars, saveVars, counterVars, flagVars
<1>1. /\ UNCHANGED <<stepVars, saveVars, bad, runVars>>
      /\ pc \in {"start", "acquire", "stop"}
      /\ pc' \in {"start", "acquire", "stop", "record", "end"}
      /\ failed \subseteq failed'
  BY DEF StartFollower, Acquire, StopFollower
<1>2. ListsOK'
  BY <1>1, ListsUntouched DEF Counting
<1>3. StepHasValue'
  BY <1>1 DEF IInv, StepHasValue
<1>4. \A S \in SUBSET Follower : S # {} => FirstOf(S) \in S
  BY FirstOfIsOne
<1>5. todo \in Seq(Value) /\ todo # << >> /\ Head(todo) \in Value
  BY <1>1, HeadTailProperties DEF IInv, TypeOK, StepHasValue
<1>6. TypeOK'
  <2> USE DEF IInv, TypeOK, PCs, AllFailures, runVars
  <2>1. CASE StartFollower
    <3>1. up' \subseteq Follower
      <4>1. Follower \ up \in SUBSET Follower /\ (up # Follower => Follower \ up # {})
        OBVIOUS
      <4>2. up # Follower => FirstOf(Follower \ up) \in Follower
        BY <1>4, <4>1
      <4> QED BY <2>1, <4>2 DEF StartFollower
    <3> QED BY <2>1, <3>1 DEF StartFollower
  <2>2. CASE Acquire
    BY <2>2 DEF Acquire
  <2>3. CASE StopFollower
    <3>1. up' \subseteq Follower
      BY <2>3 DEF StopFollower
    <3>2. windows' \in [Follower -> Seq(Value)]
      <4>1. up # {} => FirstOf(up) \in Follower
        BY <1>4
      <4>2. \A f \in Follower : Append(windows[f], Head(todo)) \in Seq(Value)
        BY <1>5, AppendProperties
      <4>3. CASE up # {} /\ windows' # windows
        <5>1. windows' = [windows EXCEPT ![FirstOf(up)] = Append(windows[FirstOf(up)], Head(todo))]
          BY <2>3, <4>3 DEF StopFollower
        <5> QED BY <4>1, <4>2, <4>3, <5>1
      <4>4. CASE windows' = windows
        BY <4>4
      <4> QED BY <2>3, <4>3, <4>4 DEF StopFollower
    <3> QED BY <2>3, <3>1, <3>2 DEF StopFollower
  <2> QED BY <2>1, <2>2, <2>3
<1>7. FollowersInStep'
  BY DEF IInv, FollowersInStep, StartFollower, Acquire, StopFollower
<1>8. WindowsMatch'
  <2> USE DEF IInv, WindowsMatch, Smooth
  <2>1. Values(info)' = Values(info) /\ todo' = todo /\ info' = info
    BY <1>1 DEF Values
  <2>2. CASE StartFollower
    BY <1>1, <2>1, <2>2 DEF StartFollower, runVars
  <2>3. CASE Acquire
    \* All are up when it begins to stop them.
    <3>1. failed = {} => up = Follower
      BY <2>3 DEF FollowersInStep, Acquire
    <3> QED BY <1>1, <2>1, <2>3, <3>1 DEF Acquire, runVars
  <2>4. CASE StopFollower
    <3>1. CASE up = {}
      <4>1. pc = "stop" /\ windows' = windows /\ up' = {} /\ raising' = FALSE /\ failed' = failed
            /\ pc' = IF raising THEN "end" ELSE "record"
        BY <2>4, <3>1 DEF StopFollower
      <4>2. Smooth' => Smooth /\ pc' = "record"
        BY <1>1, <4>1
      <4>3. Smooth' => \A f \in Follower : windows'[f] = Append(Values(info), Head(todo))
        BY <3>1, <4>1, <4>2
      <4> QED BY <1>1, <2>1, <4>1, <4>2, <4>3 DEF runVars
    <3>2. CASE up # {}
      <4>1. FirstOf(up) \in up /\ FirstOf(up) \in Follower
        BY <1>4, <3>2 DEF TypeOK
      <4>2. CASE pc' = "stop"
        <5>1. /\ pc = "stop" /\ failed' = failed /\ raising' = raising /\ up' = up \ {FirstOf(up)}
              /\ windows' = [windows EXCEPT ![FirstOf(up)] =
                                 Append(windows[FirstOf(up)], Head(todo))]
          BY <2>4, <3>2, <4>2 DEF StopFollower
        <5>2. ASSUME Smooth', NEW f \in Follower
              PROVE  windows'[f] = IF f \in up' THEN Values(info)
                                   ELSE Append(Values(info), Head(todo))
          <6>1. windows[f] = IF f \in up THEN Values(info)
                             ELSE Append(Values(info), Head(todo))
            BY <1>1, <5>1, <5>2
          <6> QED BY <4>1, <5>1, <6>1 DEF TypeOK
        <5> QED BY <1>1, <2>1, <4>2, <5>1, <5>2 DEF runVars
      <4>3. CASE pc' # "stop"
        <5>1. pc' = "end" /\ failed' # {} /\ raising' = FALSE
          BY <2>4, <3>2, <4>3 DEF StopFollower
        <5> QED BY <1>1, <5>1 DEF runVars
      <4> QED BY <4>2, <4>3
    <3> QED BY <3>1, <3>2
  <2> QED BY <2>2, <2>3, <2>4
<1> QED BY <1>2, <1>3, <1>6, <1>7, <1>8 DEF IInv, ListsOK

-----------------------------------------------------------------------------
(* A step is recorded and counted, or not.                                     *)

\* The value that is measured is the next one of the plan.
LEMMA NextOfPlan ==
    ASSUME IInv, earlier = << >>, todo # << >>
    PROVE  Head(todo) = Len(done) + 1
<1>1. /\ todo \in Seq(Value) /\ done \in Seq(Value) /\ planned \in Seq(Value)
      /\ Len(todo) \in Nat /\ Len(todo) > 0 /\ Len(done) \in Nat
  BY EmptySeq, LenProperties DEF IInv, TypeOK
<1>2. done \o todo = planned
  <2>1. (<< >> \o done) \o todo = planned
    BY DEF IInv, Growing, NothingLost
  <2> QED BY <1>1, <2>1, ConcatEmptySeq
<1>3. /\ Len(done \o todo) = Len(done) + Len(todo)
      /\ \A i \in 1 .. Len(done) + Len(todo) :
            (done \o todo)[i] = IF i <= Len(done) THEN done[i] ELSE todo[i - Len(done)]
  BY <1>1, ConcatProperties
<1>4. Len(done) + 1 \in 1 .. Len(done) + Len(todo)
      /\ ~(Len(done) + 1 <= Len(done)) /\ Len(done) + 1 - Len(done) = 1
  BY <1>1
<1>5. planned[Len(done) + 1] = todo[1]
  BY <1>2, <1>3, <1>4
<1>6. DOMAIN planned = 1 .. Len(done) + Len(todo)
  BY <1>1, <1>2, <1>3, LenProperties
<1>7. planned[Len(done) + 1] = Len(done) + 1
  BY <1>4, <1>6 DEF IInv, Grids, OnGrid
<1>8. Head(todo) = todo[1]
  BY <1>1
<1> QED BY <1>5, <1>7, <1>8

\* The step is recorded at its place on the grid.
LEMMA RecordInv == ASSUME IInv, Record PROVE IInv'
<1> USE StepScanAssumption DEF Goto, counterVars, flagVars, saveVars, runVars
<1> DEFINE e == [value |-> Head(todo), grid |-> indexPlan[nextStep + 1]]
<1>1. /\ pc = "record" /\ pc' = "endStep" /\ info' = Append(info, e)
      /\ UNCHANGED <<todo, pulses, done, nextStep, indexPlan, exhausted, planned, ok,
                     counterVars, flagVars, raising, runVars, bad, saveVars, failed>>
  BY DEF Record
<1>2. /\ todo \in Seq(Value) /\ todo # << >> /\ Head(todo) \in Value
      /\ Len(todo) \in Nat /\ Len(todo) > 0 /\ nextStep \in Nat /\ nextStep = Len(done)
      /\ indexPlan \in Seq(Value) /\ info \in Seq(Entry)
  BY <1>1, HeadTailProperties, LenProperties, EmptySeq
     DEF IInv, TypeOK, StepHasValue, Lengths, Popping
<1>3. nextStep + 1 \in 1 .. Len(indexPlan) /\ DOMAIN indexPlan = 1 .. Len(indexPlan)
  BY <1>2, LenProperties DEF IInv, Lengths
<1>4. indexPlan[nextStep + 1] = nextStep + 1 /\ indexPlan[nextStep + 1] \in Value
  BY <1>2, <1>3, ElementOfSeq DEF IInv, Grids, OnGrid
<1>5. e \in Entry /\ e.value = Head(todo) /\ e.grid = nextStep + 1
  BY <1>2, <1>4 DEF Entry
<1> HIDE DEF e
<1>6. info' \in Seq(Entry) /\ Values(info') = Append(Values(info), Head(todo))
  BY <1>1, <1>2, <1>5, ValuesAppend
<1>7. TypeOK'
  BY <1>1, <1>6 DEF IInv, TypeOK, PCs
<1>8. Lengths' /\ StepHasValue' /\ Grids' /\ Growing' /\ NothingLost' /\ PulsesInStep'
  BY <1>1, <1>2 DEF IInv, Lengths, StepHasValue, Grids, OnGrid, Growing, NothingLost,
                    PulsesInStep, Popping
<1>9. FileIsCurrent'
  BY <1>1 DEF IInv, FileIsCurrent
<1>10. RecordsMatch'
  <2>1. "end_step" \notin failed => Values(info) = done
    BY <1>1 DEF IInv, RecordsMatch
  <2> QED BY <1>1, <1>6, <2>1 DEF RecordsMatch, Values
<1>11. RecordsOnGrid'
  <2> SUFFICES ASSUME earlier = << >>, NEW i \in DOMAIN info'
               PROVE  info'[i].grid = info'[i].value
    BY <1>1 DEF RecordsOnGrid
  <2>1. /\ Len(info) \in Nat /\ DOMAIN info = 1 .. Len(info) /\ DOMAIN info' = 1 .. Len(info) + 1
        /\ info'[Len(info) + 1] = e /\ \A j \in 1 .. Len(info) : info'[j] = info[j]
    BY <1>1, <1>2, <1>5, <1>6, AppendProperties, LenProperties
  <2>2. CASE i = Len(info) + 1
    BY <1>2, <1>5, <2>1, <2>2, NextOfPlan
  <2>3. CASE i \in 1 .. Len(info)
    BY <2>1, <2>3 DEF IInv, RecordsOnGrid
  <2> QED BY <2>1, <2>2, <2>3
<1>12. FollowersInStep'
  BY <1>1 DEF IInv, FollowersInStep
<1>13. WindowsMatch'
  <2>1. Smooth => \A f \in Follower : windows[f] = Append(Values(info), Head(todo))
    BY <1>1 DEF IInv, WindowsMatch
  <2>2. started /\ ~raising
    BY <1>1 DEF IInv, WindowsMatch, TypeOK
  <2>3. Smooth' => \A f \in Follower : windows'[f] = Values(info')
    BY <1>1, <1>6, <2>1 DEF Smooth
  <2> QED BY <1>1, <2>2, <2>3 DEF WindowsMatch, Values
<1> QED BY <1>7, <1>8, <1>9, <1>10, <1>11, <1>12, <1>13 DEF IInv

\* The end-step callbacks: points may be added to a scan that may grow.
LEMMA EndStepInv == ASSUME IInv, EndStep PROVE IInv'
<1> USE StepScanAssumption DEF Goto, Raises, Fails, counterVars, flagVars, saveVars, runVars
<1>1. /\ pc = "endStep" /\ pc' \in {"popValue", "drop", "end"}
      /\ UNCHANGED <<done, nextStep, info, counterVars, flagVars, raising, runVars, saveVars>>
      /\ failed \subseteq failed' /\ bad' \in 0 .. MaxBad
      /\ pc' = "end" => "end_step" \in failed'
      /\ pc' = "drop" => bad' # 0
      /\ bad = 0 \/ bad' # 0
      /\ ok' \in BOOLEAN /\ failed' \subseteq AllFailures
  <2>1. pc = "endStep" /\ pc' \in {"popValue", "drop", "end"}
        /\ UNCHANGED <<done, nextStep, info, counterVars, flagVars, raising, runVars, saveVars>>
    BY DEF EndStep
  <2>2. failed \subseteq failed' /\ failed' \subseteq AllFailures
        /\ (pc' = "end" => "end_step" \in failed') /\ ok' \in BOOLEAN
    BY DEF EndStep, IInv, TypeOK, AllFailures
  <2>3. bad' \in 0 .. MaxBad /\ (pc' = "drop" => bad' # 0) /\ (bad = 0 \/ bad' # 0)
    BY DEF EndStep, IInv, TypeOK
  <2> QED BY <2>1, <2>2, <2>3
<1>2. /\ todo \in Seq(Value) /\ todo # << >> /\ Len(todo) \in Nat
      /\ pulses \in Seq(Value) /\ done \in Seq(Value) /\ Len(done) \in Nat /\ nextStep = Len(done)
      /\ indexPlan \in Seq(Value) /\ planned \in Seq(Value) /\ earlier \in Seq(Value)
      /\ Len(planned) \in Nat /\ Len(indexPlan) \in Nat
  BY <1>1, LenProperties DEF IInv, TypeOK, StepHasValue, Lengths, Popping
<1>3. started /\ ~raising
  BY <1>1 DEF IInv, WindowsMatch, TypeOK
\* What does not depend on whether points were added.
<1>4. FollowersInStep' /\ WindowsMatch' /\ RecordsOnGrid'
  <2>1. FollowersInStep' /\ RecordsOnGrid'
    BY <1>1 DEF IInv, FollowersInStep, RecordsOnGrid
  <2>2. Smooth => \A f \in Follower : windows[f] = Values(info)
    BY <1>1 DEF IInv, WindowsMatch
  <2>3. Smooth' => Smooth
    BY <1>1 DEF Smooth, IInv, TypeOK
  <2> QED BY <1>1, <1>3, <2>1, <2>2, <2>3 DEF WindowsMatch, Values
<1>5. CASE UNCHANGED <<todo, pulses, indexPlan, exhausted, planned>>
  <2>1. TypeOK'
    BY <1>1, <1>5 DEF IInv, TypeOK, PCs
  <2>2. Lengths' /\ StepHasValue' /\ Grids' /\ Growing' /\ NothingLost' /\ PulsesInStep'
    BY <1>1, <1>2, <1>5 DEF IInv, Lengths, StepHasValue, Grids, OnGrid, Growing, NothingLost,
                      PulsesInStep, Popping
  <2>3. FileIsCurrent'
    BY <1>1, <1>5 DEF IInv, FileIsCurrent
  <2>4. RecordsMatch'
    BY <1>1, <1>5 DEF IInv, RecordsMatch, Values
  <2> QED BY <1>4, <2>1, <2>2, <2>3, <2>4 DEF IInv
<1>6. CASE ~exhausted /\ Refill /\ pc' = "popValue"
  <2>1. earlier = << >> /\ exact /\ indexPlan = planned /\ todo = pulses
    BY <1>1, <1>6 DEF IInv, Growing, PulsesInStep, Popping
  <2>2. done \o todo = planned /\ Len(planned) = nextStep + Len(todo)
    <3>1. (<< >> \o done) \o todo = planned
      BY <2>1 DEF IInv, NothingLost
    <3>2. Len(done \o todo) = Len(done) + Len(todo)
      BY <1>2, ConcatProperties
    <3> QED BY <1>2, <3>1, <3>2, ConcatEmptySeq
  <2>3. PICK k \in Nat : /\ Len(planned) + k <= MaxPoints
                         /\ exhausted' = (k = 0)
                         /\ todo' = todo \o Points(Len(planned), k)
                         /\ pulses' = pulses \o Points(Len(planned), k)
                         /\ indexPlan' = indexPlan \o Points(Len(planned), k)
                         /\ planned' = planned \o Points(Len(planned), k)
    <3>1. PICK k \in 0 .. (IF Batch < Remaining THEN Batch ELSE Remaining) :
                         /\ exhausted' = (k = 0)
                         /\ todo' = todo \o Points(Len(planned), k)
                         /\ pulses' = pulses \o Points(Len(planned), k)
                         /\ indexPlan' = indexPlan \o Points(Len(planned), k)
                         /\ planned' = planned \o Points(Len(planned), k)
      BY <1>6 DEF Refill, Points
    <3>2. Len(planned) <= MaxPoints
      BY <2>1 DEF IInv, Lengths
    <3>3. k \in Nat /\ Len(planned) + k <= MaxPoints
      BY <1>2, <2>2, <3>2 DEF Remaining
    <3> QED BY <3>1, <3>3
  <2> DEFINE new == Points(Len(planned), k)
  <2>4. new \in Seq(Value) /\ exhausted' \in BOOLEAN
    BY <1>2, <2>3, AddPoints
  <2>5. /\ todo' \in Seq(Value) /\ Len(todo') = Len(todo) + k
        /\ todo' # << >> /\ Head(todo') = Head(todo)
    <3>1. /\ todo \o Points(Len(planned), k) \in Seq(Value)
          /\ Len(todo \o Points(Len(planned), k)) = Len(todo) + k
          /\ todo # << >> => todo \o Points(Len(planned), k) # << >>
                             /\ Head(todo \o Points(Len(planned), k)) = Head(todo)
      BY <1>2, <2>3, AddPoints
    <3> QED BY <1>2, <2>3, <3>1
  <2>6. pulses' = todo'
    BY <2>1, <2>3
  <2>7. /\ planned' \in Seq(Value) /\ Len(planned') = Len(planned) + k
        /\ OnGrid(planned') /\ indexPlan' = planned'
    BY <1>2, <2>1, <2>3, AddPoints DEF IInv, Grids
  <2> HIDE DEF new
  <2>8. TypeOK'
    BY <1>1, <1>6, <2>4, <2>5, <2>6, <2>7 DEF IInv, TypeOK, PCs
  <2>9. Lengths'
    BY <1>1, <1>2, <2>1, <2>2, <2>3, <2>5, <2>6, <2>7 DEF Lengths, Popping
  <2>10. StepHasValue' /\ PulsesInStep'
    BY <1>6, <2>5, <2>6 DEF StepHasValue, PulsesInStep, Popping
  <2>11. Grids' /\ Growing'
    BY <1>1, <2>1, <2>7 DEF IInv, Grids, OnGrid, Growing
  <2>12. NothingLost'
    <3>1. (earlier \o done) \o todo' = planned'
      <4>1. earlier \o done = done
        BY <1>2, <2>1, ConcatEmptySeq
      <4>2. (done \o todo) \o new = done \o (todo \o new)
        <5>1. done \in Seq(Value) /\ todo \in Seq(Value) /\ new \in Seq(Value)
          BY <1>2, <2>4
        <5> QED BY <5>1, ConcatAssociative
      <4>3. planned' = (done \o todo) \o new /\ todo' = todo \o new
        BY <2>2, <2>3 DEF new
      <4> QED BY <4>1, <4>2, <4>3
    <3> QED BY <1>1, <3>1 DEF NothingLost
  <2>13. FileIsCurrent'
    <3>1. Len(indexPlan) <= Len(indexPlan')
      BY <1>2, <2>1, <2>3, <2>7
    <3>2. Len(saved.values) \in Nat
      BY LenProperties DEF IInv, TypeOK
    <3> QED BY <1>1, <1>2, <1>6, <2>7, <3>1, <3>2 DEF IInv, FileIsCurrent
  <2>14. RecordsMatch'
    BY <1>1, <1>6, <2>5 DEF IInv, RecordsMatch, Values
  <2> QED BY <1>4, <2>8, <2>9, <2>10, <2>11, <2>12, <2>13, <2>14 DEF IInv
<1> QED BY <1>5, <1>6 DEF EndStep, AdaptiveStepEnd

\* The record of a bad step is taken back.
LEMMA DropRecordInv == ASSUME IInv, DropRecord PROVE IInv'
<1> USE StepScanAssumption DEF Goto, counterVars, flagVars, saveVars, runVars
<1>1. /\ pc = "drop" /\ pc' = "check" /\ info' = Front(info)
      /\ UNCHANGED <<todo, pulses, done, nextStep, indexPlan, exhausted, planned, ok,
                     counterVars, flagVars, raising, runVars, bad, saveVars, failed>>
  BY DEF DropRecord
<1>2. /\ info \in Seq(Entry) /\ todo \in Seq(Value) /\ todo # << >> /\ Head(todo) \in Value
      /\ done \in Seq(Value)
  BY <1>1, HeadTailProperties DEF IInv, TypeOK, StepHasValue
<1>3. info' \in Seq(Entry)
  BY <1>1, <1>2, ValuesFront
<1>4. TypeOK'
  BY <1>1, <1>3 DEF IInv, TypeOK, PCs
<1>5. Lengths' /\ StepHasValue' /\ Grids' /\ Growing' /\ NothingLost' /\ PulsesInStep'
  BY <1>1 DEF IInv, Lengths, StepHasValue, Grids, OnGrid, Growing, NothingLost,
              PulsesInStep, Popping
<1>6. FileIsCurrent'
  BY <1>1 DEF IInv, FileIsCurrent
<1>7. RecordsMatch'
  <2>1. "end_step" \notin failed => Values(info) = Append(done, Head(todo))
    BY <1>1 DEF IInv, RecordsMatch
  <2>2. "end_step" \notin failed => Values(info') = done
    BY <1>1, <1>2, <2>1, ValuesFront
  <2> QED BY <1>1, <2>2 DEF RecordsMatch, Values
<1>8. RecordsOnGrid'
  <2>1. \A i \in DOMAIN info' : i \in DOMAIN info /\ info'[i] = info[i]
    BY <1>1, <1>2, ValuesFront
  <2> QED BY <1>1, <2>1 DEF IInv, RecordsOnGrid
<1>9. FollowersInStep' /\ WindowsMatch'
  BY <1>1 DEF IInv, FollowersInStep, WindowsMatch, Smooth
<1> QED BY <1>4, <1>5, <1>6, <1>7, <1>8, <1>9 DEF IInv

\* The value of a counted step goes from one list to the other.
LEMMA PopValueInv == ASSUME IInv, PopValue PROVE IInv'
<1> USE StepScanAssumption DEF Goto, counterVars, flagVars, saveVars, runVars
<1>1. /\ pc = "popValue" /\ pc' = "popPulses"
      /\ done' = Append(done, Head(todo)) /\ todo' = Tail(todo)
      /\ UNCHANGED <<pulses, nextStep, indexPlan, info, exhausted, planned, ok,
                     counterVars, flagVars, raising, runVars, bad, saveVars, failed>>
  BY DEF PopValue
<1>2. /\ todo \in Seq(Value) /\ todo # << >> /\ Len(todo) \in Nat
      /\ done \in Seq(Value) /\ Len(done) \in Nat /\ earlier \in Seq(Value)
  BY <1>1, LenProperties DEF IInv, TypeOK, StepHasValue
<1>3. /\ Head(todo) \in Value /\ todo' \in Seq(Value) /\ Len(todo') = Len(todo) - 1
      /\ done' \in Seq(Value) /\ Len(done') = Len(done) + 1
  BY <1>1, <1>2, HeadTailProperties, AppendProperties
<1>4. TypeOK'
  BY <1>1, <1>3 DEF IInv, TypeOK, PCs
<1>5. Lengths' /\ StepHasValue' /\ Grids' /\ Growing' /\ PulsesInStep'
  BY <1>1, <1>2, <1>3 DEF IInv, Lengths, StepHasValue, Grids, OnGrid, Growing,
              PulsesInStep, Popping
<1>6. NothingLost'
  <2>1. (earlier \o done') \o todo' = (earlier \o done) \o todo
    <3>1. done' \o todo' = done \o todo
      BY <1>1, <1>2, MoveOver
    <3>2. (earlier \o done') \o todo' = earlier \o (done' \o todo')
      <4>1. earlier \in Seq(Value) /\ done' \in Seq(Value) /\ todo' \in Seq(Value)
        BY <1>2, <1>3
      <4> QED BY <4>1, ConcatAssociative
    <3>3. (earlier \o done) \o todo = earlier \o (done \o todo)
      BY <1>2, ConcatAssociative
    <3> QED BY <3>1, <3>2, <3>3
  <2> QED BY <1>1, <2>1 DEF IInv, NothingLost
<1>7. FileIsCurrent'
  <2>1. Len(saved.done) \in Nat /\ Len(saved.done) <= Len(done)
    BY LenProperties DEF IInv, TypeOK, FileIsCurrent
  <2>2. saved.done # done'
    BY <1>2, <1>3, <2>1
  <2> QED BY <1>1, <1>2, <1>3, <2>1, <2>2 DEF IInv, FileIsCurrent
<1>8. RecordsMatch' /\ RecordsOnGrid'
  BY <1>1 DEF IInv, RecordsMatch, RecordsOnGrid, Values
<1>9. FollowersInStep'
  BY <1>1 DEF IInv, FollowersInStep
<1>10. WindowsMatch'
  BY <1>1 DEF IInv, WindowsMatch, Smooth, Values
<1> QED BY <1>4, <1>5, <1>6, <1>7, <1>8, <1>9, <1>10 DEF IInv

\* ... and then its pulses go, and it counts.
LEMMA PopPulsesInv == ASSUME IInv, PopPulses PROVE IInv'
<1> USE StepScanAssumption DEF Goto, counterVars, flagVars, saveVars, runVars
<1>1. /\ pc = "popPulses" /\ pc' = "check"
      /\ pulses' = Tail(pulses) /\ nextStep' = nextStep + 1
      /\ UNCHANGED <<todo, done, indexPlan, info, exhausted, planned, ok,
                     counterVars, flagVars, raising, runVars, bad, saveVars, failed>>
  BY DEF PopPulses
<1>2. /\ todo \in Seq(Value) /\ Len(todo) \in Nat /\ pulses \in Seq(Value)
      /\ Len(pulses) = Len(todo) + 1 /\ Len(done) \in Nat /\ Len(done) = nextStep + 1
      /\ Len(indexPlan) \in Nat
  BY <1>1, LenProperties DEF IInv, TypeOK, Lengths, Popping
<1>3. pulses # << >>
  BY <1>2, EmptySeq
<1>4. pulses' \in Seq(Value) /\ Len(pulses') = Len(todo) /\ nextStep' \in 0 .. MaxPoints
  BY <1>1, <1>2, <1>3, HeadTailProperties DEF IInv, TypeOK, Lengths
<1>5. TypeOK'
  BY <1>1, <1>4 DEF IInv, TypeOK, PCs
<1>6. Lengths' /\ StepHasValue' /\ Grids' /\ Growing' /\ NothingLost' /\ PulsesInStep'
  BY <1>1, <1>2, <1>4 DEF IInv, Lengths, StepHasValue, Grids, OnGrid, Growing, NothingLost,
              PulsesInStep, Popping
<1>7. FileIsCurrent'
  <2>1. ASSUME saved.state # "none", saved.done = done
        PROVE  /\ saved.values = todo
               /\ saved.state = "file" => Len(saved.pulses) = Len(saved.values) + 1
    BY <1>1, <1>2, <2>1 DEF IInv, FileIsCurrent
  <2> QED BY <1>1, <2>1 DEF IInv, FileIsCurrent
<1>8. RecordsMatch' /\ RecordsOnGrid'
  BY <1>1 DEF IInv, RecordsMatch, RecordsOnGrid, Values
<1>9. FollowersInStep'
  BY <1>1 DEF IInv, FollowersInStep
<1>10. WindowsMatch'
  BY <1>1 DEF IInv, WindowsMatch, Smooth, Values
<1> QED BY <1>5, <1>6, <1>7, <1>8, <1>9, <1>10 DEF IInv

-----------------------------------------------------------------------------
(* The operators.                                                              *)

\* What the operators do beside the scan: they set its flags and write its file.
LEMMA OperatorInv ==
    ASSUME IInv, Pause \/ Resume \/ RequestStop \/ SaveValues \/ SavePulses
    PROVE  IInv'
<1> USE StepScanAssumption DEF stepVars, counterVars, threadVars, saveVars, runVars
<1>1. UNCHANGED <<stepVars, ok, counterVars, threadVars, runVars, bad, earlier, exact>>
  BY DEF Pause, Resume, RequestStop, SaveValues, SavePulses, flagVars
<1>2. /\ Lengths' /\ StepHasValue' /\ Growing' /\ NothingLost' /\ PulsesInStep' /\ RecordsMatch'
      /\ RecordsOnGrid' /\ FollowersInStep' /\ WindowsMatch'
      /\ OnGrid(indexPlan)' /\ OnGrid(planned)'
  BY <1>1 DEF IInv, Lengths, StepHasValue, Growing, NothingLost, PulsesInStep, RecordsMatch,
              RecordsOnGrid, FollowersInStep, WindowsMatch, Smooth, Values, Popping, OnGrid, Grids
<1>3. CASE Pause \/ Resume \/ RequestStop
  <2>1. UNCHANGED saved
    BY <1>3 DEF Pause, Resume, RequestStop
  <2>2. TypeOK'
    BY <1>1, <1>3 DEF IInv, TypeOK, Pause, Resume, RequestStop
  <2>3. Grids' /\ FileIsCurrent'
    BY <1>1, <2>1 DEF IInv, Grids, OnGrid, FileIsCurrent
  <2> QED BY <1>2, <2>2, <2>3 DEF IInv
<1>4. CASE SaveValues \/ SavePulses
  <2>1. UNCHANGED flagVars
    BY <1>4 DEF SaveValues, SavePulses
  <2>2. /\ << >> \in Seq(Value) /\ Len(todo) \in Nat /\ Len(done) \in Nat
        /\ todo \in Seq(Value) /\ pulses \in Seq(Value) /\ done \in Seq(Value)
        /\ indexPlan \in Seq(Value) /\ Len(indexPlan) \in Nat
    BY LenProperties DEF IInv, TypeOK
  <2>3. /\ saved' \in [values : Seq(Value), pulses : Seq(Value), grid : Seq(Value),
                       done : Seq(Value), state : {"none", "half", "file"}]
        /\ OnGrid(saved'.grid) /\ FileIsCurrent'
    <3>1. CASE SaveValues
      <4>1. saved' = [values |-> todo, pulses |-> << >>, grid |-> << >>, done |-> done,
                      state |-> "half"]
        BY <3>1 DEF SaveValues, NoFile
      <4> QED BY <1>1, <2>2, <4>1 DEF IInv, Lengths, FileIsCurrent, OnGrid
    <3>2. CASE SavePulses
      <4>1. saved' = [values |-> saved.values, pulses |-> pulses, grid |-> indexPlan,
                      done |-> saved.done, state |-> "file"] /\ saved.state = "half"
        BY <3>2 DEF SavePulses, IInv, TypeOK
      <4>2. saved.values \in Seq(Value) /\ saved.done \in Seq(Value)
        BY DEF IInv, TypeOK
      <4> QED BY <1>1, <2>2, <4>1, <4>2 DEF IInv, Lengths, FileIsCurrent, Grids
    <3> QED BY <1>4, <3>1, <3>2
  <2>4. TypeOK'
    BY <1>1, <2>1, <2>3 DEF IInv, TypeOK, flagVars
  <2>5. Grids'
    BY <1>2, <2>3 DEF Grids, OnGrid
  <2> QED BY <1>2, <2>3, <2>4, <2>5 DEF IInv
<1> QED BY <1>3, <1>4

\* The scan that is built from the file takes over where the saved one ended.
LEMMA ResumeFromFileInv == ASSUME IInv, ResumeFromFile PROVE IInv'
<1> USE StepScanAssumption
<1>1. /\ pc = "idle" /\ saved.state = "file" /\ earlier = << >>
      /\ Len(saved.values) = Len(saved.pulses)
      /\ todo' = saved.values /\ pulses' = saved.pulses /\ indexPlan' = saved.grid
      /\ done' = << >> /\ nextStep' = 0 /\ info' = << >> /\ exhausted' = TRUE
      /\ ok' = TRUE /\ event' = TRUE /\ stopRequested' = FALSE /\ started' = FALSE
      /\ up' = {} /\ windows' = [f \in Follower |-> << >>]
      /\ outcome' = "none" /\ failed' = {} /\ woken' = FALSE /\ runs' = 0
      /\ saved' = NoFile /\ earlier' = done /\ exact' = (saved.done = done)
      /\ UNCHANGED <<pc, raising, bad, planned>>
  BY DEF ResumeFromFile, Rebuild
<1>2. /\ saved.values \in Seq(Value) /\ saved.pulses \in Seq(Value) /\ saved.grid \in Seq(Value)
      /\ saved.done \in Seq(Value) /\ done \in Seq(Value) /\ << >> \in Seq(Value)
      /\ Len(saved.values) \in Nat /\ Len(saved.done) \in Nat /\ Len(<< >>) = 0
      /\ << >> \in Seq(Entry)
  BY LenProperties DEF IInv, TypeOK
<1>3. NoFile = [values |-> << >>, pulses |-> << >>, grid |-> << >>, done |-> << >>,
                state |-> "none"]
  BY DEF NoFile
<1>4. [f \in Follower |-> << >>] \in [Follower -> Seq(Value)]
  BY <1>2
<1>5. TypeOK'
  <2>1. saved' \in [values : Seq(Value), pulses : Seq(Value), grid : Seq(Value),
                    done : Seq(Value), state : {"none", "half", "file"}]
    BY <1>1, <1>2, <1>3
  <2>2. {todo, pulses, done, indexPlan, planned, earlier}' \subseteq Seq(Value)
    BY <1>1, <1>2 DEF IInv, TypeOK
  <2>3. bad \in 0 .. MaxBad /\ 0 \in 0 .. MaxRuns /\ raising \in BOOLEAN /\ 0 \in 0 .. MaxPoints
    BY DEF IInv, TypeOK
  <2> QED BY <1>1, <1>2, <1>4, <2>1, <2>2, <2>3 DEF TypeOK, PCs, AllFailures
<1>6. Lengths'
  BY <1>1, <1>2 DEF IInv, Lengths, FileIsCurrent, Popping
<1>7. StepHasValue' /\ FollowersInStep'
  BY <1>1 DEF StepHasValue, FollowersInStep
<1>8. OnGrid(<< >>)
  BY DEF OnGrid
<1>9. Grids'
  BY <1>1, <1>3, <1>8 DEF IInv, Grids, OnGrid
\* The file is exact only if nothing was measured since; then it has all that is left.
<1>10. exact' => saved.values = todo /\ saved.pulses = todo /\ done \o todo = planned
  <2> SUFFICES ASSUME saved.done = done
               PROVE  saved.values = todo /\ saved.pulses = todo /\ done \o todo = planned
    BY <1>1
  <2>1. saved.values = todo /\ saved.pulses = pulses
    BY <1>1, <1>2 DEF IInv, FileIsCurrent
  <2>2. exact /\ pulses = todo
    BY <1>1 DEF IInv, Growing, PulsesInStep, Popping
  <2>3. (<< >> \o done) \o todo = planned
    BY <1>1, <2>2 DEF IInv, NothingLost
  <2> QED BY <1>2, <2>1, <2>2, <2>3, ConcatEmptySeq
<1>11. Growing'
  <2>1. ASSUME done = << >> PROVE saved.done = done
    BY <1>2, <2>1, EmptySeq DEF IInv, FileIsCurrent
  <2> QED BY <1>1, <2>1 DEF Growing
<1>12. NothingLost' /\ PulsesInStep'
  <2>1. done \o << >> = done
    BY <1>2, ConcatEmptySeq
  <2> QED BY <1>1, <1>10, <2>1 DEF NothingLost, PulsesInStep, Popping
<1>13. FileIsCurrent'
  BY <1>1, <1>2, <1>3 DEF FileIsCurrent
<1>14. Values(<< >>) = << >>
  BY DEF Values
<1>15. RecordsMatch' /\ RecordsOnGrid'
  BY <1>1, <1>14 DEF RecordsMatch, RecordsOnGrid, Values
<1>16. WindowsMatch'
  BY <1>1, <1>14 DEF IInv, WindowsMatch, Smooth, Values, TypeOK
<1> QED BY <1>5, <1>6, <1>7, <1>9, <1>11, <1>12, <1>13, <1>15, <1>16 DEF IInv

-----------------------------------------------------------------------------
(* The invariant holds, and what it means.                                     *)

\* A scan that was built and not run.
LEMMA InitInv == Init => IInv
<1> SUFFICES ASSUME Init PROVE IInv
  OBVIOUS
<1> USE StepScanAssumption DEF Init, Popping
<1>1. /\ First(N) \in Seq(Value) /\ Len(First(N)) = N /\ OnGrid(First(N)) /\ First(N) # << >>
      /\ << >> \in Seq(Value) /\ << >> \in Seq(Entry) /\ Len(<< >>) = 0 /\ OnGrid(<< >>)
  <2>1. \A i \in 1 .. N : i \in Value
    BY DEF Value
  <2>2. First(N) \in Seq(Value) /\ Len(First(N)) = N /\ \A i \in 1 .. N : First(N)[i] = i
    BY <2>1 DEF First
  <2>3. DOMAIN First(N) = 1 .. N
    BY DEF First
  <2>4. First(N) # << >> /\ OnGrid(First(N)) /\ OnGrid(<< >>)
    BY <2>2, <2>3 DEF OnGrid
  <2> QED BY <2>2, <2>4
<1>2. NoFile = [values |-> << >>, pulses |-> << >>, grid |-> << >>, done |-> << >>,
                state |-> "none"]
  BY DEF NoFile
<1>3. TypeOK
  <2>1. [f \in Follower |-> << >>] \in [Follower -> Seq(Value)]
    BY <1>1
  <2>2. saved \in [values : Seq(Value), pulses : Seq(Value), grid : Seq(Value),
                   done : Seq(Value), state : {"none", "half", "file"}]
    BY <1>1, <1>2
  <2>3. {todo, pulses, done, indexPlan, planned, earlier} \subseteq Seq(Value)
        /\ info \in Seq(Entry)
    BY <1>1
  <2>4. exhausted \in BOOLEAN
    OBVIOUS
  <2>5. nextStep \in 0 .. MaxPoints /\ bad \in 0 .. MaxBad /\ runs \in 0 .. MaxRuns
    OBVIOUS
  <2> QED BY <2>1, <2>2, <2>3, <2>4, <2>5 DEF TypeOK, PCs, AllFailures
<1>4. Lengths /\ StepHasValue /\ Grids /\ Growing /\ PulsesInStep
  BY <1>1, <1>2 DEF Lengths, StepHasValue, Grids, Growing, PulsesInStep
<1>5. NothingLost
  BY <1>1, ConcatEmptySeq DEF NothingLost
<1>6. FileIsCurrent
  BY <1>1, <1>2 DEF FileIsCurrent
<1>7. Values(<< >>) = << >>
  BY DEF Values
<1>8. RecordsMatch /\ RecordsOnGrid /\ FollowersInStep /\ WindowsMatch
  BY <1>1, <1>7 DEF RecordsMatch, RecordsOnGrid, FollowersInStep, WindowsMatch, Smooth
<1> QED BY <1>3, <1>4, <1>5, <1>6, <1>8 DEF IInv

\* Every step of the scan's thread and of the operators keeps it.
LEMMA NextInv == IInv /\ [Next]_vars => IInv'
<1> SUFFICES ASSUME IInv, [Next]_vars PROVE IInv'
  OBVIOUS
<1>1. CASE UNCHANGED vars
  <2> USE <1>1 DEF vars, stepVars, counterVars, flagVars, threadVars, runVars, saveVars, IInv
  <2>1. TypeOK'
    BY DEF TypeOK
  <2>2. Lengths' /\ StepHasValue' /\ Grids' /\ Growing' /\ NothingLost' /\ PulsesInStep'
    BY DEF Lengths, StepHasValue, Grids, OnGrid, Growing, NothingLost, PulsesInStep, Popping
  <2>3. FileIsCurrent'
    BY DEF FileIsCurrent
  <2>4. RecordsMatch' /\ RecordsOnGrid' /\ FollowersInStep' /\ WindowsMatch'
    BY DEF RecordsMatch, RecordsOnGrid, FollowersInStep, WindowsMatch, Smooth, Values
  <2> QED BY <2>1, <2>2, <2>3, <2>4
<1>2. CASE ScanAll \/ ScanStep
  BY <1>2, OwnSteps, AcquisitionSteps, RecordInv, EndStepInv, DropRecordInv, PopValueInv,
     PopPulsesInv DEF ScanStep
<1>3. CASE Operator
  BY <1>3, OperatorInv, ResumeFromFileInv DEF Operator
<1> QED BY <1>1, <1>2, <1>3 DEF Next

\* The invariant is one of the program.
THEOREM Invariance == Spec => []IInv
  BY InitInv, NextInv, PTL DEF Spec

\* Every variable has its type: no list is popped when it is empty, no record
\* has a place beside the grid (scan.py, do_next_step).
THEOREM Typed == Spec => []TypeOK
<1>1. IInv => TypeOK
  BY DEF IInv
<1> QED BY Invariance, <1>1, PTL

\* No value is lost, repeated or taken out of order, whoever pauses, stops, saves
\* or resumes what fails (do_next_step, snapshot_remaining, resume_scan_call).
THEOREM NoValueIsLost == Spec => []NothingLost
<1>1. IInv => NothingLost
  BY DEF IInv
<1> QED BY Invariance, <1>1, PTL

\* What is measured is measured with its own pulses (do_next_step).
THEOREM PulsesAreRight == Spec => []RightPulses
<1>1. IInv => RightPulses
  BY DEF IInv, PulsesInStep, RightPulses, Popping
<1> QED BY Invariance, <1>1, PTL

\* Between two steps the records tell what was done, and where (append_scan_info,
\* remove_last_scan_info_entry).
THEOREM RecordsTellWhatWasDone == Spec => []InfoMatchesDone
<1>1. IInv => InfoMatchesDone
  BY DEF IInv, RecordsMatch, RecordsOnGrid, InfoMatchesDone, Values
<1> QED BY Invariance, <1>1, PTL

\* No follower is left running, and each has the windows of the recorded steps
\* (the try/finally of do_next_step).
THEOREM NoFollowerIsLeft == Spec => []FollowersStopped
<1>1. IInv => FollowersStopped
  BY DEF IInv, FollowersInStep, WindowsMatch, Smooth, FollowersStopped, Values
<1> QED BY Invariance, <1>1, PTL

\* An adaptive scan keeps to its budget, whatever the driver proposes and whenever
\* it does (_remaining_points, _refill).
THEOREM BudgetIsKept == Spec => []Budget
<1>1. IInv => Budget
  <2> SUFFICES ASSUME IInv PROVE Budget
    OBVIOUS
  <2>1. Len(done) \in Nat /\ Len(todo) \in Nat /\ Len(indexPlan) \in Nat /\ MaxPoints \in Nat
    BY StepScanAssumption, LenProperties DEF IInv, TypeOK
  <2> QED BY <2>1 DEF IInv, Lengths, Budget
<1> QED BY Invariance, <1>1, PTL

=============================================================================
