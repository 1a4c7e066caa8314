------------------------------ MODULE StreamProofs ------------------------------
(* Proofs about the two streams of updates: the queues of a robot server's      *)
(* clients (EventBus), for any number of publishers and subscribers and any      *)
(* queue size, and the recordings of the status server (Recording), for any set  *)
(* of sessions, any capacities and any number of updates.                        *)
EXTENDS EventBus, Recording, SequenceTheorems, TLAPS

-----------------------------------------------------------------------------
(* The queues: each is a LossyQueue, and its newest state is the state of the   *)
(* server.                                                                      *)

\* A put that was refused once knows its queue.
AtOk == \A p \in Publisher :
            pub[p].pc \in {"get", "again"} => pub[p].at \in pub[p].to

\* Only those that want them are sent frames of other events.
FilterOk == \A p \in Publisher :
    /\ pub[p].value = Other => pub[p].to \cap Filtered = {}
    /\ pub[p].also \cap Filtered = {}

IInv == TypeOK /\ AtOk /\ FilterOk

\* What a thread in the middle of a call holds.
Calls == [pc : {"publish", "put", "get", "again"}, value : Frames,
          to : SUBSET Subscriber, also : SUBSET Subscriber,
          at : Subscriber \cup {Unset}]

\* pub, and what AtOk and FilterOk say of it.
PubOk == pub \in [Publisher -> {IdlePub} \cup Calls] /\ AtOk /\ FilterOk

LEMMA PubBusy ==
    ASSUME TypeOK, NEW p \in Publisher, pub[p].pc # "idle"
    PROVE  pub[p] \in Calls
BY DEF TypeOK, IdlePub, Call, Calls

\* What is told that is not the state is another event.
LEMMA TellsOrOther ==
    ASSUME TypeOK, NEW p \in Publisher, Publishing(p)
    PROVE  Tells(p) <=> pub[p].value # Other
BY PubBusy, EventBusAssumption DEF Publishing, Tells, Calls, Frames

\* Going on with the subscribers that are left keeps the types.
LEMMA PutNextTyped ==
    ASSUME IInv, NEW p \in Publisher, pub[p].pc # "idle",
           NEW left \in SUBSET Subscriber, PutNext(p, left),
           pub[p].value = Other => left \cap Filtered = {}
    PROVE  PubOk'
<1>1. pub[p] \in Calls /\ AtOk /\ FilterOk
    BY PubBusy DEF IInv
<1>2. pub \in [Publisher -> {IdlePub} \cup Calls]
    BY DEF IInv, TypeOK, Calls
<1>o. Unset # Other
    BY EventBusAssumption
<1>3. CASE left = {} /\ pub[p].also = {}
    BY <1>1, <1>2, <1>3, <1>o DEF PutNext, PubOk, AtOk, FilterOk, IdlePub, Call
<1>4. CASE left # {}
    BY <1>1, <1>2, <1>4 DEF PutNext, PubOk, AtOk, FilterOk, Call, Calls
<1>5. CASE left = {} /\ pub[p].also # {}
    <2>1. Call("put", Other, pub[p].also, {}, Unset) \in Calls
        BY <1>1 DEF Call, Calls, Frames
    <2>2. pub' = [pub EXCEPT ![p] = Call("put", Other, pub[p].also, {}, Unset)]
        BY <1>5 DEF PutNext
    <2>3. pub' \in [Publisher -> {IdlePub} \cup Calls]
        BY <1>2, <2>1, <2>2
    <2>4. AtOk' /\ FilterOk'
        BY <1>1, <1>2, <2>2 DEF AtOk, FilterOk, Call
    <2> QED BY <2>3, <2>4 DEF PubOk
<1> QED BY <1>3, <1>4, <1>5

LEMMA PutFitsTyped ==
    ASSUME IInv, NEW p \in Publisher, pub[p].pc # "idle",
           NEW s \in pub[p].to, PutFits(p, s)
    PROVE  PubOk' /\ queue' \in [Subscriber -> Seq(Frames)]
           /\ \A t \in Subscriber : Len(queue'[t]) <= QueueSize
<1>1. pub[p] \in Calls
    BY PubBusy DEF IInv
<1>2. PubOk'
    <2>1. pub[p].to \ {s} \in SUBSET Subscriber
          /\ (pub[p].value = Other => (pub[p].to \ {s}) \cap Filtered = {})
        BY <1>1 DEF Calls, IInv, FilterOk
    <2> QED BY <2>1, PutNextTyped DEF PutFits
<1>3. queue \in [Subscriber -> Seq(Frames)] /\ pub[p].value \in Frames /\ s \in Subscriber
    BY <1>1 DEF IInv, TypeOK, Calls
<1>4. queue' \in [Subscriber -> Seq(Frames)]
    BY <1>3 DEF PutFits
<1>5. ASSUME NEW t \in Subscriber PROVE Len(queue'[t]) <= QueueSize
    BY <1>3, EventBusAssumption DEF PutFits, IInv, TypeOK
<1> QED BY <1>2, <1>4, <1>5

LEMMA InitTyped == Init => IInv
<1> SUFFICES ASSUME Init PROVE IInv
    OBVIOUS
<1>1. << >> \in Seq(Frames) /\ Len(<< >>) <= QueueSize
    BY EventBusAssumption
<1>2. /\ IdlePub.pc = "idle" /\ IdlePub.value = Unset /\ IdlePub.also = {}
      /\ pub = [p \in Publisher |-> IdlePub]
    BY DEF Init, IdlePub, Call
<1>3. AtOk /\ FilterOk
    BY <1>2, EventBusAssumption DEF AtOk, FilterOk
<1>4. TypeOK
    <2>1. /\ queue \in [Subscriber -> Seq(Frames)]
          /\ \A s \in Subscriber : Len(queue[s]) <= QueueSize
        <3>1. queue = [s \in Subscriber |-> << >>]
            BY DEF Init
        <3> QED BY <1>1, <3>1
    <2>2. /\ joined \in [Subscriber -> {"new", "in", "out"}]
          /\ dropped \in [Subscriber -> 0..1]
          /\ shown \in [Subscriber -> Value \cup {Unset}]
        BY DEF Init
    <2>3. /\ state \in Value /\ raced \in BOOLEAN /\ lastValue \in Value
          /\ polled \in BOOLEAN /\ missed \subseteq Subscriber
        BY DEF Init
    <2> QED BY <1>2, <2>1, <2>2, <2>3 DEF TypeOK
<1> QED BY <1>3, <1>4 DEF IInv

\* The counter stays a bit.
LEMMA Flip ==
    ASSUME TypeOK, NEW s \in Subscriber
    PROVE  [dropped EXCEPT ![s] = 1 - @] \in [Subscriber -> 0..1]
<1>1. dropped \in [Subscriber -> 0..1]
    BY DEF TypeOK
<1>2. 1 - dropped[s] \in 0..1
    BY <1>1
<1> QED BY <1>1, <1>2

LEMMA TailTyped ==
    ASSUME TypeOK, NEW s \in Subscriber, queue[s] # << >>
    PROVE  /\ Head(queue[s]) \in Frames
           /\ [queue EXCEPT ![s] = Tail(@)] \in [Subscriber -> Seq(Frames)]
           /\ \A t \in Subscriber : Len([queue EXCEPT ![s] = Tail(@)][t]) <= QueueSize
<1>1. queue \in [Subscriber -> Seq(Frames)] /\ \A t \in Subscriber : Len(queue[t]) <= QueueSize
    BY DEF TypeOK
<1>2. Head(queue[s]) \in Frames /\ Tail(queue[s]) \in Seq(Frames)
      /\ Len(Tail(queue[s])) = Len(queue[s]) - 1 /\ Len(queue[s]) \in Nat
    BY <1>1
<1> QED BY <1>1, <1>2, EventBusAssumption

LEMMA StepTyped == IInv /\ [Next]_vars => IInv'
<1> SUFFICES ASSUME IInv, [Next]_vars PROVE IInv'
    OBVIOUS
<1> USE EventBusAssumption
<1>t. TypeOK /\ AtOk /\ FilterOk /\ pub \in [Publisher -> {IdlePub} \cup Calls]
    BY DEF IInv, TypeOK, Calls
<1>0. CASE UNCHANGED vars
    BY <1>t, <1>0 DEF IInv, TypeOK, AtOk, FilterOk, vars, clientVars
<1>1. ASSUME NEW p \in Publisher, SetState(p) PROVE IInv'
    BY <1>t, <1>1 DEF SetState, IInv, TypeOK, AtOk, FilterOk, clientVars, Publishing, Tells,
        IdlePub, Call, Calls, Frames
<1>e. ASSUME NEW p \in Publisher, RobotEvent(p) PROVE IInv'
    BY <1>t, <1>e DEF RobotEvent, IInv, TypeOK, AtOk, FilterOk, clientVars, IdlePub, Call,
        Calls, Frames
<1>2. ASSUME NEW p \in Publisher, Publish(p) PROVE IInv'
    <2> DEFINE targets == {s \in members : Wants(s, pub[p].value)}
    <2>1. pub[p].pc # "idle" /\ targets \in SUBSET Subscriber
        BY <1>2 DEF Publish, PubAt, members
    <2>2. pub[p].value = Other => targets \cap Filtered = {}
        BY DEF Wants
    <2>3. PubOk'
        <3>1. PutNext(p, targets)
            BY <1>2 DEF Publish
        <3> HIDE DEF targets
        <3> QED BY <2>1, <2>2, <3>1, PutNextTyped
    <2>4. lastValue' \in Value /\ polled' \in BOOLEAN
        BY <1>t, <1>2 DEF Publish, Tells, TypeOK
    <2>5. UNCHANGED <<state, clientVars, raced>>
        BY <1>2 DEF Publish
    <2> QED BY <1>t, <2>3, <2>4, <2>5 DEF IInv, TypeOK, PubOk, Calls, clientVars
<1>m. ASSUME NEW p \in Publisher, NEW s \in Subscriber,
             missed' \in {missed, missed \cup {s}, missed \ {s}}
      PROVE  missed' \subseteq Subscriber
    BY <1>t, <1>m DEF TypeOK
<1>3. ASSUME NEW p \in Publisher, Put(p) PROVE IInv'
    <2>1. pub[p].pc # "idle"
        BY <1>3 DEF Put, PubAt
    <2>2. pub[p] \in Calls
        BY <1>t, <2>1, PubBusy
    <2>3. PICK s \in pub[p].to :
            \/ PutFits(p, s)
            \/ /\ Full(s)
               /\ pub' = [pub EXCEPT ![p] = Call("get", @.value, @.to, @.also, s)]
               /\ UNCHANGED <<queue, dropped, missed>>
        BY <1>3 DEF Put
    <2>4. s \in Subscriber
        BY <2>2, <2>3 DEF Calls
    <2>5. CASE PutFits(p, s)
        <3>1. PubOk' /\ queue' \in [Subscriber -> Seq(Frames)]
              /\ \A t \in Subscriber : Len(queue'[t]) <= QueueSize
            BY <2>1, <2>3, <2>5, PutFitsTyped
        <3>2. missed' \subseteq Subscriber
            BY <1>m, <2>4, <2>5 DEF PutFits
        <3> QED BY <1>t, <1>3, <2>5, <3>1, <3>2 DEF Put, PutFits, IInv, TypeOK, PubOk, Calls
    <2>6. CASE ~PutFits(p, s)
        <3>1. /\ pub' = [pub EXCEPT ![p] = Call("get", pub[p].value, pub[p].to, pub[p].also, s)]
              /\ UNCHANGED <<queue, dropped, missed>>
            BY <2>3, <2>6
        <3>2. PubOk'
            BY <1>t, <2>2, <2>3, <2>4, <3>1 DEF PubOk, AtOk, FilterOk, Call, Calls
        <3> QED BY <1>t, <1>3, <3>1, <3>2 DEF Put, IInv, TypeOK, PubOk, Calls
    <2> QED BY <2>5, <2>6
<1>4. ASSUME NEW p \in Publisher, PutGet(p) PROVE IInv'
    <2>1. pub[p].pc # "idle" /\ pub[p].at \in pub[p].to
        BY <1>t, <1>4 DEF PutGet, PubAt, AtOk
    <2>2. pub[p] \in Calls /\ pub[p].at \in Subscriber
        BY <1>t, <2>1, PubBusy DEF Calls
    <2>3. PubOk'
        BY <1>t, <1>4, <2>1, <2>2 DEF PutGet, PubOk, AtOk, FilterOk, Call, Calls
    <2>4. queue' \in [Subscriber -> Seq(Frames)] /\ dropped' \in [Subscriber -> 0..1]
          /\ \A t \in Subscriber : Len(queue'[t]) <= QueueSize
        <3>1. CASE queue[pub[p].at] = << >>
            BY <1>t, <1>4, <3>1 DEF PutGet, TypeOK
        <3>2. CASE queue[pub[p].at] # << >>
            <4>1. /\ queue' = [queue EXCEPT ![pub[p].at] = Tail(@)]
                  /\ dropped' = [dropped EXCEPT ![pub[p].at] = 1 - @]
                BY <1>4, <3>2 DEF PutGet
            <4>2. dropped' \in [Subscriber -> 0..1]
                BY <1>t, <2>2, <4>1, Flip
            <4> QED BY <1>t, <2>2, <3>2, <4>1, <4>2, TailTyped
        <3> QED BY <3>1, <3>2
    <2>5. missed' \subseteq Subscriber
        BY <1>m, <1>4, <2>2 DEF PutGet
    <2> QED BY <1>t, <1>4, <2>3, <2>4, <2>5 DEF PutGet, IInv, TypeOK, PubOk, Calls
<1>5. ASSUME NEW p \in Publisher, PutAgain(p) PROVE IInv'
    <2>1. pub[p].pc # "idle" /\ pub[p].at \in pub[p].to
        BY <1>t, <1>5 DEF PutAgain, PubAt, AtOk
    <2>2. /\ pub[p].to \ {pub[p].at} \in SUBSET Subscriber /\ pub[p].at \in Subscriber
          /\ (pub[p].value = Other => (pub[p].to \ {pub[p].at}) \cap Filtered = {})
        BY <1>t, <2>1, PubBusy DEF Calls, FilterOk
    <2>3. CASE PutFits(p, pub[p].at)
        <3>1. PubOk' /\ queue' \in [Subscriber -> Seq(Frames)]
              /\ \A t \in Subscriber : Len(queue'[t]) <= QueueSize
            BY <2>1, <2>3, PutFitsTyped
        <3>2. missed' \subseteq Subscriber
            BY <1>m, <2>2, <2>3 DEF PutFits
        <3> QED BY <1>t, <1>5, <2>3, <3>1, <3>2 DEF PutAgain, PutFits, IInv, TypeOK, PubOk, Calls
    <2>4. CASE ~PutFits(p, pub[p].at)
        <3>1. PubOk'
            BY <1>t, <1>5, <2>1, <2>2, <2>4, PutNextTyped DEF PutAgain
        <3>2. dropped' \in [Subscriber -> 0..1] /\ missed' \subseteq Subscriber
            BY <1>t, <1>5, <1>m, <2>2, <2>4, Flip DEF PutAgain
        <3> QED BY <1>t, <1>5, <2>4, <3>1, <3>2 DEF PutAgain, IInv, TypeOK, PubOk, Calls
    <2> QED BY <2>3, <2>4
<1>6. ASSUME NEW p \in Publisher, NEW s \in Subscriber, Subscribe(p, s) PROVE IInv'
    <2> DEFINE after == IF polled /\ Wants(s, Other) THEN {s} ELSE {}
    <2>1. after \in SUBSET Subscriber /\ after \cap Filtered = {}
        BY DEF Wants
    <2>2. /\ pub' = [pub EXCEPT ![p] = Call("put", lastValue, {s}, after, Unset)]
          /\ joined' = [joined EXCEPT ![s] = "in"] /\ raced' \in BOOLEAN
          /\ UNCHANGED <<state, lastValue, polled, queue, shown, dropped, missed>>
        BY <1>t, <1>6 DEF Subscribe, TypeOK
    <2> HIDE DEF after
    <2>3. lastValue # Other /\ lastValue \in Value
        BY <1>t DEF TypeOK
    <2>4. PubOk'
        BY <1>t, <2>1, <2>2, <2>3 DEF PubOk, AtOk, FilterOk, Call, Calls, Frames
    <2> QED BY <1>t, <2>2, <2>4 DEF IInv, TypeOK, PubOk, Calls
<1>7. ASSUME NEW s \in Subscriber, Unsubscribe(s) PROVE IInv'
    BY <1>t, <1>7 DEF Unsubscribe, IInv, TypeOK, AtOk, FilterOk
<1>8. ASSUME NEW s \in Subscriber, Receive(s) PROVE IInv'
    <2>1. shown' \in [Subscriber -> Value \cup {Unset}]
        BY <1>t, <1>8 DEF Receive, TypeOK
    <2> QED BY <1>t, <1>8, <2>1, TailTyped DEF Receive, IInv, TypeOK, AtOk, FilterOk
<1> QED BY <1>0, <1>1, <1>e, <1>2, <1>3, <1>4, <1>5, <1>6, <1>7, <1>8 DEF Next

\* The types hold in every reachable state, the bound of the queues included.
THEOREM Typed == Spec => []TypeOK
<1>1. IInv => TypeOK
    BY DEF IInv
<1> QED BY <1>1, InitTyped, StepTyped, PTL DEF Spec

-----------------------------------------------------------------------------
(* The refinement.                                                             *)

LEMMA ChannelInit ==
    ASSUME NEW s \in Subscriber, Init
    PROVE  Channel(s)!Init
BY DEF Init, Channel!Init

\* One step of the bus is one step, or none, of the queue of s.
LEMMA ChannelStep ==
    ASSUME NEW s \in Subscriber, IInv, [Next]_vars
    PROVE  [Channel(s)!Next]_(Channel(s)!vars)
<1> DEFINE Same == UNCHANGED <<queue[s], shown[s], dropped[s], joined[s] = "out">>
<1>t. TypeOK /\ AtOk
    BY DEF IInv
<1>q. Same => UNCHANGED (Channel(s)!vars)
    BY DEF Channel!vars
<1>0. CASE UNCHANGED vars
    BY <1>0, <1>q DEF vars, clientVars
<1>f. ASSUME NEW p \in Publisher, NEW t \in Subscriber, pub[p].pc # "idle", PutFits(p, t),
             UNCHANGED <<joined, shown>>
      PROVE  Same \/ Channel(s)!Enqueue
    <2>1. CASE t # s \/ joined[s] = "out"
        BY <1>t, <1>f, <2>1 DEF PutFits, TypeOK
    <2>2. CASE t = s /\ joined[s] # "out"
        <3>1. pub[p].value \in Frames
            BY <1>t, <1>f, PubBusy DEF Calls
        <3>2. queue'[s] = Append(queue[s], pub[p].value) /\ Len(queue[s]) < QueueSize
            BY <1>t, <1>f, <2>2 DEF PutFits, TypeOK
        <3>3. UNCHANGED <<shown[s], dropped[s], joined[s] = "out">>
            BY <1>f DEF PutFits
        <3> QED BY <3>1, <3>2, <3>3 DEF Channel!Enqueue
    <2> QED BY <2>1, <2>2
<1>1. ASSUME NEW p \in Publisher, SetState(p) \/ RobotEvent(p) \/ Publish(p) PROVE Same
    BY <1>1 DEF SetState, RobotEvent, Publish, clientVars
<1>3. ASSUME NEW p \in Publisher, Put(p) PROVE Same \/ Channel(s)!Enqueue
    <2>1. pub[p].pc # "idle" /\ UNCHANGED <<joined, shown>>
        BY <1>3 DEF Put, PubAt
    <2>2. PICK t \in pub[p].to : PutFits(p, t) \/ UNCHANGED <<queue, dropped>>
        BY <1>3 DEF Put
    <2>3. t \in Subscriber
        BY <1>t, <2>1, <2>2, PubBusy DEF Calls
    <2> QED BY <1>f, <2>1, <2>2, <2>3
<1>a. ASSUME NEW p \in Publisher, pub[p].pc \in {"get", "again"}
      PROVE  pub[p].at \in Subscriber
    BY <1>t, <1>a, PubBusy DEF AtOk, Calls
<1>4. ASSUME NEW p \in Publisher, PutGet(p) PROVE Same \/ Channel(s)!DropOldest
    <2>1. pub[p].at \in Subscriber /\ UNCHANGED <<joined, shown>>
        BY <1>a, <1>4 DEF PutGet, PubAt
    <2>2. CASE queue[pub[p].at] = << >> \/ pub[p].at # s
        BY <1>t, <1>4, <2>1, <2>2 DEF PutGet, TypeOK
    <2>3. CASE queue[s] # << >> /\ pub[p].at = s
        BY <1>t, <1>4, <2>1, <2>3 DEF PutGet, TypeOK, Channel!DropOldest
    <2> QED BY <2>2, <2>3
<1>5. ASSUME NEW p \in Publisher, PutAgain(p)
      PROVE  Same \/ Channel(s)!Enqueue \/ Channel(s)!DropNew
    <2>1. /\ pub[p].pc # "idle" /\ pub[p].at \in Subscriber
          /\ UNCHANGED <<joined, shown>>
        BY <1>a, <1>5 DEF PutAgain, PubAt
    <2>2. CASE PutFits(p, pub[p].at)
        BY <1>f, <2>1, <2>2
    <2>3. CASE ~PutFits(p, pub[p].at)
        <3>1. /\ Full(pub[p].at) /\ UNCHANGED queue
              /\ dropped' = [dropped EXCEPT ![pub[p].at] = 1 - @]
            BY <1>5, <2>3 DEF PutAgain
        <3> QED BY <1>t, <2>1, <3>1 DEF Full, TypeOK, Channel!DropNew
    <2> QED BY <2>2, <2>3
<1>6. ASSUME NEW p \in Publisher, NEW t \in Subscriber, Subscribe(p, t) PROVE Same
    BY <1>t, <1>6 DEF Subscribe, TypeOK
<1>7. ASSUME NEW t \in Subscriber, Unsubscribe(t) PROVE Same \/ Channel(s)!Close
    BY <1>t, <1>7 DEF Unsubscribe, TypeOK, Channel!Close
<1>8. ASSUME NEW t \in Subscriber, Receive(t) PROVE Same \/ Channel(s)!Receive
    BY <1>t, <1>8 DEF Receive, TypeOK, Channel!Receive
<1> QED BY <1>q, <1>0, <1>1, <1>3, <1>4, <1>5, <1>6, <1>7, <1>8 DEF Next, Channel!Next

\* Every subscriber's queue, whatever other threads do to it in between: it
\* never exceeds its size, keeps its order, and loses no frame uncounted.
THEOREM QueueIsLossyQueue ==
    ASSUME NEW s \in Subscriber
    PROVE  Spec => Channel(s)!Spec
<1>1. Spec => []IInv
    BY InitTyped, StepTyped, PTL DEF Spec
<1>2. Init => Channel(s)!Init
    BY ChannelInit
<1>3. IInv /\ [Next]_vars => [Channel(s)!Next]_(Channel(s)!vars)
    BY ChannelStep
<1> QED BY <1>1, <1>2, <1>3, PTL DEF Spec, Channel!Spec

-----------------------------------------------------------------------------
(* What a client gets.  As long as no two threads were telling the state       *)
(* together, the one that tells it has the current state in hand, and every    *)
(* connected client it need not deal with any more has it as its newest state, *)
(* or lost it to frames of other events.                                       *)

\* s has been dealt with.
Told(s) == NewestIs(s, state) \/ s \in missed \ Filtered

\* Nobody has told the state together with p.
OneTells ==
    ~raced => \A p, q \in Publisher : Tells(p) /\ Tells(q) => p = q

AllTold ==
    ~raced /\ (\A p \in Publisher : ~Tells(p)) =>
        /\ lastValue = state
        /\ \A s \in members : Told(s)

\* How far the call of p is.  Its second attempt finds room in the queue of a
\* client that asked for the state alone: only another thread that tells the
\* state could have filled it again.
Telling(p) ==
    /\ pub[p].value = state
    /\ pub[p].pc # "publish" =>
        /\ lastValue = state
        /\ \A s \in members \ pub[p].to : Told(s)
    /\ pub[p].pc = "again" /\ pub[p].at \in Filtered => Len(queue[pub[p].at]) < QueueSize

BeingTold == ~raced => \A p \in Publisher : Tells(p) => Telling(p)

ToldInv == IInv /\ OneTells /\ AllTold /\ BeingTold

\* The newest state in a queue, or else the one its client has read.
NewestIn(q, h, v) ==
    \/ h = v /\ \A i \in DOMAIN q : q[i] = Other
    \/ \E i \in DOMAIN q : q[i] = v /\ \A j \in DOMAIN q : j > i => q[j] = Other

LEMMA NewestAppended ==
    ASSUME NEW q \in Seq(Frames), NEW h, NEW v \in Value
    PROVE  /\ NewestIn(Append(q, v), h, v)
           /\ NewestIn(q, h, v) => NewestIn(Append(q, Other), h, v)
<1>1. ASSUME NEW f \in Frames
      PROVE  /\ DOMAIN Append(q, f) = 1..Len(q) + 1
             /\ Append(q, f)[Len(q) + 1] = f
             /\ \A i \in 1..Len(q) : Append(q, f)[i] = q[i]
    OBVIOUS
<1>2. Len(q) \in Nat /\ DOMAIN q = 1..Len(q) /\ v \in Frames /\ Other \in Frames
    BY DEF Frames
<1>3. NewestIn(Append(q, v), h, v)
    BY <1>1, <1>2 DEF NewestIn
<1>4. ASSUME NewestIn(q, h, v) PROVE NewestIn(Append(q, Other), h, v)
    <2>1. CASE h = v /\ \A i \in DOMAIN q : q[i] = Other
        BY <1>1, <1>2, <2>1 DEF NewestIn
    <2>2. CASE \E i \in DOMAIN q : q[i] = v /\ \A j \in DOMAIN q : j > i => q[j] = Other
        <3>1. PICK i \in 1..Len(q) : q[i] = v /\ \A j \in 1..Len(q) : j > i => q[j] = Other
            BY <1>2, <2>2
        <3>2. i \in DOMAIN Append(q, Other) /\ Append(q, Other)[i] = v
            BY <1>1, <1>2, <3>1
        <3>3. ASSUME NEW j \in DOMAIN Append(q, Other), j > i PROVE Append(q, Other)[j] = Other
            BY <1>1, <1>2, <3>1, <3>3
        <3> QED BY <3>2, <3>3 DEF NewestIn
    <2> QED BY <1>4, <2>1, <2>2 DEF NewestIn
<1> QED BY <1>3, <1>4

\* Taking the oldest frame out: the client that reads it keeps its newest state;
\* when it is dropped, only a queue without a newer one loses it.
LEMMA NewestLeft ==
    ASSUME NEW q \in Seq(Frames), q # << >>, NEW h, NEW v \in Value, NewestIn(q, h, v)
    PROVE  /\ NewestIn(Tail(q), IF Head(q) \in Value THEN Head(q) ELSE h, v)
           /\ \/ Head(q) \in Value /\ \A i \in 2..Len(q) : q[i] = Other
              \/ NewestIn(Tail(q), h, v)
<1>1. /\ Len(q) \in Nat /\ Len(q) >= 1 /\ DOMAIN q = 1..Len(q) /\ Head(q) = q[1]
      /\ Tail(q) \in Seq(Frames) /\ Len(Tail(q)) = Len(q) - 1
    BY EmptySeq
<1>2. DOMAIN Tail(q) = 1..Len(q) - 1 /\ \A i \in 1..Len(q) - 1 : Tail(q)[i] = q[i + 1]
    BY <1>1
<1>3. CASE h = v /\ \A i \in DOMAIN q : q[i] = Other
    <2>1. Head(q) \notin Value
        BY <1>1, <1>3, EventBusAssumption
    <2>2. \A i \in 1..Len(q) - 1 : Tail(q)[i] = Other
        BY <1>1, <1>2, <1>3
    <2> QED BY <1>2, <1>3, <2>1, <2>2 DEF NewestIn
<1>4. CASE \E i \in DOMAIN q : q[i] = v /\ \A j \in DOMAIN q : j > i => q[j] = Other
    <2>1. PICK i \in 1..Len(q) : q[i] = v /\ \A j \in 1..Len(q) : j > i => q[j] = Other
        BY <1>1, <1>4
    <2>2. CASE i = 1
        <3>1. \A j \in 1..Len(q) - 1 : Tail(q)[j] = Other
            BY <1>1, <1>2, <2>1, <2>2
        <3>2. Head(q) = v /\ \A j \in 2..Len(q) : q[j] = Other
            BY <1>1, <2>1, <2>2
        <3> QED BY <1>2, <3>1, <3>2 DEF NewestIn
    <2>3. CASE i # 1
        <3>1. i - 1 \in 1..Len(q) - 1 /\ Tail(q)[i - 1] = v
            BY <1>1, <1>2, <2>1, <2>3
        <3>2. ASSUME NEW j \in 1..Len(q) - 1, j > i - 1 PROVE Tail(q)[j] = Other
            BY <1>1, <1>2, <2>1, <3>2
        <3>3. \A k : NewestIn(Tail(q), k, v)
            BY <1>2, <3>1, <3>2 DEF NewestIn
        <3> QED BY <3>3
    <2> QED BY <2>2, <2>3
<1> QED BY <1>3, <1>4 DEF NewestIn

\* A step that neither begins nor ends nor advances a telling of the state, and
\* after which whoever had been dealt with still has.
LEMMA ToldStays ==
    ASSUME ToldInv, UNCHANGED <<state, lastValue, raced>>,
           \A q \in Publisher : Tells(q)' <=> Tells(q),
           \A q \in Publisher : Tells(q) => pub'[q] = pub[q],
           members' \subseteq members,
           \A s \in members' : Told(s) => Told(s)',
           \A q \in Publisher : Tells(q) /\ pub[q].pc = "again" /\ pub[q].at \in Filtered
                                   /\ Len(queue[pub[q].at]) < QueueSize =>
               Len(queue'[pub[q].at]) < QueueSize
    PROVE  OneTells' /\ AllTold' /\ BeingTold'
<1>1. OneTells' /\ AllTold'
    BY DEF ToldInv, OneTells, AllTold
<1>2. ASSUME ~raced, NEW p \in Publisher, Tells(p) PROVE Telling(p)'
    <2>1. Telling(p)
        BY <1>2 DEF ToldInv, BeingTold
    <2> QED BY <1>2, <2>1 DEF Telling
<1>3. BeingTold'
    BY <1>2 DEF BeingTold
<1> QED BY <1>1, <1>3

\* Going on after a frame was put, or refused.
LEMMA GoesOn ==
    ASSUME IInv, NEW p \in Publisher, Publishing(p), NEW left \in SUBSET Subscriber,
           PutNext(p, left)
    PROVE  /\ \A q \in Publisher \ {p} : pub'[q] = pub[q] /\ (Tells(q)' <=> Tells(q))
           /\ Tells(p)' <=> Tells(p) /\ left # {}
           /\ Tells(p)' => /\ pub'[p].value = pub[p].value /\ pub'[p].pc = "put"
                           /\ pub'[p].to = left
<1>1. pub \in [Publisher -> {IdlePub} \cup Calls] /\ pub[p] \in Calls
    BY PubBusy DEF IInv, TypeOK, Calls, Publishing
<1>2. \A q \in Publisher \ {p} : pub'[q] = pub[q]
    BY <1>1 DEF PutNext
<1>3. CASE left # {}
    <2>1. pub'[p] = Call("put", pub[p].value, left, pub[p].also, Unset)
        BY <1>1, <1>3 DEF PutNext
    <2> QED BY <1>2, <1>3, <2>1 DEF Tells, Publishing, Call
<1>4. CASE left = {}
    <2>1. pub'[p] \in {Call("put", Other, pub[p].also, {}, Unset), IdlePub}
        BY <1>1, <1>4 DEF PutNext
    <2>2. ~Tells(p)'
        BY <2>1, EventBusAssumption DEF Tells, Publishing, Call, IdlePub
    <2> QED BY <1>2, <1>4, <2>2 DEF Tells, Publishing
<1> QED BY <1>3, <1>4

\* A frame of another event is put, into the queue of a client that wants it.
LEMMA OtherPut ==
    ASSUME ToldInv, NEW p \in Publisher, Publishing(p), ~Tells(p), NEW s \in pub[p].to,
           PutFits(p, s), UNCHANGED <<state, lastValue, joined, shown, raced>>
    PROVE  OneTells' /\ AllTold' /\ BeingTold'
<1>1. /\ IInv /\ TypeOK /\ pub[p] \in Calls /\ pub[p].value = Other /\ s \in Subscriber
      /\ s \notin Filtered
    BY PubBusy, TellsOrOther DEF ToldInv, IInv, FilterOk, Publishing, Calls
<1>2. /\ \A q \in Publisher \ {p} : pub'[q] = pub[q] /\ (Tells(q)' <=> Tells(q))
      /\ ~Tells(p)'
    <2>1. pub[p].to \ {s} \in SUBSET Subscriber
        BY <1>1 DEF Calls
    <2> QED BY <1>1, <2>1, GoesOn DEF PutFits
<1>3. /\ queue \in [Subscriber -> Seq(Frames)]
      /\ queue' = [queue EXCEPT ![s] = IF joined[s] = "out" THEN @ ELSE Append(@, Other)]
      /\ missed' = missed
    BY <1>1 DEF TypeOK, PutFits
<1>4. ASSUME NEW t \in members, Told(t) PROVE Told(t)'
    <2>1. CASE t = s /\ NewestIs(t, state)
        <3>1. queue[s] \in Seq(Frames) /\ queue'[s] = Append(queue[s], Other) /\ state \in Value
            BY <1>1, <1>3, <1>4, <2>1 DEF members, TypeOK
        <3>2. NewestIn(queue[s], shown[s], state)
            BY <2>1 DEF NewestIs, NewestIn
        <3>3. NewestIn(queue'[s], shown'[s], state')
            BY <3>1, <3>2, NewestAppended
        <3> QED BY <2>1, <3>3 DEF Told, NewestIs, NewestIn
    <2>2. CASE t # s \/ ~NewestIs(t, state)
        BY <1>3, <1>4, <2>2 DEF Told, NewestIs, members
    <2> QED BY <2>1, <2>2
<1>5. \A t \in Subscriber : t \in Filtered => queue'[t] = queue[t]
    BY <1>1, <1>3
<1>6. members' = members
    BY DEF members
<1> QED BY <1>1, <1>2, <1>4, <1>5, <1>6, ToldStays, EventBusAssumption

\* The state is put, and the call goes on with the others or ends.
LEMMA StatePut ==
    ASSUME ToldInv, NEW p \in Publisher, Publishing(p), Tells(p), pub[p].pc # "publish",
           NEW s \in pub[p].to, NEW left \in SUBSET Subscriber, left = pub[p].to \ {s},
           PutNext(p, left), UNCHANGED <<state, lastValue, joined, shown, raced>>,
           \A t \in Subscriber \ {s} : queue'[t] = queue[t],
           \A t \in Subscriber \ {s} : t \in missed => t \in missed',
           ~raced /\ s \in members => Told(s)'
    PROVE  OneTells' /\ AllTold' /\ BeingTold'
<1> SUFFICES ASSUME ~raced PROVE OneTells' /\ AllTold' /\ BeingTold'
    BY DEF OneTells, AllTold, BeingTold
<1>1. Telling(p) /\ \A q \in Publisher \ {p} : ~Tells(q)
    BY DEF ToldInv, OneTells, BeingTold
<1>2. /\ \A q \in Publisher \ {p} : ~Tells(q)'
      /\ Tells(p)' <=> left # {}
      /\ Tells(p)' => pub'[p].value = state' /\ pub'[p].pc = "put" /\ pub'[p].to = left
    BY <1>1, GoesOn DEF ToldInv, Telling
<1>3. lastValue' = state' /\ members' = members
    BY <1>1 DEF Telling, members
<1>4. ASSUME NEW t \in members', t \notin left PROVE Told(t)'
    <2>1. CASE t = s
        BY <1>3, <1>4, <2>1
    <2>2. CASE t # s
        <3>1. Told(t) /\ t \in Subscriber
            BY <1>1, <1>3, <1>4, <2>2 DEF Telling, members
        <3> QED BY <2>2, <3>1 DEF Told, NewestIs
    <2> QED BY <2>1, <2>2
<1>5. OneTells'
    BY <1>2 DEF OneTells
<1>6. AllTold'
    BY <1>2, <1>3, <1>4 DEF AllTold
<1>7. Tells(p)' => Telling(p)'
    BY <1>2, <1>3, <1>4 DEF Telling
<1> QED BY <1>2, <1>5, <1>6, <1>7 DEF BeingTold

\* ... with room in the queue.
LEMMA StateFits ==
    ASSUME ToldInv, NEW p \in Publisher, Publishing(p), Tells(p), pub[p].pc # "publish",
           NEW s \in pub[p].to, PutFits(p, s),
           UNCHANGED <<state, lastValue, joined, shown, raced>>
    PROVE  OneTells' /\ AllTold' /\ BeingTold'
<1>1. TypeOK /\ pub[p] \in Calls /\ s \in Subscriber
    BY PubBusy DEF ToldInv, IInv, Publishing, Calls
<1>2. /\ queue \in [Subscriber -> Seq(Frames)]
      /\ queue' = [queue EXCEPT ![s] = IF joined[s] = "out" THEN @
                                       ELSE Append(@, pub[p].value)]
      /\ missed' = missed \ {s}
    BY <1>1 DEF TypeOK, PutFits
<1>3. ASSUME ~raced, s \in members PROVE Told(s)'
    <2>1. pub[p].value = state /\ state \in Value
        BY <1>1, <1>3 DEF ToldInv, BeingTold, Telling, TypeOK
    <2>2. queue[s] \in Seq(Frames) /\ queue'[s] = Append(queue[s], state)
        BY <1>1, <1>2, <1>3, <2>1 DEF members
    <2>3. NewestIn(queue'[s], shown'[s], state')
        BY <2>1, <2>2, NewestAppended
    <2> QED BY <2>3 DEF Told, NewestIs, NewestIn
<1>4. pub[p].to \ {s} \in SUBSET Subscriber /\ PutNext(p, pub[p].to \ {s})
    BY <1>1 DEF Calls, PutFits
<1>5. \A t \in Subscriber \ {s} : queue'[t] = queue[t] /\ (t \in missed => t \in missed')
    BY <1>2
<1> QED BY <1>3, <1>4, <1>5, StatePut

LEMMA InitTold == Init => ToldInv
<1> SUFFICES ASSUME Init PROVE ToldInv
    OBVIOUS
<1>1. \A p \in Publisher : ~Tells(p)
    BY DEF Init, Tells, Publishing, IdlePub, Call
<1>2. members = {} /\ lastValue = state
    BY DEF Init, members
<1> QED BY <1>1, <1>2, InitTyped DEF ToldInv, OneTells, AllTold, BeingTold

\* The oldest frame is taken out of a full queue.
LEMMA GetTold ==
    ASSUME ToldInv, NEW p \in Publisher, PutGet(p)
    PROVE  OneTells' /\ AllTold' /\ BeingTold'
<1> USE EventBusAssumption
<1> DEFINE s == pub[p].at
<1>1. /\ Publishing(p) /\ pub[p].pc = "get"
      /\ UNCHANGED <<state, lastValue, joined, shown, raced>> /\ members' = members
    BY DEF PutGet, PubAt, Publishing, members
<1>t. IInv /\ TypeOK /\ AtOk /\ FilterOk /\ pub \in [Publisher -> {IdlePub} \cup Calls]
    BY DEF ToldInv, IInv, TypeOK, Calls
<1>2. pub[p] \in Calls /\ s \in pub[p].to /\ s \in Subscriber
    BY <1>t, <1>1, PubBusy DEF AtOk, Calls
<1>3. /\ pub'[p] = Call("again", pub[p].value, pub[p].to, pub[p].also, s)
      /\ \A q \in Publisher \ {p} : pub'[q] = pub[q]
    BY <1>t DEF PutGet
<1>4. \A q \in Publisher : Tells(q)' <=> Tells(q)
    BY <1>1, <1>3 DEF Tells, Publishing, Call
<1>5. /\ queue \in [Subscriber -> Seq(Frames)] /\ queue[s] \in Seq(Frames)
      /\ Len(queue[s]) <= QueueSize /\ state \in Value
    BY <1>t, <1>2 DEF TypeOK
<1>6. /\ \A t \in Subscriber \ {s} : queue'[t] = queue[t]
      /\ queue'[s] = IF queue[s] = << >> THEN queue[s] ELSE Tail(queue[s])
      /\ missed' \in {missed, missed \cup {s}}
      /\ queue[s] # << >> /\ HeadIsLastState(s) => missed' = missed \cup {s}
    BY <1>2, <1>5 DEF PutGet
<1>7. ASSUME NEW t \in members, Told(t), t # s \/ s \notin Filtered PROVE Told(t)'
    <2>0. t \in Subscriber
        BY DEF members
    <2>1. CASE t # s
        BY <1>1, <1>6, <1>7, <2>0, <2>1 DEF Told, NewestIs
    <2>2. CASE t = s /\ t \in missed
        BY <1>6, <1>7, <2>2 DEF Told
    <2>3. CASE t = s /\ queue[s] = << >>
        BY <1>1, <1>6, <1>7, <2>3 DEF Told, NewestIs
    <2>4. CASE t = s /\ queue[s] # << >> /\ t \notin missed
        <3>1. NewestIn(queue[s], shown[s], state)
            BY <1>7, <2>4 DEF Told, NewestIs, NewestIn
        <3>2. \/ Head(queue[s]) \in Value /\ \A i \in 2..Len(queue[s]) : queue[s][i] = Other
              \/ NewestIn(Tail(queue[s]), shown[s], state)
            BY <1>5, <2>4, <3>1, NewestLeft
        <3>3. CASE HeadIsLastState(s)
            BY <1>6, <1>7, <2>4, <3>3 DEF Told
        <3>4. CASE ~HeadIsLastState(s)
            <4>1. NewestIn(Tail(queue[s]), shown[s], state)
                BY <3>2, <3>4 DEF HeadIsLastState
            <4>2. queue'[s] = Tail(queue[s])
                BY <1>6, <2>4
            <4> QED BY <1>1, <2>4, <4>1, <4>2 DEF Told, NewestIs, NewestIn
        <3> QED BY <3>3, <3>4
    <2> QED BY <2>1, <2>2, <2>3, <2>4
<1>8. CASE ~Tells(p)
    <2>1. s \notin Filtered
        BY <1>t, <1>1, <1>2, <1>8, TellsOrOther DEF FilterOk
    <2>2. \A q \in Publisher : Tells(q) => pub'[q] = pub[q]
        BY <1>3, <1>8
    <2>3. ASSUME NEW q \in Publisher, Tells(q), pub[q].at \in Filtered
          PROVE  queue'[pub[q].at] = queue[pub[q].at]
        BY <1>6, <2>1, <2>3
    <2> HIDE DEF s
    <2> QED BY <1>1, <1>4, <1>7, <2>1, <2>2, <2>3, ToldStays
<1>9. CASE Tells(p)
    <2> SUFFICES ASSUME ~raced PROVE OneTells' /\ AllTold' /\ BeingTold'
        BY <1>1 DEF OneTells, AllTold, BeingTold
    <2>1. Telling(p) /\ \A q \in Publisher \ {p} : ~Tells(q)
        BY <1>9 DEF ToldInv, OneTells, BeingTold
    <2>2. Len(queue'[s]) < QueueSize
        <3>1. CASE queue[s] = << >>
            BY <1>6, <3>1
        <3>2. CASE queue[s] # << >>
            BY <1>5, <1>6, <3>2
        <3> QED BY <3>1, <3>2
    <2>3. ASSUME NEW t \in members' \ pub'[p].to PROVE Told(t)'
        <3>1. t \in members /\ t \notin pub[p].to /\ t # s
            BY <1>1, <1>2, <1>3, <2>3 DEF Call
        <3>2. Told(t)
            BY <1>1, <2>1, <3>1 DEF Telling
        <3> QED BY <1>7, <3>1, <3>2
    <2>4. pub'[p].value = state' /\ lastValue' = state' /\ pub'[p].at = s
        BY <1>1, <1>3, <2>1 DEF Telling, Call
    <2>5. Telling(p)'
        BY <2>2, <2>3, <2>4 DEF Telling
    <2> QED BY <1>4, <1>9, <2>1, <2>5 DEF OneTells, AllTold, BeingTold
<1> QED BY <1>8, <1>9

LEMMA StepTold == ToldInv /\ [Next]_vars => ToldInv'
<1> SUFFICES ASSUME ToldInv, [Next]_vars PROVE ToldInv'
    OBVIOUS
<1>t. /\ IInv /\ TypeOK /\ AtOk /\ FilterOk /\ pub \in [Publisher -> {IdlePub} \cup Calls]
      /\ OneTells /\ AllTold /\ BeingTold
    BY DEF ToldInv, IInv, TypeOK, Calls
<1>i. IInv'
    BY <1>t, StepTyped
<1> SUFFICES OneTells' /\ AllTold' /\ BeingTold'
    BY <1>i DEF ToldInv
<1>0. CASE UNCHANGED vars
    BY <1>t, <1>0 DEF vars, clientVars, OneTells, AllTold, BeingTold, Tells, Publishing, Telling,
        members, Told, NewestIs
<1>1. ASSUME NEW p \in Publisher, SetState(p) PROVE OneTells' /\ AllTold' /\ BeingTold'
    <2>1. PICK v \in Value :
            /\ state' = v
            /\ pub' = [pub EXCEPT ![p] = Call("publish", v, {}, {}, Unset)]
        BY <1>1 DEF SetState
    <2>2. /\ pub'[p] = Call("publish", v, {}, {}, Unset)
          /\ \A q \in Publisher \ {p} : pub'[q] = pub[q]
        BY <1>t, <2>1
    <2>3. Tells(p)' /\ Telling(p)'
        BY <2>1, <2>2 DEF Tells, Publishing, Telling, Call
    <2>4. ~raced' => \A q \in Publisher \ {p} : ~Tells(q)'
        BY <1>1, <2>2 DEF SetState, Tells, Publishing
    <2> QED BY <2>3, <2>4 DEF OneTells, AllTold, BeingTold
<1>e. ASSUME NEW p \in Publisher, RobotEvent(p) PROVE OneTells' /\ AllTold' /\ BeingTold'
    <2>1. /\ pub'[p] = Call("publish", Other, {}, {}, Unset)
          /\ \A q \in Publisher \ {p} : pub'[q] = pub[q]
          /\ UNCHANGED <<state, lastValue, clientVars, raced>> /\ ~Publishing(p)
        BY <1>t, <1>e DEF RobotEvent
    <2>2. ~Tells(p) /\ ~Tells(p)'
        BY <2>1, EventBusAssumption DEF Tells, Call
    <2>3. /\ \A q \in Publisher : Tells(q)' <=> Tells(q)
          /\ \A q \in Publisher : Tells(q) => pub'[q] = pub[q]
        BY <2>1, <2>2 DEF Tells, Publishing
    <2>4. members' = members /\ \A s \in members' : Told(s) => Told(s)'
        BY <2>1 DEF clientVars, members, Told, NewestIs
    <2>5. UNCHANGED queue
        BY <2>1 DEF clientVars
    <2> QED BY <2>1, <2>3, <2>4, <2>5, ToldStays
<1>2. ASSUME NEW p \in Publisher, Publish(p) PROVE OneTells' /\ AllTold' /\ BeingTold'
    <2> DEFINE targets == {s \in members : Wants(s, pub[p].value)}
    <2>1. /\ Publishing(p) /\ pub[p].pc = "publish" /\ PutNext(p, targets)
          /\ targets \in SUBSET Subscriber
          /\ UNCHANGED <<state, joined, queue, shown, missed, raced>>
        BY <1>2 DEF Publish, PubAt, Publishing, clientVars, members
    <2>2. pub[p].value \in Value => targets = members
        BY DEF Wants
    <2> HIDE DEF targets
    <2>3. /\ \A q \in Publisher \ {p} : pub'[q] = pub[q] /\ (Tells(q)' <=> Tells(q))
          /\ Tells(p)' <=> Tells(p) /\ targets # {}
          /\ Tells(p)' => /\ pub'[p].value = pub[p].value /\ pub'[p].pc = "put"
                          /\ pub'[p].to = targets
        BY <1>t, <2>1, GoesOn
    <2>4. members' = members /\ \A s \in members : Told(s) => Told(s)'
        BY <2>1 DEF members, Told, NewestIs
    <2>5. CASE ~Tells(p)
        <3>1. UNCHANGED lastValue
            BY <1>2, <2>5 DEF Publish
        <3> QED BY <2>1, <2>3, <2>4, <2>5, <3>1, ToldStays
    <2>6. CASE Tells(p)
        <3> SUFFICES ASSUME ~raced PROVE OneTells' /\ AllTold' /\ BeingTold'
            BY <2>1 DEF OneTells, AllTold, BeingTold
        <3>1. Telling(p) /\ \A q \in Publisher \ {p} : ~Tells(q)
            BY <1>t, <2>6 DEF OneTells, BeingTold
        <3>2. lastValue' = state' /\ targets = members
            BY <1>2, <2>1, <2>2, <2>6, <3>1 DEF Publish, Tells, Telling
        <3>3. Tells(p)' => Telling(p)'
            BY <2>1, <2>3, <2>4, <3>1, <3>2 DEF Telling
        <3>4. AllTold'
            BY <2>3, <2>4, <2>6, <3>1, <3>2 DEF AllTold
        <3> QED BY <2>3, <3>1, <3>3, <3>4 DEF OneTells, BeingTold
    <2> QED BY <2>5, <2>6
<1>3. ASSUME NEW p \in Publisher, Put(p) PROVE OneTells' /\ AllTold' /\ BeingTold'
    <2>1. /\ Publishing(p) /\ pub[p].pc = "put"
          /\ UNCHANGED <<state, lastValue, joined, shown, raced>>
        BY <1>3 DEF Put, PubAt, Publishing
    <2>2. PICK s \in pub[p].to :
            \/ PutFits(p, s)
            \/ /\ pub' = [pub EXCEPT ![p] = Call("get", @.value, @.to, @.also, s)]
               /\ UNCHANGED <<queue, missed>>
        BY <1>3 DEF Put
    <2>3. CASE PutFits(p, s)
        BY <2>1, <2>2, <2>3, OtherPut, StateFits
    <2>4. CASE ~PutFits(p, s)
        <3>1. /\ pub'[p] = Call("get", pub[p].value, pub[p].to, pub[p].also, s)
              /\ \A q \in Publisher \ {p} : pub'[q] = pub[q]
              /\ UNCHANGED <<queue, missed>>
            BY <1>t, <2>2, <2>4
        <3>2. \A q \in Publisher : Tells(q)' <=> Tells(q)
            BY <2>1, <3>1 DEF Tells, Publishing, Call
        <3>3. members' = members /\ \A t \in members : Told(t) => Told(t)'
            BY <2>1, <3>1 DEF members, Told, NewestIs
        <3>4. OneTells' /\ AllTold'
            BY <1>t, <2>1, <3>2, <3>3 DEF OneTells, AllTold
        <3>5. ASSUME NEW q \in Publisher, Telling(q) PROVE Telling(q)'
            BY <2>1, <3>1, <3>3, <3>5 DEF Telling, Call
        <3> QED BY <1>t, <2>1, <3>2, <3>4, <3>5 DEF BeingTold
    <2> QED BY <2>3, <2>4
<1>4. ASSUME NEW p \in Publisher, PutGet(p) PROVE OneTells' /\ AllTold' /\ BeingTold'
    BY <1>4, GetTold
<1>5. ASSUME NEW p \in Publisher, PutAgain(p) PROVE OneTells' /\ AllTold' /\ BeingTold'
    <2>s. PICK s : s = pub[p].at
        OBVIOUS
    <2>1. /\ Publishing(p) /\ pub[p].pc = "again"
          /\ UNCHANGED <<state, lastValue, joined, shown, raced>>
        BY <1>5 DEF PutAgain, PubAt, Publishing
    <2>2. s \in pub[p].to /\ pub[p] \in Calls /\ pub[p].to \ {s} \in SUBSET Subscriber
        BY <1>t, <2>s, <2>1, PubBusy DEF AtOk, Calls
    <2>3. CASE PutFits(p, s)
        BY <2>1, <2>2, <2>3, OtherPut, StateFits
    <2>4. CASE ~PutFits(p, s)
        <3>1. /\ Full(s) /\ PutNext(p, pub[p].to \ {s}) /\ UNCHANGED queue
              /\ missed' = IF Tells(p) THEN missed \cup {s} ELSE missed
            BY <1>5, <2>s, <2>4 DEF PutAgain
        <3>2. CASE Tells(p)
            <4>1. ASSUME ~raced PROVE s \notin Filtered
                <5>1. Telling(p)
                    BY <1>t, <3>2, <4>1 DEF BeingTold
                <5>2. Len(queue[s]) = QueueSize /\ QueueSize \in Nat
                    BY <3>1, EventBusAssumption DEF Full
                <5> QED BY <2>s, <2>1, <5>1, <5>2 DEF Telling
            <4>2. ~raced => Told(s)'
                BY <3>1, <3>2, <4>1 DEF Told
            <4>3. \A t \in Subscriber \ {s} : queue'[t] = queue[t] /\ (t \in missed => t \in missed')
                BY <3>1, <3>2
            <4> QED BY <2>1, <2>2, <3>1, <3>2, <4>2, <4>3, StatePut
        <3>3. CASE ~Tells(p)
            <4>1. /\ \A q \in Publisher : Tells(q)' <=> Tells(q)
                  /\ \A q \in Publisher : Tells(q) => pub'[q] = pub[q]
                BY <1>t, <2>1, <2>2, <3>1, <3>3, GoesOn
            <4>2. members' = members /\ \A t \in members : Told(t) => Told(t)'
                BY <2>1, <3>1, <3>3 DEF members, Told, NewestIs
            <4> QED BY <2>1, <3>1, <4>1, <4>2, ToldStays
        <3> QED BY <3>2, <3>3
    <2> QED BY <2>3, <2>4
<1>6. ASSUME NEW p \in Publisher, NEW s \in Subscriber, Subscribe(p, s)
      PROVE  OneTells' /\ AllTold' /\ BeingTold'
    <2> SUFFICES ASSUME ~raced' PROVE OneTells' /\ AllTold' /\ BeingTold'
        BY DEF OneTells, AllTold, BeingTold
    <2>1. /\ ~raced /\ \A q \in Publisher : ~Tells(q)
          /\ UNCHANGED <<state, lastValue, queue, shown, missed>>
        BY <1>6 DEF Subscribe
    <2>2. lastValue = state /\ \A t \in members : Told(t)
        BY <1>t, <2>1 DEF AllTold
    <2>3. PICK after : /\ pub'[p] = Call("put", lastValue, {s}, after, Unset)
                       /\ \A q \in Publisher \ {p} : pub'[q] = pub[q]
        BY <1>t, <1>6 DEF Subscribe
    <2>4. members' \subseteq members \cup {s}
        BY <1>t, <1>6 DEF Subscribe, members, TypeOK
    <2>5. Tells(p)' /\ \A q \in Publisher \ {p} : ~Tells(q)'
        BY <1>t, <2>1, <2>3 DEF Tells, Publishing, Call, TypeOK
    <2>6. ASSUME NEW t \in members' \ {s} PROVE Told(t)'
        BY <2>1, <2>2, <2>4, <2>6 DEF Told, NewestIs
    <2>7. Telling(p)'
        BY <2>1, <2>2, <2>3, <2>6 DEF Telling, Call
    <2> QED BY <2>5, <2>7 DEF OneTells, AllTold, BeingTold
<1>7. ASSUME NEW s \in Subscriber, Unsubscribe(s) PROVE OneTells' /\ AllTold' /\ BeingTold'
    <2>1. /\ UNCHANGED <<state, lastValue, pub, raced>>
          /\ members' = members \ {s} /\ members \subseteq Subscriber
          /\ \A t \in Subscriber \ {s} : /\ queue'[t] = queue[t] /\ shown'[t] = shown[t]
                                         /\ t \in missed => t \in missed'
          /\ queue'[s] = << >>
        BY <1>t, <1>7 DEF Unsubscribe, members, TypeOK
    <2>2. \A t \in members' : Told(t) => Told(t)'
        BY <2>1 DEF Told, NewestIs
    <2>3. \A q \in Publisher : Tells(q)' <=> Tells(q)
        BY <2>1 DEF Tells, Publishing
    <2>4. ASSUME NEW q \in Publisher, pub[q].at \in Filtered, Len(queue[pub[q].at]) < QueueSize
          PROVE  Len(queue'[pub[q].at]) < QueueSize
        <3>1. pub[q].at \in Subscriber
            BY <2>4, EventBusAssumption
        <3> QED BY <2>1, <2>4, <3>1, EventBusAssumption
    <2> QED BY <2>1, <2>2, <2>3, <2>4, ToldStays
<1>8. ASSUME NEW s \in Subscriber, Receive(s) PROVE OneTells' /\ AllTold' /\ BeingTold'
    <2>1. /\ UNCHANGED <<state, lastValue, pub, raced, missed>> /\ queue[s] # << >>
          /\ members' = members /\ members \subseteq Subscriber
        BY <1>8 DEF Receive, members
    <2>2. /\ \A t \in Subscriber \ {s} : queue'[t] = queue[t] /\ shown'[t] = shown[t]
          /\ queue[s] \in Seq(Frames) /\ queue'[s] = Tail(queue[s]) /\ state \in Value
          /\ shown'[s] = IF Head(queue[s]) \in Value THEN Head(queue[s]) ELSE shown[s]
        BY <1>t, <1>8 DEF Receive, TypeOK
    <2>3. ASSUME NEW t \in members, Told(t) PROVE Told(t)'
        <3>1. CASE t # s \/ t \in missed \ Filtered
            BY <2>1, <2>2, <2>3, <3>1 DEF Told, NewestIs
        <3>2. CASE t = s /\ NewestIs(s, state)
            <4>1. NewestIn(queue[s], shown[s], state)
                BY <3>2 DEF NewestIs, NewestIn
            <4>2. NewestIn(queue'[s], shown'[s], state')
                BY <2>1, <2>2, <4>1, NewestLeft
            <4> QED BY <3>2, <4>2 DEF Told, NewestIs, NewestIn
        <3> QED BY <2>3, <3>1, <3>2 DEF Told
    <2>4. ASSUME NEW q \in Publisher, pub[q].at \in Filtered, Len(queue[pub[q].at]) < QueueSize
          PROVE  Len(queue'[pub[q].at]) < QueueSize
        <3>1. pub[q].at \in Subscriber
            BY <2>4, EventBusAssumption
        <3>2. CASE pub[q].at # s
            BY <2>2, <2>4, <3>1, <3>2
        <3>3. CASE pub[q].at = s
            <4>1. Len(Tail(queue[s])) = Len(queue[s]) - 1 /\ Len(queue[s]) \in Nat
                BY <2>1, <2>2
            <4>2. queue'[pub[q].at] = Tail(queue[s]) /\ Len(queue[s]) < QueueSize
                BY <2>2, <2>4, <3>3
            <4> QED BY <4>1, <4>2, EventBusAssumption
        <3> QED BY <3>2, <3>3
    <2>5. \A q \in Publisher : Tells(q)' <=> Tells(q)
        BY <2>1 DEF Tells, Publishing
    <2> QED BY <2>1, <2>3, <2>4, <2>5, ToldStays
<1> QED BY <1>0, <1>1, <1>e, <1>2, <1>3, <1>4, <1>5, <1>6, <1>7, <1>8 DEF Next

\* When nobody is telling the state, a client that asked for the state alone has
\* it, or will read it as the last one, and so has a client of every event
\* unless other frames pushed its newest state out of a full queue; for any
\* number of threads and clients and any size of the queues.  Only a state that
\* two threads told together may be missed besides.
THEOREM ClientsSeeTheState == Spec => []ClientSeesState
<1>1. ToldInv => ClientSeesState
    BY DEF ToldInv, AllTold, Told, ClientSeesState
<1> QED BY <1>1, InitTold, StepTold, PTL DEF Spec

-----------------------------------------------------------------------------
(* The recordings: what is appended by whom, what a copy takes over, and in     *)
(* which order the points of a list are.                                        *)

\* What a value of each variable is; the bound of a list comes later.
RecordingTypes ==
    /\ now \in 0..MaxUpdates
    /\ attached \subseteq Session /\ delivering \subseteq Session
    /\ mode \in [Session -> Modes] /\ phase \in [Session -> Phases]
    /\ source \in [Session -> Session \cup {None}]
    /\ seed \in [Session -> Obs]
    /\ vals \in [Session -> Seq(Obs)] /\ stamps \in [Session -> Seq(Stamps)]
    /\ latest \in [Session -> {<< >>} \cup (Obs \X Obs)]
    /\ lastTs \in [Session -> Obs \cup {None}]
    /\ writer \in [Writer -> {Idle} \cup Writing]
    /\ backfills \in 0..MaxBackfills
    /\ out \in [Session -> [values : Seq(Obs), stamps : Seq(Stamps)]]
    /\ due \in [Session -> Seq(Obs)] /\ copied \in [Session -> Nat]
    /\ torn \subseteq Session
    /\ \A s \in Session : phase[s] = "copy" => source[s] \in Session

Busy(w, s) == writer[w].pc # "idle" /\ writer[w].s = s
Regular == Writer \ {Filler}
Started == {"running", "stopping", "swap", "stopped"}

\* Which threads append to a session when: of those that bring updates there is
\* only one at any time.
Mine(w, s) ==
    \/ w = CA /\ mode[s] # "sample" /\ phase[s] \in Started /\ s \notin delivering
    \/ w = Sampler(s) /\ mode[s] = "sample" /\ phase[s] \in Started
    \/ w = Starter(s) /\ phase[s] = "seed"
    \/ w = Filler /\ phase[s] \in Started /\ writer[w].v \in Backfilled

Owners ==
    /\ \A w \in Writer : ~Free(w) => Mine(w, writer[w].s)
    /\ attached \subseteq {s \in Session : phase[s] \in {"running", "stopping"}}
    /\ delivering \subseteq {s \in Session : phase[s] \in Started}

LEMMA WriterKinds ==
    /\ CA \in Writer /\ Filler \in Writer /\ CA # Filler
    /\ \A s \in Session : Sampler(s) \in Writer /\ Starter(s) \in Writer
    /\ \A s \in Session : Sampler(s) # Filler /\ Starter(s) # Filler
    /\ \A s \in Session : Sampler(s) # CA /\ Starter(s) # CA
    /\ \A q, s \in Session : Sampler(q) # Starter(s)
    /\ \A q, s \in Session : Sampler(q) = Sampler(s) => q = s
    /\ \A q, s \in Session : Starter(q) = Starter(s) => q = s
BY DEF Writer, CA, Filler, Sampler, Starter

LEMMA BecomesPhase ==
    ASSUME phase \in [Session -> Phases], NEW s \in Session, NEW loc \in Phases, Becomes(s, loc)
    PROVE  /\ phase' \in [Session -> Phases]
           /\ phase'[s] = loc
           /\ \A q \in Session \ {s} : phase'[q] = phase[q]
BY DEF Becomes

\* What _append is about to do when it is called.
LEMMA AppendsWrites ==
    ASSUME RecordingTypes, NEW w \in Writer, NEW s \in Session,
           NEW v \in Obs, NEW t \in Obs, Appends(w, s, v, t)
    PROVE  /\ writer' \in [Writer -> {Idle} \cup Writing]
           /\ \A u \in Writer \ {w} : writer'[u] = writer[u]
           /\ \/ writer'[w] = writer[w]
              \/ /\ writer'[w] = [pc |-> "value", s |-> s, v |-> v, t |-> t]
                 /\ Len(vals[s]) < Cap[s]
<1>1. writer \in [Writer -> {Idle} \cup Writing]
    BY DEF RecordingTypes
<1>2. [pc |-> "value", s |-> s, v |-> v, t |-> t] \in Writing
    BY DEF Writing
<1>3. CASE writer' = writer
    BY <1>1, <1>3
<1>4. CASE writer' # writer
    <2>1. /\ writer' = [writer EXCEPT ![w] = [pc |-> "value", s |-> s, v |-> v, t |-> t]]
          /\ ~(Len(vals[s]) >= Cap[s])
        BY <1>4 DEF Appends
    <2>2. Len(vals[s]) \in Nat /\ Cap[s] \in Nat
        BY RecordingAssumption DEF RecordingTypes
    <2> QED BY <1>1, <1>2, <2>1, <2>2
<1> QED BY <1>3, <1>4

\* A callback that is called with an update takes it to the slot, drops it or
\* appends it.
LEMMA OnUpdateTakes ==
    ASSUME RecordingTypes, NEW w \in Writer, NEW s \in Session,
           NEW v \in Obs, NEW t \in Obs, OnUpdate(w, s, v, t)
    PROVE  /\ latest' \in [Session -> {<< >>} \cup (Obs \X Obs)]
           /\ writer' \in [Writer -> {Idle} \cup Writing]
           /\ \A q \in Session \ {s} : latest'[q] = latest[q]
           /\ \A u \in Writer \ {w} : writer'[u] = writer[u]
           /\ \/ latest'[s] = <<v, t>> /\ mode[s] = "sample" /\ writer'[w] = writer[w]
              \/ /\ latest'[s] = latest[s]
                 /\ \/ writer'[w] = writer[w]
                    \/ /\ mode[s] # "sample" /\ Len(vals[s]) < Cap[s]
                       /\ writer'[w] = [pc |-> "value", s |-> s, v |-> v, t |-> t]
<1>1. /\ latest \in [Session -> {<< >>} \cup (Obs \X Obs)]
      /\ writer \in [Writer -> {Idle} \cup Writing]
    BY DEF RecordingTypes
<1>2. CASE mode[s] = "sample" /\ latest' = [latest EXCEPT ![s] = <<v, t>>] /\ writer' = writer
    BY <1>1, <1>2
<1>3. CASE mode[s] = "throttle" /\ UNCHANGED <<latest, writer>>
    BY <1>1, <1>3
<1>4. CASE mode[s] # "sample" /\ Appends(w, s, v, t) /\ latest' = latest
    BY <1>1, <1>4, AppendsWrites
<1> QED BY <1>2, <1>3, <1>4 DEF OnUpdate

\* The last points of a list, as many as the session may hold.
LEMMA LastPointsAre ==
    ASSUME NEW s \in Session, NEW list \in Seq(Obs)
    PROVE  /\ LastPoints(list, s) \in Seq(Obs)
           /\ Len(LastPoints(list, s)) <= Len(list)
           /\ Len(LastPoints(list, s)) <= Cap[s]
           /\ \E k \in Nat : \A i \in DOMAIN LastPoints(list, s) :
                /\ i + k \in DOMAIN list
                /\ LastPoints(list, s)[i] = list[i + k]
<1>1. Cap[s] \in Nat /\ Len(list) \in Nat
    BY RecordingAssumption
<1> DEFINE m == IF Len(list) > Cap[s] THEN Len(list) - Cap[s] + 1 ELSE 1
<1>2. m \in Nat /\ m >= 1 /\ Len(list) - m + 1 <= Cap[s] /\ m <= Len(list) + 1
    BY <1>1
<1>3. LastPoints(list, s) = SubSeq(list, m, Len(list))
    BY DEF LastPoints
<1> HIDE DEF m
<1>4. /\ SubSeq(list, m, Len(list)) \in Seq(Obs)
      /\ Len(SubSeq(list, m, Len(list))) = Len(list) - m + 1
      /\ \A i \in 1..(Len(list) - m + 1) : SubSeq(list, m, Len(list))[i] = list[m + i - 1]
    BY <1>1, <1>2
<1>5. m - 1 \in Nat /\ \A i \in DOMAIN LastPoints(list, s) :
                /\ i + (m - 1) \in DOMAIN list
                /\ LastPoints(list, s)[i] = list[i + (m - 1)]
    BY <1>1, <1>2, <1>3, <1>4
<1> QED BY <1>1, <1>2, <1>3, <1>4, <1>5

\* A timestamp is copied as a timestamp.
LEMMA LastStamps ==
    ASSUME NEW s \in Session, NEW list \in Seq(Stamps)
    PROVE  LastPoints(list, s) \in Seq(Stamps)
<1>1. Cap[s] \in Nat /\ Len(list) \in Nat
    BY RecordingAssumption
<1> DEFINE m == IF Len(list) > Cap[s] THEN Len(list) - Cap[s] + 1 ELSE 1
<1>2. m \in Nat /\ m >= 1
    BY <1>1
<1>3. LastPoints(list, s) = SubSeq(list, m, Len(list))
    BY DEF LastPoints
<1> HIDE DEF m
<1> QED BY <1>1, <1>2, <1>3

\* A value is an observation or None; the time of day is an observation.
LEMMA Observed ==
    ASSUME now \in 0..MaxUpdates
    PROVE  /\ now \in Stamps /\ now \in Obs /\ now \in Nat /\ now # Unread
           /\ Unread \in Obs
           /\ \A v \in Backfilled : v \in Obs /\ v # Unread
           /\ \A t \in Obs : StampOf(t) \in Stamps
           /\ \A t \in Obs : t # Unread => StampOf(t) = t
BY RecordingAssumption DEF Stamps, Obs, Unread, Backfilled, StampOf

-----------------------------------------------------------------------------
LEMMA TypesStart == RecordingInit => RecordingTypes
<1> SUFFICES ASSUME RecordingInit PROVE RecordingTypes
    OBVIOUS
<1>1. << >> \in Seq(Obs) /\ << >> \in Seq(Stamps) /\ 0 \in Obs
    BY RecordingAssumption DEF Obs
<1>2. /\ vals \in [Session -> Seq(Obs)] /\ stamps \in [Session -> Seq(Stamps)]
      /\ due \in [Session -> Seq(Obs)]
      /\ out \in [Session -> [values : Seq(Obs), stamps : Seq(Stamps)]]
    BY <1>1 DEF RecordingInit
<1>3. /\ seed \in [Session -> Obs] /\ copied \in [Session -> Nat]
      /\ lastTs \in [Session -> Obs \cup {None}]
      /\ latest \in [Session -> {<< >>} \cup (Obs \X Obs)]
    BY <1>1 DEF RecordingInit
<1> QED BY <1>2, <1>3, RecordingAssumption DEF RecordingInit, RecordingTypes, Phases

LEMMA TypesKept == RecordingTypes /\ [RecordingNext]_recordingVars => RecordingTypes'
<1> SUFFICES ASSUME RecordingTypes, [RecordingNext]_recordingVars PROVE RecordingTypes'
    OBVIOUS
<1> USE RecordingAssumption
<1> USE DEF recordingVars, bufVars, pvVars, startVars
<1>t. now \in Obs /\ now \in Nat /\ Unread \in Obs
    BY Observed DEF RecordingTypes
<1>0. CASE UNCHANGED recordingVars
    BY <1>0 DEF RecordingTypes
<1>1. CASE Update
    BY <1>1 DEF Update, RecordingTypes
<1>2. ASSUME NEW w \in Writer, AppendValue(w) PROVE RecordingTypes'
    <2>1. writer[w] \in Writing
        BY <1>2 DEF AppendValue, At, RecordingTypes, Idle
    <2>2. /\ vals' \in [Session -> Seq(Obs)]
          /\ torn' \subseteq Session
        BY <1>2, <2>1 DEF AppendValue, RecordingTypes, Writing
    <2>3. writer' \in [Writer -> {Idle} \cup Writing]
        BY <1>2, <2>1 DEF AppendValue, Goto, RecordingTypes, Writing
    <2> QED BY <1>2, <2>2, <2>3 DEF AppendValue, RecordingTypes
<1>3. ASSUME NEW w \in Writer, AppendStamp(w) PROVE RecordingTypes'
    <2>1. writer[w] \in Writing
        BY <1>3 DEF AppendStamp, At, RecordingTypes, Idle
    <2>2. stamps' \in [Session -> Seq(Stamps)] /\ due' \in [Session -> Seq(Obs)]
        <3>1. CASE Live(writer[w].s)
            <4>1. /\ stamps' = [stamps EXCEPT ![writer[w].s] = Append(@, StampOf(writer[w].t))]
                  /\ due' = [due EXCEPT ![writer[w].s] = Append(@, writer[w].v)]
                BY <1>3, <3>1 DEF AppendStamp
            <4>2. writer[w].t \in Obs /\ writer[w].v \in Obs /\ writer[w].s \in Session
                BY <2>1 DEF Writing
            <4>3. StampOf(writer[w].t) \in Stamps
                BY <4>2, Observed DEF RecordingTypes
            <4> QED BY <4>1, <4>2, <4>3 DEF RecordingTypes
        <3>2. CASE ~Live(writer[w].s)
            BY <1>3, <2>1, <3>2 DEF AppendStamp, RecordingTypes
        <3> QED BY <3>1, <3>2
    <2>3. writer' \in [Writer -> {Idle} \cup Writing]
        BY <1>3 DEF AppendStamp, RecordingTypes
    <2> QED BY <1>3, <2>2, <2>3 DEF AppendStamp, RecordingTypes
<1>4. ASSUME NEW s \in Session, Deliver(s) PROVE RecordingTypes'
    <2>1. latest' \in [Session -> {<< >>} \cup (Obs \X Obs)]
          /\ writer' \in [Writer -> {Idle} \cup Writing]
        <3>1. CASE s \in attached
            BY <1>t, <1>4, <3>1, OnUpdateTakes, WriterKinds DEF Deliver
        <3>2. CASE s \notin attached
            BY <1>4, <3>2 DEF Deliver, RecordingTypes
        <3> QED BY <3>1, <3>2
    <2> QED BY <1>4, <2>1 DEF Deliver, RecordingTypes
<1>5. ASSUME NEW s \in Session, Tick(s) PROVE RecordingTypes'
    <2>1. latest[s][1] \in Obs /\ latest[s][2] \in Obs
        BY <1>5 DEF Tick, RecordingTypes
    <2>2. writer' \in [Writer -> {Idle} \cup Writing]
        <3>1. Sampler(s) \in Writer /\ Appends(Sampler(s), s, latest[s][1], latest[s][2])
            BY <1>5, WriterKinds DEF Tick
        <3> QED BY <2>1, <3>1, AppendsWrites
    <2>3. lastTs' \in [Session -> Obs \cup {None}]
        BY <1>5, <2>1 DEF Tick, RecordingTypes
    <2> QED BY <1>5, <2>2, <2>3 DEF Tick, RecordingTypes
<1>6. ASSUME NEW s \in Session, Backfill(s) PROVE RecordingTypes'
    <2>1. backfills' \in 0..MaxBackfills /\ MaxUpdates + backfills' \in Obs
        BY <1>6 DEF Backfill, RecordingTypes, Obs
    <2>2. writer' \in [Writer -> {Idle} \cup Writing]
        BY <1>6, <2>1, AppendsWrites, WriterKinds DEF Backfill
    <2> QED BY <1>6, <2>1, <2>2 DEF Backfill, RecordingTypes
<1>7. ASSUME NEW s \in Session, StartCopy(s) PROVE RecordingTypes'
    <2>1. \A q \in Session : LastPoints(vals[q], s) \in Seq(Obs) /\ Len(vals[q]) \in Nat
        BY LastPointsAre DEF RecordingTypes
    <2>2. CASE \A q \in Session : ~HasData(q)
        <3>1. Becomes(s, "get") /\ UNCHANGED <<source, vals, due, copied, torn>>
            BY <1>7, <2>2 DEF StartCopy
        <3> QED BY <1>7, <3>1 DEF StartCopy, RecordingTypes, Becomes, Phases
    <2>3. CASE ~\A q \in Session : ~HasData(q)
        <3>1. PICK q \in Session :
                /\ source' = [source EXCEPT ![s] = q]
                /\ vals' = [vals EXCEPT ![s] = LastPoints(vals[q], s)]
                /\ copied' = [copied EXCEPT ![s] = Len(vals[q])]
                /\ due' = [due EXCEPT ![s] = LastPoints(vals[q], s)]
                /\ torn' = torn \cup {r \in {s} : q \in torn}
                /\ Becomes(s, "copy")
            BY <1>7, <2>3 DEF StartCopy
        <3>2. /\ vals' \in [Session -> Seq(Obs)] /\ due' \in [Session -> Seq(Obs)]
              /\ copied' \in [Session -> Nat] /\ torn' \subseteq Session
            BY <2>1, <3>1 DEF RecordingTypes
        <3>3. /\ source' \in [Session -> Session \cup {None}]
              /\ phase' \in [Session -> Phases]
              /\ \A r \in Session : phase'[r] = "copy" => source'[r] \in Session
            BY <3>1 DEF RecordingTypes, Becomes, Phases
        <3> QED BY <1>7, <3>2, <3>3 DEF StartCopy, RecordingTypes
    <2> QED BY <2>2, <2>3
<1>8. ASSUME NEW s \in Session, CopyStamps(s) PROVE RecordingTypes'
    <2>1. stamps' \in [Session -> Seq(Stamps)]
        <3>1. \A q \in Session : LastPoints(stamps[q], s) \in Seq(Stamps)
            BY LastStamps DEF RecordingTypes
        <3>2. source[s] \in Session
            BY <1>8 DEF CopyStamps, RecordingTypes
        <3> QED BY <1>8, <3>1, <3>2 DEF CopyStamps, RecordingTypes
    <2>2. /\ copied' \in [Session -> Nat] /\ torn' \subseteq Session
          /\ source' \in [Session -> Session \cup {None}]
        BY <1>8 DEF CopyStamps, RecordingTypes
    <2>3. /\ phase' \in [Session -> Phases]
          /\ \A q \in Session : phase'[q] = "copy" => source'[q] \in Session
        BY <1>8 DEF CopyStamps, RecordingTypes, Becomes, Phases
    <2> QED BY <1>8, <2>1, <2>2, <2>3 DEF CopyStamps, RecordingTypes
<1>9. ASSUME NEW s \in Session, SeedGet(s) PROVE RecordingTypes'
    <2>1. seed' \in [Session -> Obs]
        <3>1. PICK v \in Obs : seed' = [seed EXCEPT ![s] = v] \/ seed' = seed
            BY <1>t, <1>9 DEF SeedGet
        <3> QED BY <3>1 DEF RecordingTypes
    <2>2. /\ phase' \in [Session -> Phases]
          /\ \A r \in Session : phase'[r] = "copy" => phase[r] = "copy"
        BY <1>9 DEF SeedGet, RecordingTypes, Becomes, Phases
    <2> QED BY <1>9, <2>1, <2>2 DEF SeedGet, RecordingTypes
<1>10. ASSUME NEW s \in Session, SeedStamp(s) PROVE RecordingTypes'
    <2>1. seed[s] \in Obs /\ 0 \in Obs
        BY DEF RecordingTypes, Obs
    <2>2. PICK t \in Obs : OnUpdate(Starter(s), s, seed[s], t)
        BY <1>t, <1>10 DEF SeedStamp
    <2>3. latest' \in [Session -> {<< >>} \cup (Obs \X Obs)]
          /\ writer' \in [Writer -> {Idle} \cup Writing]
        BY <2>1, <2>2, OnUpdateTakes, WriterKinds
    <2> QED BY <1>10, <2>1, <2>3 DEF SeedStamp, RecordingTypes, Becomes, Phases
<1>11. ASSUME NEW s \in Session, SeedDone(s) PROVE RecordingTypes'
    BY <1>11, BecomesPhase DEF SeedDone, RecordingTypes, Phases
<1>14. ASSUME NEW s \in Session, AddCallback(s) PROVE RecordingTypes'
    BY <1>14, BecomesPhase DEF AddCallback, RecordingTypes, Phases
<1>12. ASSUME NEW s \in Session, StopSampler(s) PROVE RecordingTypes'
    BY <1>12, BecomesPhase DEF StopSampler, RecordingTypes, Phases
<1>15. ASSUME NEW s \in Session, StopMonitors(s) PROVE RecordingTypes'
    BY <1>15, BecomesPhase DEF StopMonitors, RecordingTypes, Phases
<1>13. ASSUME NEW s \in Session, StopSwap(s) PROVE RecordingTypes'
    <2>1. << >> \in Seq(Obs) /\ << >> \in Seq(Stamps)
        OBVIOUS
    <2>2. Handed(s) \in [values : Seq(Obs), stamps : Seq(Stamps)]
        <3>1. vals[s] \in Seq(Obs) /\ stamps[s] \in Seq(Stamps)
            BY DEF RecordingTypes
        <3>2. Len(vals[s]) \in Nat /\ Len(stamps[s]) \in Nat
            BY <3>1
        <3>3. \A n \in Nat : n <= Len(vals[s]) => SubSeq(vals[s], 1, n) \in Seq(Obs)
            BY <3>1
        <3>4. \A n \in Nat : n <= Len(stamps[s]) => SubSeq(stamps[s], 1, n) \in Seq(Stamps)
            BY <3>1
        <3> QED BY <3>2, <3>3, <3>4 DEF Handed
    <2>3. /\ vals' \in [Session -> Seq(Obs)] /\ stamps' \in [Session -> Seq(Stamps)]
          /\ out' \in [Session -> [values : Seq(Obs), stamps : Seq(Stamps)]]
        BY <1>13, <2>1, <2>2 DEF StopSwap, RecordingTypes
    <2> QED BY <1>13, <2>3 DEF StopSwap, RecordingTypes, Becomes, Phases
<1> QED BY <1>0, <1>1, <1>2, <1>3, <1>4, <1>5, <1>6, <1>7, <1>8, <1>9, <1>10, <1>11, <1>12,
           <1>13, <1>14, <1>15 DEF RecordingNext

-----------------------------------------------------------------------------
(* What the steps that append do to the threads.                               *)

LEMMA BusySession ==
    ASSUME RecordingTypes, NEW w \in Writer, ~Free(w)
    PROVE  /\ writer[w] \in Writing /\ writer[w].s \in Session
           /\ writer[w].v \in Obs /\ writer[w].t \in Obs
           /\ writer[w].pc \in {"value", "stamp"}
BY DEF RecordingTypes, Free, Idle, Writing

LEMMA AppendValueDoes ==
    ASSUME RecordingTypes, NEW w \in Writer, AppendValue(w)
    PROVE  /\ writer[w].pc = "value" /\ writer[w].s \in Session /\ writer[w].v \in Obs
           /\ writer'[w].pc = "stamp" /\ writer'[w].s = writer[w].s
              /\ writer'[w].v = writer[w].v /\ writer'[w].t = writer[w].t
           /\ \A u \in Writer \ {w} : writer'[u] = writer[u]
           /\ vals'[writer[w].s] = IF Live(writer[w].s)
                                   THEN Append(vals[writer[w].s], writer[w].v)
                                   ELSE vals[writer[w].s]
           /\ \A q \in Session \ {writer[w].s} : vals'[q] = vals[q]
<1>1. ~Free(w) /\ writer[w].pc = "value"
    BY DEF AppendValue, At, Free
<1>2. writer[w] \in Writing /\ writer[w].s \in Session /\ writer[w].v \in Obs
    BY <1>1, BusySession
<1>3. /\ writer'[w] = [writer[w] EXCEPT !.pc = "stamp"]
      /\ \A u \in Writer \ {w} : writer'[u] = writer[u]
    BY DEF AppendValue, Goto, RecordingTypes
<1>4. writer'[w] = [pc |-> "stamp", s |-> writer[w].s, v |-> writer[w].v, t |-> writer[w].t]
    BY <1>2, <1>3 DEF Writing
<1>5. /\ vals'[writer[w].s] = IF Live(writer[w].s)
                              THEN Append(vals[writer[w].s], writer[w].v)
                              ELSE vals[writer[w].s]
      /\ \A q \in Session \ {writer[w].s} : vals'[q] = vals[q]
    BY <1>2 DEF AppendValue, RecordingTypes
<1> QED BY <1>1, <1>2, <1>3, <1>4, <1>5

LEMMA AppendStampDoes ==
    ASSUME RecordingTypes, NEW w \in Writer, AppendStamp(w)
    PROVE  /\ writer[w].pc = "stamp" /\ writer[w].s \in Session
           /\ writer[w].v \in Obs /\ writer[w].t \in Obs
           /\ writer'[w].pc = "idle"
           /\ \A u \in Writer \ {w} : writer'[u] = writer[u]
           /\ \A q \in Session \ {writer[w].s} : stamps'[q] = stamps[q] /\ due'[q] = due[q]
           /\ LET s == writer[w].s IN
              IF Live(s)
              THEN /\ stamps'[s] = Append(stamps[s], StampOf(writer[w].t))
                   /\ due'[s] = Append(due[s], writer[w].v)
              ELSE stamps'[s] = stamps[s] /\ due'[s] = due[s]
<1>1. ~Free(w) /\ writer[w].pc = "stamp"
    BY DEF AppendStamp, At, Free
<1>2. writer[w].s \in Session /\ writer[w].v \in Obs /\ writer[w].t \in Obs
    BY <1>1, BusySession
<1>3. writer'[w].pc = "idle" /\ \A u \in Writer \ {w} : writer'[u] = writer[u]
    BY DEF AppendStamp, RecordingTypes, Idle
<1>4. CASE Live(writer[w].s)
    <2>1. /\ stamps' = [stamps EXCEPT ![writer[w].s] = Append(@, StampOf(writer[w].t))]
          /\ due' = [due EXCEPT ![writer[w].s] = Append(@, writer[w].v)]
        BY <1>4 DEF AppendStamp
    <2> QED BY <1>1, <1>2, <1>3, <1>4, <2>1 DEF RecordingTypes
<1>5. CASE ~Live(writer[w].s)
    BY <1>1, <1>2, <1>3, <1>5 DEF AppendStamp
<1> QED BY <1>4, <1>5

\* A callback that is not called leaves everything; one that is called takes
\* the update.
LEMMA DeliverDoes ==
    ASSUME RecordingTypes, NEW s \in Session, Deliver(s)
    PROVE  /\ writer[CA].pc = "idle" /\ s \in delivering
           /\ \A q \in Session \ {s} : latest'[q] = latest[q]
           /\ \A u \in Writer \ {CA} : writer'[u] = writer[u]
           /\ \/ UNCHANGED <<latest, writer>>
              \/ /\ s \in attached /\ mode[s] = "sample" /\ latest'[s] = <<now, now>>
                 /\ writer'[CA] = writer[CA]
              \/ /\ s \in attached /\ mode[s] # "sample" /\ Len(vals[s]) < Cap[s]
                 /\ latest'[s] = latest[s]
                 /\ writer'[CA].pc = "value" /\ writer'[CA].s = s
                    /\ writer'[CA].v = now /\ writer'[CA].t = now
<1>1. now \in Obs
    BY RecordingAssumption DEF RecordingTypes, Obs
<1>2. CASE s \in attached
    <2>1. CA \in Writer /\ OnUpdate(CA, s, now, now)
        BY <1>2, WriterKinds DEF Deliver
    <2>2. /\ \A q \in Session \ {s} : latest'[q] = latest[q]
          /\ \A u \in Writer \ {CA} : writer'[u] = writer[u]
          /\ \/ latest'[s] = <<now, now>> /\ mode[s] = "sample" /\ writer'[CA] = writer[CA]
             \/ /\ latest'[s] = latest[s]
                /\ \/ writer'[CA] = writer[CA]
                   \/ /\ mode[s] # "sample" /\ Len(vals[s]) < Cap[s]
                      /\ writer'[CA] = [pc |-> "value", s |-> s, v |-> now, t |-> now]
        BY <1>1, <2>1, OnUpdateTakes
    <2>3. CASE latest'[s] = latest[s] /\ writer'[CA] = writer[CA]
        <3>1. \A q \in Session : latest'[q] = latest[q]
            BY <2>2, <2>3
        <3>2. \A u \in Writer : writer'[u] = writer[u]
            BY <2>2, <2>3
        <3>3. /\ latest' \in [Session -> {<< >>} \cup (Obs \X Obs)]
              /\ writer' \in [Writer -> {Idle} \cup Writing]
            BY <1>1, <2>1, OnUpdateTakes
        <3>4. latest' = latest /\ writer' = writer
            BY <3>1, <3>2, <3>3 DEF RecordingTypes
        <3> QED BY <2>2, <3>4 DEF Deliver, Free
    <2> QED BY <1>2, <2>2, <2>3 DEF Deliver, Free
<1>3. CASE s \notin attached
    BY <1>3 DEF Deliver, Free
<1> QED BY <1>2, <1>3

LEMMA TickDoes ==
    ASSUME RecordingTypes, NEW s \in Session, Tick(s)
    PROVE  /\ writer[Sampler(s)].pc = "idle"
           /\ latest[s][1] \in Obs /\ latest[s][2] \in Obs
           /\ lastTs'[s] = latest[s][2]
           /\ \A q \in Session \ {s} : lastTs'[q] = lastTs[q]
           /\ \A u \in Writer \ {Sampler(s)} : writer'[u] = writer[u]
           /\ \/ writer'[Sampler(s)] = writer[Sampler(s)]
              \/ /\ Len(vals[s]) < Cap[s]
                 /\ writer'[Sampler(s)].pc = "value" /\ writer'[Sampler(s)].s = s
                    /\ writer'[Sampler(s)].v = latest[s][1] /\ writer'[Sampler(s)].t = latest[s][2]
<1>1. latest[s][1] \in Obs /\ latest[s][2] \in Obs
    BY DEF Tick, RecordingTypes
<1>2. Sampler(s) \in Writer /\ Appends(Sampler(s), s, latest[s][1], latest[s][2])
    BY WriterKinds DEF Tick
<1>3. /\ \A u \in Writer \ {Sampler(s)} : writer'[u] = writer[u]
      /\ \/ writer'[Sampler(s)] = writer[Sampler(s)]
         \/ /\ writer'[Sampler(s)] =
                    [pc |-> "value", s |-> s, v |-> latest[s][1], t |-> latest[s][2]]
            /\ Len(vals[s]) < Cap[s]
    BY <1>1, <1>2, AppendsWrites
<1> QED BY <1>1, <1>3 DEF Tick, RecordingTypes, Free

LEMMA BackfillDoes ==
    ASSUME RecordingTypes, NEW s \in Session, Backfill(s)
    PROVE  /\ writer[Filler].pc = "idle" /\ backfills' = backfills + 1
           /\ \A u \in Writer \ {Filler} : writer'[u] = writer[u]
           /\ \/ writer'[Filler] = writer[Filler]
              \/ \E v \in Backfilled :
                    /\ Len(vals[s]) < Cap[s]
                    /\ writer'[Filler].pc = "value" /\ writer'[Filler].s = s
                       /\ writer'[Filler].v = v /\ writer'[Filler].t = v
<1>1. MaxUpdates + backfills' \in Obs /\ MaxUpdates + backfills' \in Backfilled
    BY RecordingAssumption DEF Backfill, RecordingTypes, Obs, Backfilled
<1>2. /\ Filler \in Writer
      /\ Appends(Filler, s, MaxUpdates + backfills', MaxUpdates + backfills')
    BY WriterKinds DEF Backfill
<1>3. /\ \A u \in Writer \ {Filler} : writer'[u] = writer[u]
      /\ \/ writer'[Filler] = writer[Filler]
         \/ /\ writer'[Filler] = [pc |-> "value", s |-> s, v |-> MaxUpdates + backfills',
                                  t |-> MaxUpdates + backfills']
            /\ Len(vals[s]) < Cap[s]
    BY <1>1, <1>2, AppendsWrites
<1> QED BY <1>1, <1>3 DEF Backfill, Free

LEMMA SeedStampDoes ==
    ASSUME RecordingTypes, NEW s \in Session, SeedStamp(s)
    PROVE  /\ seed[s] \in Obs /\ now \in Obs
           /\ \A q \in Session \ {s} : latest'[q] = latest[q]
           /\ \A u \in Writer \ {Starter(s)} : writer'[u] = writer[u]
           /\ \E t \in Obs :
                /\ t = now \/ seed[s] = Unread
                /\ \/ /\ latest'[s] = <<seed[s], t>> /\ mode[s] = "sample"
                      /\ writer'[Starter(s)] = writer[Starter(s)]
                   \/ /\ latest'[s] = latest[s]
                      /\ \/ writer'[Starter(s)] = writer[Starter(s)]
                         \/ /\ mode[s] # "sample" /\ Len(vals[s]) < Cap[s]
                            /\ writer'[Starter(s)].pc = "value" /\ writer'[Starter(s)].s = s
                            /\ writer'[Starter(s)].v = seed[s] /\ writer'[Starter(s)].t = t
<1>1. seed[s] \in Obs /\ now \in Obs /\ Unread \in Obs
    BY Observed DEF RecordingTypes
<1>2. PICK t \in Obs : /\ t = now \/ seed[s] = Unread
                       /\ OnUpdate(Starter(s), s, seed[s], t)
    BY <1>1 DEF SeedStamp
<1>3. /\ \A q \in Session \ {s} : latest'[q] = latest[q]
      /\ \A u \in Writer \ {Starter(s)} : writer'[u] = writer[u]
      /\ \/ /\ latest'[s] = <<seed[s], t>> /\ mode[s] = "sample"
            /\ writer'[Starter(s)] = writer[Starter(s)]
         \/ /\ latest'[s] = latest[s]
            /\ \/ writer'[Starter(s)] = writer[Starter(s)]
               \/ /\ mode[s] # "sample" /\ Len(vals[s]) < Cap[s]
                  /\ writer'[Starter(s)] =
                        [pc |-> "value", s |-> s, v |-> seed[s], t |-> t]
    BY <1>1, <1>2, OnUpdateTakes, WriterKinds
<1> QED BY <1>1, <1>2, <1>3

\* The session gets what a sibling has, or nobody has data.
LEMMA StartCopyDoes ==
    ASSUME RecordingTypes, NEW s \in Session, StartCopy(s)
    PROVE  \/ Becomes(s, "get") /\ UNCHANGED <<source, vals, due, copied, torn>>
           \/ \E q \in Session :
                /\ phase[q] \in {"running", "stopping", "swap"}
                /\ Becomes(s, "copy") /\ torn' = torn \cup {r \in {s} : q \in torn}
                /\ source'[s] = q /\ copied'[s] = Len(vals[q])
                /\ vals'[s] = LastPoints(vals[q], s) /\ due'[s] = LastPoints(vals[q], s)
                /\ \A r \in Session \ {s} :
                    /\ source'[r] = source[r] /\ copied'[r] = copied[r]
                    /\ vals'[r] = vals[r] /\ due'[r] = due[r]
<1>1. CASE \A q \in Session : ~HasData(q)
    BY <1>1 DEF StartCopy
<1>2. CASE ~\A q \in Session : ~HasData(q)
    <2>1. PICK q \in Session :
            /\ HasData(q)
            /\ source' = [source EXCEPT ![s] = q]
            /\ vals' = [vals EXCEPT ![s] = LastPoints(vals[q], s)]
            /\ copied' = [copied EXCEPT ![s] = Len(vals[q])]
            /\ due' = [due EXCEPT ![s] = LastPoints(vals[q], s)]
            /\ torn' = torn \cup {r \in {s} : q \in torn}
            /\ Becomes(s, "copy")
        BY <1>2 DEF StartCopy
    <2> QED BY <2>1 DEF RecordingTypes, HasData
<1> QED BY <1>1, <1>2

-----------------------------------------------------------------------------
(* Who appends.                                                                *)

OwnersOk == \A w \in Writer : ~Free(w) => Mine(w, writer[w].s)

\* Two threads that bring updates never append to one session.
LEMMA OneRegular ==
    ASSUME Owners, NEW s \in Session, NEW w \in Regular, NEW u \in Regular,
           Busy(w, s), Busy(u, s)
    PROVE  w = u
<1>1. Mine(w, s) /\ Mine(u, s)
    BY DEF Owners, Busy, Free, Regular
<1> QED BY <1>1 DEF Mine, Regular, Started

\* Nobody appends to a session whose start() has not come to the seed.
LEMMA NobodyYet ==
    ASSUME Owners, NEW s \in Session, phase[s] \notin Started, phase[s] # "seed"
    PROVE  /\ \A w \in Writer : ~Busy(w, s)
           /\ s \notin attached /\ s \notin delivering
<1>1. ASSUME NEW w \in Writer, Busy(w, s) PROVE FALSE
    BY <1>1 DEF Owners, Busy, Free, Mine
<1> QED BY <1>1 DEF Owners, Started

\* A step of start() or stop() leaves the threads their sessions.
LEMMA PhaseMoves ==
    ASSUME OwnersOk, RecordingTypes, writer' = writer, mode' = mode,
           delivering' \subseteq delivering,
           \A q \in Session : phase[q] \in Started => phase'[q] \in Started,
           \A q \in Session : phase[q] = "seed" => phase'[q] = "seed" \/ Free(Starter(q))
    PROVE  OwnersOk'
<1> SUFFICES ASSUME NEW w \in Writer, ~Free(w) PROVE Mine(w, writer[w].s)'
    BY DEF OwnersOk, Free
<1>1. Mine(w, writer[w].s) /\ writer[w].s \in Session
    BY BusySession DEF OwnersOk
<1> QED BY <1>1 DEF Mine

\* A thread that calls _append, or a step of it.
LEMMA WriterMoves ==
    ASSUME OwnersOk, RecordingTypes, NEW w \in Writer, mode' = mode,
           delivering' \subseteq delivering,
           \A q \in Session : phase[q] \in Started => phase'[q] \in Started,
           \A q \in Session : phase[q] = "seed" => phase'[q] = "seed",
           \A u \in Writer \ {w} : writer'[u] = writer[u],
           writer'[w].pc # "idle" => Mine(w, writer[w].s)'
    PROVE  OwnersOk'
<1> SUFFICES ASSUME NEW u \in Writer, ~Free(u)' PROVE Mine(u, writer[u].s)'
    BY DEF OwnersOk, Free
<1>1. CASE u = w
    BY <1>1 DEF Free, Mine
<1>2. CASE u # w
    <2>1. ~Free(u) /\ writer'[u] = writer[u]
        BY <1>2 DEF Free
    <2>2. Mine(u, writer[u].s) /\ writer[u].s \in Session
        BY <2>1, BusySession DEF OwnersOk
    <2> QED BY <2>1, <2>2 DEF Mine
<1> QED BY <1>1, <1>2

LEMMA OwnersStart == RecordingInit => Owners
BY DEF RecordingInit, Owners, Free, Idle

LEMMA OwnersKept ==
    RecordingTypes /\ Owners /\ [RecordingNext]_recordingVars => Owners'
<1> SUFFICES ASSUME RecordingTypes, Owners, [RecordingNext]_recordingVars PROVE Owners'
    OBVIOUS
<1> USE RecordingAssumption
<1> USE DEF recordingVars, bufVars, pvVars, startVars
<1> DEFINE Places == /\ attached \subseteq {s \in Session : phase[s] \in {"running", "stopping"}}
                     /\ delivering \subseteq {s \in Session : phase[s] \in Started}
<1>t. phase \in [Session -> Phases] /\ OwnersOk /\ Places /\ delivering \subseteq Session
    BY DEF RecordingTypes, Owners, OwnersOk
<1>q. OwnersOk' /\ Places' => Owners'
    BY DEF Owners, OwnersOk
<1>0. CASE UNCHANGED recordingVars
    BY <1>0 DEF Owners, Free, Mine
<1>1. CASE Update
    <2>1. Places'
        BY <1>t, <1>1 DEF Update, Started
    <2>2. ASSUME NEW w \in Writer, ~Free(w)' PROVE Mine(w, writer[w].s)'
        BY <1>1, <2>2 DEF Update, Free, Owners, Mine
    <2> QED BY <1>q, <2>1, <2>2 DEF OwnersOk
<1>2. ASSUME NEW w \in Writer, AppendValue(w) PROVE Owners'
    <2>1. /\ writer' = [writer EXCEPT ![w].pc = "stamp"]
          /\ UNCHANGED <<mode, delivering, attached, phase>> /\ ~Free(w)
        BY <1>2 DEF AppendValue, Goto, At, Free
    <2>2. writer'[w].s = writer[w].s /\ writer'[w].v = writer[w].v
          /\ \A u \in Writer \ {w} : writer'[u] = writer[u]
        BY <2>1, BusySession DEF RecordingTypes, Writing
    <2>3. Mine(w, writer[w].s)'
        BY <1>t, <2>1, <2>2 DEF OwnersOk, Mine
    <2> QED BY <1>t, <1>q, <2>1, <2>2, <2>3, WriterMoves
<1>3. ASSUME NEW w \in Writer, AppendStamp(w) PROVE Owners'
    <2>1. /\ writer'[w] = Idle /\ \A u \in Writer \ {w} : writer'[u] = writer[u]
          /\ UNCHANGED <<mode, delivering, attached, phase>>
        BY <1>3 DEF AppendStamp, RecordingTypes
    <2> QED BY <1>t, <1>q, <2>1, WriterMoves DEF Idle
<1>4. ASSUME NEW s \in Session, Deliver(s) PROVE Owners'
    <2>1. /\ delivering' = delivering \ {s} /\ UNCHANGED <<mode, attached, phase>>
          /\ Free(CA) /\ now \in Obs
        BY <1>4 DEF Deliver, RecordingTypes, Obs
    <2>2. CASE s \notin attached
        <3>1. writer' = writer
            BY <1>4, <2>2 DEF Deliver
        <3> QED BY <1>t, <1>q, <2>1, <3>1, PhaseMoves
    <2>3. CASE s \in attached
        <3>1. /\ \A u \in Writer \ {CA} : writer'[u] = writer[u]
              /\ \/ writer'[CA] = writer[CA]
                 \/ mode[s] # "sample" /\ writer'[CA].s = s
            BY <1>4, DeliverDoes
        <3>2. writer'[CA].pc # "idle" => Mine(CA, writer[CA].s)'
            BY <1>t, <2>1, <2>3, <3>1 DEF Free, Mine, Started
        <3> QED BY <1>t, <1>q, <2>1, <3>1, <3>2, WriterMoves, WriterKinds
    <2> QED BY <2>2, <2>3
<1>5. ASSUME NEW s \in Session, Tick(s) PROVE Owners'
    <2>1. /\ UNCHANGED <<mode, attached, delivering, phase>> /\ Sampler(s) \in Writer
          /\ mode[s] = "sample" /\ phase[s] = "running"
        BY <1>5, WriterKinds DEF Tick
    <2>2. /\ \A u \in Writer \ {Sampler(s)} : writer'[u] = writer[u]
          /\ writer'[Sampler(s)].pc = "idle" \/ writer'[Sampler(s)].s = s
        BY <1>5, TickDoes
    <2>3. writer'[Sampler(s)].pc # "idle" => Mine(Sampler(s), writer[Sampler(s)].s)'
        BY <2>1, <2>2 DEF Mine, Started
    <2> QED BY <1>t, <1>q, <2>1, <2>2, <2>3, WriterMoves
<1>6. ASSUME NEW s \in Session, Backfill(s) PROVE Owners'
    <2>1. /\ UNCHANGED <<mode, attached, delivering, phase>> /\ Filler \in Writer
          /\ phase[s] = "running"
        BY <1>6, WriterKinds DEF Backfill
    <2>2. /\ \A u \in Writer \ {Filler} : writer'[u] = writer[u]
          /\ \/ writer'[Filler].pc = "idle"
             \/ writer'[Filler].s = s /\ writer'[Filler].v \in Backfilled
        BY <1>6, BackfillDoes
    <2>3. writer'[Filler].pc # "idle" => Mine(Filler, writer[Filler].s)'
        BY <2>1, <2>2 DEF Mine, Started
    <2> QED BY <1>t, <1>q, <2>1, <2>2, <2>3, WriterMoves
<1>7. ASSUME NEW s \in Session, NEW loc \in Phases, Becomes(s, loc),
             UNCHANGED <<mode, writer, attached, delivering>>,
             phase[s] \notin Started,
             phase[s] = "seed" => Free(Starter(s))
      PROVE  Owners'
    <2>1. phase'[s] = loc /\ \A q \in Session \ {s} : phase'[q] = phase[q]
        BY <1>t, <1>7, BecomesPhase
    <2>2. Places'
        BY <1>t, <1>7, <2>1 DEF Started
    <2> QED BY <1>t, <1>q, <1>7, <2>1, <2>2, PhaseMoves
<1>8. ASSUME NEW s \in Session, StartCopy(s) PROVE Owners'
    <2>1. PICK loc \in {"get", "copy"} : Becomes(s, loc)
        BY <1>8 DEF StartCopy
    <2> QED BY <1>7, <1>8, <2>1 DEF StartCopy, Started, Phases
<1>9. ASSUME NEW s \in Session, CopyStamps(s) PROVE Owners'
    BY <1>7, <1>9 DEF CopyStamps, Started, Phases
<1>10. ASSUME NEW s \in Session, SeedGet(s) PROVE Owners'
    <2>1. PICK loc \in {"stamp", "add"} : Becomes(s, loc)
        BY <1>10 DEF SeedGet
    <2> QED BY <1>7, <1>10, <2>1 DEF SeedGet, Started, Phases
<1>11. ASSUME NEW s \in Session, SeedStamp(s) PROVE Owners'
    <2>1. phase'[s] = "seed" /\ \A q \in Session \ {s} : phase'[q] = phase[q]
        BY <1>t, <1>11, BecomesPhase DEF SeedStamp, Phases
    <2>2. phase[s] = "stamp" /\ UNCHANGED <<mode, attached, delivering>>
        BY <1>11 DEF SeedStamp
    <2>3. Free(Starter(s))
        BY <2>2, BusySession, WriterKinds DEF Owners, Mine, Started
    <2>4. /\ \A u \in Writer \ {Starter(s)} : writer'[u] = writer[u]
          /\ writer'[Starter(s)] = writer[Starter(s)] \/ writer'[Starter(s)].s = s
        BY <1>11, SeedStampDoes
    <2>5. writer'[Starter(s)].pc # "idle" => Mine(Starter(s), writer[Starter(s)].s)'
        BY <2>1, <2>3, <2>4 DEF Free, Mine
    <2>6. Places'
        BY <1>t, <2>1, <2>2 DEF Started
    <2> QED BY <1>t, <1>q, <2>1, <2>2, <2>4, <2>5, <2>6, WriterMoves, WriterKinds DEF Started
<1>12. ASSUME NEW s \in Session, SeedDone(s) PROVE Owners'
    BY <1>7, <1>12 DEF SeedDone, Started, Phases
<1>13. ASSUME NEW s \in Session, NEW loc \in Started, Becomes(s, loc),
              UNCHANGED <<mode, writer, delivering>>,
              phase[s] # "seed" /\ Places'
       PROVE  Owners'
    <2>1. phase'[s] = loc /\ \A q \in Session \ {s} : phase'[q] = phase[q]
        BY <1>t, <1>13, BecomesPhase DEF Started, Phases
    <2> QED BY <1>t, <1>q, <1>13, <2>1, PhaseMoves
<1>14. ASSUME NEW s \in Session, AddCallback(s) PROVE Owners'
    <2>1. phase'[s] = "running" /\ \A q \in Session \ {s} : phase'[q] = phase[q]
        BY <1>t, <1>14, BecomesPhase DEF AddCallback, Phases
    <2>2. Places'
        BY <1>t, <1>14, <2>1 DEF AddCallback, Started
    <2> QED BY <1>13, <1>14, <2>2 DEF AddCallback, Started
<1>15. ASSUME NEW s \in Session, StopSampler(s) PROVE Owners'
    <2>1. phase'[s] = "stopping" /\ \A q \in Session \ {s} : phase'[q] = phase[q]
        BY <1>t, <1>15, BecomesPhase DEF StopSampler, Phases
    <2>2. Places'
        BY <1>t, <1>15, <2>1 DEF StopSampler, Started
    <2> QED BY <1>13, <1>15, <2>2 DEF StopSampler, Started
<1>16. ASSUME NEW s \in Session, StopMonitors(s) PROVE Owners'
    <2>1. phase'[s] = "swap" /\ \A q \in Session \ {s} : phase'[q] = phase[q]
        BY <1>t, <1>16, BecomesPhase DEF StopMonitors, Phases
    <2>2. Places'
        BY <1>t, <1>16, <2>1 DEF StopMonitors, Started
    <2> QED BY <1>13, <1>16, <2>2 DEF StopMonitors, Started
<1>17. ASSUME NEW s \in Session, StopSwap(s) PROVE Owners'
    <2>1. phase'[s] = "stopped" /\ \A q \in Session \ {s} : phase'[q] = phase[q]
        BY <1>t, <1>17, BecomesPhase DEF StopSwap, Phases
    <2>2. Places'
        BY <1>t, <1>17, <2>1 DEF StopSwap, Started
    <2> QED BY <1>13, <1>17, <2>2 DEF StopSwap, Started
<1> QED BY <1>0, <1>1, <1>2, <1>3, <1>4, <1>5, <1>6, <1>8, <1>9, <1>10, <1>11, <1>12, <1>14,
           <1>15, <1>16, <1>17 DEF RecordingNext

-----------------------------------------------------------------------------
(* How long a list gets.  A thread that has found room and not appended yet    *)
(* counts as a point.                                                          *)

Waits(w, s) == At(w, "value") /\ writer[w].s = s
Pending(s) == (IF \E w \in Regular : Waits(w, s) THEN 1 ELSE 0)
              + (IF Waits(Filler, s) THEN 1 ELSE 0)

Sized ==
    /\ \A s \in Session : Len(vals[s]) + Pending(s) <= Cap[s] + backfills
    /\ ~Free(Filler) => backfills >= 1

LEMMA SizesAreNumbers ==
    RecordingTypes => /\ \A s \in Session : Len(vals[s]) \in Nat /\ Cap[s] \in Nat
                      /\ \A s \in Session : Pending(s) \in 0..2
                      /\ backfills \in Nat
BY RecordingAssumption DEF RecordingTypes, Pending

\* A step that neither lengthens a list nor makes a thread wait.
LEMMA NoMorePending ==
    ASSUME NEW s \in Session, \A w \in Writer : Waits(w, s)' => Waits(w, s)
    PROVE  Pending(s)' <= Pending(s)
BY WriterKinds DEF Pending, Regular

LEMMA SizedStart == RecordingInit => Sized
<1> SUFFICES ASSUME RecordingInit PROVE Sized
    OBVIOUS
<1>1. \A w \in Writer : Free(w) /\ ~At(w, "value")
    BY DEF RecordingInit, Idle, Free, At
<1>2. \A s \in Session : Pending(s) = 0 /\ Len(vals[s]) = 0
    BY <1>1, WriterKinds DEF Pending, Waits, Regular, RecordingInit
<1>3. \A s \in Session : Cap[s] \in Nat /\ backfills = 0
    BY RecordingAssumption DEF RecordingInit
<1> QED BY <1>1, <1>2, <1>3, WriterKinds DEF Sized

LEMMA SizedKept ==
    RecordingTypes /\ Owners /\ Sized /\ [RecordingNext]_recordingVars => Sized'
<1> SUFFICES ASSUME RecordingTypes, Owners, Sized, [RecordingNext]_recordingVars PROVE Sized'
    OBVIOUS
<1> USE DEF recordingVars, bufVars, pvVars, startVars
<1>n. /\ \A s \in Session : Len(vals[s]) \in Nat /\ Cap[s] \in Nat /\ Pending(s) \in 0..2
      /\ backfills \in Nat
    BY SizesAreNumbers
<1>m. /\ \A s \in Session : Len(vals'[s]) \in Nat /\ Pending(s)' \in 0..2
      /\ backfills' \in Nat
    <2>1. RecordingTypes'
        BY TypesKept
    <2>2. (/\ \A s \in Session : Len(vals[s]) \in Nat /\ Cap[s] \in Nat
           /\ \A s \in Session : Pending(s) \in 0..2
           /\ backfills \in Nat)'
        BY <2>1, SizesAreNumbers, PTL
    <2> QED BY <2>2
<1>s. /\ \A s \in Session : Len(vals[s]) + Pending(s) <= Cap[s] + backfills
      /\ ~Free(Filler) => backfills >= 1
    BY DEF Sized
<1>w. Filler \in Writer /\ CA \in Regular
      /\ \A s \in Session : Sampler(s) \in Regular /\ Starter(s) \in Regular
    BY WriterKinds DEF Regular
<1>1. ASSUME UNCHANGED <<vals, writer, backfills>> PROVE Sized'
    BY <1>1, <1>s DEF Pending, Waits, At, Sized, Free
\* A thread that brings an update finds room.
<1>2. ASSUME NEW s \in Session, NEW w \in Regular, vals' = vals, backfills' = backfills,
             \A u \in Writer \ {w} : writer'[u] = writer[u],
             \/ writer'[w].pc = "idle" \/ writer'[w] = writer[w]
             \/ Len(vals[s]) < Cap[s] /\ writer'[w].s = s
      PROVE  Sized'
    <2>1. w # Filler /\ w \in Writer
        BY DEF Regular
    <2>2. writer'[Filler] = writer[Filler]
        BY <1>2, <1>w, <2>1
    <2>3. \A q \in Session : Waits(Filler, q)' <=> Waits(Filler, q)
        BY <2>2 DEF Waits, At
    <2>4. ASSUME NEW q \in Session
          PROVE  Len(vals'[q]) + Pending(q)' <= Cap[q] + backfills'
        <3>1. CASE \A u \in Writer : Waits(u, q)' => Waits(u, q)
            <4>1. Pending(q)' <= Pending(q)
                BY <3>1, NoMorePending
            <4> QED BY <1>2, <1>n, <1>m, <1>s, <4>1
        <3>2. CASE ~\A u \in Writer : Waits(u, q)' => Waits(u, q)
            <4>1. q = s /\ Len(vals[s]) < Cap[s]
                BY <1>2, <3>2 DEF Waits, At
            <4>2. CASE Waits(Filler, q)
                <5>1. backfills >= 1
                    BY <1>s, <4>2 DEF Waits, At, Free
                <5> QED BY <1>2, <1>n, <1>m, <4>1, <5>1
            <4>3. CASE ~Waits(Filler, q)
                <5>1. ~Waits(Filler, q)'
                    BY <2>3, <4>3
                <5>2. Pending(q)' <= 1
                    BY <5>1 DEF Pending
                <5> QED BY <1>2, <1>n, <1>m, <4>1, <5>2
            <4> QED BY <4>2, <4>3
        <3> QED BY <3>1, <3>2
    <2> QED BY <1>2, <1>s, <2>2, <2>4 DEF Sized, Free
<1>3. ASSUME NEW w \in Writer, AppendValue(w) PROVE Sized'
    <2>0. PICK s \in Session : s = writer[w].s
        BY <1>3, AppendValueDoes
    <2>1. /\ writer[w].pc = "value" /\ writer'[w].pc = "stamp"
          /\ \A u \in Writer \ {w} : writer'[u] = writer[u]
          /\ \A q \in Session \ {s} : vals'[q] = vals[q]
          /\ vals'[s] = Append(vals[s], writer[w].v) \/ vals'[s] = vals[s]
          /\ writer[w].v \in Obs
        BY <1>3, <2>0, AppendValueDoes
    <2>2. backfills' = backfills
        BY <1>3 DEF AppendValue
    <2>3. \A q \in Session : \A u \in Writer : Waits(u, q)' => Waits(u, q) /\ u # w
        BY <2>1 DEF Waits, At
    <2>4. Len(vals'[s]) <= Len(vals[s]) + 1
        <3>1. vals[s] \in Seq(Obs)
            BY <2>1 DEF RecordingTypes
        <3> QED BY <1>n, <2>1, <3>1
    <2>5. Pending(s)' + 1 <= Pending(s)
        <3>1. Waits(w, s)
            BY <2>0, <2>1 DEF Waits, At
        <3>2. CASE w = Filler
            <4>1. ~Waits(Filler, s)' /\ \A u \in Regular : Waits(u, s)' => Waits(u, s)
                BY <2>1, <2>3, <3>2 DEF Regular
            <4> QED BY <3>1, <3>2, <4>1 DEF Pending
        <3>3. CASE w # Filler
            <4>1. ASSUME NEW u \in Regular, Waits(u, s)' PROVE FALSE
                <5>1. u \in Writer /\ w \in Regular
                    BY <3>3 DEF Regular
                <5>2. Waits(u, s) /\ u # w
                    BY <2>1, <2>3, <4>1, <5>1
                <5>3. Busy(u, s) /\ Busy(w, s)
                    BY <3>1, <5>2 DEF Waits, At, Busy
                <5> QED BY <2>1, <5>1, <5>2, <5>3, OneRegular
            <4>2. Waits(Filler, s)' => Waits(Filler, s)
                BY <1>w, <2>1, <2>3
            <4> QED BY <3>1, <3>3, <4>1, <4>2 DEF Pending, Regular
        <3> QED BY <3>2, <3>3
    <2>6. ASSUME NEW q \in Session
          PROVE  Len(vals'[q]) + Pending(q)' <= Cap[q] + backfills'
        <3>1. CASE q = s
            BY <1>n, <1>m, <1>s, <2>1, <2>2, <2>4, <2>5, <3>1
        <3>2. CASE q # s
            <4>1. Pending(q)' <= Pending(q)
                BY <2>3, NoMorePending
            <4> QED BY <1>n, <1>m, <1>s, <2>1, <2>2, <3>2, <4>1
        <3> QED BY <3>1, <3>2
    <2>7. ~Free(Filler)' => ~Free(Filler)
        BY <1>w, <2>1 DEF Free
    <2> QED BY <1>s, <2>2, <2>6, <2>7 DEF Sized
<1>4. ASSUME NEW w \in Writer, AppendStamp(w) PROVE Sized'
    <2>1. /\ writer'[w].pc = "idle" /\ \A u \in Writer \ {w} : writer'[u] = writer[u]
          /\ UNCHANGED <<vals, backfills>>
        BY <1>4, AppendStampDoes DEF AppendStamp
    <2>2. ASSUME NEW q \in Session PROVE Pending(q)' <= Pending(q)
        <3>1. \A u \in Writer : Waits(u, q)' => Waits(u, q)
            BY <2>1 DEF Waits, At
        <3> QED BY <3>1, NoMorePending
    <2>3. ~Free(Filler)' => ~Free(Filler)
        BY <1>w, <2>1 DEF Free
    <2>4. \A q \in Session : Len(vals'[q]) + Pending(q)' <= Cap[q] + backfills'
        BY <1>n, <1>m, <1>s, <2>1, <2>2
    <2> QED BY <1>s, <2>1, <2>3, <2>4 DEF Sized
<1>5. ASSUME NEW s \in Session, Deliver(s) PROVE Sized'
    <2>1. /\ \A u \in Writer \ {CA} : writer'[u] = writer[u]
          /\ \/ writer'[CA] = writer[CA]
             \/ Len(vals[s]) < Cap[s] /\ writer'[CA].s = s
        BY <1>5, DeliverDoes
    <2> QED BY <1>2, <1>5, <1>w, <2>1 DEF Deliver
<1>6. ASSUME NEW s \in Session, Tick(s) PROVE Sized'
    <2>1. /\ \A u \in Writer \ {Sampler(s)} : writer'[u] = writer[u]
          /\ \/ writer'[Sampler(s)] = writer[Sampler(s)]
             \/ Len(vals[s]) < Cap[s] /\ writer'[Sampler(s)].s = s
        BY <1>6, TickDoes
    <2> QED BY <1>2, <1>6, <1>w, <2>1 DEF Tick
<1>7. ASSUME NEW s \in Session, SeedStamp(s) PROVE Sized'
    <2>1. /\ \A u \in Writer \ {Starter(s)} : writer'[u] = writer[u]
          /\ \/ writer'[Starter(s)] = writer[Starter(s)]
             \/ Len(vals[s]) < Cap[s] /\ writer'[Starter(s)].s = s
        BY <1>7, SeedStampDoes
    <2> QED BY <1>2, <1>7, <1>w, <2>1 DEF SeedStamp
<1>8. ASSUME NEW s \in Session, Backfill(s) PROVE Sized'
    <2>1. /\ writer[Filler].pc = "idle" /\ backfills' = backfills + 1 /\ vals' = vals
          /\ \A u \in Writer \ {Filler} : writer'[u] = writer[u]
        BY <1>8, BackfillDoes DEF Backfill
    <2>2. ASSUME NEW q \in Session PROVE Pending(q)' <= Pending(q) + 1
        <3>1. \A u \in Regular : Waits(u, q)' => Waits(u, q)
            BY <2>1 DEF Waits, At, Regular
        <3> QED BY <3>1 DEF Pending
    <2>3. \A q \in Session : Len(vals'[q]) + Pending(q)' <= Cap[q] + backfills'
        BY <1>n, <1>m, <1>s, <2>1, <2>2
    <2>4. backfills' >= 1
        BY <1>n, <2>1
    <2> QED BY <2>3, <2>4 DEF Sized
<1>9. ASSUME NEW s \in Session, StartCopy(s) PROVE Sized'
    <2>1. UNCHANGED <<writer, backfills>> /\ phase[s] = "new"
        BY <1>9 DEF StartCopy
    <2>2. CASE vals' = vals
        BY <1>1, <2>1, <2>2
    <2>3. CASE vals' # vals
        <3>1. PICK r \in Session :
                /\ vals'[s] = LastPoints(vals[r], s)
                /\ \A q \in Session \ {s} : vals'[q] = vals[q]
            BY <1>9, <2>3, StartCopyDoes
        <3>2. Len(vals'[s]) <= Cap[s]
            BY <3>1, LastPointsAre DEF RecordingTypes
        <3>3. ASSUME NEW q \in Session PROVE Pending(q)' = Pending(q)
            BY <2>1 DEF Pending, Waits, At
        <3>4. Pending(s) = 0
            <4>1. \A w \in Writer : ~Busy(w, s)
                BY <2>1, NobodyYet DEF Started
            <4> QED BY <1>w, <4>1 DEF Pending, Waits, At, Busy, Regular
        <3>5. ASSUME NEW q \in Session
              PROVE  Len(vals'[q]) + Pending(q)' <= Cap[q] + backfills'
            <4>1. CASE q = s
                BY <1>n, <1>m, <2>1, <3>2, <3>3, <3>4, <4>1
            <4>2. CASE q # s
                BY <1>n, <1>m, <1>s, <2>1, <3>1, <3>3, <4>2
            <4> QED BY <4>1, <4>2
        <3> QED BY <1>s, <2>1, <3>5 DEF Sized, Free
    <2> QED BY <2>2, <2>3
<1>10. ASSUME NEW s \in Session, StopSwap(s) PROVE Sized'
    <2>1. /\ UNCHANGED <<writer, backfills>>
          /\ vals'[s] = << >> /\ \A q \in Session \ {s} : vals'[q] = vals[q]
        BY <1>10 DEF StopSwap, RecordingTypes
    <2>2. ASSUME NEW q \in Session PROVE Pending(q)' = Pending(q)
        BY <2>1 DEF Pending, Waits, At
    <2>3. Len(vals'[s]) = 0
        BY <2>1
    <2>4. ASSUME NEW q \in Session
          PROVE  Len(vals'[q]) + Pending(q)' <= Cap[q] + backfills'
        <3>1. CASE q = s
            BY <1>n, <1>m, <1>s, <2>1, <2>2, <2>3, <3>1
        <3>2. CASE q # s
            BY <1>n, <1>m, <1>s, <2>1, <2>2, <3>2
        <3> QED BY <3>1, <3>2
    <2> QED BY <1>s, <2>1, <2>4 DEF Sized, Free
<1>11. CASE Update
    BY <1>1, <1>11 DEF Update
<1>12. ASSUME NEW s \in Session,
              CopyStamps(s) \/ SeedGet(s) \/ SeedDone(s) \/ AddCallback(s)
       PROVE  Sized'
    BY <1>1, <1>12 DEF CopyStamps, SeedGet, SeedDone, AddCallback
<1>13. ASSUME NEW s \in Session, StopSampler(s) \/ StopMonitors(s) PROVE Sized'
    BY <1>1, <1>13 DEF StopSampler, StopMonitors
<1>14. CASE UNCHANGED recordingVars
    BY <1>1, <1>14
<1> QED BY <1>3, <1>4, <1>5, <1>6, <1>7, <1>8, <1>9, <1>10, <1>11, <1>12, <1>13, <1>14
        DEF RecordingNext

-----------------------------------------------------------------------------
(* What start() has built.                                                     *)

\* A list that is not longer than what was copied, and nobody appends to.
Began(s) ==
    /\ phase[s] = "new" => vals[s] = << >> /\ stamps[s] = << >> /\ due[s] = << >>
    /\ phase[s] \in {"new", "copy", "get", "stamp"} =>
        /\ vals[s] = due[s] /\ Len(due[s]) <= copied[s]
        /\ latest[s] = << >>
    /\ latest[s] # << >> => mode[s] = "sample"

\* The values copied are still the first ones of the sibling, whose _lock
\* keeps stop() away.
Copying(s) ==
    phase[s] = "copy" =>
        /\ source[s] # s
        /\ phase[source[s]] \in {"running", "stopping", "swap"}
        /\ copied[s] <= Len(vals[source[s]])
        /\ vals[s] = LastPoints(SubSeq(vals[source[s]], 1, copied[s]), s)

AllBegan == \A s \in Session : Began(s)
AllCopying == \A s \in Session : Copying(s)

\* Appending leaves the beginning of a list.
LEMMA FirstOfAppend ==
    ASSUME NEW S, NEW list \in Seq(S), NEW x \in S, NEW n \in Nat, n <= Len(list)
    PROVE  SubSeq(Append(list, x), 1, n) = SubSeq(list, 1, n)
<1>1. Append(list, x) \in Seq(S) /\ Len(Append(list, x)) = Len(list) + 1
      /\ \A i \in 1..Len(list) : Append(list, x)[i] = list[i]
    OBVIOUS
<1>2. Len(list) \in Nat
    OBVIOUS
<1> DEFINE a == SubSeq(Append(list, x), 1, n)
           b == SubSeq(list, 1, n)
<1>3. a \in Seq(S) /\ Len(a) = n /\ \A i \in 1..n : a[i] = Append(list, x)[i]
    BY <1>1, <1>2
<1>4. b \in Seq(S) /\ Len(b) = n /\ \A i \in 1..n : b[i] = list[i]
    BY <1>2
<1>5. \A i \in 1..n : a[i] = b[i]
    BY <1>1, <1>2, <1>3, <1>4
<1> HIDE DEF a, b
<1>6. a = b
    BY <1>3, <1>4, <1>5, SeqEqual
<1> QED BY <1>6 DEF a, b

LEMMA BuildStart == RecordingInit => AllBegan /\ AllCopying
<1> SUFFICES ASSUME RecordingInit PROVE AllBegan /\ AllCopying
    OBVIOUS
<1>1. ASSUME NEW s \in Session PROVE Began(s) /\ Copying(s)
    <2>1. /\ vals[s] = << >> /\ stamps[s] = << >> /\ due[s] = << >> /\ copied[s] = 0
          /\ latest[s] = << >> /\ phase[s] = "new"
        BY DEF RecordingInit
    <2> QED BY <2>1 DEF Began, Copying
<1> QED BY <1>1 DEF AllBegan, AllCopying

\* While a session copies, its sibling goes on and does not stop.
LEMMA CopyGoesOn ==
    ASSUME RecordingTypes, NEW s \in Session, Copying(s),
           phase'[s] = "copy" => phase[s] = "copy",
           source'[s] = source[s], copied'[s] = copied[s], vals'[s] = vals[s],
           phase[s] = "copy" =>
             LET q == source[s] IN
             /\ phase'[q] \in {"running", "stopping", "swap"}
             /\ vals'[q] = vals[q] \/ \E x \in Obs : vals'[q] = Append(vals[q], x)
    PROVE  Copying(s)'
<1> SUFFICES ASSUME phase'[s] = "copy" PROVE Copying(s)'
    BY DEF Copying
<1> DEFINE list == vals[source[s]]
           list1 == vals'[source[s]]
<1>1. source[s] \in Session /\ list \in Seq(Obs) /\ copied[s] \in Nat
    BY DEF RecordingTypes
<1>2. /\ source[s] # s /\ copied[s] <= Len(list)
      /\ vals[s] = LastPoints(SubSeq(list, 1, copied[s]), s)
    BY DEF Copying
<1>3. copied[s] <= Len(list1) /\ SubSeq(list1, 1, copied[s]) = SubSeq(list, 1, copied[s])
    <2>1. CASE list1 = list
        BY <1>2, <2>1
    <2>2. CASE list1 # list
        <3>1. PICK x \in Obs : list1 = Append(list, x)
            BY <2>2
        <3>2. Len(list) \in Nat /\ Len(list1) = Len(list) + 1
            BY <1>1, <3>1
        <3>3. SubSeq(Append(list, x), 1, copied[s]) = SubSeq(list, 1, copied[s])
            BY <1>1, <1>2, FirstOfAppend
        <3> QED BY <1>1, <1>2, <3>1, <3>2, <3>3
    <2> QED BY <2>1, <2>2
<1>4. phase'[source'[s]] \in {"running", "stopping", "swap"}
    OBVIOUS
<1> QED BY <1>2, <1>3, <1>4 DEF Copying, LastPoints

LEMMA BuildKept ==
    RecordingTypes /\ Owners /\ AllBegan /\ AllCopying /\ [RecordingNext]_recordingVars
        => AllBegan' /\ AllCopying'
<1> SUFFICES ASSUME RecordingTypes, Owners, AllBegan, AllCopying,
                    [RecordingNext]_recordingVars
             PROVE  AllBegan' /\ AllCopying'
    OBVIOUS
<1> USE DEF recordingVars, bufVars, pvVars, startVars
<1> DEFINE Sound(s) == Began(s) /\ Copying(s)
<1>t. /\ phase \in [Session -> Phases]
      /\ \A s \in Session : phase[s] = "copy" => source[s] \in Session
    BY DEF RecordingTypes
<1>s. \A s \in Session : Began(s) /\ Copying(s)
    BY DEF AllBegan, AllCopying
<1>q. (\A s \in Session : Sound(s)') => AllBegan' /\ AllCopying'
    BY DEF AllBegan, AllCopying
<1>r. \A s \in Session : phase[s] = "copy" =>
            phase[source[s]] \in {"running", "stopping", "swap"}
    BY <1>s DEF Copying
<1>1. ASSUME UNCHANGED <<phase, vals, stamps, due, copied, latest, mode, source>>
      PROVE  AllBegan' /\ AllCopying'
    BY <1>1, <1>s DEF AllBegan, AllCopying, Began, Copying, LastPoints
<1>2. ASSUME NEW w \in Writer, AppendValue(w) PROVE AllBegan' /\ AllCopying'
    <2>1. PICK s \in Session : s = writer[w].s
        BY <1>2, AppendValueDoes
    <2>2. /\ writer[w].pc = "value" /\ writer[w].v \in Obs
          /\ vals'[s] = vals[s] \/ vals'[s] = Append(vals[s], writer[w].v)
          /\ \A q \in Session \ {s} : vals'[q] = vals[q]
        BY <1>2, <2>1, AppendValueDoes
    <2>3. UNCHANGED <<phase, stamps, due, copied, latest, mode, source>>
        BY <1>2 DEF AppendValue
    <2>4. phase[s] \in Started \cup {"seed"}
        BY <2>1, <2>2, NobodyYet DEF Busy
    <2>5. ASSUME NEW q \in Session PROVE Sound(q)'
        <3>1. Began(q)'
            BY <1>s, <2>2, <2>3, <2>4 DEF Began, Started
        <3>2. phase[q] = "copy" => vals'[q] = vals[q]
            BY <2>2, <2>4 DEF Started
        <3>3. CASE phase[q] = "copy"
            <4>1. vals'[source[q]] = vals[source[q]]
                  \/ \E x \in Obs : vals'[source[q]] = Append(vals[source[q]], x)
                BY <1>t, <2>2, <3>3
            <4>2. Copying(q)'
                BY <1>s, <1>r, <2>3, <3>2, <3>3, <4>1, CopyGoesOn
            <4> QED BY <3>1, <4>2
        <3>4. CASE phase[q] # "copy"
            BY <2>3, <3>1, <3>4 DEF Copying
        <3> QED BY <3>3, <3>4
    <2> QED BY <1>q, <2>5
<1>3. ASSUME NEW w \in Writer, AppendStamp(w) PROVE AllBegan' /\ AllCopying'
    <2>1. PICK s \in Session : s = writer[w].s
        BY <1>3, AppendStampDoes
    <2>2. /\ writer[w].pc = "stamp"
          /\ \A q \in Session \ {s} : due'[q] = due[q] /\ stamps'[q] = stamps[q]
        BY <1>3, <2>1, AppendStampDoes
    <2>3. UNCHANGED <<phase, vals, copied, latest, mode, source>>
        BY <1>3 DEF AppendStamp
    <2>4. phase[s] \in Started \cup {"seed"}
        BY <2>1, <2>2, NobodyYet DEF Busy
    <2>5. ASSUME NEW q \in Session PROVE Sound(q)'
        <3>1. Began(q)'
            BY <1>s, <2>2, <2>3, <2>4 DEF Began, Started
        <3>2. Copying(q)'
            BY <1>s, <2>3 DEF Copying, LastPoints
        <3> QED BY <3>1, <3>2
    <2> QED BY <1>q, <2>5
<1>4. ASSUME NEW s \in Session, Deliver(s) PROVE AllBegan' /\ AllCopying'
    <2>1. UNCHANGED <<phase, vals, stamps, due, copied, mode, source>>
        BY <1>4 DEF Deliver
    <2>2. /\ \A q \in Session \ {s} : latest'[q] = latest[q]
          /\ latest'[s] = latest[s] \/ (s \in attached /\ mode[s] = "sample")
        <3>1. /\ \A q \in Session \ {s} : latest'[q] = latest[q]
              /\ \/ UNCHANGED <<latest, writer>>
                 \/ s \in attached /\ mode[s] = "sample"
                 \/ latest'[s] = latest[s]
            BY <1>4, DeliverDoes
        <3> QED BY <3>1
    <2>3. s \in attached => phase[s] \in {"running", "stopping"}
        BY DEF Owners
    <2>4. ASSUME NEW q \in Session PROVE Sound(q)'
        <3>1. Began(q)'
            BY <1>s, <2>1, <2>2, <2>3 DEF Began
        <3>2. Copying(q)'
            BY <1>s, <2>1 DEF Copying, LastPoints
        <3> QED BY <3>1, <3>2
    <2> QED BY <1>q, <2>4
\* A step of start() that neither touches a list nor the slot.
<1>5. ASSUME NEW s \in Session, NEW loc \in Phases \ {"copy"}, Becomes(s, loc),
             UNCHANGED <<vals, stamps, due, copied, latest, mode, source>>,
             phase[s] \notin {"running", "stopping", "swap"},
             loc \in {"get", "stamp"} => phase[s] \in {"new", "get"},
             loc # "new"
      PROVE  AllBegan' /\ AllCopying'
    <2>1. phase'[s] = loc /\ \A q \in Session \ {s} : phase'[q] = phase[q]
        BY <1>t, <1>5, BecomesPhase
    <2>2. ASSUME NEW q \in Session PROVE Sound(q)'
        <3>1. Began(q)'
            BY <1>s, <1>5, <2>1 DEF Began
        <3>2. phase'[q] = "copy" => phase[q] = "copy"
            BY <1>5, <2>1
        <3>3. phase[q] = "copy" => phase'[source[q]] \in {"running", "stopping", "swap"}
            BY <1>t, <1>r, <1>5, <2>1
        <3>4. Copying(q)'
            BY <1>s, <1>5, <3>2, <3>3, CopyGoesOn
        <3> QED BY <3>1, <3>4
    <2> QED BY <1>q, <2>2
<1>6. ASSUME NEW s \in Session, StartCopy(s) PROVE AllBegan' /\ AllCopying'
    <2>1. /\ phase[s] = "new" /\ Starting = {}
          /\ UNCHANGED <<stamps, latest, mode>>
        BY <1>6 DEF StartCopy
    <2>2. CASE Becomes(s, "get") /\ UNCHANGED <<source, vals, due, copied, torn>>
        BY <1>5, <2>1, <2>2 DEF Phases
    <2>3. ASSUME NEW q \in Session,
                 /\ phase[q] \in {"running", "stopping", "swap"}
                 /\ Becomes(s, "copy")
                 /\ source'[s] = q /\ copied'[s] = Len(vals[q])
                 /\ vals'[s] = LastPoints(vals[q], s) /\ due'[s] = LastPoints(vals[q], s)
                 /\ \A r \in Session \ {s} :
                        /\ source'[r] = source[r] /\ copied'[r] = copied[r]
                        /\ vals'[r] = vals[r] /\ due'[r] = due[r]
          PROVE  AllBegan' /\ AllCopying'
        <3>1. phase'[s] = "copy" /\ \A r \in Session \ {s} : phase'[r] = phase[r]
            BY <1>t, <2>3, BecomesPhase DEF Phases
        <3>2. q # s /\ vals[q] \in Seq(Obs) /\ Len(vals[q]) \in Nat
            BY <2>1, <2>3 DEF RecordingTypes
        <3>3. Len(LastPoints(vals[q], s)) <= Len(vals[q])
            BY <3>2, LastPointsAre
        <3>4. Sound(s)'
            <4>1. Began(s)'
                BY <1>s, <2>1, <2>3, <3>1, <3>3 DEF Began
            <4>2. SubSeq(vals[q], 1, Len(vals[q])) = vals[q]
                BY <3>2, SubSeqFull
            <4>3. vals'[q] = vals[q] /\ phase'[q] = phase[q]
                BY <2>3, <3>1, <3>2
            <4>4. SubSeq(vals'[source'[s]], 1, copied'[s]) = vals[q]
                BY <2>3, <4>2, <4>3
            <4>5. vals'[s] = LastPoints(SubSeq(vals'[source'[s]], 1, copied'[s]), s)
                BY <2>3, <4>4
            <4>6. copied'[s] <= Len(vals'[source'[s]]) /\ source'[s] # s
                  /\ phase'[source'[s]] \in {"running", "stopping", "swap"}
                BY <2>3, <3>1, <3>2, <4>3
            <4>7. Copying(s)'
                BY <4>5, <4>6 DEF Copying, LastPoints
            <4> QED BY <4>1, <4>7
        <3>5. ASSUME NEW r \in Session, r # s PROVE Sound(r)'
            <4>1. phase'[r] # "copy"
                BY <2>1, <3>1, <3>5 DEF Starting
            <4>2. Began(r)'
                BY <1>s, <2>1, <2>3, <3>1, <3>5 DEF Began
            <4> QED BY <4>1, <4>2 DEF Copying
        <3> QED BY <1>q, <3>4, <3>5
    <2> QED BY <1>6, <2>2, <2>3, StartCopyDoes
<1>7. ASSUME NEW s \in Session, CopyStamps(s) PROVE AllBegan' /\ AllCopying'
    <2>1. /\ phase[s] = "copy" /\ Becomes(s, "get")
          /\ UNCHANGED <<vals, due, latest, mode>>
        BY <1>7 DEF CopyStamps
    <2>2. /\ copied'[s] = Len(vals[s])
          /\ \A q \in Session \ {s} :
                copied'[q] = copied[q] /\ source'[q] = source[q] /\ stamps'[q] = stamps[q]
        BY <1>7 DEF CopyStamps, RecordingTypes
    <2>3. phase'[s] = "get" /\ \A q \in Session \ {s} : phase'[q] = phase[q]
        BY <1>t, <2>1, BecomesPhase DEF Phases
    <2>4. Len(vals[s]) \in Nat
        BY DEF RecordingTypes
    <2>5. Sound(s)'
        BY <1>s, <2>1, <2>2, <2>3, <2>4 DEF Began, Copying
    <2>6. ASSUME NEW q \in Session, q # s PROVE Sound(q)'
        <3>1. Began(q)'
            BY <1>s, <2>1, <2>2, <2>3, <2>6 DEF Began
        <3>2. phase[q] = "copy" => phase'[source[q]] \in {"running", "stopping", "swap"}
            BY <1>t, <1>r, <2>1, <2>3
        <3>3. Copying(q)'
            BY <1>s, <2>1, <2>2, <2>3, <2>6, <3>2, CopyGoesOn
        <3> QED BY <3>1, <3>3
    <2> QED BY <1>q, <2>5, <2>6
<1>8. ASSUME NEW s \in Session, SeedGet(s) PROVE AllBegan' /\ AllCopying'
    <2>1. PICK loc \in {"stamp", "add"} : Becomes(s, loc)
        BY <1>8 DEF SeedGet
    <2> QED BY <1>5, <1>8, <2>1 DEF SeedGet, Phases
<1>9. ASSUME NEW s \in Session, SeedStamp(s) PROVE AllBegan' /\ AllCopying'
    <2>1. /\ phase[s] = "stamp" /\ Becomes(s, "seed")
          /\ UNCHANGED <<vals, stamps, due, mode, source, copied>>
        BY <1>9 DEF SeedStamp
    <2>2. phase'[s] = "seed" /\ \A q \in Session \ {s} : phase'[q] = phase[q]
        BY <1>t, <2>1, BecomesPhase DEF Phases
    <2>3. /\ \A q \in Session \ {s} : latest'[q] = latest[q]
          /\ latest'[s] = latest[s] \/ mode[s] = "sample"
        BY <1>9, SeedStampDoes
    <2>4. ASSUME NEW q \in Session PROVE Sound(q)'
        <3>1. Began(q)'
            BY <1>s, <2>1, <2>2, <2>3 DEF Began
        <3>2. phase[q] = "copy" => phase'[source[q]] \in {"running", "stopping", "swap"}
            BY <1>t, <1>r, <2>1, <2>2
        <3>3. phase'[q] = "copy" => phase[q] = "copy"
            BY <2>2
        <3>4. Copying(q)'
            BY <1>s, <2>1, <3>2, <3>3, CopyGoesOn
        <3> QED BY <3>1, <3>4
    <2> QED BY <1>q, <2>4
<1>10. ASSUME NEW s \in Session, SeedDone(s) PROVE AllBegan' /\ AllCopying'
    BY <1>5, <1>10 DEF SeedDone, Phases
<1>11. ASSUME NEW s \in Session, AddCallback(s) PROVE AllBegan' /\ AllCopying'
    BY <1>5, <1>11 DEF AddCallback, Phases
\* stop(): a sibling whose lists are being copied does not empty them.
<1>12. ASSUME NEW s \in Session, NEW loc \in {"stopping", "swap"}, Becomes(s, loc),
              UNCHANGED <<vals, stamps, due, copied, latest, mode, source>>,
              phase[s] # "copy"
       PROVE  AllBegan' /\ AllCopying'
    <2>1. phase'[s] = loc /\ \A q \in Session \ {s} : phase'[q] = phase[q]
        BY <1>t, <1>12, BecomesPhase DEF Phases
    <2>2. ASSUME NEW q \in Session PROVE Sound(q)'
        <3>1. Began(q)'
            BY <1>s, <1>12, <2>1 DEF Began
        <3>2. phase'[q] = "copy" => phase[q] = "copy"
            BY <2>1
        <3>3. phase[q] = "copy" => phase'[source[q]] \in {"running", "stopping", "swap"}
            BY <1>t, <1>r, <2>1
        <3>4. Copying(q)'
            BY <1>s, <1>12, <3>2, <3>3, CopyGoesOn
        <3> QED BY <3>1, <3>4
    <2> QED BY <1>q, <2>2
<1>13. ASSUME NEW s \in Session, StopSampler(s) PROVE AllBegan' /\ AllCopying'
    BY <1>12, <1>13 DEF StopSampler
<1>14. ASSUME NEW s \in Session, StopMonitors(s) PROVE AllBegan' /\ AllCopying'
    BY <1>12, <1>14 DEF StopMonitors
<1>15. ASSUME NEW s \in Session, StopSwap(s) PROVE AllBegan' /\ AllCopying'
    <2>1. /\ phase[s] = "swap" /\ Becomes(s, "stopped")
          /\ \A q \in Session : phase[q] = "copy" => source[q] # s
          /\ UNCHANGED <<due, mode, source, copied>>
        BY <1>15 DEF StopSwap
    <2>2. /\ latest'[s] = << >>
          /\ \A q \in Session \ {s} : /\ vals'[q] = vals[q] /\ stamps'[q] = stamps[q]
                                      /\ latest'[q] = latest[q]
        BY <1>15 DEF StopSwap, RecordingTypes
    <2>3. phase'[s] = "stopped" /\ \A q \in Session \ {s} : phase'[q] = phase[q]
        BY <1>t, <2>1, BecomesPhase DEF Phases
    <2>4. Sound(s)'
        BY <2>2, <2>3 DEF Began, Copying
    <2>5. ASSUME NEW q \in Session, q # s PROVE Sound(q)'
        <3>1. Began(q)'
            BY <1>s, <2>1, <2>2, <2>3, <2>5 DEF Began
        <3>2. phase[q] = "copy" => /\ phase'[source[q]] \in {"running", "stopping", "swap"}
                                   /\ vals'[source[q]] = vals[source[q]]
            BY <1>t, <1>r, <2>1, <2>2, <2>3
        <3>3. Copying(q)'
            BY <1>s, <2>1, <2>2, <2>3, <2>5, <3>2, CopyGoesOn
        <3> QED BY <3>1, <3>3
    <2> QED BY <1>q, <2>4, <2>5
<1>16. CASE Update
    BY <1>1, <1>16 DEF Update
<1>17. ASSUME NEW s \in Session, Tick(s) \/ Backfill(s) PROVE AllBegan' /\ AllCopying'
    BY <1>1, <1>17 DEF Tick, Backfill
<1>18. CASE UNCHANGED recordingVars
    BY <1>1, <1>18
<1> QED BY <1>2, <1>3, <1>4, <1>6, <1>7, <1>8, <1>9, <1>10, <1>11, <1>13, <1>14, <1>15,
           <1>16, <1>17, <1>18 DEF RecordingNext

-----------------------------------------------------------------------------
(* What a session that nothing spoiled has in its lists: the points whose      *)
(* append was completed, and at most one value whose timestamp is to come.     *)

Stamping(w, s) == At(w, "stamp") /\ writer[w].s = s

Whole(s) ==
    /\ \A w \in Writer : Busy(w, s) => writer[w].v = writer[w].t /\ writer[w].t # Unread
    /\ latest[s] # << >> => latest[s][1] = latest[s][2] /\ latest[s][2] # Unread
    /\ phase[s] \notin {"copy", "stopped"} =>
        /\ stamps[s] = due[s]
        /\ \/ vals[s] = due[s] /\ \A w \in Writer : ~Stamping(w, s)
           \/ \E w \in Writer :
                /\ Stamping(w, s) /\ vals[s] = Append(due[s], writer[w].v)
                /\ \A u \in Writer \ {w} : ~Stamping(u, s)
    /\ phase[s] = "stopped" => out[s] = [values |-> due[s], stamps |-> due[s]]

AllWhole == \A s \in Session \ torn : Whole(s)

\* A step that touches neither list of the session nor an append in it.
LEMMA WholeStays ==
    ASSUME NEW s \in Session, Whole(s),
           vals'[s] = vals[s], stamps'[s] = stamps[s], due'[s] = due[s], out'[s] = out[s],
           \/ phase'[s] = phase[s]
           \/ phase[s] \notin {"copy", "stopped"} /\ phase'[s] # "stopped",
           \A w \in Writer : Busy(w, s)' => writer'[w].v = writer'[w].t /\ writer'[w].t # Unread,
           \A w \in Writer : Stamping(w, s)' <=> Stamping(w, s),
           \A w \in Writer : Stamping(w, s) => writer'[w].v = writer[w].v,
           latest'[s] # << >> => latest'[s][1] = latest'[s][2] /\ latest'[s][2] # Unread
    PROVE  Whole(s)'
<1>1. CASE phase[s] \notin {"copy", "stopped"}
    <2>1. phase'[s] # "stopped" /\ stamps'[s] = due'[s]
        BY <1>1 DEF Whole
    <2>2. CASE vals[s] = due[s] /\ \A w \in Writer : ~Stamping(w, s)
        BY <2>1, <2>2 DEF Whole
    <2>3. CASE ~(vals[s] = due[s] /\ \A w \in Writer : ~Stamping(w, s))
        <3>1. PICK w \in Writer :
                /\ Stamping(w, s) /\ vals[s] = Append(due[s], writer[w].v)
                /\ \A u \in Writer \ {w} : ~Stamping(u, s)
            BY <1>1, <2>3 DEF Whole
        <3>2. /\ Stamping(w, s)' /\ vals'[s] = Append(due'[s], writer'[w].v)
              /\ \A u \in Writer \ {w} : ~Stamping(u, s)'
            BY <3>1
        <3> QED BY <2>1, <3>2 DEF Whole
    <2> QED BY <2>2, <2>3
<1>2. CASE phase[s] \in {"copy", "stopped"}
    <2>1. phase'[s] = phase[s]
        BY <1>2
    <2> QED BY <1>2, <2>1 DEF Whole
<1> QED BY <1>1, <1>2

\* A thread that was idle and calls _append, or one that does nothing, puts no
\* timestamp.
LEMMA NoneStamps ==
    ASSUME NEW s \in Session, NEW w \in Writer,
           \A u \in Writer \ {w} : writer'[u] = writer[u],
           writer[w].pc # "stamp", writer'[w].pc # "stamp"
    PROVE  /\ \A u \in Writer : Stamping(u, s)' <=> Stamping(u, s)
           /\ \A u \in Writer : Stamping(u, s) => writer'[u].v = writer[u].v
BY DEF Stamping, At

LEMMA WholeStart == RecordingInit => AllWhole
<1> SUFFICES ASSUME RecordingInit, NEW s \in Session PROVE Whole(s)
    BY DEF AllWhole
<1>1. \A w \in Writer : writer[w].pc = "idle"
    BY DEF RecordingInit, Idle
<1>2. \A w \in Writer : ~Busy(w, s) /\ ~Stamping(w, s)
    BY <1>1 DEF Busy, Stamping, At
<1>3. /\ phase[s] = "new" /\ latest[s] = << >>
      /\ vals[s] = << >> /\ stamps[s] = << >> /\ due[s] = << >>
    BY DEF RecordingInit
<1> QED BY <1>2, <1>3 DEF Whole

\* stop() hands out both lists, up to the shorter one.
LEMMA HandedIsDue ==
    ASSUME RecordingTypes, NEW s \in Session, Whole(s), phase[s] = "swap"
    PROVE  Handed(s) = [values |-> due[s], stamps |-> due[s]]
<1>1. due[s] \in Seq(Obs) /\ Len(due[s]) \in Nat /\ stamps[s] = due[s]
    BY DEF RecordingTypes, Whole
<1>2. SubSeq(due[s], 1, Len(due[s])) = due[s]
    BY <1>1, SubSeqFull
<1>3. CASE vals[s] = due[s]
    BY <1>1, <1>2, <1>3 DEF Handed
<1>4. CASE vals[s] # due[s]
    <2>1. PICK w \in Writer : Stamping(w, s) /\ vals[s] = Append(due[s], writer[w].v)
        BY <1>4 DEF Whole
    <2>2. writer[w].v \in Obs
        BY <2>1, BusySession DEF Stamping, At, Free
    <2>3. SubSeq(vals[s], 1, Len(due[s])) = due[s]
        BY <1>1, <1>2, <2>1, <2>2, FirstOfAppend
    <2>4. Len(vals[s]) = Len(due[s]) + 1
        BY <1>1, <2>1, <2>2
    <2>5. ~(Len(vals[s]) < Len(stamps[s]))
        BY <1>1, <2>4
    <2> QED BY <1>1, <1>2, <2>3, <2>5 DEF Handed
<1> QED BY <1>3, <1>4

\* The timestamps that are copied belong to the values, unless the sibling is
\* spoiled or an append to it was under way.
LEMMA CopyIsWhole ==
    ASSUME RecordingTypes, AllBegan, AllCopying, AllWhole,
           NEW s \in Session, CopyStamps(s), s \notin torn'
    PROVE  stamps'[s] = due[s]
<1> DEFINE q == source[s]
<1>1. /\ phase[s] = "copy" /\ q \in Session /\ q \notin torn
      /\ copied[s] = Len(stamps[q])
      /\ stamps'[s] = LastPoints(stamps[q], s)
    BY DEF CopyStamps, RecordingTypes
<1>2. /\ phase[q] \in {"running", "stopping", "swap"}
      /\ vals[s] = LastPoints(SubSeq(vals[q], 1, copied[s]), s)
      /\ vals[s] = due[s]
    BY <1>1 DEF AllCopying, Copying, AllBegan, Began
<1>3. /\ stamps[q] = due[q] /\ due[q] \in Seq(Obs) /\ Len(due[q]) \in Nat
      /\ \/ vals[q] = due[q]
         \/ \E w \in Writer : Stamping(w, q) /\ vals[q] = Append(due[q], writer[w].v)
    <2>1. Whole(q)
        BY <1>1 DEF AllWhole
    <2>2. due[q] \in Seq(Obs)
        BY <1>1 DEF RecordingTypes
    <2>3. phase[q] \notin {"copy", "stopped"}
        BY <1>2
    <2>4. /\ stamps[q] = due[q]
          /\ \/ vals[q] = due[q]
             \/ \E w \in Writer : Stamping(w, q) /\ vals[q] = Append(due[q], writer[w].v)
        BY <2>1, <2>3 DEF Whole
    <2>5. Len(due[q]) \in Nat
        BY <2>2
    <2> QED BY <2>2, <2>4, <2>5
<1>4. SubSeq(due[q], 1, Len(due[q])) = due[q]
    BY <1>3, SubSeqFull
<1>5. SubSeq(vals[q], 1, copied[s]) = due[q]
    <2>1. CASE vals[q] = due[q]
        BY <1>1, <1>3, <1>4, <2>1
    <2>2. CASE vals[q] # due[q]
        <3>1. PICK w \in Writer : Stamping(w, q) /\ vals[q] = Append(due[q], writer[w].v)
            BY <1>3, <2>2
        <3>2. writer[w].v \in Obs
            BY <3>1, BusySession DEF Stamping, At, Free
        <3>3. SubSeq(Append(due[q], writer[w].v), 1, Len(due[q])) = due[q]
            BY <1>3, <1>4, <3>2, FirstOfAppend
        <3> QED BY <1>1, <1>3, <3>1, <3>3
    <2> QED BY <2>1, <2>2
<1> QED BY <1>1, <1>2, <1>3, <1>5

LEMMA WholeKept ==
    RecordingTypes /\ Owners /\ AllBegan /\ AllCopying /\ AllWhole
        /\ [RecordingNext]_recordingVars => AllWhole'
<1> SUFFICES ASSUME RecordingTypes, Owners, AllBegan, AllCopying, AllWhole,
                    [RecordingNext]_recordingVars,
                    NEW q \in Session, q \notin torn'
             PROVE  Whole(q)'
    BY DEF AllWhole
<1> USE DEF recordingVars, bufVars, pvVars, startVars
<1>t. phase \in [Session -> Phases] /\ torn \subseteq Session
    BY DEF RecordingTypes
<1>w. CA \in Writer /\ Filler \in Writer
      /\ \A s \in Session : Sampler(s) \in Writer /\ Starter(s) \in Writer
    BY WriterKinds
<1>k. q \notin torn => Whole(q)
    BY DEF AllWhole
<1>u. now # Unread /\ \A v \in Backfilled : v # Unread
    BY Observed DEF RecordingTypes
\* An idle thread w calls _append for s, or does nothing.
<1>1. ASSUME NEW w \in Writer, q \notin torn,
             \A u \in Writer \ {w} : writer'[u] = writer[u],
             writer[w].pc = "idle",
             writer'[w].pc = "idle" \/ (writer'[w].pc = "value"
                                        /\ (writer'[w].s = q =>
                                              /\ writer'[w].v = writer'[w].t
                                              /\ writer'[w].t # Unread)),
             UNCHANGED <<vals, stamps, due, out>>,
             \/ phase'[q] = phase[q]
             \/ phase[q] \notin {"copy", "stopped"} /\ phase'[q] # "stopped",
             latest'[q] = latest[q] \/ (latest'[q][1] = latest'[q][2] /\ latest'[q][2] # Unread)
      PROVE  Whole(q)'
    <2>1. /\ \A u \in Writer : Stamping(u, q)' <=> Stamping(u, q)
          /\ \A u \in Writer : Stamping(u, q) => writer'[u].v = writer[u].v
        BY <1>1, NoneStamps
    <2>2. Whole(q)
        BY <1>1, <1>k
    <2>3. latest'[q] # << >> => latest'[q][1] = latest'[q][2] /\ latest'[q][2] # Unread
        BY <1>1, <2>2 DEF Whole
    <2>4. \A u \in Writer : Busy(u, q)' => writer'[u].v = writer'[u].t /\ writer'[u].t # Unread
        BY <1>1, <2>2 DEF Whole, Busy
    <2> QED BY <1>1, <2>1, <2>2, <2>3, <2>4, WholeStays
\* Nothing of this session is touched.
<1>2. ASSUME q \notin torn, writer' = writer, vals'[q] = vals[q], stamps'[q] = stamps[q],
             due'[q] = due[q], out'[q] = out[q], latest'[q] = latest[q],
             \/ phase'[q] = phase[q]
             \/ phase[q] \notin {"copy", "stopped"} /\ phase'[q] # "stopped"
      PROVE  Whole(q)'
    <2>1. Whole(q)
        BY <1>2, <1>k
    <2>2. \A u \in Writer : Stamping(u, q)' <=> Stamping(u, q)
        BY <1>2 DEF Stamping, At
    <2>3. \A u \in Writer : Busy(u, q)' => writer'[u].v = writer'[u].t /\ writer'[u].t # Unread
        BY <1>2, <2>1 DEF Whole, Busy
    <2>4. latest'[q] # << >> => latest'[q][1] = latest'[q][2] /\ latest'[q][2] # Unread
        BY <1>2, <2>1 DEF Whole
    <2> QED BY <1>2, <2>1, <2>2, <2>3, <2>4, WholeStays
<1>3. ASSUME NEW w \in Writer, AppendValue(w) PROVE Whole(q)'
    <2>1. PICK s \in Session : s = writer[w].s
        BY <1>3, AppendValueDoes
    <2>2. /\ writer[w].pc = "value" /\ writer'[w].pc = "stamp" /\ writer'[w].s = s
          /\ writer'[w].v = writer[w].v /\ writer'[w].t = writer[w].t
          /\ \A u \in Writer \ {w} : writer'[u] = writer[u]
          /\ vals'[s] = IF Live(s) THEN Append(vals[s], writer[w].v) ELSE vals[s]
          /\ \A r \in Session \ {s} : vals'[r] = vals[r]
        BY <1>3, <2>1, AppendValueDoes
    <2>3. /\ UNCHANGED <<phase, stamps, due, out, latest>> /\ torn \subseteq torn'
          /\ s \notin torn' => \A u \in Writer : ~Stamping(u, s)
        BY <1>3, <2>1 DEF AppendValue, Stamping
    <2>4. Whole(q)
        BY <1>k, <2>3
    <2>5. \A u \in Writer : Busy(u, q)' => writer'[u].v = writer'[u].t /\ writer'[u].t # Unread
        BY <2>1, <2>2, <2>4 DEF Whole, Busy
    <2>6. CASE q # s
        <3>1. \A u \in Writer : Stamping(u, q)' <=> Stamping(u, q)
            BY <2>1, <2>2, <2>6 DEF Stamping, At
        <3>2. \A u \in Writer : Stamping(u, q) => writer'[u].v = writer[u].v
            BY <2>2
        <3>3. latest'[q] # << >> => latest'[q][1] = latest'[q][2] /\ latest'[q][2] # Unread
            BY <2>3, <2>4 DEF Whole
        <3> QED BY <2>2, <2>3, <2>4, <2>5, <2>6, <3>1, <3>2, <3>3, WholeStays
    <2>7. CASE q = s
        <3>1. \A u \in Writer : ~Stamping(u, q)
            BY <2>3, <2>7
        <3>2. Stamping(w, q)' /\ \A u \in Writer \ {w} : ~Stamping(u, q)'
            BY <2>2, <2>7, <3>1 DEF Stamping, At
        <3>3. phase[q] # "copy"
            BY <2>1, <2>2, <2>7, NobodyYet DEF Busy, Started
        <3>4. CASE phase[q] = "stopped"
            BY <2>3, <2>4, <2>5, <3>4 DEF Whole
        <3>5. CASE phase[q] # "stopped"
            <4>1. vals[q] = due[q] /\ stamps[q] = due[q]
                BY <2>4, <3>1, <3>3, <3>5 DEF Whole
            <4>2. vals'[q] = Append(due'[q], writer'[w].v) /\ stamps'[q] = due'[q]
                BY <2>2, <2>3, <2>7, <3>5, <4>1 DEF Live
            <4> QED BY <2>3, <2>4, <2>5, <3>2, <3>3, <3>5, <4>2 DEF Whole
        <3> QED BY <3>4, <3>5
    <2> QED BY <2>6, <2>7
<1>4. ASSUME NEW w \in Writer, AppendStamp(w) PROVE Whole(q)'
    <2>1. PICK s \in Session : s = writer[w].s
        BY <1>4, AppendStampDoes
    <2>2. /\ writer[w].pc = "stamp" /\ writer'[w].pc = "idle"
          /\ \A u \in Writer \ {w} : writer'[u] = writer[u]
          /\ \A r \in Session \ {s} : stamps'[r] = stamps[r] /\ due'[r] = due[r]
          /\ IF Live(s)
             THEN /\ stamps'[s] = Append(stamps[s], StampOf(writer[w].t))
                  /\ due'[s] = Append(due[s], writer[w].v)
             ELSE stamps'[s] = stamps[s] /\ due'[s] = due[s]
        BY <1>4, <2>1, AppendStampDoes
    <2>3. UNCHANGED <<phase, vals, out, latest, torn>>
        BY <1>4 DEF AppendStamp
    <2>4. Whole(q)
        BY <1>k, <2>3
    <2>5. \A u \in Writer : Busy(u, q)' => writer'[u].v = writer'[u].t /\ writer'[u].t # Unread
        BY <2>2, <2>4 DEF Whole, Busy
    <2>6. CASE q # s
        <3>1. \A u \in Writer : Stamping(u, q)' <=> Stamping(u, q)
            BY <2>1, <2>2, <2>6 DEF Stamping, At
        <3>2. \A u \in Writer : Stamping(u, q) => writer'[u].v = writer[u].v
            BY <2>1, <2>2, <2>6 DEF Stamping
        <3>3. latest'[q] # << >> => latest'[q][1] = latest'[q][2] /\ latest'[q][2] # Unread
            BY <2>3, <2>4 DEF Whole
        <3> QED BY <2>2, <2>3, <2>4, <2>5, <2>6, <3>1, <3>2, <3>3, WholeStays
    <2>7. CASE q = s
        <3>1. Stamping(w, q) /\ Busy(w, q)
            BY <2>1, <2>2, <2>7 DEF Stamping, At, Busy
        <3>2. phase[q] # "copy"
            BY <3>1, NobodyYet DEF Started
        <3>3. writer[w].v = StampOf(writer[w].t)
            BY <2>4, <3>1 DEF Whole, StampOf
        <3>4. CASE phase[q] = "stopped"
            BY <2>2, <2>3, <2>4, <2>5, <2>7, <3>4 DEF Whole, Live
        <3>5. CASE phase[q] # "stopped"
            <4>1. /\ stamps[q] = due[q] /\ vals[q] = Append(due[q], writer[w].v)
                  /\ \A u \in Writer \ {w} : ~Stamping(u, q)
                BY <2>4, <3>1, <3>2, <3>5 DEF Whole
            <4>2. stamps'[q] = due'[q] /\ vals'[q] = due'[q]
                BY <2>2, <2>3, <2>7, <3>3, <3>5, <4>1 DEF Live
            <4>3. \A u \in Writer : ~Stamping(u, q)'
                BY <2>2, <4>1 DEF Stamping, At
            <4> QED BY <2>3, <2>4, <2>5, <3>2, <3>5, <4>2, <4>3 DEF Whole
        <3> QED BY <3>4, <3>5
    <2> QED BY <2>6, <2>7
<1>5. ASSUME NEW s \in Session, Deliver(s) PROVE Whole(q)'
    <2>1. UNCHANGED <<phase, vals, stamps, due, out, torn>>
        BY <1>5 DEF Deliver
    <2>2. /\ writer[CA].pc = "idle"
          /\ \A u \in Writer \ {CA} : writer'[u] = writer[u]
          /\ \A r \in Session \ {s} : latest'[r] = latest[r]
          /\ \/ UNCHANGED <<latest, writer>>
             \/ latest'[s] = <<now, now>> /\ writer'[CA] = writer[CA]
             \/ /\ latest'[s] = latest[s] /\ writer'[CA].pc = "value"
                /\ writer'[CA].v = now /\ writer'[CA].t = now
        BY <1>5, DeliverDoes
    <2>3. latest'[q] = latest[q] \/ (latest'[q][1] = latest'[q][2] /\ latest'[q][2] # Unread)
        BY <1>u, <2>2
    <2>4. writer'[CA].pc = "idle" \/ (writer'[CA].pc = "value"
                                      /\ writer'[CA].v = writer'[CA].t
                                      /\ writer'[CA].t # Unread)
        BY <1>u, <2>2
    <2> QED BY <1>w, <1>1, <2>1, <2>2, <2>3, <2>4
<1>6. ASSUME NEW s \in Session, Tick(s) PROVE Whole(q)'
    <2>1. UNCHANGED <<phase, vals, stamps, due, out, torn, latest>> /\ latest[s] # << >>
        BY <1>6 DEF Tick
    <2>2. /\ writer[Sampler(s)].pc = "idle"
          /\ \A u \in Writer \ {Sampler(s)} : writer'[u] = writer[u]
          /\ \/ writer'[Sampler(s)] = writer[Sampler(s)]
             \/ /\ writer'[Sampler(s)].pc = "value" /\ writer'[Sampler(s)].s = s
                /\ writer'[Sampler(s)].v = latest[s][1] /\ writer'[Sampler(s)].t = latest[s][2]
        BY <1>6, TickDoes
    <2>3. q = s => latest[s][1] = latest[s][2] /\ latest[s][2] # Unread
        BY <1>k, <2>1 DEF Whole
    <2>4. writer'[Sampler(s)].pc = "idle"
          \/ (writer'[Sampler(s)].pc = "value"
              /\ (writer'[Sampler(s)].s = q =>
                    /\ writer'[Sampler(s)].v = writer'[Sampler(s)].t
                    /\ writer'[Sampler(s)].t # Unread))
        BY <2>2, <2>3
    <2> QED BY <1>w, <1>1, <2>1, <2>2, <2>4
<1>7. ASSUME NEW s \in Session, Backfill(s) PROVE Whole(q)'
    <2>1. UNCHANGED <<phase, vals, stamps, due, out, torn, latest>>
        BY <1>7 DEF Backfill
    <2>2. /\ writer[Filler].pc = "idle"
          /\ \A u \in Writer \ {Filler} : writer'[u] = writer[u]
          /\ \/ writer'[Filler] = writer[Filler]
             \/ /\ writer'[Filler].pc = "value" /\ writer'[Filler].v = writer'[Filler].t
                /\ writer'[Filler].t # Unread
        BY <1>7, <1>u, BackfillDoes
    <2> QED BY <1>w, <1>1, <2>1, <2>2
<1>8. ASSUME NEW s \in Session, SeedStamp(s) PROVE Whole(q)'
    <2>1. /\ UNCHANGED <<vals, stamps, due, out>> /\ torn \subseteq torn'
          /\ phase[s] = "stamp" /\ Becomes(s, "seed")
          /\ q = s => seed[s] = now
        BY <1>8 DEF SeedStamp
    <2>2. phase'[s] = "seed" /\ \A r \in Session \ {s} : phase'[r] = phase[r]
        BY <1>t, <2>1, BecomesPhase DEF Phases
    <2>3. /\ \A r \in Session \ {s} : latest'[r] = latest[r]
          /\ \A u \in Writer \ {Starter(s)} : writer'[u] = writer[u]
          /\ \E t \in Obs :
               /\ t = now \/ seed[s] = Unread
               /\ \/ latest'[s] = <<seed[s], t>> /\ writer'[Starter(s)] = writer[Starter(s)]
                  \/ /\ latest'[s] = latest[s]
                     /\ \/ writer'[Starter(s)] = writer[Starter(s)]
                        \/ /\ writer'[Starter(s)].pc = "value" /\ writer'[Starter(s)].s = s
                           /\ writer'[Starter(s)].v = seed[s] /\ writer'[Starter(s)].t = t
        BY <1>8, SeedStampDoes
    <2>4. writer[Starter(s)].pc = "idle"
        <3>1. ~(phase[s] \in Started) /\ phase[s] # "seed"
            BY <2>1 DEF Started
        <3> QED BY <1>w, <3>1, BusySession, WriterKinds DEF Owners, Mine, Free
    <2>5. latest'[q] = latest[q] \/ (latest'[q][1] = latest'[q][2] /\ latest'[q][2] # Unread)
        <3>1. CASE q = s
            BY <1>u, <2>1, <2>3, <3>1
        <3>2. CASE q # s
            BY <2>3, <3>2
        <3> QED BY <3>1, <3>2
    <2>6. writer'[Starter(s)].pc = "idle"
          \/ (writer'[Starter(s)].pc = "value"
              /\ (writer'[Starter(s)].s = q =>
                    /\ writer'[Starter(s)].v = writer'[Starter(s)].t
                    /\ writer'[Starter(s)].t # Unread))
        BY <1>u, <2>1, <2>3, <2>4
    <2>7. phase'[q] = phase[q] \/ (phase[q] \notin {"copy", "stopped"} /\ phase'[q] # "stopped")
        BY <2>1, <2>2
    <2>8. q \notin torn
        BY <2>1
    <2> QED BY <1>w, <1>1, <2>1, <2>3, <2>4, <2>5, <2>6, <2>7, <2>8
<1>9. ASSUME NEW s \in Session, StartCopy(s) PROVE Whole(q)'
    <2>1. /\ phase[s] = "new" /\ UNCHANGED <<stamps, out, writer, latest>> /\ torn \subseteq torn'
        BY <1>9 DEF StartCopy
    <2>2. CASE Becomes(s, "get") /\ UNCHANGED <<source, vals, due, copied, torn>>
        <3>1. phase'[s] = "get" /\ \A r \in Session \ {s} : phase'[r] = phase[r]
            BY <1>t, <2>2, BecomesPhase DEF Phases
        <3>2. phase'[q] = phase[q] \/ (phase[q] \notin {"copy", "stopped"} /\ phase'[q] # "stopped")
            BY <2>1, <3>1
        <3> QED BY <1>2, <2>1, <2>2, <3>2
    <2>3. CASE ~(Becomes(s, "get") /\ UNCHANGED <<source, vals, due, copied, torn>>)
        <3>1. /\ Becomes(s, "copy")
              /\ \A r \in Session \ {s} : vals'[r] = vals[r] /\ due'[r] = due[r]
            BY <1>9, <2>3, StartCopyDoes
        <3>2. phase'[s] = "copy" /\ \A r \in Session \ {s} : phase'[r] = phase[r]
            BY <1>t, <3>1, BecomesPhase DEF Phases
        <3>3. CASE q = s
            <4>1. \A u \in Writer : ~Busy(u, q)
                BY <2>1, <3>3, NobodyYet DEF Started
            <4>2. \A u \in Writer : ~Busy(u, q)'
                BY <2>1, <4>1 DEF Busy
            <4>3. latest'[q] = << >>
                BY <2>1, <3>3 DEF AllBegan, Began
            <4> QED BY <3>2, <3>3, <4>2, <4>3 DEF Whole
        <3>4. CASE q # s
            BY <1>2, <2>1, <3>1, <3>2, <3>4
        <3> QED BY <3>3, <3>4
    <2> QED BY <2>2, <2>3
<1>10. ASSUME NEW s \in Session, CopyStamps(s) PROVE Whole(q)'
    <2>1. /\ phase[s] = "copy" /\ UNCHANGED <<vals, due, out, writer, latest>>
          /\ torn \subseteq torn' /\ Becomes(s, "get")
          /\ \A r \in Session \ {s} : stamps'[r] = stamps[r]
        BY <1>10 DEF CopyStamps, RecordingTypes
    <2>2. phase'[s] = "get" /\ \A r \in Session \ {s} : phase'[r] = phase[r]
        BY <1>t, <2>1, BecomesPhase DEF Phases
    <2>3. CASE q = s
        <3>1. stamps'[q] = due[q]
            BY <1>10, <2>3, CopyIsWhole
        <3>2. vals[q] = due[q] /\ latest[q] = << >>
            BY <2>1, <2>3 DEF AllBegan, Began
        <3>3. \A u \in Writer : ~Busy(u, q)
            BY <2>1, <2>3, NobodyYet DEF Started
        <3>4. \A u \in Writer : ~Busy(u, q)' /\ ~Stamping(u, q)'
            BY <2>1, <3>3 DEF Busy, Stamping, At
        <3> QED BY <2>1, <2>2, <2>3, <3>1, <3>2, <3>4 DEF Whole
    <2>4. CASE q # s
        BY <1>2, <2>1, <2>2, <2>4
    <2> QED BY <2>3, <2>4
\* Steps of start() and stop() that only go on.
<1>11. ASSUME NEW s \in Session, NEW loc \in Phases \ {"stopped"}, Becomes(s, loc),
              phase[s] \notin {"copy", "stopped"},
              UNCHANGED <<vals, stamps, due, out, writer, latest, torn>>
       PROVE  Whole(q)'
    <2>1. phase'[s] = loc /\ \A r \in Session \ {s} : phase'[r] = phase[r]
        BY <1>t, <1>11, BecomesPhase
    <2>2. phase'[q] = phase[q] \/ (phase[q] \notin {"copy", "stopped"} /\ phase'[q] # "stopped")
        BY <1>11, <2>1
    <2> QED BY <1>2, <1>11, <2>2
<1>12. ASSUME NEW s \in Session, SeedGet(s) PROVE Whole(q)'
    <2>1. PICK loc \in {"stamp", "add"} : Becomes(s, loc)
        BY <1>12 DEF SeedGet
    <2> QED BY <1>11, <1>12, <2>1 DEF SeedGet, Phases
<1>13. ASSUME NEW s \in Session, SeedDone(s) PROVE Whole(q)'
    BY <1>11, <1>13 DEF SeedDone, Phases
<1>14. ASSUME NEW s \in Session, AddCallback(s) PROVE Whole(q)'
    BY <1>11, <1>14 DEF AddCallback, Phases
<1>15. ASSUME NEW s \in Session, StopSampler(s) PROVE Whole(q)'
    BY <1>11, <1>15 DEF StopSampler, Phases
<1>16. ASSUME NEW s \in Session, StopMonitors(s) PROVE Whole(q)'
    BY <1>11, <1>16 DEF StopMonitors, Phases
<1>17. ASSUME NEW s \in Session, StopSwap(s) PROVE Whole(q)'
    <2>1. /\ phase[s] = "swap" /\ Becomes(s, "stopped")
          /\ UNCHANGED <<due, writer, torn>>
        BY <1>17 DEF StopSwap
    <2>2. /\ latest'[s] = << >> /\ out'[s] = Handed(s)
          /\ \A r \in Session \ {s} : /\ vals'[r] = vals[r] /\ stamps'[r] = stamps[r]
                                      /\ latest'[r] = latest[r] /\ out'[r] = out[r]
        BY <1>17 DEF StopSwap, RecordingTypes
    <2>3. phase'[s] = "stopped" /\ \A r \in Session \ {s} : phase'[r] = phase[r]
        BY <1>t, <2>1, BecomesPhase DEF Phases
    <2>4. CASE q = s
        <3>1. Whole(q)
            BY <1>k, <2>1
        <3>2. out'[q] = [values |-> due'[q], stamps |-> due'[q]]
            BY <2>1, <2>2, <2>4, <3>1, HandedIsDue
        <3>3. \A u \in Writer : Busy(u, q)' => writer'[u].v = writer'[u].t /\ writer'[u].t # Unread
            BY <2>1, <3>1 DEF Whole, Busy
        <3> QED BY <2>2, <2>3, <2>4, <3>2, <3>3 DEF Whole
    <2>5. CASE q # s
        BY <1>2, <2>1, <2>2, <2>3, <2>5
    <2> QED BY <2>4, <2>5
<1>18. CASE Update
    BY <1>2, <1>18 DEF Update
<1>19. CASE UNCHANGED recordingVars
    BY <1>2, <1>19
<1> QED BY <1>3, <1>4, <1>5, <1>6, <1>7, <1>8, <1>9, <1>10, <1>12, <1>13, <1>14, <1>15,
           <1>16, <1>17, <1>18, <1>19 DEF RecordingNext

-----------------------------------------------------------------------------
(* The order of the points.  The values of status files stand outside it.      *)

Below(list, x) == \A i \in DOMAIN list : list[i] \in Backfilled \/ list[i] < x

\* v may come after the list, of which the first c points were copied.
Ahead(v, list, c) ==
    \A i \in DOMAIN list : \/ list[i] \in Backfilled
                           \/ list[i] < v
                           \/ list[i] = v /\ i <= c

Sorted(list, c) ==
    \A i, j \in DOMAIN list :
        i < j /\ list[i] \notin Backfilled /\ list[j] \notin Backfilled =>
            \/ list[i] < list[j]
            \/ list[i] = list[j] /\ i <= c

\* All that a session has got, or is about to append, is older than x.
Older(s, x) ==
    /\ Below(vals[s], x) /\ Below(due[s], x)
    /\ \A w \in Regular : Busy(w, s) => writer[w].v < x
    /\ latest[s] # << >> => latest[s][1] < x

\* The sampler will take what is in the slot.
NewInSlot(s) == latest[s] # << >> /\ latest[s][2] # lastTs[s]

Ordered(s) ==
    /\ Sorted(vals[s], copied[s]) /\ Sorted(due[s], copied[s])
    /\ Older(s, now + 1)
    \* An update is delivered once.
    /\ s \in delivering => Older(s, now)
    \* What is about to be appended is newer than all that is there.
    /\ \A w \in Regular :
        /\ Busy(w, s) => Ahead(writer[w].v, due[s], copied[s])
        /\ Waits(w, s) => Ahead(writer[w].v, vals[s], copied[s])
    /\ NewInSlot(s) =>
        /\ Ahead(latest[s][1], vals[s], copied[s]) /\ Ahead(latest[s][1], due[s], copied[s])
        /\ \A w \in Regular : Busy(w, s) => writer[w].v < latest[s][1]
    /\ phase[s] = "stamp" /\ seed[s] # Unread =>
        Below(vals[s], seed[s] + 1) /\ seed[s] <= now

AllOrdered == \A s \in Session \ torn : Ordered(s)

LEMMA ObsAreNumbers ==
    /\ \A v \in Obs : v \in Nat
    /\ \A list \in Seq(Obs) : /\ Len(list) \in Nat /\ DOMAIN list = 1..Len(list)
                              /\ \A i \in DOMAIN list : list[i] \in Nat
BY RecordingAssumption DEF Obs

LEMMA AppendIs ==
    ASSUME NEW list \in Seq(Obs), NEW v \in Obs
    PROVE  /\ Len(list) \in Nat /\ DOMAIN list = 1..Len(list)
           /\ DOMAIN Append(list, v) = 1..(Len(list) + 1)
           /\ Append(list, v)[Len(list) + 1] = v
           /\ \A i \in DOMAIN list : Append(list, v)[i] = list[i]
OBVIOUS

LEMMA AppendSorted ==
    ASSUME NEW list \in Seq(Obs), NEW v \in Obs, NEW c \in Nat, Sorted(list, c),
           v \in Backfilled \/ Ahead(v, list, c)
    PROVE  Sorted(Append(list, v), c)
<1> DEFINE more == Append(list, v)
<1>1. /\ Len(list) \in Nat /\ DOMAIN list = 1..Len(list)
      /\ DOMAIN more = 1..(Len(list) + 1) /\ more[Len(list) + 1] = v
      /\ \A i \in DOMAIN list : more[i] = list[i]
    BY AppendIs
<1> HIDE DEF more
<1>2. ASSUME NEW i \in DOMAIN more, NEW j \in DOMAIN more, i < j,
             more[i] \notin Backfilled, more[j] \notin Backfilled
      PROVE  \/ more[i] < more[j]
             \/ more[i] = more[j] /\ i <= c
    <2>1. i \in DOMAIN list
        BY <1>1, <1>2
    <2>2. CASE j \in DOMAIN list
        BY <1>1, <1>2, <2>1, <2>2 DEF Sorted
    <2>3. CASE j \notin DOMAIN list
        <3>1. more[j] = v
            BY <1>1, <2>3
        <3> QED BY <1>1, <1>2, <2>1, <3>1 DEF Ahead
    <2> QED BY <2>2, <2>3
<1>3. Sorted(more, c)
    BY <1>2 DEF Sorted
<1> QED BY <1>3 DEF more

LEMMA AppendBelow ==
    ASSUME NEW list \in Seq(Obs), NEW v \in Obs, NEW x, Below(list, x),
           v \in Backfilled \/ v < x
    PROVE  Below(Append(list, v), x)
<1>1. /\ Len(list) \in Nat /\ DOMAIN list = 1..Len(list)
      /\ DOMAIN Append(list, v) = 1..(Len(list) + 1)
      /\ Append(list, v)[Len(list) + 1] = v
      /\ \A i \in DOMAIN list : Append(list, v)[i] = list[i]
    BY AppendIs
<1>2. ASSUME NEW i \in DOMAIN Append(list, v)
      PROVE  Append(list, v)[i] \in Backfilled \/ Append(list, v)[i] < x
    <2>1. i \in DOMAIN list \/ i = Len(list) + 1
        BY <1>1
    <2> QED BY <1>1, <2>1 DEF Below
<1> QED BY <1>2 DEF Below

LEMMA AppendAhead ==
    ASSUME NEW list \in Seq(Obs), NEW v \in Obs, NEW u, NEW c \in Nat, Ahead(u, list, c),
           v \in Backfilled \/ v < u
    PROVE  Ahead(u, Append(list, v), c)
<1>1. /\ Len(list) \in Nat /\ DOMAIN list = 1..Len(list)
      /\ DOMAIN Append(list, v) = 1..(Len(list) + 1)
      /\ Append(list, v)[Len(list) + 1] = v
      /\ \A i \in DOMAIN list : Append(list, v)[i] = list[i]
    BY AppendIs
<1>2. ASSUME NEW i \in DOMAIN Append(list, v)
      PROVE  \/ Append(list, v)[i] \in Backfilled
             \/ Append(list, v)[i] < u
             \/ Append(list, v)[i] = u /\ i <= c
    <2>1. i \in DOMAIN list \/ i = Len(list) + 1
        BY <1>1
    <2> QED BY <1>1, <2>1 DEF Ahead
<1> QED BY <1>2 DEF Ahead

LEMMA BelowLater ==
    ASSUME NEW list \in Seq(Obs), NEW x \in Nat, NEW y \in Nat, x <= y, Below(list, x)
    PROVE  Below(list, y)
BY ObsAreNumbers DEF Below

\* What is older than v leaves room for it; so does what is not newer, where
\* all of it was copied.
LEMMA BelowIsAhead ==
    ASSUME NEW list \in Seq(Obs), NEW v \in Nat, NEW c \in Nat,
           Below(list, v) \/ (Below(list, v + 1) /\ Len(list) <= c)
    PROVE  Ahead(v, list, c)
BY ObsAreNumbers DEF Below, Ahead

\* The last points of a list are in its order, and all of them are copied.
LEMMA CopySorted ==
    ASSUME NEW list \in Seq(Obs), NEW c \in Nat, Sorted(list, c), NEW s \in Session
    PROVE  /\ Sorted(LastPoints(list, s), Len(list))
           /\ \A x : Below(list, x) => Below(LastPoints(list, s), x)
<1> DEFINE last == LastPoints(list, s)
<1>1. last \in Seq(Obs) /\ Len(last) <= Len(list)
    BY LastPointsAre
<1>2. PICK k \in Nat : \A i \in DOMAIN last : i + k \in DOMAIN list /\ last[i] = list[i + k]
    BY LastPointsAre
<1>3. Len(last) \in Nat /\ Len(list) \in Nat /\ DOMAIN last = 1..Len(last)
    BY <1>1, ObsAreNumbers
<1> HIDE DEF last
<1>4. ASSUME NEW i \in DOMAIN last, NEW j \in DOMAIN last, i < j,
             last[i] \notin Backfilled, last[j] \notin Backfilled
      PROVE  \/ last[i] < last[j]
             \/ last[i] = last[j] /\ i <= Len(list)
    <2>1. /\ i + k \in DOMAIN list /\ j + k \in DOMAIN list /\ i + k < j + k
          /\ last[i] = list[i + k] /\ last[j] = list[j + k]
        BY <1>2, <1>3, <1>4
    <2>2. i <= Len(list)
        BY <1>1, <1>3
    <2> QED BY <1>4, <2>1, <2>2 DEF Sorted
<1>5. Sorted(last, Len(list))
    BY <1>4 DEF Sorted
<1>6. ASSUME NEW x, Below(list, x) PROVE Below(last, x)
    BY <1>2, <1>6 DEF Below
<1> QED BY <1>5, <1>6 DEF last

LEMMA SortedWhenCopied ==
    ASSUME NEW list \in Seq(Obs), NEW c \in Nat, Sorted(list, c)
    PROVE  Sorted(list, Len(list))
<1>1. Len(list) \in Nat /\ DOMAIN list = 1..Len(list)
    BY ObsAreNumbers
<1> QED BY <1>1 DEF Sorted

LEMMA OrderStart == RecordingInit => AllOrdered
<1> SUFFICES ASSUME RecordingInit, NEW s \in Session PROVE Ordered(s)
    BY DEF AllOrdered
<1>1. \A w \in Writer : writer[w].pc = "idle"
    BY DEF RecordingInit, Idle
<1>2. \A w \in Regular : ~Busy(w, s) /\ ~Waits(w, s)
    BY <1>1 DEF Busy, Waits, At, Regular
<1>3. /\ phase[s] = "new" /\ latest[s] = << >> /\ delivering = {}
      /\ vals[s] = << >> /\ due[s] = << >>
    BY DEF RecordingInit
<1>4. DOMAIN << >> = {}
    OBVIOUS
<1> QED BY <1>2, <1>3, <1>4 DEF Ordered, Older, Sorted, Below, NewInSlot

\* A step that brings the session nothing.
LEMMA OrderStays ==
    ASSUME NEW s \in Session, Ordered(s),
           UNCHANGED <<vals[s], due[s], copied[s], latest[s], now>>,
           lastTs'[s] = lastTs[s] \/ ~NewInSlot(s)',
           s \in delivering' => s \in delivering,
           phase'[s] = "stamp" => phase[s] = "stamp" /\ seed'[s] = seed[s],
           \A w \in Regular : Busy(w, s)' => Busy(w, s) /\ writer'[w].v = writer[w].v,
           \A w \in Regular : Waits(w, s)' => Waits(w, s)
    PROVE  Ordered(s)'
<1>2. Older(s, now + 1)' /\ (s \in delivering' => Older(s, now)')
    BY DEF Ordered, Older
<1>3. \A w \in Regular : Waits(w, s)' => writer'[w].v = writer[w].v
    BY DEF Waits, Busy, At
<1>4. \A w \in Regular :
        /\ Busy(w, s)' => Ahead(writer'[w].v, due'[s], copied'[s])
        /\ Waits(w, s)' => Ahead(writer'[w].v, vals'[s], copied'[s])
    BY <1>3 DEF Ordered
<1>5. NewInSlot(s)' =>
        /\ Ahead(latest'[s][1], vals'[s], copied'[s])
        /\ Ahead(latest'[s][1], due'[s], copied'[s])
        /\ \A w \in Regular : Busy(w, s)' => writer'[w].v < latest'[s][1]
    BY DEF Ordered, NewInSlot
<1>6. Sorted(vals'[s], copied'[s]) /\ Sorted(due'[s], copied'[s])
    BY DEF Ordered
<1>7. phase'[s] = "stamp" /\ seed'[s] # Unread =>
        Below(vals'[s], seed'[s] + 1) /\ seed'[s] <= now'
    BY DEF Ordered
<1> QED BY <1>2, <1>4, <1>5, <1>6, <1>7 DEF Ordered

\* What is spoiled stays so.
LEMMA TornStays == [RecordingNext]_recordingVars => torn \subseteq torn'
<1> SUFFICES ASSUME [RecordingNext]_recordingVars PROVE torn \subseteq torn'
    OBVIOUS
<1>1. ASSUME NEW s \in Session, StartCopy(s) \/ CopyStamps(s) \/ SeedStamp(s)
      PROVE  torn \subseteq torn'
    BY <1>1 DEF StartCopy, CopyStamps, SeedStamp
<1>2. ASSUME NEW w \in Writer, AppendValue(w) \/ AppendStamp(w) PROVE torn \subseteq torn'
    BY <1>2 DEF AppendValue, AppendStamp
<1> QED BY <1>1, <1>2 DEF RecordingNext, recordingVars, Update, Deliver, Tick, Backfill,
           SeedGet, SeedDone, AddCallback, StopSampler, StopMonitors, StopSwap

LEMMA OrderKept ==
    RecordingTypes /\ Owners /\ AllBegan /\ AllWhole /\ AllOrdered
        /\ [RecordingNext]_recordingVars => AllOrdered'
<1> SUFFICES ASSUME RecordingTypes, Owners, AllBegan, AllWhole, AllOrdered,
                    [RecordingNext]_recordingVars,
                    NEW q \in Session, q \notin torn'
             PROVE  Ordered(q)'
    BY DEF AllOrdered
<1> USE DEF recordingVars, bufVars, pvVars, startVars
<1>t. /\ phase \in [Session -> Phases] /\ now \in Nat
      /\ \A s \in Session : /\ vals[s] \in Seq(Obs) /\ due[s] \in Seq(Obs)
                            /\ copied[s] \in Nat /\ seed[s] \in Nat
    BY RecordingAssumption DEF RecordingTypes, Obs
<1>w. /\ CA \in Regular /\ \A s \in Session : Sampler(s) \in Regular /\ Starter(s) \in Regular
      /\ Filler \notin Regular /\ Regular \subseteq Writer
      /\ \A w \in Writer : w = Filler \/ w \in Regular
    BY WriterKinds DEF Regular
<1>o. Ordered(q) /\ Whole(q) /\ q \notin torn
    BY TornStays DEF AllOrdered, AllWhole
<1>u. now # Unread /\ Unread \in Nat
    BY Observed, ObsAreNumbers DEF RecordingTypes
\* Nothing of this session is touched, or only its phase.
<1>1. ASSUME UNCHANGED <<writer, now, vals[q], due[q], copied[q], latest[q], lastTs[q]>>,
             q \in delivering' => q \in delivering,
             phase'[q] = "stamp" => phase[q] = "stamp" /\ seed'[q] = seed[q]
      PROVE  Ordered(q)'
    <2>1. \A w \in Regular : /\ Busy(w, q)' => Busy(w, q) /\ writer'[w].v = writer[w].v
                             /\ Waits(w, q)' => Waits(w, q)
        BY <1>1 DEF Busy, Waits, At
    <2> QED BY <1>o, <1>1, <2>1, OrderStays
\* A thread does something for another session, or nothing.
<1>2. ASSUME NEW w \in Writer, \A u \in Writer \ {w} : writer'[u] = writer[u],
             writer'[w].pc = "idle" \/ writer'[w].s # q \/ w = Filler,
             UNCHANGED <<now, vals[q], due[q], copied[q], latest[q]>>,
             lastTs'[q] = lastTs[q] \/ ~NewInSlot(q)',
             q \in delivering' => q \in delivering,
             phase'[q] = "stamp" => phase[q] = "stamp" /\ seed'[q] = seed[q]
      PROVE  Ordered(q)'
    <2>1. \A u \in Regular : /\ Busy(u, q)' => Busy(u, q) /\ writer'[u].v = writer[u].v
                             /\ Waits(u, q)' => Waits(u, q)
        BY <1>w, <1>2 DEF Busy, Waits, At
    <2> QED BY <1>o, <1>2, <2>1, OrderStays
<1>3. ASSUME NEW w \in Writer, AppendValue(w) PROVE Ordered(q)'
    <2>1. PICK s \in Session : s = writer[w].s
        BY <1>3, AppendValueDoes
    <2>2. /\ writer[w].pc = "value" /\ writer'[w].pc = "stamp" /\ writer'[w].s = s
          /\ writer'[w].v = writer[w].v /\ writer[w].v \in Obs
          /\ \A u \in Writer \ {w} : writer'[u] = writer[u]
          /\ vals'[s] = IF Live(s) THEN Append(vals[s], writer[w].v) ELSE vals[s]
          /\ \A r \in Session \ {s} : vals'[r] = vals[r]
        BY <1>3, <2>1, AppendValueDoes
    <2>3. UNCHANGED <<phase, due, copied, latest, lastTs, delivering, now, seed>>
        BY <1>3 DEF AppendValue
    <2>4. \A u \in Regular :
            /\ Busy(u, q)' => Busy(u, q) /\ writer'[u].v = writer[u].v
            /\ Waits(u, q)' => Waits(u, q) /\ u # w
        BY <1>w, <2>1, <2>2 DEF Busy, Waits, At
    <2>5. CASE q # s \/ ~Live(s)
        BY <1>o, <2>2, <2>3, <2>4, <2>5, OrderStays
    <2>6. CASE q = s /\ Live(s)
        <3> DEFINE v == writer[w].v
        <3>1. vals'[q] = Append(vals[q], v) /\ v \in Obs
            BY <2>2, <2>6
        <3>2. Waits(w, q) /\ Busy(w, q) /\ Mine(w, q)
            BY <2>1, <2>2, <2>6 DEF Waits, At, Busy, Owners, Free
        <3>3. v \in Backfilled \/ (w \in Regular /\ Ahead(v, vals[q], copied[q]) /\ v < now + 1
                                   /\ (q \in delivering => v < now))
            BY <1>o, <1>w, <3>2, WriterKinds DEF Mine, Ordered, Older
        <3>4. w \in Regular => \A u \in Regular : ~Waits(u, q)'
            <4>1. ASSUME w \in Regular, NEW u \in Regular, Waits(u, q)' PROVE FALSE
                <5>1. Waits(u, q) /\ u # w
                    BY <2>4, <4>1
                <5>2. Busy(u, q)
                    BY <5>1 DEF Waits, At, Busy
                <5> QED BY <3>2, <4>1, <5>1, <5>2, OneRegular
            <4> QED BY <4>1
        <3>5. Sorted(vals'[q], copied'[q]) /\ Sorted(due'[q], copied'[q])
            BY <1>o, <1>t, <2>3, <3>1, <3>3, AppendSorted DEF Ordered
        <3>6. ASSUME NEW x, Older(q, x), v \in Backfilled \/ v < x PROVE Older(q, x)'
            <4>1. Below(vals'[q], x)
                BY <1>t, <3>1, <3>6, AppendBelow DEF Older
            <4> QED BY <2>3, <2>4, <3>6, <4>1 DEF Older
        <3>7. Older(q, now + 1)' /\ (q \in delivering' => Older(q, now)')
            BY <1>o, <2>3, <3>3, <3>6 DEF Ordered
        <3>8. ASSUME NEW u \in Regular
              PROVE  /\ Busy(u, q)' => Ahead(writer'[u].v, due'[q], copied'[q])
                     /\ Waits(u, q)' => Ahead(writer'[u].v, vals'[q], copied'[q])
            <4>1. Busy(u, q)' => Ahead(writer'[u].v, due'[q], copied'[q])
                BY <1>o, <2>3, <2>4 DEF Ordered
            <4>2. ASSUME Waits(u, q)' PROVE Ahead(writer'[u].v, vals'[q], copied'[q])
                <5>1. v \in Backfilled
                    BY <3>3, <3>4, <4>2
                <5>2. Waits(u, q) /\ writer'[u].v = writer[u].v
                    BY <2>4, <4>2 DEF Waits, Busy, At
                <5>3. Ahead(writer[u].v, vals[q], copied[q])
                    BY <1>o, <5>2 DEF Ordered
                <5> QED BY <1>t, <2>3, <3>1, <5>1, <5>2, <5>3, AppendAhead
            <4> QED BY <4>1, <4>2
        <3>9. ASSUME NewInSlot(q)'
              PROVE  /\ Ahead(latest'[q][1], vals'[q], copied'[q])
                     /\ Ahead(latest'[q][1], due'[q], copied'[q])
                     /\ \A u \in Regular : Busy(u, q)' => writer'[u].v < latest'[q][1]
            <4>1. NewInSlot(q)
                BY <2>3, <3>9 DEF NewInSlot
            <4>2. v \in Backfilled \/ v < latest[q][1]
                BY <1>o, <3>2, <3>3, <4>1 DEF Ordered
            <4>3. Ahead(latest[q][1], Append(vals[q], v), copied[q])
                BY <1>o, <1>t, <3>1, <4>1, <4>2, AppendAhead DEF Ordered
            <4> QED BY <1>o, <2>3, <2>4, <3>1, <4>1, <4>3 DEF Ordered
        <3>10. phase'[q] # "stamp"
            BY <2>3, <3>2, NobodyYet, <1>w DEF Started
        <3> QED BY <3>5, <3>7, <3>8, <3>9, <3>10 DEF Ordered
    <2> QED BY <2>5, <2>6
<1>4. ASSUME NEW w \in Writer, AppendStamp(w) PROVE Ordered(q)'
    <2>1. PICK s \in Session : s = writer[w].s
        BY <1>4, AppendStampDoes
    <2>2. /\ writer[w].pc = "stamp" /\ writer'[w].pc = "idle" /\ writer[w].v \in Obs
          /\ \A u \in Writer \ {w} : writer'[u] = writer[u]
          /\ \A r \in Session \ {s} : due'[r] = due[r]
          /\ IF Live(s) THEN due'[s] = Append(due[s], writer[w].v) ELSE due'[s] = due[s]
        BY <1>4, <2>1, AppendStampDoes
    <2>3. UNCHANGED <<phase, vals, copied, latest, lastTs, delivering, now, seed>>
        BY <1>4 DEF AppendStamp
    <2>4. \A u \in Regular :
            /\ Busy(u, q)' => Busy(u, q) /\ writer'[u].v = writer[u].v /\ u # w
            /\ Waits(u, q)' => Waits(u, q)
        BY <1>w, <2>2 DEF Busy, Waits, At
    <2>5. CASE q # s \/ ~Live(s)
        BY <1>o, <2>2, <2>3, <2>4, <2>5, OrderStays
    <2>6. CASE q = s /\ Live(s)
        <3> DEFINE v == writer[w].v
        <3>1. due'[q] = Append(due[q], v) /\ v \in Obs
            BY <2>2, <2>6
        <3>2. Busy(w, q) /\ Mine(w, q)
            BY <2>1, <2>2, <2>6 DEF Busy, Owners, Free
        <3>3. v \in Backfilled \/ (w \in Regular /\ Ahead(v, due[q], copied[q]) /\ v < now + 1
                                   /\ (q \in delivering => v < now))
            BY <1>o, <1>w, <3>2, WriterKinds DEF Mine, Ordered, Older
        <3>4. w \in Regular => \A u \in Regular : ~Busy(u, q)'
            <4>1. ASSUME w \in Regular, NEW u \in Regular, Busy(u, q)' PROVE FALSE
                <5>1. Busy(u, q) /\ u # w
                    BY <2>4, <4>1
                <5> QED BY <3>2, <4>1, <5>1, OneRegular
            <4> QED BY <4>1
        <3>5. Sorted(vals'[q], copied'[q]) /\ Sorted(due'[q], copied'[q])
            BY <1>o, <1>t, <2>3, <3>1, <3>3, AppendSorted DEF Ordered
        <3>6. ASSUME NEW x, Older(q, x), v \in Backfilled \/ v < x PROVE Older(q, x)'
            <4>1. Below(due'[q], x)
                BY <1>t, <3>1, <3>6, AppendBelow DEF Older
            <4> QED BY <2>3, <2>4, <3>6, <4>1 DEF Older
        <3>7. Older(q, now + 1)' /\ (q \in delivering' => Older(q, now)')
            BY <1>o, <2>3, <3>3, <3>6 DEF Ordered
        <3>8. ASSUME NEW u \in Regular
              PROVE  /\ Busy(u, q)' => Ahead(writer'[u].v, due'[q], copied'[q])
                     /\ Waits(u, q)' => Ahead(writer'[u].v, vals'[q], copied'[q])
            <4>1. Waits(u, q)' => Ahead(writer'[u].v, vals'[q], copied'[q])
                <5>1. Waits(u, q)' => Waits(u, q) /\ writer'[u].v = writer[u].v
                    BY <2>4 DEF Waits, Busy, At
                <5> QED BY <1>o, <2>3, <5>1 DEF Ordered
            <4>2. ASSUME Busy(u, q)' PROVE Ahead(writer'[u].v, due'[q], copied'[q])
                <5>1. v \in Backfilled
                    BY <3>3, <3>4, <4>2
                <5>2. Busy(u, q) /\ writer'[u].v = writer[u].v
                    BY <2>4, <4>2
                <5>3. Ahead(writer[u].v, due[q], copied[q])
                    BY <1>o, <5>2 DEF Ordered
                <5> QED BY <1>t, <2>3, <3>1, <5>1, <5>2, <5>3, AppendAhead
            <4> QED BY <4>1, <4>2
        <3>9. ASSUME NewInSlot(q)'
              PROVE  /\ Ahead(latest'[q][1], vals'[q], copied'[q])
                     /\ Ahead(latest'[q][1], due'[q], copied'[q])
                     /\ \A u \in Regular : Busy(u, q)' => writer'[u].v < latest'[q][1]
            <4>1. NewInSlot(q)
                BY <2>3, <3>9 DEF NewInSlot
            <4>2. v \in Backfilled \/ v < latest[q][1]
                BY <1>o, <3>2, <3>3, <4>1 DEF Ordered
            <4>3. Ahead(latest[q][1], Append(due[q], v), copied[q])
                BY <1>o, <1>t, <3>1, <4>1, <4>2, AppendAhead DEF Ordered
            <4> QED BY <1>o, <2>3, <2>4, <3>1, <4>1, <4>3 DEF Ordered
        <3>10. phase'[q] # "stamp"
            BY <2>3, <3>2, NobodyYet, <1>w DEF Started
        <3> QED BY <3>5, <3>7, <3>8, <3>9, <3>10 DEF Ordered
    <2> QED BY <2>5, <2>6
<1>5. ASSUME NEW s \in Session, Deliver(s) PROVE Ordered(q)'
    <2>1. /\ UNCHANGED <<phase, vals, due, copied, lastTs, now, seed>>
          /\ delivering' = delivering \ {s}
        BY <1>5 DEF Deliver
    <2>2. /\ writer[CA].pc = "idle" /\ s \in delivering
          /\ \A r \in Session \ {s} : latest'[r] = latest[r]
          /\ \A u \in Writer \ {CA} : writer'[u] = writer[u]
          /\ \/ UNCHANGED <<latest, writer>>
             \/ /\ s \in attached /\ mode[s] = "sample" /\ latest'[s] = <<now, now>>
                /\ writer'[CA] = writer[CA]
             \/ /\ s \in attached /\ mode[s] # "sample"
                /\ latest'[s] = latest[s]
                /\ writer'[CA].pc = "value" /\ writer'[CA].s = s
                /\ writer'[CA].v = now /\ writer'[CA].t = now
        BY <1>5, DeliverDoes
    <2>3. CASE q # s \/ UNCHANGED <<latest, writer>>
        <3>1. writer'[CA].pc = "idle" \/ writer'[CA].s # q
            BY <2>2, <2>3
        <3>2. latest'[q] = latest[q] /\ CA \in Writer
            BY <1>w, <2>2, <2>3
        <3> QED BY <1>2, <2>1, <2>2, <3>1, <3>2
    <2>4. ASSUME q = s, s \in attached,
                 latest'[s] = <<now, now>>, writer'[CA] = writer[CA]
          PROVE  Ordered(q)'
        <3>1. \A u \in Writer : writer'[u] = writer[u]
            BY <2>2, <2>4
        <3>2. \A u \in Regular : /\ Busy(u, q)' <=> Busy(u, q)
                                 /\ Waits(u, q)' <=> Waits(u, q)
                                 /\ writer'[u].v = writer[u].v
            BY <1>w, <3>1 DEF Busy, Waits, At
        <3>3. /\ Below(vals[q], now) /\ Below(due[q], now)
              /\ \A u \in Regular : Busy(u, q) => writer[u].v < now
            BY <1>o, <2>2, <2>4 DEF Ordered, Older
        <3>4. Ahead(now, vals[q], copied[q]) /\ Ahead(now, due[q], copied[q])
            BY <1>t, <3>3, BelowIsAhead
        <3>5. latest'[q][1] = now /\ now < now + 1
            BY <1>t, <2>4
        <3>6. Older(q, now + 1)'
            BY <1>o, <2>1, <3>2, <3>5 DEF Ordered, Older
        <3>7. q \notin delivering' /\ phase'[q] # "stamp"
            BY <2>1, <2>4 DEF Owners
        <3>8. \A u \in Regular :
                /\ Busy(u, q)' => Ahead(writer'[u].v, due'[q], copied'[q])
                /\ Waits(u, q)' => Ahead(writer'[u].v, vals'[q], copied'[q])
            BY <1>o, <2>1, <3>2 DEF Ordered
        <3>9. /\ Ahead(latest'[q][1], vals'[q], copied'[q])
              /\ Ahead(latest'[q][1], due'[q], copied'[q])
              /\ \A u \in Regular : Busy(u, q)' => writer'[u].v < latest'[q][1]
            BY <2>1, <3>2, <3>3, <3>4, <3>5
        <3> QED BY <1>o, <2>1, <3>6, <3>7, <3>8, <3>9 DEF Ordered
    <2>5. ASSUME q = s, s \in attached, mode[s] # "sample", latest'[s] = latest[s],
                 writer'[CA].pc = "value", writer'[CA].s = s, writer'[CA].v = now
          PROVE  Ordered(q)'
        <3>1. ASSUME NEW u \in Regular, u # CA
              PROVE  /\ Busy(u, q)' <=> Busy(u, q)
                     /\ Waits(u, q)' <=> Waits(u, q)
                     /\ writer'[u].v = writer[u].v
            BY <1>w, <2>2, <3>1 DEF Busy, Waits, At
        <3>2. Below(vals[q], now) /\ Below(due[q], now)
            BY <1>o, <2>2, <2>5 DEF Ordered, Older
        <3>3. Ahead(now, vals[q], copied[q]) /\ Ahead(now, due[q], copied[q])
            BY <1>t, <3>2, BelowIsAhead
        <3>4. Older(q, now + 1)'
            <4>1. now < now + 1
                BY <1>t
            <4>2. \A u \in Regular : Busy(u, q)' => writer'[u].v < now + 1
                BY <1>o, <2>5, <3>1, <4>1 DEF Ordered, Older
            <4> QED BY <1>o, <2>1, <2>5, <4>2 DEF Ordered, Older
        <3>5. q \notin delivering' /\ phase'[q] # "stamp"
            BY <2>1, <2>5 DEF Owners
        <3>6. latest'[q] = << >>
            BY <2>5 DEF AllBegan, Began
        <3>7. \A u \in Regular :
                /\ Busy(u, q)' => Ahead(writer'[u].v, due'[q], copied'[q])
                /\ Waits(u, q)' => Ahead(writer'[u].v, vals'[q], copied'[q])
            BY <1>o, <2>1, <2>5, <3>1, <3>3 DEF Ordered
        <3> QED BY <1>o, <2>1, <3>4, <3>5, <3>6, <3>7 DEF Ordered, NewInSlot
    <2> QED BY <2>2, <2>3, <2>4, <2>5
<1>6. ASSUME NEW s \in Session, Tick(s) PROVE Ordered(q)'
    <2>1. /\ UNCHANGED <<phase, vals, due, copied, latest, now, seed, delivering>>
          /\ phase[s] = "running"
          /\ q = s => NewInSlot(s)
        BY <1>6, <1>o DEF Tick, NewInSlot, Whole
    <2>2. /\ writer[Sampler(s)].pc = "idle"
          /\ latest[s][1] \in Obs /\ latest[s][2] \in Obs
          /\ lastTs'[s] = latest[s][2]
          /\ \A r \in Session \ {s} : lastTs'[r] = lastTs[r]
          /\ \A u \in Writer \ {Sampler(s)} : writer'[u] = writer[u]
          /\ \/ writer'[Sampler(s)] = writer[Sampler(s)]
             \/ /\ writer'[Sampler(s)].pc = "value" /\ writer'[Sampler(s)].s = s
                /\ writer'[Sampler(s)].v = latest[s][1]
        BY <1>6, TickDoes
    <2>3. lastTs'[q] = lastTs[q] \/ ~NewInSlot(q)'
        BY <2>1, <2>2 DEF NewInSlot
    <2>4. CASE q # s \/ writer'[Sampler(s)].pc = "idle"
        <3>1. writer'[Sampler(s)].pc = "idle" \/ writer'[Sampler(s)].s # q
            BY <2>2, <2>4
        <3> QED BY <1>2, <1>w, <2>1, <2>2, <2>3, <3>1
    <2>5. ASSUME q = s, writer'[Sampler(s)].pc = "value", writer'[Sampler(s)].s = s,
                 writer'[Sampler(s)].v = latest[s][1]
          PROVE  Ordered(q)'
        <3>1. ASSUME NEW u \in Regular, u # Sampler(s)
              PROVE  /\ Busy(u, q)' <=> Busy(u, q)
                     /\ Waits(u, q)' <=> Waits(u, q)
                     /\ writer'[u].v = writer[u].v
            BY <1>w, <2>2, <3>1 DEF Busy, Waits, At
        <3>2. /\ Ahead(latest[q][1], vals[q], copied[q]) /\ Ahead(latest[q][1], due[q], copied[q])
              /\ latest[q] # << >>
            BY <1>o, <2>1, <2>5 DEF Ordered, NewInSlot
        <3>3. ~NewInSlot(q)'
            BY <2>1, <2>2, <2>5 DEF NewInSlot
        <3>4. ASSUME NEW x, Older(q, x) PROVE Older(q, x)'
            <4>1. latest[q][1] < x
                BY <3>2, <3>4 DEF Older
            <4>2. \A u \in Regular : Busy(u, q)' => writer'[u].v < x
                BY <2>5, <3>1, <3>4, <4>1 DEF Older
            <4> QED BY <2>1, <3>4, <4>2 DEF Older
        <3>5. Older(q, now + 1)' /\ (q \in delivering' => Older(q, now)')
            BY <1>o, <2>1, <3>4 DEF Ordered
        <3>6. \A u \in Regular :
                /\ Busy(u, q)' => Ahead(writer'[u].v, due'[q], copied'[q])
                /\ Waits(u, q)' => Ahead(writer'[u].v, vals'[q], copied'[q])
            BY <1>o, <2>1, <2>5, <3>1, <3>2 DEF Ordered
        <3> QED BY <1>o, <2>1, <2>5, <3>3, <3>5, <3>6 DEF Ordered
    <2> QED BY <2>2, <2>4, <2>5
<1>7. ASSUME NEW s \in Session, Backfill(s) PROVE Ordered(q)'
    <2>1. UNCHANGED <<phase, vals, due, copied, latest, lastTs, now, seed, delivering>>
        BY <1>7 DEF Backfill
    <2>2. \A u \in Writer \ {Filler} : writer'[u] = writer[u]
        BY <1>7, BackfillDoes
    <2>3. Filler \in Writer
        BY WriterKinds
    <2> QED BY <1>2, <2>1, <2>2, <2>3
<1>8. CASE Update
    <2>1. /\ UNCHANGED <<phase, vals, due, copied, latest, lastTs, writer, seed>>
          /\ now' = now + 1
        BY <1>8 DEF Update
    <2>2. \A u \in Regular : /\ Busy(u, q)' <=> Busy(u, q)
                             /\ Waits(u, q)' <=> Waits(u, q)
        BY <2>1 DEF Busy, Waits, At
    <2>3. Older(q, now)'
        BY <1>o, <2>1, <2>2 DEF Ordered, Older
    <2>4. Older(q, now + 1)'
        <3>1. Below(vals[q], now + 2) /\ Below(due[q], now + 2)
            BY <1>o, <1>t, BelowLater DEF Ordered, Older
        <3>2. \A u \in Regular : Busy(u, q)' => writer'[u].v < now + 2
            <4>1. ASSUME NEW u \in Regular, Busy(u, q) PROVE writer[u].v < now + 2
                <5>1. writer[u].v \in Nat /\ writer[u].v < now + 1
                    BY <1>o, <1>w, <4>1, BusySession, ObsAreNumbers DEF Busy, Free, Ordered, Older
                <5> QED BY <1>t, <5>1
            <4> QED BY <2>1, <2>2, <4>1
        <3>3. latest[q] # << >> => latest[q][1] < now + 2
            <4>1. latest[q] # << >> => latest[q][1] \in Nat
                BY ObsAreNumbers DEF RecordingTypes
            <4>2. latest[q] # << >> => latest[q][1] < now + 1
                BY <1>o DEF Ordered, Older
            <4> QED BY <1>t, <4>1, <4>2
        <3>4. now' + 1 = now + 2
            BY <1>t, <2>1
        <3> QED BY <2>1, <3>1, <3>2, <3>3, <3>4 DEF Older
    <2>5. phase'[q] = "stamp" /\ seed'[q] # Unread =>
            Below(vals'[q], seed'[q] + 1) /\ seed'[q] <= now'
        BY <1>o, <1>t, <2>1 DEF Ordered
    <2> QED BY <1>o, <2>1, <2>2, <2>3, <2>4, <2>5 DEF Ordered, NewInSlot
<1>9. ASSUME NEW s \in Session, StartCopy(s) PROVE Ordered(q)'
    <2>1. /\ phase[s] = "new"
          /\ UNCHANGED <<writer, latest, lastTs, now, seed, delivering>>
        BY <1>9 DEF StartCopy
    <2>2. CASE Becomes(s, "get") /\ UNCHANGED <<source, vals, due, copied, torn>>
        <3>1. phase'[s] = "get" /\ \A r \in Session \ {s} : phase'[r] = phase[r]
            BY <1>t, <2>2, BecomesPhase DEF Phases
        <3> QED BY <1>1, <2>1, <2>2, <3>1
    <2>3. CASE ~(Becomes(s, "get") /\ UNCHANGED <<source, vals, due, copied, torn>>)
        <3>1. PICK p \in Session :
                /\ Becomes(s, "copy") /\ torn' = torn \cup {r \in {s} : p \in torn}
                /\ copied'[s] = Len(vals[p])
                /\ vals'[s] = LastPoints(vals[p], s) /\ due'[s] = LastPoints(vals[p], s)
                /\ \A r \in Session \ {s} :
                    /\ copied'[r] = copied[r]
                    /\ vals'[r] = vals[r] /\ due'[r] = due[r]
            BY <1>9, <2>3, StartCopyDoes
        <3>2. phase'[s] = "copy" /\ \A r \in Session \ {s} : phase'[r] = phase[r]
            BY <1>t, <3>1, BecomesPhase DEF Phases
        <3>3. CASE q = s
            <4>1. /\ \A u \in Writer : ~Busy(u, q)
                  /\ q \notin delivering /\ latest[q] = << >>
                BY <2>1, <3>3, NobodyYet DEF Started, AllBegan, Began
            <4>2. \A u \in Regular : ~Busy(u, q)' /\ ~Waits(u, q)'
                BY <1>w, <2>1, <4>1 DEF Busy, Waits, At
            <4>3. /\ vals[p] \in Seq(Obs) /\ copied[p] \in Nat
                  /\ Sorted(vals[p], copied[p]) /\ Below(vals[p], now + 1)
                <5>1. p \notin torn
                    BY <3>1, <3>3
                <5> QED BY <1>t, <5>1 DEF AllOrdered, Ordered, Older
            <4>4. Sorted(vals'[q], copied'[q]) /\ Sorted(due'[q], copied'[q])
                  /\ Below(vals'[q], now + 1) /\ Below(due'[q], now + 1)
                BY <3>1, <3>3, <4>3, CopySorted
            <4> QED BY <2>1, <3>2, <3>3, <4>1, <4>2, <4>4 DEF Ordered, Older, NewInSlot
        <3>4. CASE q # s
            BY <1>1, <2>1, <3>1, <3>2, <3>4
        <3> QED BY <3>3, <3>4
    <2> QED BY <2>2, <2>3
<1>10. ASSUME NEW s \in Session, CopyStamps(s) PROVE Ordered(q)'
    <2>1. /\ phase[s] = "copy" /\ Becomes(s, "get")
          /\ UNCHANGED <<vals, due, writer, latest, lastTs, now, seed, delivering>>
          /\ copied'[s] = Len(vals[s]) /\ \A r \in Session \ {s} : copied'[r] = copied[r]
        BY <1>10 DEF CopyStamps, RecordingTypes
    <2>2. phase'[s] = "get" /\ \A r \in Session \ {s} : phase'[r] = phase[r]
        BY <1>t, <2>1, BecomesPhase DEF Phases
    <2>3. CASE q = s
        <3>1. /\ \A u \in Writer : ~Busy(u, q)
              /\ q \notin delivering /\ latest[q] = << >> /\ vals[q] = due[q]
            BY <2>1, <2>3, NobodyYet DEF Started, AllBegan, Began
        <3>2. \A u \in Regular : ~Busy(u, q)' /\ ~Waits(u, q)'
            BY <1>w, <2>1, <3>1 DEF Busy, Waits, At
        <3>3. Sorted(vals'[q], copied'[q]) /\ Sorted(due'[q], copied'[q])
            BY <1>o, <1>t, <2>1, <2>3, <3>1, SortedWhenCopied DEF Ordered
        <3> QED BY <1>o, <2>1, <2>2, <2>3, <3>1, <3>2, <3>3 DEF Ordered, Older, NewInSlot
    <2>4. CASE q # s
        BY <1>1, <2>1, <2>2, <2>4
    <2> QED BY <2>3, <2>4
<1>11. ASSUME NEW s \in Session, SeedGet(s) PROVE Ordered(q)'
    <2>1. /\ phase[s] = "get"
          /\ UNCHANGED <<vals, due, copied, writer, latest, lastTs, now, delivering>>
          /\ \A r \in Session \ {s} : seed'[r] = seed[r]
          /\ \/ Becomes(s, "stamp") /\ seed'[s] \in {now, Unread}
             \/ Becomes(s, "add") /\ seed' = seed
        BY <1>11 DEF SeedGet, RecordingTypes
    <2>2. CASE q # s \/ ~Becomes(s, "stamp")
        <3>1. PICK loc \in {"stamp", "add"} : Becomes(s, loc)
            BY <2>1
        <3>2. phase'[s] = loc /\ \A r \in Session \ {s} : phase'[r] = phase[r]
            BY <1>t, <3>1, BecomesPhase DEF Phases
        <3>3. phase'[q] = "stamp" => phase[q] = "stamp" /\ seed'[q] = seed[q]
            BY <2>1, <2>2, <3>1, <3>2
        <3> QED BY <1>1, <2>1, <3>3
    <2>3. CASE q = s /\ Becomes(s, "stamp")
        <3>1. phase'[s] = "stamp" /\ phase'[s] # "add"
            BY <1>t, <2>3, BecomesPhase DEF Phases
        <3>2. seed'[q] \in {now, Unread}
            BY <1>t, <2>1, <2>3, <3>1, BecomesPhase DEF Phases
        <3>3. \A u \in Regular : /\ Busy(u, q)' <=> Busy(u, q)
                                 /\ Waits(u, q)' <=> Waits(u, q)
            BY <2>1 DEF Busy, Waits, At
        <3>4. seed'[q] # Unread => Below(vals'[q], seed'[q] + 1) /\ seed'[q] <= now'
            BY <1>o, <1>t, <2>1, <3>2 DEF Ordered, Older
        <3> QED BY <1>o, <2>1, <3>3, <3>4 DEF Ordered, Older, NewInSlot
    <2> QED BY <2>2, <2>3
<1>12. ASSUME NEW s \in Session, SeedStamp(s) PROVE Ordered(q)'
    <2>1. /\ phase[s] = "stamp" /\ Becomes(s, "seed")
          /\ UNCHANGED <<vals, due, copied, lastTs, now, delivering>>
          /\ \A r \in Session \ {s} : seed'[r] = seed[r]
          /\ q = s => seed[s] = now
        BY <1>12 DEF SeedStamp, RecordingTypes
    <2>2. phase'[s] = "seed" /\ \A r \in Session \ {s} : phase'[r] = phase[r]
        BY <1>t, <2>1, BecomesPhase DEF Phases
    <2>3. /\ \A r \in Session \ {s} : latest'[r] = latest[r]
          /\ \A u \in Writer \ {Starter(s)} : writer'[u] = writer[u]
          /\ \/ latest'[s][1] = seed[s] /\ writer'[Starter(s)] = writer[Starter(s)]
             \/ /\ latest'[s] = latest[s]
                /\ \/ writer'[Starter(s)] = writer[Starter(s)]
                   \/ /\ writer'[Starter(s)].pc = "value" /\ writer'[Starter(s)].s = s
                      /\ writer'[Starter(s)].v = seed[s]
        BY <1>12, SeedStampDoes
    <2>4. /\ \A u \in Writer : ~Busy(u, s)
          /\ s \notin delivering /\ latest[s] = << >>
          /\ vals[s] = due[s] /\ Len(due[s]) <= copied[s]
        BY <2>1, NobodyYet DEF Started, AllBegan, Began
    <2>5. writer[Starter(s)].pc = "idle"
        <3>1. ~(phase[s] \in Started) /\ phase[s] # "seed"
            BY <2>1 DEF Started
        <3> QED BY <1>w, <3>1, BusySession, WriterKinds DEF Owners, Mine, Free
    <2>6. CASE q # s
        <3>1. writer'[Starter(s)].pc = "idle" \/ writer'[Starter(s)].s # q
            BY <2>3, <2>5, <2>6
        <3> QED BY <1>2, <1>w, <2>1, <2>2, <2>3, <2>6, <3>1
    <2>7. CASE q = s
        <3>1. /\ Below(vals[q], seed[q] + 1) /\ seed[q] <= now /\ seed[q] < now + 1
              /\ Below(due[q], seed[q] + 1)
            BY <1>o, <1>t, <1>u, <2>1, <2>4, <2>7 DEF Ordered
        <3>2. Ahead(seed[q], vals[q], copied[q]) /\ Ahead(seed[q], due[q], copied[q])
            BY <1>t, <2>4, <2>7, <3>1, BelowIsAhead
        <3>3. \A u \in Regular \ {Starter(s)} : ~Busy(u, q)' /\ ~Waits(u, q)'
            BY <1>w, <2>3, <2>4, <2>7 DEF Busy, Waits, At
        <3>4. CASE latest'[s][1] = seed[s] /\ writer'[Starter(s)] = writer[Starter(s)]
            <4>1. \A u \in Regular : ~Busy(u, q)' /\ ~Waits(u, q)'
                BY <2>5, <3>3, <3>4 DEF Busy, Waits, At
            <4>2. latest'[q][1] = seed[q]
                BY <2>7, <3>4
            <4> QED BY <1>o, <2>1, <2>2, <2>4, <2>7, <3>1, <3>2, <4>1, <4>2
                    DEF Ordered, Older, NewInSlot
        <3>5. CASE latest'[s] = latest[s]
            <4>1. \A u \in Regular : Busy(u, q)' \/ Waits(u, q)' => writer'[u].v = seed[q]
                BY <2>3, <2>5, <2>7, <3>3 DEF Busy, Waits, At
            <4> QED BY <1>o, <2>1, <2>2, <2>4, <2>7, <3>1, <3>2, <3>5, <4>1
                    DEF Ordered, Older, NewInSlot
        <3> QED BY <2>3, <3>4, <3>5
    <2> QED BY <2>6, <2>7
\* Steps of start() and stop() that only go on.
<1>13. ASSUME NEW s \in Session, NEW loc \in Phases \ {"stamp"}, Becomes(s, loc),
              UNCHANGED <<writer, now, vals, due, copied, latest, lastTs, delivering, seed>>
       PROVE  Ordered(q)'
    <2>1. phase'[s] = loc /\ \A r \in Session \ {s} : phase'[r] = phase[r]
        BY <1>t, <1>13, BecomesPhase
    <2> QED BY <1>1, <1>13, <2>1
<1>14. ASSUME NEW s \in Session, SeedDone(s) PROVE Ordered(q)'
    BY <1>13, <1>14 DEF SeedDone, Phases
<1>15. ASSUME NEW s \in Session, AddCallback(s) PROVE Ordered(q)'
    BY <1>13, <1>15 DEF AddCallback, Phases
<1>16. ASSUME NEW s \in Session, StopSampler(s) PROVE Ordered(q)'
    BY <1>13, <1>16 DEF StopSampler, Phases
<1>17. ASSUME NEW s \in Session, StopMonitors(s) PROVE Ordered(q)'
    BY <1>13, <1>17 DEF StopMonitors, Phases
<1>18. ASSUME NEW s \in Session, StopSwap(s) PROVE Ordered(q)'
    <2>1. /\ Becomes(s, "stopped")
          /\ UNCHANGED <<writer, now, due, copied, delivering, seed>>
          /\ vals'[s] = << >> /\ latest'[s] = << >>
          /\ \A r \in Session \ {s} : vals'[r] = vals[r] /\ latest'[r] = latest[r]
                                      /\ lastTs'[r] = lastTs[r]
        BY <1>18 DEF StopSwap, RecordingTypes
    <2>2. phase'[s] = "stopped" /\ \A r \in Session \ {s} : phase'[r] = phase[r]
        BY <1>t, <2>1, BecomesPhase DEF Phases
    <2>3. CASE q = s
        <3>1. DOMAIN << >> = {}
            OBVIOUS
        <3>2. \A x, c : Below(vals'[q], x) /\ Ahead(x, vals'[q], c) /\ Sorted(vals'[q], c)
            BY <2>1, <2>3, <3>1 DEF Below, Ahead, Sorted
        <3>3. \A u \in Regular : /\ Busy(u, q)' <=> Busy(u, q)
                                 /\ Waits(u, q)' <=> Waits(u, q)
            BY <2>1 DEF Busy, Waits, At
        <3> QED BY <1>o, <2>1, <2>2, <2>3, <3>2, <3>3 DEF Ordered, Older, NewInSlot
    <2>4. CASE q # s
        BY <1>1, <2>1, <2>2, <2>4
    <2> QED BY <2>3, <2>4
<1>19. CASE UNCHANGED recordingVars
    BY <1>1, <1>19
<1> QED BY <1>3, <1>4, <1>5, <1>6, <1>7, <1>8, <1>9, <1>10, <1>11, <1>12, <1>14, <1>15,
           <1>16, <1>17, <1>18, <1>19 DEF RecordingNext

-----------------------------------------------------------------------------
(* The theorems.                                                               *)

RecordingInv ==
    /\ RecordingTypes /\ Owners /\ Sized
    /\ AllBegan /\ AllCopying /\ AllWhole /\ AllOrdered

LEMMA RecordingInvariance == RecordingSpec => []RecordingInv
<1>1. RecordingInit => RecordingInv
    BY TypesStart, OwnersStart, SizedStart, BuildStart, WholeStart, OrderStart DEF RecordingInv
<1>2. RecordingInv /\ [RecordingNext]_recordingVars => RecordingInv'
    BY TypesKept, OwnersKept, SizedKept, BuildKept, WholeKept, OrderKept DEF RecordingInv
<1> QED BY <1>1, <1>2, PTL DEF RecordingSpec

\* The types, and the length of a list: each backfill may have added one point
\* too many, and no callback and no sampler ever does.  None may be among the
\* values, where a seed was not read, and is never among the timestamps.
THEOREM RecordingTyped == RecordingSpec => []RecordingTypeOK
<1>1. RecordingInv => RecordingTypeOK
    <2> SUFFICES ASSUME RecordingInv PROVE RecordingTypeOK
        OBVIOUS
    <2>1. RecordingTypes /\ Sized
        BY DEF RecordingInv
    <2>2. ASSUME NEW s \in Session PROVE Len(vals[s]) <= Cap[s] + backfills
        <3>1. Len(vals[s]) + Pending(s) <= Cap[s] + backfills
            BY <2>1 DEF Sized
        <3> QED BY <2>1, <3>1, SizesAreNumbers
    <2> QED BY <2>1, <2>2 DEF RecordingTypes, RecordingTypeOK
<1> QED BY <1>1, RecordingInvariance, PTL

\* What stop() hands out is what was recorded, for any number of overlapping
\* recordings, updates and backfills.
THEOREM RecordingsAreFaithful == RecordingSpec => []Faithful
<1>1. RecordingInv => Faithful
    BY DEF RecordingInv, AllWhole, Whole, Faithful
<1> QED BY <1>1, RecordingInvariance, PTL

\* And its points are in the order of the updates, none of them twice.
THEOREM RecordingsAreInOrder == RecordingSpec => []InOrder
<1>1. RecordingInv => InOrder
    <2> SUFFICES ASSUME RecordingInv, NEW s \in Session \ torn,
                        Range(due[s]) \cap Backfilled = {},
                        NEW i \in DOMAIN due[s], NEW j \in DOMAIN due[s], i < j
                 PROVE  \/ due[s][i] < due[s][j]
                        \/ due[s][i] = due[s][j] /\ i <= copied[s]
        BY DEF InOrder
    <2>1. Sorted(due[s], copied[s])
        BY DEF RecordingInv, AllOrdered, Ordered
    <2>2. due[s][i] \notin Backfilled /\ due[s][j] \notin Backfilled
        BY DEF Range
    <2> QED BY <2>1, <2>2 DEF Sorted
<1> QED BY <1>1, RecordingInvariance, PTL

=============================================================================
