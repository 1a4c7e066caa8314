-------------------------------- MODULE EventBus --------------------------------
(* How the clients of the robot server learn its state.  set_state() compares  *)
(* and assigns under _state_lock and publishes without it; publish() notes the *)
(* value and the subscribers under the bus's lock and puts the frame into each *)
(* subscriber's queue without it.  A put that finds the queue full takes the   *)
(* oldest frame out and tries once more; the client reads, and other threads   *)
(* publish, in between.  The robot's own events (polling, motion, ...) go      *)
(* through the same queues, and push out what has not been read yet.           *)
EXTENDS Naturals, Sequences, FiniteSets, SequencesExt

CONSTANTS
    Publisher,   \* threads: commands, requests, the recovery loop
    Subscriber,  \* the event streams of clients
    Filtered,    \* those that asked for the event "state" only
    Value,       \* the states of the server: frames of the event "state"
    Other,       \* a frame of any other event
    Unset,       \* none of them
    QueueSize    \* frames in a subscriber's queue

ASSUME EventBusAssumption ==
    /\ QueueSize \in Nat \ {0}
    /\ Filtered \subseteq Subscriber
    /\ Other \notin Value
    /\ Unset \notin Value \cup {Other}

VARIABLES
    state,      \* RobotServerApp._state
    lastValue,  \* _latest of the event "state"
    polled,     \* whether _latest holds another event
    joined,     \* of each subscriber: "new", "in" (_subscribers) or "out"
    queue,      \* of each subscriber
    shown,      \* the last state its client has read
    dropped,    \* its counter, modulo 2: enough to see whether it is bumped
    pub,        \* where each thread is in publish() or subscribe()
    raced,      \* history: since the last change of the state that was told
                \* alone, two threads were telling or replaying it together
    missed      \* history: the subscribers whose newest state was given up,
                \* and which were offered no newer one since

clientVars == <<joined, queue, shown, dropped, missed>>
vars == <<state, lastValue, polled, clientVars, pub, raced>>

Frames == Value \cup {Other}

\* Where a thread is: the frame it tells, to whom, to whom it replays the other
\* event afterwards, and who is being dealt with.
Call(loc, v, ss, after, s) ==
    [pc |-> loc, value |-> v, to |-> ss, also |-> after, at |-> s]
IdlePub == Call("idle", Unset, {}, {}, Unset)
members == {s \in Subscriber : joined[s] = "in"}

\* Subscriber.wants.
Wants(s, v) == s \in Filtered => v \in Value

TypeOK ==
    /\ state \in Value /\ raced \in BOOLEAN
    /\ lastValue \in Value /\ polled \in BOOLEAN
    /\ joined \in [Subscriber -> {"new", "in", "out"}]
    /\ queue \in [Subscriber -> Seq(Frames)]
    /\ \A s \in Subscriber : Len(queue[s]) <= QueueSize
    /\ dropped \in [Subscriber -> 0..1]
    /\ shown \in [Subscriber -> Value \cup {Unset}]
    /\ missed \subseteq Subscriber
    /\ pub \in [Publisher -> {IdlePub} \cup
         [pc : {"publish", "put", "get", "again"}, value : Frames,
          to : SUBSET Subscriber, also : SUBSET Subscriber,
          at : Subscriber \cup {Unset}]]

\* start() has told the state, and nobody listened yet.
Init ==
    /\ state \in Value /\ lastValue = state
    /\ polled = FALSE /\ raced = FALSE /\ missed = {}
    /\ joined = [s \in Subscriber |-> "new"]
    /\ queue = [s \in Subscriber |-> << >>]
    /\ dropped = [s \in Subscriber |-> 0]
    /\ shown = [s \in Subscriber |-> Unset]
    /\ pub = [p \in Publisher |-> IdlePub]

Publishing(p) == pub[p].pc # "idle"
PubAt(p, loc) == pub[p].pc = loc
\* It tells, or replays, the state.
Tells(p) == Publishing(p) /\ pub[p].value \in Value

\* Mutant: a state that did not change is compared with the one told last.
SetStateStale(p) ==
    /\ ~Publishing(p)
    /\ \E v \in Value :
        /\ v # state
        /\ state' = v
        /\ pub' = IF v = lastValue THEN pub
                  ELSE [pub EXCEPT ![p] = Call("publish", v, {}, {}, Unset)]
    /\ raced' = \E q \in Publisher \ {p} : Tells(q)
    /\ UNCHANGED <<lastValue, polled, clientVars>>

\* set_state(v): a value that changes nothing is not published.
SetState(p) ==
    /\ ~Publishing(p)
    /\ \E v \in Value :
        /\ v # state
        /\ state' = v
        /\ pub' = [pub EXCEPT ![p] = Call("publish", v, {}, {}, Unset)]
    /\ raced' = \E q \in Publisher \ {p} : Tells(q)
    /\ UNCHANGED <<lastValue, polled, clientVars>>

\* _on_robot_event: the robot emits one of the events that are forwarded.
RobotEvent(p) ==
    /\ ~Publishing(p)
    /\ pub' = [pub EXCEPT ![p] = Call("publish", Other, {}, {}, Unset)]
    /\ UNCHANGED <<state, lastValue, polled, clientVars, raced>>

\* The call goes on with the subscribers that are left, then with the replay
\* of the other event, or ends.
PutNext(p, left) ==
    pub' = [pub EXCEPT ![p] =
        IF left # {} THEN Call("put", @.value, left, @.also, Unset)
        ELSE IF @.also # {} THEN Call("put", Other, @.also, {}, Unset)
        ELSE IdlePub]

\* publish(), under the bus's lock.
Publish(p) ==
    /\ PubAt(p, "publish")
    /\ IF Tells(p)
       THEN lastValue' = pub[p].value /\ UNCHANGED polled
       ELSE polled' = TRUE /\ UNCHANGED lastValue
    /\ PutNext(p, {s \in members : Wants(s, pub[p].value)})
    /\ UNCHANGED <<state, clientVars, raced>>

\* put_nowait() of a queue that is not full.  A call that is under way may still
\* put into the queue of a stream that ended: nobody has that any more.
PutFits(p, s) ==
    /\ Len(queue[s]) < QueueSize
    /\ queue' = [queue EXCEPT ![s] = IF joined[s] = "out" THEN @
                                     ELSE Append(@, pub[p].value)]
    /\ PutNext(p, pub[p].to \ {s})
    /\ missed' = IF Tells(p) THEN missed \ {s} ELSE missed
    /\ UNCHANGED dropped

Full(s) == Len(queue[s]) = QueueSize

\* Subscriber.put: the first attempt.
Put(p) ==
    /\ PubAt(p, "put")
    /\ \E s \in pub[p].to :
        \/ PutFits(p, s)
        \/ /\ Full(s)
           /\ pub' = [pub EXCEPT ![p] = Call("get", @.value, @.to, @.also, s)]
           /\ UNCHANGED <<queue, dropped, missed>>
    /\ UNCHANGED <<state, lastValue, polled, joined, shown, raced>>

\* The oldest frame that waits is the only state among them.
HeadIsLastState(s) ==
    /\ Head(queue[s]) \in Value
    /\ \A i \in 2..Len(queue[s]) : queue[s][i] = Other

\* Mutant: the counter is forgotten.
PutGetUncounted(p) ==
    LET s == pub[p].at IN
    /\ PubAt(p, "get")
    /\ queue' = [queue EXCEPT ![s] = IF @ = << >> THEN @ ELSE Tail(@)]
    /\ UNCHANGED <<dropped, missed>>
    /\ pub' = [pub EXCEPT ![p] = Call("again", @.value, @.to, @.also, s)]
    /\ UNCHANGED <<state, lastValue, polled, joined, shown, raced>>

\* get_nowait(): the oldest frame is dropped, if the client has not read it.
PutGet(p) ==
    LET s == pub[p].at IN
    /\ PubAt(p, "get")
    /\ IF queue[s] = << >>
       THEN UNCHANGED <<queue, dropped, missed>>
       ELSE /\ queue' = [queue EXCEPT ![s] = Tail(@)]
            /\ dropped' = [dropped EXCEPT ![s] = 1 - @]
            /\ missed' = IF HeadIsLastState(s) THEN missed \cup {s} ELSE missed
    /\ pub' = [pub EXCEPT ![p] = Call("again", @.value, @.to, @.also, s)]
    /\ UNCHANGED <<state, lastValue, polled, joined, shown, raced>>

\* The second attempt: another publisher may have filled the queue again.
PutAgain(p) ==
    LET s == pub[p].at IN
    /\ PubAt(p, "again")
    /\ \/ PutFits(p, s)
       \/ /\ Full(s)
          /\ dropped' = [dropped EXCEPT ![s] = 1 - @]
          /\ PutNext(p, pub[p].to \ {s})
          /\ missed' = IF Tells(p) THEN missed \cup {s} ELSE missed
          /\ UNCHANGED queue
    /\ UNCHANGED <<state, lastValue, polled, joined, shown, raced>>

\* subscribe(), under the bus's lock; the replay of the last values is put later:
\* the state first, which start() has told before any other event.
Subscribe(p, s) ==
    /\ ~Publishing(p)
    /\ joined[s] = "new"
    /\ joined' = [joined EXCEPT ![s] = "in"]
    /\ pub' = [pub EXCEPT ![p] = Call("put", lastValue, {s},
                        IF polled /\ Wants(s, Other) THEN {s} ELSE {}, Unset)]
    /\ raced' = (raced \/ \E q \in Publisher : Tells(q))
    /\ UNCHANGED <<state, lastValue, polled, queue, shown, dropped, missed>>

\* The stream ends: its queue, its counter and what its client knew are gone.
Unsubscribe(s) ==
    /\ joined[s] = "in"
    /\ joined' = [joined EXCEPT ![s] = "out"]
    /\ queue' = [queue EXCEPT ![s] = << >>]
    /\ dropped' = [dropped EXCEPT ![s] = 0]
    /\ shown' = [shown EXCEPT ![s] = Unset]
    /\ missed' = missed \ {s}
    /\ UNCHANGED <<state, lastValue, polled, pub, raced>>

\* The client's stream reads a frame.
Receive(s) ==
    /\ joined[s] = "in"
    /\ queue[s] # << >>
    /\ shown' = [shown EXCEPT ![s] =
                    IF Head(queue[s]) \in Value THEN Head(queue[s]) ELSE @]
    /\ queue' = [queue EXCEPT ![s] = Tail(@)]
    /\ UNCHANGED <<state, lastValue, polled, joined, dropped, pub, raced, missed>>

Next ==
    \/ \E p \in Publisher :
        \/ SetState(p) \/ RobotEvent(p) \/ Publish(p) \/ Put(p) \/ PutGet(p) \/ PutAgain(p)
        \/ \E s \in Subscriber : Subscribe(p, s)
    \/ \E s \in Subscriber : Unsubscribe(s) \/ Receive(s)

Spec == Init /\ [][Next]_vars

-----------------------------------------------------------------------------
(* Properties.                                                                 *)

\* What each subscriber is promised: see there.
Channel(s) == INSTANCE LossyQueue WITH
    Frame <- Frames, Kept <- Value, None <- Unset, MaxSize <- QueueSize,
    queue <- queue[s], dropped <- dropped[s], received <- shown[s],
    closed <- (joined[s] = "out")

\* v is the newest state a subscriber has read or has waiting.
NewestIs(s, v) ==
    \/ /\ shown[s] = v
       /\ \A i \in DOMAIN queue[s] : queue[s][i] = Other
    \/ \E i \in DOMAIN queue[s] :
        /\ queue[s][i] = v
        /\ \A j \in DOMAIN queue[s] : j > i => queue[s][j] = Other

\* When nobody is telling the state, a client that asked for this event alone
\* has read it, or has it as the newest state in its queue, however slowly it
\* reads; one that takes every event has it too, unless frames of other events
\* filled its queue and its newest state was given up, and no newer one was
\* told since.  Only two threads that told the state, or replayed it, at the
\* same time can leave a client with an older one, and then only until the
\* state changes again.
ClientSeesState ==
    ~raced /\ (\A p \in Publisher : ~Tells(p)) =>
        \A s \in members : NewestIs(s, state) \/ s \in missed \ Filtered

=============================================================================
