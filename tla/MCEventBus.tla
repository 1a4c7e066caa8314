------------------------------ MODULE MCEventBus ------------------------------
(* Instances of EventBus for TLC.                                              *)
EXTENDS EventBus, TLC

CONSTANTS s1, s2

\* Channel(s) of EventBus, for each of the two.
Channel1 == INSTANCE LossyQueue WITH
    Frame <- Frames, Kept <- Value, None <- Unset, MaxSize <- QueueSize,
    queue <- queue[s1], dropped <- dropped[s1], received <- shown[s1],
    closed <- (joined[s1] = "out")
Channel2 == INSTANCE LossyQueue WITH
    Frame <- Frames, Kept <- Value, None <- Unset, MaxSize <- QueueSize,
    queue <- queue[s2], dropped <- dropped[s2], received <- shown[s2],
    closed <- (joined[s2] = "out")

\* The queue of every subscriber is a lossy queue: publishers, the replay and
\* the client, each with steps of their own, neither exceed its size nor
\* reorder what is in it nor lose a frame that is not counted.
LossyQueues == Channel1!Spec /\ Channel2!Spec

Symmetry == Permutations(Publisher) \cup Permutations(Value)

=============================================================================
