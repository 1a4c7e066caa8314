------------------------------- MODULE LossyQueue -------------------------------
(* What a subscriber of the event bus is promised: a bounded queue that never  *)
(* makes the publisher wait.  Frames that are offered come out in the order in *)
(* which they went in; what does not fit is given up, the oldest frame or the  *)
(* offered one, and counted.  The counter is kept modulo 2.                     *)
EXTENDS Naturals, Sequences

CONSTANTS
    Frame,     \* frames
    Kept,      \* those of which the reader keeps the last one
    None,      \* no frame
    MaxSize    \* frames the queue holds

VARIABLES
    queue,     \* the frames that wait
    received,  \* the last one of Kept that was taken out
    dropped,   \* how many were given up, modulo 2
    closed     \* nobody takes frames out any more

vars == <<queue, received, dropped, closed>>

Init == queue = << >> /\ received = None /\ dropped = 0 /\ closed = FALSE

Enqueue ==
    /\ Len(queue) < MaxSize
    /\ \E f \in Frame : queue' = Append(queue, f)
    /\ UNCHANGED <<received, dropped, closed>>

DropOldest ==
    /\ queue # << >>
    /\ queue' = Tail(queue)
    /\ dropped' = 1 - dropped
    /\ UNCHANGED <<received, closed>>

\* Only a full queue refuses a frame.
DropNew ==
    /\ Len(queue) = MaxSize
    /\ dropped' = 1 - dropped
    /\ UNCHANGED <<queue, received, closed>>

Receive ==
    /\ ~closed /\ queue # << >>
    /\ received' = IF Head(queue) \in Kept THEN Head(queue) ELSE received
    /\ queue' = Tail(queue)
    /\ UNCHANGED <<dropped, closed>>

\* The client is gone.
Close ==
    /\ ~closed /\ closed' = TRUE
    /\ queue' = << >> /\ received' = None /\ dropped' = 0

Next == Enqueue \/ DropOldest \/ DropNew \/ Receive \/ Close

Spec == Init /\ [][Next]_vars

=============================================================================
