---------------------------- MODULE MCTaskQueue ----------------------------
(* Instances of TaskQueue for TLC: which methods the callers use.             *)
EXTENDS TaskQueue, TLC

\* Everything but what interrupts the worker.
EditOps == {"append", "insert", "repeat_last", "remove", "move", "clear",
            "pause", "resume", "wait", "close"}
StopOps == {"append", "remove", "resume", "stop_running_task", "stop",
            "pause_running_task", "resume_running_task"}

Symmetry == Permutations(Thread) \cup Permutations(Caller)

=============================================================================
