----------------------------- MODULE LazyNamespace -----------------------------
(* The lazily built namespace of eco.utilities.config.  Every device object is *)
(* a proxy that builds the object when it is first used, on the thread that    *)
(* uses it; a build may use other names and so build them first.  Nothing      *)
(* locks the three dictionaries and the list _initializing: a thread that      *)
(* finds a name in _initializing waits for it, up to init_timeout.             *)
EXTENDS Naturals, Sequences, FiniteSets, SequencesExt

CONSTANTS
    Thread,     \* threads that use the namespace
    Name,       \* names of the namespace
    Deps,       \* the names the constructor of each name uses
    Faults,     \* what may go wrong in the build of each name
    Ops,        \* what is called besides using names
    MaxDepth,   \* builds inside builds, where Python's recursion limit ends them
    MaxCalls  \* bound: maintenance calls

ASSUME LazyNamespaceAssumption ==
    /\ Deps \in [Name -> SUBSET Name]
    /\ Faults \in [Name -> SUBSET {"import", "construct", "optional"}]
    /\ Ops \subseteq {"retry", "giveup"}
    /\ MaxDepth \in Nat \ {0}
    /\ MaxCalls \in Nat

VARIABLES
    lazy, inited, failed,  \* lazy_items, initialized_items, failed_items (keys)
    reason,        \* failed_items_excpetion
    initializing,  \* _initializing
    stamped,       \* the names in _init_priority and _initialisation_start_time
    target,        \* the names whose proxy has a __target__
    stack,         \* of each thread: its calls, the innermost first
    maintained     \* history: the maintenance calls and their names

dictVars == <<lazy, inited, failed>>
vars == <<dictVars, reason, initializing, stamped, target, stack, maintained>>

Hows == {"whole", "partial", "error", "timeout", "retry", "giveup"}
PCs == {"get", "resolve", "busy?", "wait", "mark", "stamp", "make",
        "take", "takeFailed", "put", "reason", "index", "unmark", "return"}

\* A call: init_local, or the move of one name by move_failed_to_lazy or by
\* init_all.  how is the way it will end, at the index it has looked up.
Frame == [name : Name, pc : PCs, deps : SUBSET Name, how : Hows, at : Nat]

Reasons == {"none", "error", "incomplete", "givenup"}

TypeOK ==
    /\ lazy \subseteq Name /\ inited \subseteq Name /\ failed \subseteq Name
    /\ reason \in [Name -> Reasons]
    /\ initializing \in Seq(Name)
    /\ stamped \subseteq Name
    /\ target \subseteq Name /\ maintained \subseteq Ops \X Name
    /\ stack \in [Thread -> Seq(Frame)]
    /\ \A t \in Thread : Len(stack[t]) <= MaxDepth

Init ==
    /\ lazy = Name /\ inited = {} /\ failed = {}
    /\ reason = [n \in Name |-> "none"]
    /\ initializing = << >>
    /\ stamped = {}
    /\ target = {}
    /\ stack = [t \in Thread |-> << >>]
    /\ maintained = {}

-----------------------------------------------------------------------------
(* Calls.                                                                      *)

At(t, loc) == stack[t] # << >> /\ Head(stack[t]).pc = loc
top(t) == Head(stack[t])

\* A frame that is about to begin at loc.
Fresh(n, loc, how) == [name |-> n, pc |-> loc, deps |-> Deps[n], how |-> how, at |-> 0]

Becomes(t, frame) == stack' = [stack EXCEPT ![t] = <<frame>> \o Tail(@)]
Goto(t, loc) == Becomes(t, [top(t) EXCEPT !.pc = loc])

\* A build whose constructor has raised.
Failing(frame) == [frame EXCEPT !.pc = "take", !.how = "error", !.deps = {}]

\* The call ends without an exception: the caller, if any, goes on.
Returns(t) == stack' = [stack EXCEPT ![t] = Tail(@)]

\* The call raises.  A constructor that called it fails with it, or notes a
\* sub-component that is missing and goes on (Assembly._append(optional=)).
Raises(t) ==
    LET rest == Tail(stack[t])
    IN  IF rest = << >>
        THEN stack' = [stack EXCEPT ![t] = << >>]
        ELSE \/ stack' = [stack EXCEPT ![t] = <<Failing(Head(rest))>> \o Tail(rest)]
             \/ /\ "optional" \in Faults[Head(rest).name]
                /\ stack' = [stack EXCEPT ![t] =
                    <<[Head(rest) EXCEPT !.how = "partial"]>> \o Tail(rest)]

-----------------------------------------------------------------------------
(* Using a name.                                                               *)

\* Somebody uses a name, directly or by init_name (whose lookup changes nothing).
Use(t) ==
    /\ stack[t] = << >>
    /\ \E n \in Name : stack' = [stack EXCEPT ![t] = <<Fresh(n, "resolve", "whole")>>]
    /\ UNCHANGED <<dictVars, reason, initializing, stamped, target, maintained>>

\* get_obj: a name that is just being moved is in none of the dictionaries.
GetObj(t) ==
    /\ At(t, "get")
    /\ IF top(t).name \in lazy \cup inited \cup failed
       THEN Goto(t, "resolve")
       ELSE Raises(t)
    /\ UNCHANGED <<dictVars, reason, initializing, stamped, target, maintained>>

\* Proxy.__wrapped__, and the first lines of init_local: a name that failed
\* raises what was stored.
Resolve(t) ==
    /\ At(t, "resolve")
    /\ IF top(t).name \in target THEN Returns(t)
       ELSE IF top(t).name \in failed THEN Raises(t) ELSE Goto(t, "busy?")
    /\ UNCHANGED <<dictVars, reason, initializing, stamped, target, maintained>>

IsInitializing(n) == n \in Range(initializing)

\* Whoever finds the name in _initializing before its priority and start time
\* were ever set gets a KeyError.
CheckBusy(t) ==
    /\ At(t, "busy?")
    /\ LET n == top(t).name
       IN  IF ~IsInitializing(n) THEN Goto(t, "mark")
           ELSE IF n \in stamped THEN Goto(t, "wait") ELSE Raises(t)
    /\ UNCHANGED <<dictVars, reason, initializing, stamped, target, maintained>>

\* Mutant: when time is up the waiter looks again instead of giving up.
WaitAgain(t) ==
    /\ At(t, "wait")
    /\ Goto(t, IF IsInitializing(top(t).name) THEN "busy?" ELSE "make")
    /\ UNCHANGED <<dictVars, reason, initializing, stamped, target, maintained>>

\* The wait ends because the name has left _initializing, and goes on to build
\* the object, or because time is up, and takes the name out itself.
Wait(t) ==
    /\ At(t, "wait")
    /\ IF IsInitializing(top(t).name)
       THEN Becomes(t, [top(t) EXCEPT !.pc = "index", !.how = "timeout"])
       ELSE Goto(t, "make")
    /\ UNCHANGED <<dictVars, reason, initializing, stamped, target, maintained>>

\* Mutant: the entry says who builds, not what.
MarkThread(t) ==
    /\ At(t, "mark")
    /\ initializing' = Append(initializing, t)
    /\ Goto(t, "stamp")
    /\ UNCHANGED <<dictVars, reason, stamped, target, maintained>>

Mark(t) ==
    /\ At(t, "mark")
    /\ initializing' = Append(initializing, top(t).name)
    /\ Goto(t, "stamp")
    /\ UNCHANGED <<dictVars, reason, stamped, target, maintained>>

Stamp(t) ==
    /\ At(t, "stamp")
    /\ stamped' = stamped \cup {top(t).name}
    /\ Goto(t, "make")
    /\ UNCHANGED <<dictVars, reason, initializing, target, maintained>>

\* Importing the module and resolving the arguments comes before the
\* constructor and outside the try: an exception leaves everything as it is.
ImportFails(t) ==
    /\ At(t, "make")
    /\ "import" \in Faults[top(t).name]
    /\ top(t).how = "whole" /\ top(t).deps = Deps[top(t).name]
    /\ Raises(t)
    /\ UNCHANGED <<dictVars, reason, initializing, stamped, target, maintained>>

\* The constructor uses another name.
UseInside(t) ==
    /\ At(t, "make")
    /\ \E d \in top(t).deps :
          IF Len(stack[t]) < MaxDepth
          THEN stack' = [stack EXCEPT ![t] =
                  <<Fresh(d, "get", "whole")>> \o (<<[top(t) EXCEPT !.deps = @ \ {d}]>> \o Tail(@))]
          ELSE Becomes(t, Failing(top(t)))
    /\ UNCHANGED <<dictVars, reason, initializing, stamped, target, maintained>>

\* The constructor ends.
Made(t) ==
    /\ At(t, "make")
    /\ top(t).deps = {}
    /\ \/ Goto(t, "take")
       \/ "construct" \in Faults[top(t).name] /\ Becomes(t, Failing(top(t)))
    /\ UNCHANGED <<dictVars, reason, initializing, stamped, target, maintained>>

-----------------------------------------------------------------------------
(* The books: an item is popped from one dictionary and put into another.      *)

Succeeds(how) == how \in {"whole", "partial"}

\* The dictionary the first pop is from.
Take(t) ==
    /\ At(t, "take")
    /\ LET n == top(t).name  how == top(t).how
       IN  \/ /\ how # "retry" /\ n \in lazy
              /\ lazy' = lazy \ {n} /\ UNCHANGED failed
              /\ Goto(t, "put")
           \/ /\ how = "retry" /\ n \in failed
              /\ failed' = failed \ {n} /\ UNCHANGED lazy
              /\ Goto(t, "put")
           \/ /\ n \notin (IF how = "retry" THEN failed ELSE lazy)
              /\ IF Succeeds(how) THEN Goto(t, "takeFailed") ELSE Raises(t)
              /\ UNCHANGED <<lazy, failed>>
    /\ UNCHANGED <<inited, reason, initializing, stamped, target, maintained>>

\* Mutant: the item of a build that was given up on is read, not popped.
TakeFailedGet(t) ==
    /\ At(t, "takeFailed")
    /\ IF top(t).name \in failed THEN Goto(t, "put") ELSE Raises(t)
    /\ UNCHANGED <<dictVars, reason, initializing, stamped, target, maintained>>

\* A build that was given up on meanwhile succeeds all the same.  A second build
\* of an initialised name ends here with a KeyError.
TakeFailed(t) ==
    /\ At(t, "takeFailed")
    /\ IF top(t).name \in failed THEN Goto(t, "put") ELSE Raises(t)
    /\ failed' = failed \ {top(t).name}
    /\ UNCHANGED <<lazy, inited, reason, initializing, stamped, target, maintained>>

Put(t) ==
    /\ At(t, "put")
    /\ LET n == top(t).name  how == top(t).how
       IN  /\ lazy' = IF how = "retry" THEN lazy \cup {n} ELSE lazy
           /\ inited' = IF how = "whole" THEN inited \cup {n} ELSE inited
           /\ failed' = IF how \in {"partial", "error", "giveup"} THEN failed \cup {n} ELSE failed
           /\ Goto(t, IF how = "whole" THEN "index" ELSE "reason")
    /\ UNCHANGED <<reason, initializing, stamped, target, maintained>>

\* Mutant: giving up records no reason.
ReasonUnlessGivenUp(how, old) ==
    CASE how = "partial" -> "incomplete"
      [] how = "error"   -> "error"
      [] how = "retry"   -> "none"
      [] how = "giveup"  -> old

\* What failed_items_excpetion says then.
ReasonOf(how, old) ==
    CASE how = "partial" -> "incomplete"
      [] how = "error"   -> "error"
      [] how = "retry"   -> "none"
      [] how = "giveup"  -> IF old = "none" THEN "givenup" ELSE old

SetReason(t) ==
    /\ At(t, "reason")
    /\ reason' = [reason EXCEPT ![top(t).name] = ReasonOf(top(t).how, @)]
    /\ IF top(t).how = "giveup" THEN Returns(t) ELSE Goto(t, "index")
    /\ UNCHANGED <<dictVars, initializing, stamped, target, maintained>>

\* _initializing.pop(_initializing.index(name)), first half.
Index(t) ==
    /\ At(t, "index")
    /\ LET n == top(t).name
           places == {i \in 1 .. Len(initializing) : initializing[i] = n}
       IN  IF places # {}
           THEN \E i \in places :
                   /\ \A j \in places : i <= j
                   /\ Becomes(t, [top(t) EXCEPT !.pc = "unmark", !.at = i])
           ELSE IF top(t).how = "retry" THEN Returns(t) ELSE Raises(t)
    /\ UNCHANGED <<dictVars, reason, initializing, stamped, target, maintained>>

\* Second half: whatever stands at that index by now.
Unmark(t) ==
    /\ At(t, "unmark")
    /\ LET i == top(t).at
           inside == i <= Len(initializing)
       IN  /\ initializing' = IF inside THEN RemoveAt(initializing, i) ELSE initializing
           /\ IF inside /\ Succeeds(top(t).how)
              THEN Becomes(t, [top(t) EXCEPT !.pc = "return", !.at = 0])
              ELSE IF inside /\ top(t).how = "retry" THEN Returns(t)
              ELSE Raises(t)
    /\ UNCHANGED <<dictVars, reason, stamped, target, maintained>>

\* init_local returns and the proxy keeps the object.
SetTarget(t) ==
    /\ At(t, "return")
    /\ target' = target \cup {top(t).name}
    /\ Returns(t)
    /\ UNCHANGED <<dictVars, reason, initializing, stamped, maintained>>

\* move_failed_to_lazy and the end of init_all(giveup_failed=True), for a name
\* the caller has just seen in failed_names or in lazy_names.
Maintain(t) ==
    /\ stack[t] = << >>
    /\ \E n \in Name, op \in Ops :
          /\ n \in IF op = "retry" THEN failed ELSE lazy
          /\ stack' = [stack EXCEPT ![t] = <<Fresh(n, "take", op)>>]
          /\ maintained' = maintained \cup {<<op, n>>}
          /\ Cardinality(maintained) < MaxCalls /\ <<op, n>> \notin maintained    \* bound
    /\ UNCHANGED <<dictVars, reason, initializing, stamped, target>>

Step(t) ==
    \/ GetObj(t) \/ Resolve(t) \/ CheckBusy(t) \/ Wait(t)
    \/ Mark(t) \/ Stamp(t) \/ ImportFails(t) \/ UseInside(t) \/ Made(t)
    \/ Take(t) \/ TakeFailed(t) \/ Put(t) \/ SetReason(t)
    \/ Index(t) \/ Unmark(t) \/ SetTarget(t)

Next == \E t \in Thread : Use(t) \/ Maintain(t) \/ Step(t)

Spec == Init /\ [][Next]_vars

\* A thread in a call runs on; time-outs pass.
FairSpec == Spec /\ \A t \in Thread : WF_vars(Step(t))

-----------------------------------------------------------------------------
(* Properties.                                                                 *)

\* The item a thread has popped and not yet put back.
Hand(t) == IF At(t, "put") THEN {top(t).name} ELSE {}

MovedBack(n) == <<"retry", n>> \in maintained

\* An item is always in exactly one place: lazy, initialised, failed, or in the
\* hand of one thread, whoever builds, gives up, retries or builds twice.
OnePlace ==
    LET held == UNION {Hand(t) : t \in Thread}
    IN  /\ lazy \cup inited \cup failed \cup held = Name
        /\ lazy \cap (inited \cup failed \cup held) = {}
        /\ inited \cap (failed \cup held) = {}
        /\ failed \cap held = {}
        /\ \A s, t \in Thread : s # t => Hand(s) \cap Hand(t) = {}

\* A name in failed_items has its reason recorded, or the thread that put it
\* there is about to; so has a name that was given up on.  (A name that was
\* moved back to lazy while it failed again may lose the new reason.)
FailuresHaveReasons ==
    \A n \in failed :
        \/ reason[n] # "none" \/ MovedBack(n)
        \/ \E t \in Thread : At(t, "reason") /\ top(t).name = n

\* A proxy that has its object is not lazy: it is booked as initialised or
\* incomplete, or being booked, whichever of several builds of it came last,
\* unless somebody moved it back.
ResolvedIsBooked == \A n \in target \cap lazy : MovedBack(n)

\* The books agree with each other and with the proxies.
BooksAgree == FailuresHaveReasons /\ ResolvedIsBooked

\* Every use of a name ends, with the object or an exception, also when builds
\* wait for each other in a circle and when entries of _initializing are lost.
UsesEnd == \A t \in Thread : stack[t] # << >> ~> stack[t] = << >>

=============================================================================
