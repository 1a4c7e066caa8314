-------------------------- MODULE LazyNamespaceProofs --------------------------
(* Proofs about LazyNamespace for every set of threads and names, every        *)
(* dependency between them (circles included) and every kind of failure.       *)
EXTENDS LazyNamespace, SequenceTheorems, TLAPS

-----------------------------------------------------------------------------
(* The inductive invariant.                                                    *)

\* The way a call will end fits the place where it is: a time-out never reaches
\* the books, only a success takes from failed_items, and an entry is removed at
\* an index that was found.
HowFits(f) ==
    /\ f.pc \in {"get", "resolve", "busy?", "wait", "mark", "stamp", "make", "takeFailed"}
          => Succeeds(f.how)
    /\ f.pc \in {"take", "put"} => f.how # "timeout"
    /\ f.pc = "reason" => f.how \in {"partial", "error", "retry", "giveup"}
    /\ f.pc = "unmark" => f.at > 0

GoodFrame == {f \in Frame : HowFits(f)}

\* The calls of a thread: one that is inside another left the outer one in its
\* constructor.
GoodStack(q) ==
    /\ q \in Seq(GoodFrame)
    /\ Len(q) <= MaxDepth
    /\ \A i \in 2 .. Len(q) : q[i].pc = "make"

StacksOK == stack \in [Thread -> Seq(GoodFrame)] /\ \A t \in Thread : GoodStack(stack[t])

IInv == TypeOK /\ StacksOK /\ OnePlace

\* What a thread with the calls q has in its hand.
HandOf(q) == IF q # << >> /\ Head(q).pc = "put" THEN {Head(q).name} ELSE {}

\* Thread t has the calls q after the step, the others have theirs.
NowHas(t, q) == stack' = [stack EXCEPT ![t] = q]

-----------------------------------------------------------------------------
(* What a step does to the calls.                                              *)

\* Good calls are calls.
LEMMA StacksTyped ==
    ASSUME StacksOK'
    PROVE  /\ stack' \in [Thread -> Seq(Frame)]
           /\ \A t \in Thread : Len(stack'[t]) <= MaxDepth
<1>1. \A q \in Seq(GoodFrame) : q \in Seq(Frame)
  BY DEF GoodFrame
<1> QED
  BY <1>1 DEF StacksOK, GoodStack

\* Exchanging the calls of one thread for good ones leaves good ones, and only
\* the hand of that thread changes.
LEMMA StackChange ==
    ASSUME StacksOK, NEW t \in Thread, NEW q, GoodStack(q), NowHas(t, q)
    PROVE  /\ StacksOK'
           /\ Hand(t)' = HandOf(q)
           /\ \A s \in Thread \ {t} : Hand(s)' = Hand(s)
<1>1. stack' \in [Thread -> Seq(GoodFrame)] /\ \A s \in Thread : GoodStack(stack'[s])
  BY DEF StacksOK, NowHas, GoodStack
<1>2. stack'[t] = q /\ \A s \in Thread \ {t} : stack'[s] = stack[s]
  BY DEF StacksOK, NowHas
<1> QED
  BY <1>1, <1>2 DEF StacksOK, GoodStack, Hand, HandOf, At, top

\* A non-empty list of calls and what is under its first.
LEMMA Under ==
    ASSUME NEW q, GoodStack(q), q # << >>
    PROVE  /\ Head(q) \in GoodFrame
           /\ Tail(q) \in Seq(GoodFrame)
           /\ Len(Tail(q)) = Len(q) - 1
           /\ \A i \in 1 .. Len(Tail(q)) : Tail(q)[i].pc = "make"
<1>1. q \in Seq(GoodFrame) /\ Len(q) \in Nat /\ Len(q) > 0
  BY EmptySeq, LenProperties DEF GoodStack
<1>2. Head(q) \in GoodFrame /\ Tail(q) \in Seq(GoodFrame) /\ Len(Tail(q)) = Len(q) - 1
  BY <1>1, HeadTailProperties
<1>3. \A i \in 1 .. Len(Tail(q)) : Tail(q)[i] = q[i + 1]
  BY <1>1, <1>2, HeadTailProperties
<1> QED
  BY <1>1, <1>2, <1>3 DEF GoodStack

\* Putting a call on top of callers that are in their constructors.
LEMMA OnTop ==
    ASSUME NEW f \in GoodFrame, NEW r \in Seq(GoodFrame), Len(r) < MaxDepth,
           \A i \in 1 .. Len(r) : r[i].pc = "make"
    PROVE  /\ GoodStack(<<f>> \o r)
           /\ HandOf(<<f>> \o r) = IF f.pc = "put" THEN {f.name} ELSE {}
<1>1. Len(r) \in Nat /\ MaxDepth \in Nat
  BY LenProperties, LazyNamespaceAssumption
<1>2. <<f>> \in Seq(GoodFrame) /\ Len(<<f>>) = 1
  OBVIOUS
<1>3. <<f>> \o r \in Seq(GoodFrame) /\ Len(<<f>> \o r) = 1 + Len(r)
  BY <1>2, ConcatProperties
<1>4. (<<f>> \o r)[1] = f /\ \A i \in 2 .. Len(<<f>> \o r) : (<<f>> \o r)[i] = r[i - 1]
  BY <1>1, <1>2, <1>3, ConcatProperties
<1>5. Head(<<f>> \o r) = f /\ <<f>> \o r # << >>
  BY <1>1, <1>3, <1>4, EmptySeq, HeadTailProperties
<1> QED
  BY <1>1, <1>3, <1>4, <1>5 DEF GoodStack, HandOf

\* The three ways in which the calls of a thread change.  Going on in a call:
LEMMA BecomesStack ==
    ASSUME StacksOK, NEW t \in Thread, stack[t] # << >>, NEW f \in GoodFrame, Becomes(t, f)
    PROVE  /\ StacksOK'
           /\ Hand(t)' = IF f.pc = "put" THEN {f.name} ELSE {}
           /\ \A s \in Thread \ {t} : Hand(s)' = Hand(s)
<1>1. GoodStack(stack[t])
  BY DEF StacksOK
<1>2. Len(Tail(stack[t])) < MaxDepth
  BY <1>1, Under, LenProperties, LazyNamespaceAssumption DEF GoodStack
<1>3. GoodStack(<<f>> \o Tail(stack[t]))
      /\ HandOf(<<f>> \o Tail(stack[t])) = IF f.pc = "put" THEN {f.name} ELSE {}
  BY <1>1, <1>2, Under, OnTop
<1>4. NowHas(t, <<f>> \o Tail(stack[t]))
  BY DEF Becomes, NowHas, StacksOK
<1> QED
  BY <1>3, <1>4, StackChange

\* a constructor uses another name:
LEMMA NestedStack ==
    ASSUME StacksOK, NEW t \in Thread, stack[t] # << >>, Len(stack[t]) < MaxDepth,
           NEW f \in GoodFrame, NEW g \in GoodFrame, g.pc = "make", f.pc # "put",
           NowHas(t, <<f>> \o (<<g>> \o Tail(stack[t])))
    PROVE  /\ StacksOK' /\ Hand(t)' = {}
           /\ \A s \in Thread \ {t} : Hand(s)' = Hand(s)
<1>1. GoodStack(stack[t])
  BY DEF StacksOK
<1> DEFINE r == <<g>> \o Tail(stack[t])
<1>2. r \in Seq(GoodFrame) /\ Len(r) = Len(stack[t])
  <2>1. <<g>> \in Seq(GoodFrame) /\ Len(<<g>>) = 1
    OBVIOUS
  <2>2. Len(stack[t]) \in Nat
    BY <1>1, LenProperties DEF GoodStack
  <2> QED BY <1>1, <2>1, <2>2, Under, ConcatProperties
<1>3. \A i \in 1 .. Len(r) : r[i].pc = "make"
  <2>1. <<g>> \in Seq(GoodFrame) /\ Len(<<g>>) = 1 /\ <<g>>[1] = g
    OBVIOUS
  <2>2. \A i \in 1 .. Len(r) : r[i] = IF i <= 1 THEN <<g>>[i] ELSE Tail(stack[t])[i - 1]
    BY <1>1, <2>1, Under, ConcatProperties
  <2>3. Len(Tail(stack[t])) = Len(stack[t]) - 1 /\ Len(stack[t]) \in Nat
    BY <1>1, Under, LenProperties DEF GoodStack
  <2>4. \A i \in 1 .. Len(Tail(stack[t])) : Tail(stack[t])[i].pc = "make"
    BY <1>1, Under
  <2> TAKE i \in 1 .. Len(r)
  <2>5. CASE i = 1
    BY <2>1, <2>2, <2>3, <2>5, <1>2
  <2>6. CASE i # 1
    <3>1. i - 1 \in 1 .. Len(Tail(stack[t])) /\ i \in 1 .. Len(<<g>>) + Len(Tail(stack[t])) /\ ~(i <= 1)
      BY <1>2, <2>1, <2>3, <2>6
    <3>2. r[i] = Tail(stack[t])[i - 1]
      BY <2>2, <3>1
    <3> QED BY <2>4, <3>1, <3>2
  <2> QED BY <2>5, <2>6
<1>5. GoodStack(<<f>> \o r) /\ HandOf(<<f>> \o r) = {}
  BY <1>2, <1>3, OnTop
<1> QED
  BY <1>5, StackChange

\* and the end of a call, by returning
LEMMA ReturnsStack ==
    ASSUME StacksOK, NEW t \in Thread, stack[t] # << >>, Returns(t)
    PROVE  /\ StacksOK' /\ Hand(t)' = {}
           /\ \A s \in Thread \ {t} : Hand(s)' = Hand(s)
<1> DEFINE q == Tail(stack[t])
<1>1. GoodStack(stack[t])
  BY DEF StacksOK
<1>2. q \in Seq(GoodFrame) /\ Len(q) = Len(stack[t]) - 1 /\ \A i \in 1 .. Len(q) : q[i].pc = "make"
  BY <1>1, Under
<1>3. GoodStack(q)
  BY <1>1, <1>2, LenProperties, LazyNamespaceAssumption DEF GoodStack
<1>4. HandOf(q) = {}
  <2>1. CASE q = << >>
    BY <2>1 DEF HandOf
  <2>2. CASE q # << >>
    <3>1. Len(q) \in Nat /\ Len(q) > 0 /\ Head(q) = q[1]
      BY <1>2, <2>2, EmptySeq, LenProperties, HeadTailProperties
    <3>2. q[1].pc = "make"
      <4>1. 1 \in 1 .. Len(q)
        BY <3>1
      <4> QED BY <1>2, <4>1
    <3> HIDE DEF q
    <3> QED BY <3>1, <3>2 DEF HandOf
  <2> QED BY <2>1, <2>2
<1>5. NowHas(t, q)
  BY DEF Returns, NowHas, StacksOK
<1> QED
  BY <1>3, <1>4, <1>5, StackChange

\* or by raising.
LEMMA RaisesStack ==
    ASSUME StacksOK, NEW t \in Thread, stack[t] # << >>, Raises(t)
    PROVE  /\ StacksOK' /\ Hand(t)' = {}
           /\ \A s \in Thread \ {t} : Hand(s)' = Hand(s)
<1> DEFINE q == Tail(stack[t])
<1>1. GoodStack(stack[t])
  BY DEF StacksOK
<1>2. q \in Seq(GoodFrame) /\ Len(q) = Len(stack[t]) - 1 /\ \A i \in 1 .. Len(q) : q[i].pc = "make"
  BY <1>1, Under
<1>3. GoodStack(q)
  BY <1>1, <1>2, LenProperties, LazyNamespaceAssumption DEF GoodStack
<1>4. CASE q = << >>
  <2>1. NowHas(t, q)
    BY <1>4 DEF Raises, NowHas
  <2> QED BY <1>3, <1>4, <2>1, StackChange DEF HandOf
<1>5. CASE q # << >>
  <2>1. Len(q) \in Nat /\ Len(q) > 0 /\ Head(q) = q[1]
    BY <1>2, <1>5, EmptySeq, LenProperties, HeadTailProperties
  <2>2. Head(q) \in GoodFrame /\ Tail(q) \in Seq(GoodFrame) /\ Len(Tail(q)) < MaxDepth
        /\ \A i \in 1 .. Len(Tail(q)) : Tail(q)[i].pc = "make"
    <3>1. Len(q) <= MaxDepth /\ MaxDepth \in Nat
      BY <1>3, LazyNamespaceAssumption DEF GoodStack
    <3>2. Len(Tail(q)) = Len(q) - 1
      BY <1>3, <1>5, Under
    <3>3. Head(q) \in GoodFrame /\ Tail(q) \in Seq(GoodFrame)
          /\ \A i \in 1 .. Len(Tail(q)) : Tail(q)[i].pc = "make"
      <4> HIDE DEF q
      <4> QED BY <1>3, <1>5, Under
    <3> HIDE DEF q
    <3> QED BY <2>1, <3>1, <3>2, <3>3
  <2> DEFINE f == Failing(Head(q))
             g == [Head(q) EXCEPT !.how = "partial"]
  <2>3. f \in GoodFrame /\ f.pc = "take" /\ g \in GoodFrame /\ g.pc = "make"
    <3>1. Head(q).pc = "make"
      <4>1. 1 \in 1 .. Len(q)
        BY <2>1
      <4>2. q[1].pc = "make"
        BY <1>2, <4>1
      <4> QED BY <2>1, <4>2
    <3> QED BY <2>2, <3>1 DEF Failing, GoodFrame, HowFits, Succeeds, Frame, PCs, Hows
  <2>4. NowHas(t, <<f>> \o Tail(q)) \/ NowHas(t, <<g>> \o Tail(q))
    BY <1>5 DEF Raises, NowHas
  <2>5. GoodStack(<<f>> \o Tail(q)) /\ HandOf(<<f>> \o Tail(q)) = {}
    BY <2>2, <2>3, OnTop
  <2>6. GoodStack(<<g>> \o Tail(q)) /\ HandOf(<<g>> \o Tail(q)) = {}
    BY <2>2, <2>3, OnTop
  <2> QED BY <2>4, <2>5, <2>6, StackChange
<1> QED
  BY <1>4, <1>5

-----------------------------------------------------------------------------
(* Single frames.                                                              *)

LEMMA HeadInStack ==
    ASSUME StacksOK, NEW t \in Thread, stack[t] # << >>
    PROVE  top(t) \in GoodFrame /\ top(t) \in Frame /\ HowFits(top(t))
<1>1. stack[t] \in Seq(GoodFrame)
  BY DEF StacksOK
<1>2. Head(stack[t]) \in GoodFrame
  BY <1>1, HeadTailProperties
<1> QED
  BY <1>2 DEF top, GoodFrame

\* A call that is begun.
LEMMA FreshIsGood ==
    ASSUME NEW n \in Name, NEW loc \in PCs, NEW how \in Hows,
           \/ loc \in {"get", "resolve"} /\ how = "whole"
           \/ loc = "take" /\ how # "timeout"
    PROVE  Fresh(n, loc, how) \in GoodFrame /\ Fresh(n, loc, how).pc = loc
BY LazyNamespaceAssumption DEF Fresh, Frame, GoodFrame, HowFits, Succeeds

\* A build whose constructor fails, and one that needs one name less.
LEMMA FailingIsGood ==
    ASSUME NEW f \in Frame
    PROVE  Failing(f) \in GoodFrame /\ Failing(f).pc = "take"
BY DEF Frame, Failing, PCs, Hows, GoodFrame, HowFits, Succeeds

\* A step of t that stays in the call and goes to loc.
LEMMA GotoStack ==
    ASSUME StacksOK, NEW t \in Thread, stack[t] # << >>, NEW loc \in PCs, Goto(t, loc),
           HowFits([top(t) EXCEPT !.pc = loc])
    PROVE  /\ StacksOK'
           /\ Hand(t)' = IF loc = "put" THEN {top(t).name} ELSE {}
           /\ \A s \in Thread \ {t} : Hand(s)' = Hand(s)
<1>1. top(t) \in Frame
  BY HeadInStack
<1>2. [top(t) EXCEPT !.pc = loc] \in GoodFrame
      /\ [top(t) EXCEPT !.pc = loc].pc = loc
      /\ [top(t) EXCEPT !.pc = loc].name = top(t).name
  BY <1>1 DEF Frame, GoodFrame
<1> QED
  BY <1>2, BecomesStack DEF Goto

\* A thread begins a call.
LEMMA BeginStack ==
    ASSUME StacksOK, NEW t \in Thread, NEW f \in GoodFrame, f.pc # "put", NowHas(t, <<f>>)
    PROVE  /\ StacksOK' /\ Hand(t)' = {}
           /\ \A s \in Thread \ {t} : Hand(s)' = Hand(s)
<1>1. <<f>> \in Seq(GoodFrame) /\ << >> \in Seq(GoodFrame) /\ Len(<< >>) = 0
  OBVIOUS
<1>2. <<f>> \o << >> = <<f>>
  BY <1>1, ConcatEmptySeq
<1>3. Len(<< >>) < MaxDepth
  BY <1>1, LazyNamespaceAssumption
<1>4. \A i \in 1 .. Len(<< >>) : << >>[i].pc = "make"
  BY <1>1
<1>5. GoodStack(<<f>>) /\ HandOf(<<f>>) = {}
  BY <1>1, <1>2, <1>3, <1>4, OnTop
<1> QED
  BY <1>5, StackChange

-----------------------------------------------------------------------------
(* The books.                                                                  *)

\* A step that leaves the dictionaries and every hand alone.
LEMMA SameBooks ==
    ASSUME OnePlace, UNCHANGED dictVars, \A s \in Thread : Hand(s)' = Hand(s)
    PROVE  OnePlace'
<1>1. UNION {Hand(s) : s \in Thread}' = UNION {Hand(s) : s \in Thread}
  OBVIOUS
<1> QED
  BY <1>1 DEF OnePlace, dictVars

\* A step of t, whose hand is empty before and after.
LEMMA QuietStep ==
    ASSUME OnePlace, UNCHANGED dictVars, NEW t \in Thread, Hand(t) = {}, Hand(t)' = {},
           \A s \in Thread \ {t} : Hand(s)' = Hand(s)
    PROVE  OnePlace'
BY SameBooks

\* Only at "put" has a thread something in its hand.
LEMMA EmptyHand ==
    ASSUME NEW t \in Thread, stack[t] = << >> \/ \E loc \in PCs \ {"put"} : At(t, loc)
    PROVE  Hand(t) = {}
BY DEF Hand, At

\* t takes n out of a dictionary.
LEMMA TakeBooks ==
    ASSUME OnePlace, NEW t \in Thread, NEW n,
           Hand(t) = {}, Hand(t)' = {n}, \A s \in Thread \ {t} : Hand(s)' = Hand(s),
           \/ n \in lazy /\ lazy' = lazy \ {n} /\ failed' = failed
           \/ n \in failed /\ failed' = failed \ {n} /\ lazy' = lazy,
           inited' = inited
    PROVE  OnePlace'
<1> DEFINE held == UNION {Hand(s) : s \in Thread}
<1>1. held' = held \cup {n}
  <2>1. \A x : x \in held' <=> \E s \in Thread : x \in Hand(s)'
    OBVIOUS
  <2>2. \A x : x \in held <=> \E s \in Thread : x \in Hand(s)
    OBVIOUS
  <2>3. \A x : x \in held' <=> x \in held \/ x = n
    <3> HIDE DEF held
    <3> QED BY <2>1, <2>2
  <2> HIDE DEF held
  <2> QED BY <2>3
<1>2. n \notin held /\ \A s \in Thread : n \notin Hand(s)
  BY DEF OnePlace
<1>3. \A s, r \in Thread : s # r => Hand(s)' \cap Hand(r)' = {}
  BY <1>2 DEF OnePlace
<1>4. /\ lazy \cup inited \cup failed \cup held = Name
      /\ lazy \cap (inited \cup failed \cup held) = {}
      /\ inited \cap (failed \cup held) = {}
      /\ failed \cap held = {}
  BY DEF OnePlace
<1>5. /\ (lazy \cup inited \cup failed \cup held)' = Name
      /\ (lazy \cap (inited \cup failed \cup held))' = {}
      /\ (inited \cap (failed \cup held))' = {}
      /\ (failed \cap held)' = {}
  <2> HIDE DEF held
  <2> QED BY <1>1, <1>2, <1>4
<1> QED
  BY <1>3, <1>5 DEF OnePlace

\* t puts n into one dictionary.
LEMMA PutBooks ==
    ASSUME OnePlace, NEW t \in Thread, NEW n,
           Hand(t) = {n}, Hand(t)' = {}, \A s \in Thread \ {t} : Hand(s)' = Hand(s),
           \/ lazy' = lazy \cup {n} /\ failed' = failed /\ inited' = inited
           \/ failed' = failed \cup {n} /\ lazy' = lazy /\ inited' = inited
           \/ inited' = inited \cup {n} /\ lazy' = lazy /\ failed' = failed
    PROVE  OnePlace'
<1> DEFINE held == UNION {Hand(s) : s \in Thread}
<1>1. \A s \in Thread \ {t} : n \notin Hand(s)
  BY DEF OnePlace
<1>2. held' = held \ {n} /\ n \in held
  <2>1. \A x : x \in held' <=> \E s \in Thread : x \in Hand(s)'
    OBVIOUS
  <2>2. \A x : x \in held <=> \E s \in Thread : x \in Hand(s)
    OBVIOUS
  <2>3. \A x : x \in held' <=> x \in held /\ x # n
    <3> HIDE DEF held
    <3> QED BY <1>1, <2>1, <2>2
  <2> HIDE DEF held
  <2> QED BY <2>2, <2>3
<1>3. \A s, r \in Thread : s # r => Hand(s)' \cap Hand(r)' = {}
  BY DEF OnePlace
<1>4. /\ lazy \cup inited \cup failed \cup held = Name
      /\ lazy \cap (inited \cup failed \cup held) = {}
      /\ inited \cap (failed \cup held) = {}
      /\ failed \cap held = {}
  BY DEF OnePlace
<1>5. /\ (lazy \cup inited \cup failed \cup held)' = Name
      /\ (lazy \cap (inited \cup failed \cup held))' = {}
      /\ (inited \cap (failed \cup held))' = {}
      /\ (failed \cap held)' = {}
  <2> HIDE DEF held
  <2> QED BY <1>2, <1>4
<1> QED
  BY <1>3, <1>5 DEF OnePlace

-----------------------------------------------------------------------------
(* The steps.                                                                  *)

\* Taking one entry out of _initializing leaves a list of names.
LEMMA RemoveAtSeq ==
    ASSUME NEW S, NEW s \in Seq(S), NEW i \in 1 .. Len(s)
    PROVE  RemoveAt(s, i) \in Seq(S)
<1>1. SubSeq(s, 1, i - 1) \in Seq(S)
  <2>1. \A j \in 1 .. i - 1 : s[j] \in S
    BY ElementOfSeq, LenProperties
  <2> QED BY <2>1, SubSeqProperties, LenProperties
<1>2. SubSeq(s, i + 1, Len(s)) \in Seq(S)
  <2>1. \A j \in i + 1 .. Len(s) : s[j] \in S
    BY ElementOfSeq, LenProperties
  <2> QED BY <2>1, SubSeqProperties, LenProperties
<1> QED
  BY <1>1, <1>2, ConcatProperties DEF RemoveAt

\* A call that has found its entry in _initializing.
LEMMA AtPlace ==
    ASSUME NEW s \in Seq(Name), NEW f \in Frame, HowFits(f), NEW i \in 1 .. Len(s)
    PROVE  /\ [f EXCEPT !.pc = "unmark", !.at = i] \in GoodFrame
           /\ [f EXCEPT !.pc = "unmark", !.at = i].pc = "unmark"
<1>1. i \in Nat /\ i > 0
  BY LenProperties
<1> QED
  BY <1>1 DEF Frame, GoodFrame, HowFits, PCs

\* A build that is not failing may go on anywhere but to reason and unmark.
LEMMA MovesOn ==
    ASSUME NEW f \in Frame, HowFits(f), NEW loc \in PCs \ {"reason", "unmark"},
           Succeeds(f.how) \/ loc = "index" \/ (f.how # "timeout" /\ loc \in {"put", "take"})
    PROVE  HowFits([f EXCEPT !.pc = loc])
BY DEF HowFits, Frame, Succeeds

LEMMA StepInv ==
    ASSUME IInv, NEW t \in Thread, Use(t) \/ Maintain(t) \/ Step(t)
    PROVE  IInv'
<1> USE DEF IInv
<1>1. CASE Use(t)
  <2> USE <1>1 DEF Use
  <2>1. PICK n \in Name : NowHas(t, <<Fresh(n, "resolve", "whole")>>)
    BY DEF NowHas
  <2>2. StacksOK' /\ Hand(t)' = {} /\ \A s \in Thread \ {t} : Hand(s)' = Hand(s)
    BY <2>1, FreshIsGood, BeginStack DEF PCs, Hows
  <2>3. OnePlace'
    BY <2>2, EmptyHand, QuietStep DEF dictVars
  <2>4. TypeOK'
    BY <2>2, StacksTyped DEF TypeOK, dictVars
  <2> QED BY <2>2, <2>3, <2>4
<1>2. CASE Maintain(t)
  <2> USE <1>2 DEF Maintain
  <2>1. PICK n \in Name, op \in Ops :
           NowHas(t, <<Fresh(n, "take", op)>>) /\ maintained' = maintained \cup {<<op, n>>}
    BY DEF NowHas
  <2>2. op \in Hows /\ op # "timeout"
    BY LazyNamespaceAssumption DEF Hows
  <2>3. StacksOK' /\ Hand(t)' = {} /\ \A s \in Thread \ {t} : Hand(s)' = Hand(s)
    BY <2>1, <2>2, FreshIsGood, BeginStack DEF PCs
  <2>4. OnePlace'
    BY <2>3, EmptyHand, QuietStep DEF dictVars
  <2>5. TypeOK'
    BY <2>1, <2>3, StacksTyped DEF TypeOK, dictVars
  <2> QED BY <2>3, <2>4, <2>5
<1>3. CASE GetObj(t)
  <2> USE <1>3 DEF GetObj
  <2>1. At(t, "get") /\ stack[t] # << >> /\ top(t).pc = "get"
    BY DEF At, top
  <2>2. top(t) \in Frame /\ HowFits(top(t)) /\ Succeeds(top(t).how)
    BY <2>1, HeadInStack DEF HowFits
  <2>3. HowFits([top(t) EXCEPT !.pc = "resolve"])
    BY <2>2, MovesOn DEF PCs
  <2>5. StacksOK' /\ Hand(t)' = {} /\ \A s \in Thread \ {t} : Hand(s)' = Hand(s)
    BY <2>1, <2>3, GotoStack, RaisesStack DEF PCs
  <2>6. OnePlace'
    BY <2>1, <2>5, EmptyHand, QuietStep DEF PCs, dictVars
  <2>7. TypeOK'
    BY <2>5, StacksTyped DEF TypeOK, dictVars
  <2> QED BY <2>5, <2>6, <2>7
<1>4. CASE Resolve(t)
  <2> USE <1>4 DEF Resolve
  <2>1. At(t, "resolve") /\ stack[t] # << >> /\ top(t).pc = "resolve"
    BY DEF At, top
  <2>2. top(t) \in Frame /\ HowFits(top(t)) /\ Succeeds(top(t).how)
    BY <2>1, HeadInStack DEF HowFits
  <2>3. HowFits([top(t) EXCEPT !.pc = "busy?"])
    BY <2>2, MovesOn DEF PCs
  <2>5. StacksOK' /\ Hand(t)' = {} /\ \A s \in Thread \ {t} : Hand(s)' = Hand(s)
    BY <2>1, <2>3, GotoStack, RaisesStack, ReturnsStack DEF PCs
  <2>6. OnePlace'
    BY <2>1, <2>5, EmptyHand, QuietStep DEF PCs, dictVars
  <2>7. TypeOK'
    BY <2>5, StacksTyped DEF TypeOK, dictVars
  <2> QED BY <2>5, <2>6, <2>7
<1>5. CASE CheckBusy(t)
  <2> USE <1>5 DEF CheckBusy
  <2>1. At(t, "busy?") /\ stack[t] # << >> /\ top(t).pc = "busy?"
    BY DEF At, top
  <2>2. top(t) \in Frame /\ HowFits(top(t)) /\ Succeeds(top(t).how)
    BY <2>1, HeadInStack DEF HowFits
  <2>3. HowFits([top(t) EXCEPT !.pc = "mark"]) /\ HowFits([top(t) EXCEPT !.pc = "wait"])
    BY <2>2, MovesOn DEF PCs
  <2>5. StacksOK' /\ Hand(t)' = {} /\ \A s \in Thread \ {t} : Hand(s)' = Hand(s)
    BY <2>1, <2>3, GotoStack, RaisesStack DEF PCs
  <2>6. OnePlace'
    BY <2>1, <2>5, EmptyHand, QuietStep DEF PCs, dictVars
  <2>7. TypeOK'
    BY <2>5, StacksTyped DEF TypeOK, dictVars
  <2> QED BY <2>5, <2>6, <2>7
<1>6. CASE Wait(t)
  <2> USE <1>6 DEF Wait
  <2>1. At(t, "wait") /\ stack[t] # << >> /\ top(t).pc = "wait"
    BY DEF At, top
  <2>2. top(t) \in Frame /\ HowFits(top(t)) /\ Succeeds(top(t).how)
    BY <2>1, HeadInStack DEF HowFits
  <2>3. HowFits([top(t) EXCEPT !.pc = "make"])
    BY <2>2, MovesOn DEF PCs
  <2>4. /\ [top(t) EXCEPT !.pc = "index", !.how = "timeout"] \in GoodFrame
        /\ [top(t) EXCEPT !.pc = "index", !.how = "timeout"].pc = "index"
    BY <2>2 DEF Frame, GoodFrame, HowFits, PCs, Hows
  <2>5. StacksOK' /\ Hand(t)' = {} /\ \A s \in Thread \ {t} : Hand(s)' = Hand(s)
    BY <2>1, <2>3, <2>4, GotoStack, BecomesStack DEF PCs
  <2>6. OnePlace'
    BY <2>1, <2>5, EmptyHand, QuietStep DEF PCs, dictVars
  <2>7. TypeOK'
    BY <2>5, StacksTyped DEF TypeOK, dictVars
  <2> QED BY <2>5, <2>6, <2>7
<1>7. CASE Mark(t)
  <2> USE <1>7 DEF Mark
  <2>1. At(t, "mark") /\ stack[t] # << >> /\ top(t).pc = "mark"
    BY DEF At, top
  <2>2. top(t) \in Frame /\ HowFits(top(t)) /\ Succeeds(top(t).how)
    BY <2>1, HeadInStack DEF HowFits
  <2>3. HowFits([top(t) EXCEPT !.pc = "stamp"])
    BY <2>2, MovesOn DEF PCs
  <2>5. StacksOK' /\ Hand(t)' = {} /\ \A s \in Thread \ {t} : Hand(s)' = Hand(s)
    BY <2>1, <2>3, GotoStack DEF PCs
  <2>6. OnePlace'
    BY <2>1, <2>5, EmptyHand, QuietStep DEF PCs, dictVars
  <2>7. TypeOK'
    <3>1. top(t).name \in Name
      BY <2>2 DEF Frame
    <3>2. initializing' \in Seq(Name)
      BY <3>1, AppendProperties DEF TypeOK
    <3> QED BY <2>5, <3>2, StacksTyped DEF TypeOK, dictVars
  <2> QED BY <2>5, <2>6, <2>7
<1>8. CASE Stamp(t)
  <2> USE <1>8 DEF Stamp
  <2>1. At(t, "stamp") /\ stack[t] # << >> /\ top(t).pc = "stamp"
    BY DEF At, top
  <2>2. top(t) \in Frame /\ HowFits(top(t)) /\ Succeeds(top(t).how)
    BY <2>1, HeadInStack DEF HowFits
  <2>3. HowFits([top(t) EXCEPT !.pc = "make"])
    BY <2>2, MovesOn DEF PCs
  <2>5. StacksOK' /\ Hand(t)' = {} /\ \A s \in Thread \ {t} : Hand(s)' = Hand(s)
    BY <2>1, <2>3, GotoStack DEF PCs
  <2>6. OnePlace'
    BY <2>1, <2>5, EmptyHand, QuietStep DEF PCs, dictVars
  <2>7. TypeOK'
    <3>1. top(t).name \in Name
      BY <2>2 DEF Frame
    <3> QED BY <2>5, <3>1, StacksTyped DEF TypeOK, dictVars
  <2> QED BY <2>5, <2>6, <2>7
<1>9. CASE ImportFails(t)
  <2> USE <1>9 DEF ImportFails
  <2>1. At(t, "make") /\ stack[t] # << >> /\ top(t).pc = "make"
    BY DEF At, top
  <2>5. StacksOK' /\ Hand(t)' = {} /\ \A s \in Thread \ {t} : Hand(s)' = Hand(s)
    BY <2>1, RaisesStack
  <2>6. OnePlace'
    BY <2>1, <2>5, EmptyHand, QuietStep DEF PCs, dictVars
  <2>7. TypeOK'
    BY <2>5, StacksTyped DEF TypeOK, dictVars
  <2> QED BY <2>5, <2>6, <2>7
<1>10. CASE UseInside(t)
  <2> USE <1>10 DEF UseInside
  <2>1. At(t, "make") /\ stack[t] # << >> /\ top(t).pc = "make"
    BY DEF At, top
  <2> DEFINE g(d) == [top(t) EXCEPT !.deps = @ \ {d}]
  <2>2. top(t) \in Frame /\ HowFits(top(t))
    BY <2>1, HeadInStack
  <2>5. StacksOK' /\ Hand(t)' = {} /\ \A s \in Thread \ {t} : Hand(s)' = Hand(s)
    <3>1. PICK d \in top(t).deps :
          IF Len(stack[t]) < MaxDepth
          THEN NowHas(t, <<Fresh(d, "get", "whole")>> \o (<<g(d)>> \o Tail(stack[t])))
          ELSE Becomes(t, Failing(top(t)))
      BY DEF NowHas, StacksOK
    <3>2. g(d) \in GoodFrame /\ g(d).pc = "make" /\ d \in Name
      BY <2>1, <2>2 DEF Frame, GoodFrame, HowFits
    <3>3. CASE Len(stack[t]) < MaxDepth
      <4>1. Fresh(d, "get", "whole") \in GoodFrame /\ Fresh(d, "get", "whole").pc = "get"
        BY <3>2, FreshIsGood DEF PCs, Hows
      <4> HIDE DEF g
      <4> QED BY <2>1, <3>1, <3>2, <3>3, <4>1, NestedStack
    <3>4. CASE ~(Len(stack[t]) < MaxDepth)
      BY <2>1, <2>2, <3>1, <3>4, FailingIsGood, BecomesStack
    <3> QED BY <3>3, <3>4
  <2>6. OnePlace'
    BY <2>1, <2>5, EmptyHand, QuietStep DEF PCs, dictVars
  <2>7. TypeOK'
    BY <2>5, StacksTyped DEF TypeOK, dictVars
  <2> QED BY <2>5, <2>6, <2>7
<1>11. CASE Made(t)
  <2> USE <1>11 DEF Made
  <2>1. At(t, "make") /\ stack[t] # << >> /\ top(t).pc = "make"
    BY DEF At, top
  <2>2. top(t) \in Frame /\ HowFits(top(t))
    BY <2>1, HeadInStack
  <2>3. HowFits([top(t) EXCEPT !.pc = "take"])
    BY <2>1, <2>2, MovesOn DEF HowFits, PCs
  <2>5. StacksOK' /\ Hand(t)' = {} /\ \A s \in Thread \ {t} : Hand(s)' = Hand(s)
    BY <2>1, <2>2, <2>3, FailingIsGood, GotoStack, BecomesStack DEF PCs
  <2>6. OnePlace'
    BY <2>1, <2>5, EmptyHand, QuietStep DEF PCs, dictVars
  <2>7. TypeOK'
    BY <2>5, StacksTyped DEF TypeOK, dictVars
  <2> QED BY <2>5, <2>6, <2>7
<1>12. CASE Take(t)
  <2> USE <1>12 DEF Take
  <2>1. At(t, "take") /\ stack[t] # << >> /\ top(t).pc = "take"
    BY DEF At, top
  <2>2. top(t) \in Frame /\ HowFits(top(t))
    BY <2>1, HeadInStack
  <2>3. HowFits([top(t) EXCEPT !.pc = "put"])
    BY <2>1, <2>2, MovesOn DEF HowFits, PCs
  <2>4. Succeeds(top(t).how) => HowFits([top(t) EXCEPT !.pc = "takeFailed"])
    BY <2>2, MovesOn DEF PCs
  <2>5. Hand(t) = {}
    BY <2>1, EmptyHand DEF PCs
  <2>6. CASE Goto(t, "put")
             /\ \/ top(t).name \in lazy /\ lazy' = lazy \ {top(t).name} /\ failed' = failed
                \/ top(t).name \in failed /\ failed' = failed \ {top(t).name} /\ lazy' = lazy
    <3>1. StacksOK' /\ Hand(t)' = {top(t).name} /\ \A s \in Thread \ {t} : Hand(s)' = Hand(s)
      BY <2>1, <2>3, <2>6, GotoStack DEF PCs
    <3>2. OnePlace'
      BY <2>5, <2>6, <3>1, TakeBooks
    <3>3. TypeOK'
      BY <2>6, <3>1, StacksTyped DEF TypeOK
    <3> QED BY <3>1, <3>2, <3>3
  <2>7. CASE UNCHANGED <<lazy, failed>>
             /\ IF Succeeds(top(t).how) THEN Goto(t, "takeFailed") ELSE Raises(t)
    <3>1. StacksOK' /\ Hand(t)' = {} /\ \A s \in Thread \ {t} : Hand(s)' = Hand(s)
      BY <2>1, <2>4, <2>7, GotoStack, RaisesStack DEF PCs
    <3>2. OnePlace'
      BY <2>5, <2>7, <3>1, QuietStep DEF dictVars
    <3>3. TypeOK'
      BY <2>7, <3>1, StacksTyped DEF TypeOK
    <3> QED BY <3>1, <3>2, <3>3
  <2> QED BY <2>6, <2>7
<1>13. CASE TakeFailed(t)
  <2> USE <1>13 DEF TakeFailed
  <2>1. At(t, "takeFailed") /\ stack[t] # << >> /\ top(t).pc = "takeFailed"
    BY DEF At, top
  <2>2. top(t) \in Frame /\ HowFits(top(t))
    BY <2>1, HeadInStack
  <2>3. HowFits([top(t) EXCEPT !.pc = "put"])
    BY <2>1, <2>2, MovesOn DEF HowFits, PCs, Succeeds
  <2>4. Hand(t) = {}
    BY <2>1, EmptyHand DEF PCs
  <2>5. CASE top(t).name \in failed
    <3>1. StacksOK' /\ Hand(t)' = {top(t).name} /\ \A s \in Thread \ {t} : Hand(s)' = Hand(s)
      BY <2>1, <2>3, <2>5, GotoStack DEF PCs
    <3>2. OnePlace'
      BY <2>4, <2>5, <3>1, TakeBooks
    <3>3. TypeOK'
      BY <3>1, StacksTyped DEF TypeOK
    <3> QED BY <3>1, <3>2, <3>3
  <2>6. CASE top(t).name \notin failed
    <3>1. StacksOK' /\ Hand(t)' = {} /\ \A s \in Thread \ {t} : Hand(s)' = Hand(s)
      BY <2>1, <2>6, RaisesStack
    <3>2. UNCHANGED dictVars
      BY <2>6 DEF dictVars
    <3>3. OnePlace'
      BY <2>4, <3>1, <3>2, QuietStep
    <3>4. TypeOK'
      BY <3>1, StacksTyped DEF TypeOK
    <3> QED BY <3>1, <3>3, <3>4
  <2> QED BY <2>5, <2>6
<1>14. CASE Put(t)
  <2> USE <1>14 DEF Put
  <2>1. At(t, "put") /\ stack[t] # << >> /\ top(t).pc = "put"
    BY DEF At, top
  <2>2. top(t) \in Frame /\ HowFits(top(t))
    BY <2>1, HeadInStack
  <2>3. Hand(t) = {top(t).name} /\ top(t).name \in Name
    BY <2>1, <2>2 DEF Hand, Frame
  <2>4. top(t).how \in {"whole", "partial", "error", "retry", "giveup"}
    BY <2>1, <2>2 DEF HowFits, Frame, Hows
  <2>5. /\ HowFits([top(t) EXCEPT !.pc = "index"])
        /\ top(t).how # "whole" => HowFits([top(t) EXCEPT !.pc = "reason"])
    BY <2>2, <2>4 DEF HowFits, Frame
  <2>6. StacksOK' /\ Hand(t)' = {} /\ \A s \in Thread \ {t} : Hand(s)' = Hand(s)
    BY <2>1, <2>5, GotoStack DEF PCs
  <2>7. \/ lazy' = lazy \cup {top(t).name} /\ failed' = failed /\ inited' = inited
        \/ failed' = failed \cup {top(t).name} /\ lazy' = lazy /\ inited' = inited
        \/ inited' = inited \cup {top(t).name} /\ lazy' = lazy /\ failed' = failed
    BY <2>4
  <2>8. OnePlace'
    BY <2>3, <2>6, <2>7, PutBooks
  <2>9. TypeOK'
    BY <2>3, <2>6, <2>7, StacksTyped DEF TypeOK
  <2> QED BY <2>6, <2>8, <2>9
<1>15. CASE SetReason(t)
  <2> USE <1>15 DEF SetReason
  <2>1. At(t, "reason") /\ stack[t] # << >> /\ top(t).pc = "reason"
    BY DEF At, top
  <2>2. top(t) \in Frame /\ HowFits(top(t))
    BY <2>1, HeadInStack
  <2>3. HowFits([top(t) EXCEPT !.pc = "index"])
    BY <2>2, MovesOn DEF PCs
  <2>5. StacksOK' /\ Hand(t)' = {} /\ \A s \in Thread \ {t} : Hand(s)' = Hand(s)
    BY <2>1, <2>3, GotoStack, ReturnsStack DEF PCs
  <2>6. OnePlace'
    BY <2>1, <2>5, EmptyHand, QuietStep DEF PCs, dictVars
  <2>7. TypeOK'
    <3>1. top(t).how \in {"partial", "error", "retry", "giveup"} /\ top(t).name \in Name
      BY <2>1, <2>2 DEF HowFits, Frame
    <3>2. \A old \in Reasons : ReasonOf(top(t).how, old) \in Reasons
      BY <3>1 DEF ReasonOf, Reasons
    <3>3. reason' \in [Name -> Reasons]
      BY <3>1, <3>2 DEF TypeOK
    <3> QED BY <2>5, <3>3, StacksTyped DEF TypeOK, dictVars
  <2> QED BY <2>5, <2>6, <2>7
<1>16. CASE Index(t)
  <2> USE <1>16 DEF Index
  <2>1. At(t, "index") /\ stack[t] # << >> /\ top(t).pc = "index"
    BY DEF At, top
  <2>2. top(t) \in Frame /\ HowFits(top(t))
    BY <2>1, HeadInStack
  <2>3. \A i \in 1 .. Len(initializing) :
           /\ [top(t) EXCEPT !.pc = "unmark", !.at = i] \in GoodFrame
           /\ [top(t) EXCEPT !.pc = "unmark", !.at = i].pc = "unmark"
    BY <2>2, AtPlace DEF TypeOK
  <2>5. StacksOK' /\ Hand(t)' = {} /\ \A s \in Thread \ {t} : Hand(s)' = Hand(s)
    BY <2>1, <2>3, BecomesStack, ReturnsStack, RaisesStack
  <2>6. OnePlace'
    BY <2>1, <2>5, EmptyHand, QuietStep DEF PCs, dictVars
  <2>7. TypeOK'
    BY <2>5, StacksTyped DEF TypeOK, dictVars
  <2> QED BY <2>5, <2>6, <2>7
<1>17. CASE Unmark(t)
  <2> USE <1>17 DEF Unmark
  <2>1. At(t, "unmark") /\ stack[t] # << >> /\ top(t).pc = "unmark"
    BY DEF At, top
  <2>2. top(t) \in Frame /\ HowFits(top(t))
    BY <2>1, HeadInStack
  <2>3. /\ [top(t) EXCEPT !.pc = "return", !.at = 0] \in GoodFrame
        /\ [top(t) EXCEPT !.pc = "return", !.at = 0].pc = "return"
    BY <2>2 DEF Frame, GoodFrame, HowFits, PCs
  <2>5. StacksOK' /\ Hand(t)' = {} /\ \A s \in Thread \ {t} : Hand(s)' = Hand(s)
    BY <2>1, <2>3, BecomesStack, ReturnsStack, RaisesStack
  <2>6. OnePlace'
    BY <2>1, <2>5, EmptyHand, QuietStep DEF PCs, dictVars
  <2>7. TypeOK'
    <3>1. top(t).at \in Nat /\ top(t).at > 0
      BY <2>1, <2>2 DEF Frame, HowFits
    <3>2. initializing' \in Seq(Name)
      BY <3>1, RemoveAtSeq, LenProperties DEF TypeOK
    <3> QED BY <2>5, <3>2, StacksTyped DEF TypeOK, dictVars
  <2> QED BY <2>5, <2>6, <2>7
<1>18. CASE SetTarget(t)
  <2> USE <1>18 DEF SetTarget
  <2>1. At(t, "return") /\ stack[t] # << >> /\ top(t).pc = "return"
    BY DEF At, top
  <2>2. top(t) \in Frame /\ HowFits(top(t))
    BY <2>1, HeadInStack
  <2>5. StacksOK' /\ Hand(t)' = {} /\ \A s \in Thread \ {t} : Hand(s)' = Hand(s)
    BY <2>1, ReturnsStack
  <2>6. OnePlace'
    BY <2>1, <2>5, EmptyHand, QuietStep DEF PCs, dictVars
  <2>7. TypeOK'
    <3>1. top(t).name \in Name
      BY <2>2 DEF Frame
    <3> QED BY <2>5, <3>1, StacksTyped DEF TypeOK, dictVars
  <2> QED BY <2>5, <2>6, <2>7
<1> QED
  BY <1>1, <1>2, <1>3, <1>4, <1>5, <1>6, <1>7, <1>8, <1>9, <1>10, <1>11, <1>12,
     <1>13, <1>14, <1>15, <1>16, <1>17, <1>18 DEF Step

-----------------------------------------------------------------------------
(* The theorems.                                                               *)

LEMMA InitInv == Init => IInv
<1> SUFFICES ASSUME Init PROVE IInv
  OBVIOUS
<1>1. GoodStack(<< >>)
  BY LazyNamespaceAssumption DEF GoodStack
<1>2. StacksOK
  BY <1>1 DEF Init, StacksOK, GoodStack
<1>3. TypeOK
  BY LazyNamespaceAssumption DEF Init, TypeOK, Reasons
<1>4. UNION {Hand(t) : t \in Thread} = {} /\ \A t \in Thread : Hand(t) = {}
  BY DEF Init, Hand, At
<1>5. OnePlace
  BY <1>4 DEF Init, OnePlace
<1> QED BY <1>2, <1>3, <1>5 DEF IInv

LEMMA NextInv == IInv /\ [Next]_vars => IInv'
<1> SUFFICES ASSUME IInv, [Next]_vars PROVE IInv'
  OBVIOUS
<1>1. CASE Next
  BY <1>1, StepInv DEF Next
<1>2. CASE UNCHANGED vars
  BY <1>2 DEF vars, dictVars, IInv, TypeOK, StacksOK, GoodStack, OnePlace, Hand, At, top
<1> QED BY <1>1, <1>2

\* The invariant holds in every reachable state, whoever waits, times out, gives
\* up or retries.
THEOREM Invariance == Spec => []IInv
BY InitInv, NextInv, PTL DEF Spec

\* Type correctness: whatever fails, every call a thread is in is well formed and
\* every list and dictionary holds names.
THEOREM TypeCorrect == Spec => []TypeOK
<1>1. IInv => TypeOK
  BY DEF IInv
<1> QED
  BY <1>1, Invariance, PTL

\* No item of the namespace is ever lost or in two dictionaries: pop and put by
\* threads without a lock leave it in one dictionary or in one thread's hand.
THEOREM ItemsConserved == Spec => []OnePlace
<1>1. IInv => OnePlace
  BY DEF IInv
<1> QED
  BY <1>1, Invariance, PTL

-----------------------------------------------------------------------------
(* The books agree.  A build that has been booked keeps its name out of         *)
(* lazy_items until its proxy has the object, unless somebody moves it back.     *)

\* What a thread in the middle of its bookkeeping knows of its name.
CallOk(f) ==
    /\ f.how = "retry" => MovedBack(f.name)
    /\ f.pc \in {"put", "reason", "index", "unmark", "return"} /\ f.how # "timeout"
          => f.name \notin lazy \/ MovedBack(f.name)
    /\ f.pc = "return" => f.how # "timeout"

CallsOk == \A t \in Thread : stack[t] # << >> => CallOk(top(t))

BooksInv == IInv /\ CallsOk /\ BooksAgree

\* A call outside its bookkeeping: nothing is asked of it.
LEMMA OutsideBooks ==
    ASSUME NEW f, f.how # "retry",
           f.pc \notin {"put", "reason", "index", "unmark", "return"} \/ f.how = "timeout",
           f.pc # "return"
    PROVE  CallOk(f)
BY DEF CallOk

\* The first of a list that was put together from its first and the rest.
LEMMA HeadOfConcat ==
    ASSUME NEW S, NEW f \in S, NEW r \in Seq(S)
    PROVE  <<f>> \o r # << >> /\ Head(<<f>> \o r) = f
<1>1. <<f>> \in Seq(S) /\ Len(<<f>>) = 1 /\ <<f>>[1] = f
  OBVIOUS
<1>2. <<f>> \o r \in Seq(S) /\ Len(<<f>> \o r) = 1 + Len(r) /\ Len(r) \in Nat
  BY <1>1, ConcatProperties, LenProperties
<1>3. (<<f>> \o r)[1] = f
  BY <1>1, <1>2, ConcatProperties
<1> QED BY <1>2, <1>3, EmptySeq, HeadTailProperties

\* Which call is on top after a step.
LEMMA TopBecomes ==
    ASSUME StacksOK, NEW t \in Thread, stack[t] # << >>, NEW f \in GoodFrame, Becomes(t, f)
    PROVE  /\ stack'[t] # << >> /\ Head(stack'[t]) = f
           /\ \A s \in Thread \ {t} : stack'[s] = stack[s]
<1> DEFINE r == Tail(stack[t])
<1>1. stack'[t] = <<f>> \o r /\ \A s \in Thread \ {t} : stack'[s] = stack[s]
  BY DEF Becomes, StacksOK
<1>2. r \in Seq(GoodFrame)
  BY Under DEF StacksOK
<1> HIDE DEF r
<1>3. <<f>> \o r # << >> /\ Head(<<f>> \o r) = f
  BY <1>2, HeadOfConcat
<1> QED BY <1>1, <1>3

\* A caller goes on in its constructor, or fails with what it called.
LEMMA TopEnds ==
    ASSUME StacksOK, NEW t \in Thread, stack[t] # << >>, Returns(t) \/ Raises(t)
    PROVE  /\ stack'[t] # << >> => /\ Head(stack'[t]).pc \in {"make", "take"}
                                   /\ Head(stack'[t]).how # "retry"
           /\ \A s \in Thread \ {t} : stack'[s] = stack[s]
<1> DEFINE q == Tail(stack[t])
<1>1. q \in Seq(GoodFrame) /\ \A i \in 1 .. Len(q) : q[i].pc = "make"
  BY Under DEF StacksOK
<1>2. \A s \in Thread \ {t} : stack'[s] = stack[s]
  BY DEF Returns, Raises, StacksOK
<1>3. q # << >> => /\ Head(q) \in GoodFrame /\ Head(q).pc = "make" /\ Tail(q) \in Seq(GoodFrame)
                   /\ Head(q).how \in {"whole", "partial"}
  <2> SUFFICES ASSUME q # << >>
               PROVE  /\ Head(q) \in GoodFrame /\ Head(q).pc = "make" /\ Tail(q) \in Seq(GoodFrame)
                      /\ Head(q).how \in {"whole", "partial"}
    OBVIOUS
  <2> HIDE DEF q
  <2>1. Len(q) \in Nat /\ Len(q) > 0 /\ Head(q) = q[1]
    BY <1>1, EmptySeq, LenProperties, HeadTailProperties
  <2>2. Head(q) \in GoodFrame /\ Tail(q) \in Seq(GoodFrame)
    BY <1>1, HeadTailProperties
  <2>3. 1 \in 1 .. Len(q)
    BY <2>1
  <2>4. Head(q).pc = "make"
    BY <1>1, <2>1, <2>3
  <2> QED BY <2>2, <2>4 DEF GoodFrame, HowFits, Succeeds
<1>4. CASE stack'[t] = q
  BY <1>2, <1>3, <1>4
<1>5. CASE q # << >> /\ \E f \in GoodFrame : /\ stack'[t] = <<f>> \o Tail(q)
                                             /\ f.pc \in {"make", "take"} /\ f.how # "retry"
  <2>1. PICK f \in GoodFrame : /\ stack'[t] = <<f>> \o Tail(q)
                               /\ f.pc \in {"make", "take"} /\ f.how # "retry"
    BY <1>5
  <2>2. Tail(q) \in Seq(GoodFrame)
    BY <1>3, <1>5
  <2>3. Head(<<f>> \o Tail(q)) = f
    BY <2>2, HeadOfConcat
  <2> QED BY <1>2, <2>1, <2>3
<1>6. Returns(t) => stack'[t] = q
  BY DEF Returns, StacksOK
<1>7. ASSUME Raises(t), q # << >>
      PROVE  \E f \in GoodFrame : /\ stack'[t] = <<f>> \o Tail(q)
                                  /\ f.pc \in {"make", "take"} /\ f.how # "retry"
  <2> DEFINE f == Failing(Head(q))
             g == [Head(q) EXCEPT !.how = "partial"]
  <2>1. /\ f \in GoodFrame /\ f.pc = "take" /\ f.how = "error"
        /\ g \in GoodFrame /\ g.pc = "make" /\ g.how = "partial"
    BY <1>3, <1>7 DEF Failing, GoodFrame, HowFits, Succeeds, Frame, PCs, Hows
  <2>2. stack'[t] = <<f>> \o Tail(q) \/ stack'[t] = <<g>> \o Tail(q)
    BY <1>7 DEF Raises, StacksOK
  <2> HIDE DEF f, g
  <2> QED BY <2>1, <2>2
<1>8. Raises(t) /\ q = << >> => stack'[t] = q
  BY DEF Raises, StacksOK
<1> HIDE DEF q
<1> QED BY <1>4, <1>5, <1>6, <1>7, <1>8

\* A step that adds no name to lazy_items or the targets that may not be there,
\* and gives a reason to what it adds to failed_items.
LEMMA BooksStay ==
    ASSUME BooksInv, NEW t \in Thread, ~At(t, "reason"),
           \A s \in Thread \ {t} : stack'[s] = stack[s],
           stack'[t] # << >> => CallOk(Head(stack[t]))',
           maintained \subseteq maintained', reason' = reason,
           \A n \in lazy' \ lazy : MovedBack(n)',
           \A n \in target' \ target : n \notin lazy' \/ MovedBack(n)',
           \A n \in failed' \ failed : At(t, "reason")' /\ Head(stack'[t]).name = n
    PROVE  CallsOk' /\ BooksAgree'
<1>1. \A n : MovedBack(n) => MovedBack(n)'
  BY DEF MovedBack
<1>2. CallsOk'
  <2> SUFFICES ASSUME NEW s \in Thread, stack'[s] # << >> PROVE CallOk(top(s))'
    BY DEF CallsOk
  <2>1. CASE s = t
    BY <2>1 DEF top
  <2>2. CASE s # t
    BY <1>1, <2>2 DEF BooksInv, CallsOk, CallOk, top
  <2> QED BY <2>1, <2>2
<1>3. ResolvedIsBooked'
  BY <1>1 DEF BooksInv, BooksAgree, ResolvedIsBooked
<1>4. FailuresHaveReasons'
  <2> SUFFICES ASSUME NEW n \in failed'
               PROVE  \/ reason'[n] # "none" \/ MovedBack(n)'
                      \/ \E s \in Thread : (At(s, "reason") /\ top(s).name = n)'
    BY DEF FailuresHaveReasons
  <2>1. CASE n \in failed
    <3>1. \A s \in Thread : At(s, "reason") /\ top(s).name = n
              => (At(s, "reason") /\ top(s).name = n)'
      BY DEF At, top
    <3> QED BY <1>1, <2>1, <3>1 DEF BooksInv, BooksAgree, FailuresHaveReasons
  <2>2. CASE n \notin failed
    BY <2>2 DEF top
  <2> QED BY <2>1, <2>2
<1> QED BY <1>2, <1>3, <1>4 DEF BooksAgree

\* Beginning a call, and the steps of a build up to its bookkeeping.
LEMMA BuildBooks ==
    ASSUME BooksInv, NEW t \in Thread,
           \/ Use(t) \/ Maintain(t) \/ GetObj(t) \/ Resolve(t) \/ CheckBusy(t) \/ Wait(t)
           \/ Mark(t) \/ Stamp(t) \/ ImportFails(t) \/ UseInside(t) \/ Made(t)
    PROVE  CallsOk' /\ BooksAgree'
<1>0. StacksOK
  BY DEF BooksInv, IInv
<1>1. CASE Use(t) \/ Maintain(t)
  <2>1. PICK n \in Name, loc \in {"resolve", "take"}, how \in {"whole", "retry", "giveup"} :
            /\ stack[t] = << >> /\ stack' = [stack EXCEPT ![t] = <<Fresh(n, loc, how)>>]
            /\ maintained \subseteq maintained'
            /\ UNCHANGED <<dictVars, reason, target>>
            /\ how = "retry" => MovedBack(n)'
    BY <1>1, LazyNamespaceAssumption DEF Use, Maintain, MovedBack
  <2>2. /\ stack'[t] = <<Fresh(n, loc, how)>> /\ \A s \in Thread \ {t} : stack'[s] = stack[s]
        /\ ~At(t, "reason") /\ Head(stack'[t]) = Fresh(n, loc, how)
    BY <1>0, <2>1 DEF StacksOK, At
  <2>3. CallOk(Head(stack[t]))'
    BY <2>1, <2>2 DEF CallOk, Fresh
  <2> QED BY <2>1, <2>2, <2>3, BooksStay DEF dictVars
<1>2. ASSUME stack[t] # << >>, ~At(t, "reason"), UNCHANGED <<dictVars, reason, target, maintained>>,
             \A s \in Thread \ {t} : stack'[s] = stack[s],
             stack'[t] # << >> =>
                 /\ Head(stack'[t]).how # "retry"
                 /\ Head(stack'[t]).pc \notin {"put", "reason", "index", "unmark", "return"}
                        \/ Head(stack'[t]).how = "timeout"
                 /\ Head(stack'[t]).pc # "return"
      PROVE  CallsOk' /\ BooksAgree'
  <2>1. stack'[t] # << >> => CallOk(Head(stack[t]))'
    BY <1>2 DEF CallOk
  <2> QED BY <1>2, <2>1, BooksStay DEF dictVars
<1>3. CASE GetObj(t) \/ Resolve(t) \/ CheckBusy(t) \/ Mark(t) \/ Stamp(t)
           \/ (Wait(t) /\ ~IsInitializing(top(t).name)) \/ (Made(t) /\ Goto(t, "take"))
  <2>1. /\ stack[t] # << >> /\ ~At(t, "reason") /\ UNCHANGED <<dictVars, reason, target, maintained>>
        /\ top(t).pc \in {"get", "resolve", "busy?", "wait", "mark", "stamp", "make"}
    BY <1>3 DEF GetObj, Resolve, CheckBusy, Mark, Stamp, Wait, Made, At, top
  <2>2. \/ Returns(t) \/ Raises(t)
        \/ \E loc \in {"resolve", "busy?", "mark", "wait", "stamp", "make", "take"} : Goto(t, loc)
    BY <1>3 DEF GetObj, Resolve, CheckBusy, Mark, Stamp, Wait
  <2>3. CASE Returns(t) \/ Raises(t)
    BY <1>0, <1>2, <2>1, <2>3, TopEnds
  <2>4. CASE \E loc \in {"resolve", "busy?", "mark", "wait", "stamp", "make", "take"} : Goto(t, loc)
    <3>1. PICK loc \in {"resolve", "busy?", "mark", "wait", "stamp", "make", "take"} : Goto(t, loc)
      BY <2>4
    <3> DEFINE f == [top(t) EXCEPT !.pc = loc]
    <3>2. top(t) \in Frame /\ Succeeds(top(t).how)
      BY <1>0, <2>1, HeadInStack DEF HowFits
    <3>3. f \in GoodFrame /\ f.pc = loc /\ f.how \in {"whole", "partial"} /\ Becomes(t, f)
      BY <3>1, <3>2 DEF Frame, GoodFrame, HowFits, Succeeds, PCs, Goto
    <3> HIDE DEF f
    <3>4. /\ stack'[t] # << >> /\ Head(stack'[t]) = f
          /\ \A s \in Thread \ {t} : stack'[s] = stack[s]
      BY <1>0, <2>1, <3>3, TopBecomes
    <3> QED BY <1>2, <2>1, <3>3, <3>4
  <2> QED BY <2>2, <2>3, <2>4
<1>4. CASE Wait(t) /\ IsInitializing(top(t).name)
  <2>1. /\ stack[t] # << >> /\ ~At(t, "reason") /\ UNCHANGED <<dictVars, reason, target, maintained>>
        /\ top(t).pc = "wait"
    BY <1>4 DEF Wait, At, top
  <2> DEFINE f == [top(t) EXCEPT !.pc = "index", !.how = "timeout"]
  <2>2. f \in GoodFrame /\ f.pc = "index" /\ f.how = "timeout" /\ Becomes(t, f)
    BY <1>0, <1>4, <2>1, HeadInStack DEF Wait, Frame, GoodFrame, HowFits, PCs, Hows
  <2> HIDE DEF f
  <2>3. /\ stack'[t] # << >> /\ Head(stack'[t]) = f
        /\ \A s \in Thread \ {t} : stack'[s] = stack[s]
    BY <1>0, <2>1, <2>2, TopBecomes
  <2> QED BY <1>2, <2>1, <2>2, <2>3
<1>5. CASE ImportFails(t)
  <2>1. /\ stack[t] # << >> /\ ~At(t, "reason") /\ UNCHANGED <<dictVars, reason, target, maintained>>
        /\ Raises(t)
    BY <1>5 DEF ImportFails, At
  <2> QED BY <1>0, <1>2, <2>1, TopEnds
<1>6. ASSUME stack[t] # << >>, ~At(t, "reason"), UNCHANGED <<dictVars, reason, target, maintained>>,
             Becomes(t, Failing(top(t)))
      PROVE  CallsOk' /\ BooksAgree'
  <2> DEFINE f == Failing(top(t))
  <2>1. f \in GoodFrame /\ f.pc = "take" /\ f.how = "error"
    BY <1>0, <1>6, HeadInStack, FailingIsGood DEF Failing, Frame
  <2> HIDE DEF f
  <2>2. /\ stack'[t] # << >> /\ Head(stack'[t]) = f
        /\ \A s \in Thread \ {t} : stack'[s] = stack[s]
    BY <1>0, <1>6, <2>1, TopBecomes DEF f
  <2> QED BY <1>2, <1>6, <2>1, <2>2
<1>7. CASE Made(t) /\ ~Goto(t, "take")
  BY <1>6, <1>7 DEF Made, At
<1>8. CASE UseInside(t)
  <2>1. /\ stack[t] # << >> /\ ~At(t, "reason") /\ UNCHANGED <<dictVars, reason, target, maintained>>
        /\ top(t).pc = "make"
    BY <1>8 DEF UseInside, At, top
  <2>2. CASE Becomes(t, Failing(top(t)))
    BY <1>6, <2>1, <2>2
  <2>3. CASE ~Becomes(t, Failing(top(t)))
    <3> DEFINE g(d) == [top(t) EXCEPT !.deps = @ \ {d}]
    <3>1. PICK d \in top(t).deps :
              stack' = [stack EXCEPT ![t] =
                  <<Fresh(d, "get", "whole")>> \o (<<g(d)>> \o Tail(stack[t]))]
      BY <1>0, <1>8, <2>3 DEF UseInside, StacksOK
    <3>2. g(d) \in GoodFrame /\ d \in Name
      BY <1>0, <2>1, HeadInStack DEF Frame, GoodFrame, HowFits
    <3> HIDE DEF g
    <3>3. Fresh(d, "get", "whole") \in GoodFrame
      BY <3>2, FreshIsGood DEF PCs, Hows
    <3>4. Tail(stack[t]) \in Seq(GoodFrame)
      BY <1>0, <2>1, Under DEF StacksOK
    <3> DEFINE r == <<g(d)>> \o Tail(stack[t])
               f == Fresh(d, "get", "whole")
    <3>5. r \in Seq(GoodFrame)
      <4>1. <<g(d)>> \in Seq(GoodFrame)
        BY <3>2
      <4> QED BY <3>4, <4>1, ConcatProperties
    <3>6. f.pc = "get" /\ f.how = "whole" /\ f \in GoodFrame
      BY <3>3 DEF Fresh
    <3>7. stack'[t] = <<f>> \o r /\ \A s \in Thread \ {t} : stack'[s] = stack[s]
      BY <1>0, <3>1 DEF StacksOK
    <3> HIDE DEF r, f
    <3>8. Head(<<f>> \o r) = f
      BY <3>5, <3>6, HeadOfConcat
    <3> QED BY <1>2, <2>1, <3>6, <3>7, <3>8
  <2> QED BY <2>2, <2>3
<1> QED BY <1>1, <1>3, <1>4, <1>5, <1>7, <1>8

\* A step to another place of the same call: what is on top then.
LEMMA TopGoto ==
    ASSUME StacksOK, NEW t \in Thread, stack[t] # << >>, NEW loc \in PCs, Goto(t, loc),
           HowFits([top(t) EXCEPT !.pc = loc])
    PROVE  /\ stack'[t] # << >> /\ Head(stack'[t]).pc = loc
           /\ Head(stack'[t]).name = top(t).name /\ Head(stack'[t]).how = top(t).how
           /\ \A s \in Thread \ {t} : stack'[s] = stack[s]
<1> DEFINE f == [top(t) EXCEPT !.pc = loc]
<1>1. f \in GoodFrame /\ f.pc = loc /\ f.name = top(t).name /\ f.how = top(t).how
  BY HeadInStack DEF Frame, GoodFrame
<1>2. Becomes(t, f)
  BY DEF Goto
<1> HIDE DEF f
<1> QED BY <1>1, <1>2, TopBecomes

\* Taking the item out of a dictionary and putting it into another.
LEMMA MoveBooks ==
    ASSUME BooksInv, NEW t \in Thread, IInv', Take(t) \/ TakeFailed(t) \/ Put(t)
    PROVE  CallsOk' /\ BooksAgree'
<1>0. StacksOK /\ OnePlace /\ OnePlace'
  BY DEF BooksInv, IInv
<1>1. /\ stack[t] # << >> /\ ~At(t, "reason") /\ UNCHANGED <<reason, target, maintained>>
      /\ top(t) \in Frame /\ HowFits(top(t)) /\ CallOk(top(t))
  BY <1>0, HeadInStack DEF Take, TakeFailed, Put, At, BooksInv, CallsOk
<1>2. CASE Raises(t) /\ UNCHANGED <<lazy, inited>> /\ failed' \subseteq failed
  <2>1. stack'[t] # << >> => CallOk(Head(stack[t]))'
    BY <1>0, <1>1, <1>2, TopEnds DEF CallOk
  <2> QED BY <1>0, <1>1, <1>2, <2>1, TopEnds, BooksStay
<1>3. ASSUME Goto(t, "put"), top(t).how # "timeout", top(t).name \notin lazy',
             lazy' \subseteq lazy, failed' \subseteq failed
      PROVE  CallsOk' /\ BooksAgree'
  <2>1. HowFits([top(t) EXCEPT !.pc = "put"])
    BY <1>1, <1>3, MovesOn DEF PCs
  <2>2. /\ stack'[t] # << >> /\ Head(stack'[t]).pc = "put"
        /\ Head(stack'[t]).name = top(t).name /\ Head(stack'[t]).how = top(t).how
        /\ \A s \in Thread \ {t} : stack'[s] = stack[s]
    BY <1>0, <1>1, <1>3, <2>1, TopGoto DEF PCs
  <2>3. CallOk(Head(stack[t]))'
    BY <1>1, <1>3, <2>2 DEF CallOk, MovedBack
  <2> QED BY <1>1, <1>3, <2>2, <2>3, BooksStay
<1>4. CASE Take(t)
  <2>1. top(t).pc = "take" /\ top(t).how # "timeout"
    BY <1>1, <1>4 DEF Take, At, top, HowFits
  <2>2. CASE top(t).how # "retry" /\ top(t).name \in lazy
    <3>1. Goto(t, "put") /\ lazy' = lazy \ {top(t).name} /\ failed' = failed
      BY <1>4, <2>2 DEF Take
    <3> QED BY <1>3, <2>1, <3>1
  <2>3. CASE top(t).how = "retry" /\ top(t).name \in failed
    <3>1. Goto(t, "put") /\ lazy' = lazy /\ failed' = failed \ {top(t).name}
      BY <1>4, <2>3 DEF Take
    <3>2. top(t).name \notin lazy
      BY <1>0, <2>3 DEF OnePlace
    <3> QED BY <1>3, <2>1, <3>1, <3>2
  <2>4. CASE top(t).name \notin (IF top(t).how = "retry" THEN failed ELSE lazy)
    <3>1. /\ UNCHANGED dictVars
          /\ IF Succeeds(top(t).how) THEN Goto(t, "takeFailed") ELSE Raises(t)
      BY <1>4, <2>4 DEF Take, dictVars
    <3>2. CASE Raises(t)
      BY <1>2, <3>1, <3>2 DEF dictVars
    <3>3. CASE Succeeds(top(t).how) /\ Goto(t, "takeFailed")
      <4>1. HowFits([top(t) EXCEPT !.pc = "takeFailed"])
        BY <1>1, <3>3, MovesOn DEF PCs
      <4>2. /\ stack'[t] # << >> /\ Head(stack'[t]).pc = "takeFailed"
            /\ Head(stack'[t]).how = top(t).how
            /\ \A s \in Thread \ {t} : stack'[s] = stack[s]
        BY <1>0, <1>1, <3>3, <4>1, TopGoto DEF PCs
      <4>3. CallOk(Head(stack[t]))'
        BY <3>3, <4>2 DEF CallOk, Succeeds
      <4> QED BY <1>1, <3>1, <4>2, <4>3, BooksStay DEF dictVars
    <3> QED BY <3>1, <3>2, <3>3
  <2> QED BY <2>2, <2>3, <2>4
<1>5. CASE TakeFailed(t)
  <2>1. /\ Succeeds(top(t).how) /\ UNCHANGED <<lazy, inited>>
        /\ failed' = failed \ {top(t).name}
    BY <1>1, <1>5 DEF TakeFailed, At, top, HowFits
  <2>2. CASE top(t).name \in failed
    <3>1. Goto(t, "put") /\ top(t).name \notin lazy
      BY <1>0, <1>5, <2>2 DEF TakeFailed, OnePlace
    <3> QED BY <1>3, <2>1, <3>1 DEF Succeeds
  <2>3. CASE top(t).name \notin failed
    BY <1>2, <1>5, <2>1, <2>3 DEF TakeFailed
  <2> QED BY <2>2, <2>3
<1>6. CASE Put(t)
  <2>n. PICK n, how : n = top(t).name /\ how = top(t).how
    OBVIOUS
  <2>1. top(t).pc = "put" /\ how \in {"whole", "partial", "error", "retry", "giveup"}
    BY <2>n, <1>1, <1>6 DEF Put, At, top, HowFits, Frame, Hows
  <2>2. n \notin lazy
    <3>1. n \in Hand(t)
      BY <2>n, <1>6 DEF Put, Hand
    <3> QED BY <1>0, <3>1 DEF OnePlace
  <2>3. /\ lazy' = IF how = "retry" THEN lazy \cup {n} ELSE lazy
        /\ failed' = IF how \in {"partial", "error", "giveup"} THEN failed \cup {n} ELSE failed
        /\ Goto(t, IF how = "whole" THEN "index" ELSE "reason")
    BY <2>n, <1>6 DEF Put
  <2>4. how = "retry" => MovedBack(n) /\ MovedBack(n)'
    BY <2>n, <1>1 DEF CallOk, MovedBack
  <2>5. PICK loc \in {"index", "reason"} :
            Goto(t, loc) /\ (how # "whole" => loc = "reason") /\ (how = "whole" => loc = "index")
    BY <2>3
  <2>6. HowFits([top(t) EXCEPT !.pc = loc])
    BY <2>n, <1>1, <2>1, <2>5 DEF HowFits, Frame
  <2>7. /\ stack'[t] # << >> /\ Head(stack'[t]).pc = loc
        /\ Head(stack'[t]).name = n /\ Head(stack'[t]).how = how
        /\ \A s \in Thread \ {t} : stack'[s] = stack[s]
    BY <2>n, <1>0, <1>1, <2>5, <2>6, TopGoto DEF PCs
  <2>8. CallOk(Head(stack[t]))'
    BY <2>2, <2>3, <2>4, <2>5, <2>7 DEF CallOk
  <2>9. \A m \in lazy' \ lazy : MovedBack(m)'
    BY <2>3, <2>4
  <2>10. \A m \in failed' \ failed : At(t, "reason")' /\ Head(stack'[t]).name = m
    BY <2>3, <2>5, <2>7 DEF At
  <2> QED BY <1>1, <2>7, <2>8, <2>9, <2>10, BooksStay
<1> QED BY <1>4, <1>5, <1>6

\* Recording the reason: what is on record then is a reason, or the name was
\* moved back.
LEMMA ReasonBooks ==
    ASSUME BooksInv, NEW t \in Thread, SetReason(t)
    PROVE  CallsOk' /\ BooksAgree'
<1>n. PICK n, how : n = top(t).name /\ how = top(t).how
  OBVIOUS
<1>0. StacksOK /\ reason \in [Name -> Reasons] /\ failed \subseteq Name
  BY DEF BooksInv, IInv, TypeOK
<1>1. /\ stack[t] # << >> /\ UNCHANGED <<lazy, inited, failed, target, maintained>>
      /\ top(t) \in Frame /\ HowFits(top(t)) /\ CallOk(top(t)) /\ top(t).pc = "reason"
      /\ n \in Name
  BY <1>0, <1>n, HeadInStack DEF SetReason, At, BooksInv, CallsOk, top, Frame, dictVars
<1>2. how \in {"partial", "error", "retry", "giveup"}
  BY <1>n, <1>1 DEF HowFits
<1>3. /\ \A m \in Name : m # n => reason'[m] = reason[m]
      /\ reason'[n] # "none" \/ MovedBack(n)'
  <2>1. reason' = [reason EXCEPT ![n] = ReasonOf(how, reason[n])]
    BY <1>n, <1>0, <1>1 DEF SetReason
  <2>2. how = "retry" => MovedBack(n)'
    BY <1>n, <1>1 DEF CallOk, MovedBack
  <2>3. how # "retry" => ReasonOf(how, reason[n]) # "none"
    BY <1>2 DEF ReasonOf
  <2> QED BY <1>n, <1>0, <1>1, <2>1, <2>2, <2>3
<1>4. /\ stack'[t] # << >> => CallOk(Head(stack[t]))'
      /\ \A s \in Thread \ {t} : stack'[s] = stack[s]
  <2>1. CASE Returns(t)
    BY <1>n, <1>0, <1>1, <2>1, TopEnds DEF CallOk
  <2>2. CASE Goto(t, "index")
    <3>1. HowFits([top(t) EXCEPT !.pc = "index"])
      BY <1>n, <1>1, MovesOn DEF PCs
    <3>2. /\ stack'[t] # << >> /\ Head(stack'[t]).pc = "index"
          /\ Head(stack'[t]).name = n /\ Head(stack'[t]).how = how
          /\ \A s \in Thread \ {t} : stack'[s] = stack[s]
      BY <1>n, <1>0, <1>1, <2>2, <3>1, TopGoto DEF PCs
    <3> QED BY <1>n, <1>1, <3>2 DEF CallOk, MovedBack
  <2> QED BY <2>1, <2>2 DEF SetReason
<1>5. CallsOk'
  <2> SUFFICES ASSUME NEW s \in Thread, stack'[s] # << >> PROVE CallOk(top(s))'
    BY DEF CallsOk
  <2>1. CASE s = t
    BY <1>4, <2>1 DEF top
  <2>2. CASE s # t
    BY <1>n, <1>1, <1>4, <2>2 DEF BooksInv, CallsOk, CallOk, top, MovedBack
  <2> QED BY <2>1, <2>2
<1>6. ResolvedIsBooked'
  BY <1>n, <1>1 DEF BooksInv, BooksAgree, ResolvedIsBooked, MovedBack
<1>7. FailuresHaveReasons'
  <2> SUFFICES ASSUME NEW m \in failed'
               PROVE  \/ reason'[m] # "none" \/ MovedBack(m)'
                      \/ \E s \in Thread : (At(s, "reason") /\ top(s).name = m)'
    BY DEF FailuresHaveReasons
  <2>1. CASE m = n
    BY <1>3, <2>1
  <2>2. CASE m # n
    <3>1. \A s \in Thread : At(s, "reason") /\ top(s).name = m
              => (At(s, "reason") /\ top(s).name = m)'
      BY <1>n, <1>4, <2>2 DEF At, top
    <3>2. \/ reason[m] # "none" \/ MovedBack(m)
          \/ \E s \in Thread : At(s, "reason") /\ top(s).name = m
      BY <1>n, <1>1 DEF BooksInv, BooksAgree, FailuresHaveReasons
    <3> QED BY <1>n, <1>0, <1>1, <1>3, <2>2, <3>1, <3>2 DEF MovedBack
  <2> QED BY <2>1, <2>2
<1> QED BY <1>5, <1>6, <1>7 DEF BooksAgree

\* Leaving _initializing, and handing the object to the proxy.
LEMMA EndBooks ==
    ASSUME BooksInv, NEW t \in Thread, Index(t) \/ Unmark(t) \/ SetTarget(t)
    PROVE  CallsOk' /\ BooksAgree'
<1>0. StacksOK
  BY DEF BooksInv, IInv
<1>1. /\ stack[t] # << >> /\ ~At(t, "reason")
      /\ UNCHANGED <<lazy, inited, failed, reason, maintained>>
      /\ top(t) \in Frame /\ HowFits(top(t)) /\ CallOk(top(t))
      /\ top(t).pc \in {"index", "unmark", "return"}
  BY <1>0, HeadInStack DEF Index, Unmark, SetTarget, At, BooksInv, CallsOk, top, dictVars
<1>2. CASE (Returns(t) \/ Raises(t)) /\ target' = target
  <2>1. stack'[t] # << >> => CallOk(Head(stack[t]))'
    BY <1>0, <1>1, <1>2, TopEnds DEF CallOk
  <2> QED BY <1>0, <1>1, <1>2, <2>1, TopEnds, BooksStay
<1>3. CASE SetTarget(t)
  <2>1. /\ target' = target \cup {top(t).name} /\ Returns(t)
        /\ top(t).name \notin lazy \/ MovedBack(top(t).name)
    BY <1>1, <1>3 DEF SetTarget, At, top, CallOk
  <2>2. stack'[t] # << >> => CallOk(Head(stack[t]))'
    BY <1>0, <1>1, <2>1, TopEnds DEF CallOk
  <2>3. \A n \in target' \ target : n \notin lazy' \/ MovedBack(n)'
    BY <1>1, <2>1 DEF MovedBack
  <2> QED BY <1>0, <1>1, <2>1, <2>2, <2>3, TopEnds, BooksStay
<1>4. ASSUME NEW f \in GoodFrame, Becomes(t, f), target' = target, f.name = top(t).name,
             f.how = top(t).how, top(t).pc \in {"index", "unmark"},
             f.pc = "return" => f.how # "timeout"
      PROVE  CallsOk' /\ BooksAgree'
  <2>1. /\ stack'[t] # << >> /\ Head(stack'[t]) = f
        /\ \A s \in Thread \ {t} : stack'[s] = stack[s]
    BY <1>0, <1>1, <1>4, TopBecomes
  <2>2. CallOk(Head(stack[t]))'
    BY <1>1, <1>4, <2>1 DEF CallOk, MovedBack
  <2> QED BY <1>1, <1>4, <2>1, <2>2, BooksStay
<1>5. CASE Index(t)
  <2>1. target' = target /\ top(t).pc = "index"
    BY <1>5 DEF Index, At, top
  <2>2. CASE Returns(t) \/ Raises(t)
    BY <1>2, <2>1, <2>2
  <2>3. CASE \E i \in 1 .. Len(initializing) :
                Becomes(t, [top(t) EXCEPT !.pc = "unmark", !.at = i])
    <3>1. PICK i \in 1 .. Len(initializing) :
                Becomes(t, [top(t) EXCEPT !.pc = "unmark", !.at = i])
      BY <2>3
    <3> DEFINE f == [top(t) EXCEPT !.pc = "unmark", !.at = i]
    <3>2. f \in GoodFrame
      BY <1>1, AtPlace DEF BooksInv, IInv, TypeOK
    <3>3. f.name = top(t).name /\ f.how = top(t).how /\ f.pc = "unmark"
      BY <1>1 DEF Frame
    <3> HIDE DEF f
    <3> QED BY <1>4, <2>1, <3>1, <3>2, <3>3 DEF f
  <2> QED BY <1>5, <2>2, <2>3 DEF Index
<1>6. CASE Unmark(t)
  <2>1. target' = target /\ top(t).pc = "unmark"
    BY <1>6 DEF Unmark, At, top
  <2>2. CASE Returns(t) \/ Raises(t)
    BY <1>2, <2>1, <2>2
  <2>3. CASE Succeeds(top(t).how) /\ Becomes(t, [top(t) EXCEPT !.pc = "return", !.at = 0])
    <3> DEFINE f == [top(t) EXCEPT !.pc = "return", !.at = 0]
    <3>1. f \in GoodFrame /\ f.name = top(t).name /\ f.how = top(t).how /\ f.pc = "return"
      BY <1>1 DEF Frame, GoodFrame, HowFits, PCs
    <3>2. f.how # "timeout"
      BY <2>3, <3>1 DEF Succeeds
    <3> HIDE DEF f
    <3> QED BY <1>4, <2>1, <2>3, <3>1, <3>2 DEF f
  <2> QED BY <1>6, <2>2, <2>3 DEF Unmark
<1> QED BY <1>3, <1>5, <1>6

\* In every reachable state a failed name has its reason, or is about to get it,
\* and a proxy that has its object is booked, whoever gives up, retries, builds a
\* name twice or is overtaken between two lines of the bookkeeping.
THEOREM BooksAreKept == Spec => []BooksAgree
<1>1. Init => BooksInv
  <2> SUFFICES ASSUME Init PROVE CallsOk /\ BooksAgree
    BY InitInv DEF BooksInv
  <2> QED BY DEF Init, CallsOk, BooksAgree, FailuresHaveReasons, ResolvedIsBooked
<1>2. BooksInv /\ [Next]_vars => BooksInv'
  <2> SUFFICES ASSUME BooksInv, [Next]_vars PROVE CallsOk' /\ BooksAgree'
    BY NextInv DEF BooksInv
  <2>1. IInv'
    BY NextInv DEF BooksInv
  <2>2. CASE Next
    BY <2>1, <2>2, BuildBooks, MoveBooks, ReasonBooks, EndBooks DEF Next, Step
  <2>3. CASE UNCHANGED vars
    BY <2>3 DEF vars, dictVars, BooksInv, CallsOk, CallOk, BooksAgree, FailuresHaveReasons,
                ResolvedIsBooked, MovedBack, At, top
  <2> QED BY <2>2, <2>3
<1>3. BooksInv => BooksAgree
  BY DEF BooksInv
<1> QED BY <1>1, <1>2, <1>3, PTL DEF Spec

=============================================================================
