------------------------- MODULE ServerTools_proofs -------------------------
(***************************************************************************)
(* What holds of the server tools of every conversation, however many      *)
(* events, attempts and continuations it has.                              *)
(*                                                                         *)
(* The loops of drain and flushDeferred keep what one turn of them keeps   *)
(* (DrainKeeps, FlushKeeps), and TurnCases says what a turn may be.  From  *)
(* this come the types; the order of what is handed on, through lemmas on  *)
(* Paired; that results follow uses, through lemmas on what a request      *)
(* repeats; what usage is still to be told; and that exactly the turns     *)
(* are refused whose events are not well formed, through what the loops    *)
(* leave when they end.                                                    *)
(***************************************************************************)
EXTENDS ServerTools, Induction, SequenceTheorems

-----------------------------------------------------------------------------
(* Sequences *)

\* The elements of a sequence with z between two others.
LEMMA BetweenElements ==
    ASSUME NEW B, NEW f \in Seq(B), NEW z \in B, NEW b \in Seq(B)
    PROVE  /\ f \o <<z>> \o b \in Seq(B)
           /\ Len(f \o <<z>> \o b) = Len(f) + 1 + Len(b)
           /\ \A i \in 1 .. Len(f) : (f \o <<z>> \o b)[i] = f[i]
           /\ (f \o <<z>> \o b)[Len(f) + 1] = z
           /\ \A i \in 1 .. Len(b) : (f \o <<z>> \o b)[Len(f) + 1 + i] = b[i]
<1> DEFINE g == Append(f, z)
<1>1. f \o <<z>> \o b = g \o b
  BY AppendIsConcat
<1>2. g \in Seq(B) /\ Len(g) = Len(f) + 1 /\ g[Len(f) + 1] = z
  OBVIOUS
<1>3. \A i \in 1 .. Len(f) : g[i] = f[i]
  OBVIOUS
<1>4. Len(f) \in Nat /\ Len(b) \in Nat
  OBVIOUS
<1> HIDE DEF g
<1>5. g \o b \in Seq(B) /\ Len(g \o b) = Len(g) + Len(b)
  BY <1>2, ConcatProperties
<1>6. \A i \in 1 .. Len(g) : (g \o b)[i] = g[i]
  BY <1>2, ConcatProperties
<1>7. \A i \in 1 .. Len(b) : (g \o b)[Len(g) + i] = b[i]
  BY <1>2, ConcatProperties
<1> QED
  BY <1>1, <1>2, <1>3, <1>4, <1>5, <1>6, <1>7

\* An element moves from the second of two sequences to the first.
LEMMA AppendConcat ==
    ASSUME NEW B, NEW s \in Seq(B), NEW z \in B, NEW t \in Seq(B)
    PROVE  Append(s, z) \o t = s \o (<<z>> \o t)
<1> DEFINE y == <<z>>
<1>1. y \in Seq(B) /\ Append(s, z) = s \o y
  BY AppendIsConcat
<1> HIDE DEF y
<1>2. (s \o y) \o t = s \o (y \o t)
  BY <1>1, ConcatAssociative
<1> QED
  BY <1>1, <1>2 DEF y

\* An element of what is handed on moves from the second part to the first.
LEMMA EmittedConcat ==
    \A s, t \in Seq(Emitted), z \in Emitted : Append(s, z) \o t = s \o (<<z>> \o t)
  BY AppendConcat

-----------------------------------------------------------------------------
(* The loops of drain and flush *)

\* A state of the two loops.
Draining == [pairing : Pairing, out : Seq(Emitted), ok : BOOLEAN]

\* Any number of turns of the loop of drain.
Turns(s, d) == FoldLeft(LAMBDA x, e : DrainOnce(x), s, d)

turning(G) == [x \in G \X Kept |-> DrainOnce(x[1])]

\* Any number of turns is a fold, as the induction over sequences needs it.
LEMMA TurnsIsFolded ==
    ASSUME NEW G, NEW s \in G, NEW d \in Seq(Kept), \A x \in G : DrainOnce(x) \in G
    PROVE  Turns(s, d) = FoldedBy(turning(G), s, d)
<1> DEFINE F(g) == [t \in SUBSET (DOMAIN d) |->
                        IF t = {} THEN s ELSE DrainOnce(g[t \ {Max(t)}])]
<1>1. StepOn(turning(G), G, Kept)
  BY DEF StepOn, turning
<1>2. PICK h : Folding(h, G, Kept, turning(G), s, d)
  BY <1>1, FoldedByFunction
<1>3. h = F(h)
  <2>1. ASSUME NEW t \in SUBSET (DOMAIN d), t # {} PROVE h[t] = DrainOnce(h[t \ {Max(t)}])
    BY <1>2, <2>1 DEF Folding, turning
  <2> QED
    BY <1>2, <2>1 DEF Folding
<1>4. Turns(s, d) = (CHOOSE g : g = F(g))[DOMAIN d]
  BY DEF Turns, FoldLeft, MapThenFoldSet
<1>5. PICK g : g = F(g) /\ Turns(s, d) = g[DOMAIN d]
  <2> HIDE DEF F
  <2> QED
    BY <1>3, <1>4
<1>6. Unfolding(g, G, Kept, turning(G), s, d)
  BY <1>5 DEF Unfolding, turning
<1>7. s \in G /\ d \in Seq(Kept)
  OBVIOUS
<1> HIDE DEF F
<1> QED
  BY <1>1, <1>5, <1>6, <1>7, FoldedByUnfolding

\* drain keeps what a turn of its loop keeps.
LEMMA DrainKeeps ==
    ASSUME NEW G, NEW p, NEW o, p.deferred \in Seq(Kept), Step(p, o) \in G,
           \A s \in G : DrainOnce(s) \in G
    PROVE  Drain(p, o) \in G
<1>1. Drain(p, o) = Turns(Step(p, o), p.deferred)
  BY DEF Drain, Turns
<1>2. StepOn(turning(G), G, Kept)
  BY DEF StepOn, turning
<1> QED
  BY <1>1, <1>2, TurnsIsFolded, FoldedByType

\* The loop of flushDeferred over the events of d.
Flushes(s, d) == FoldLeft(FlushOne, s, d)

flushing(G) == [x \in G \X Kept |-> FlushOne(x[1], x[2])]

\* It is a fold, as the induction over sequences needs it.
LEMMA FlushesIsFolded ==
    ASSUME NEW G, NEW s \in G, NEW d \in Seq(Kept), \A x \in G, e \in Kept : FlushOne(x, e) \in G
    PROVE  Flushes(s, d) = FoldedBy(flushing(G), s, d)
<1> DEFINE F(g) == [t \in SUBSET (DOMAIN d) |->
                        IF t = {} THEN s ELSE FlushOne(g[t \ {Max(t)}], d[Max(t)])]
<1>1. StepOn(flushing(G), G, Kept)
  BY DEF StepOn, flushing
<1>2. PICK h : Folding(h, G, Kept, flushing(G), s, d)
  BY <1>1, FoldedByFunction
<1>3. h = F(h)
  <2>1. ASSUME NEW t \in SUBSET (DOMAIN d), t # {}
        PROVE  h[t] = FlushOne(h[t \ {Max(t)}], d[Max(t)])
    BY <1>2, <2>1 DEF Folding, flushing
  <2> QED
    BY <1>2, <2>1 DEF Folding
<1>4. Flushes(s, d) = (CHOOSE g : g = F(g))[DOMAIN d]
  BY DEF Flushes, FoldLeft, MapThenFoldSet
<1>5. PICK g : g = F(g) /\ Flushes(s, d) = g[DOMAIN d]
  <2> HIDE DEF F
  <2> QED
    BY <1>3, <1>4
<1>6. Unfolding(g, G, Kept, flushing(G), s, d)
  BY <1>5 DEF Unfolding, flushing
<1>7. s \in G /\ d \in Seq(Kept)
  OBVIOUS
<1> HIDE DEF F
<1> QED
  BY <1>1, <1>5, <1>6, <1>7, FoldedByUnfolding

\* flushDeferred keeps what handing one event on keeps.
LEMMA FlushKeeps ==
    ASSUME NEW G, NEW p, NEW o, NEW d \in Seq(Kept), p.deferred = d,
           Step([p EXCEPT !.deferred = <<>>], o) \in G,
           \A s \in G, e \in Kept : FlushOne(s, e) \in G
    PROVE  Flush(p, o) \in G
<1> DEFINE s == Step([p EXCEPT !.deferred = <<>>], o)
<1>1. Flush(p, o) = Flushes(s, d)
  BY DEF Flush, Flushes
<1>2. StepOn(flushing(G), G, Kept) /\ s \in G
  BY DEF StepOn, flushing
<1> HIDE DEF s
<1>3. Flushes(s, d) = FoldedBy(flushing(G), s, d)
  BY <1>2, FlushesIsFolded
<1>4. FoldedBy(flushing(G), s, d) \in G
  BY <1>2, FoldedByType
<1> QED
  BY <1>1, <1>3, <1>4

-----------------------------------------------------------------------------
(* A turn of the loop of drain *)

\* s with p.deferred = d and the ids in x expected.
Waiting(p, x, d) == [expected |-> x, deferred |-> d, seen |-> p.seen, client |-> p.client]

\* What an update of a pairing gives.
LEMMA WaitingIs ==
    ASSUME NEW p \in Pairing, NEW d, NEW x
    PROVE  /\ [p EXCEPT !.deferred = d] = Waiting(p, p.expected, d)
           /\ [[p EXCEPT !.deferred = x] EXCEPT !.deferred = d] = Waiting(p, p.expected, d)
<1>1. [p EXCEPT !.deferred = d] = Waiting(p, p.expected, d)
  BY DEF Waiting, Pairing
<1>2. [p EXCEPT !.deferred = x] = Waiting(p, p.expected, x)
  BY DEF Waiting, Pairing
<1>3. [Waiting(p, p.expected, x) EXCEPT !.deferred = d] = Waiting(p, p.expected, d)
  BY DEF Waiting
<1> QED
  BY <1>1, <1>2, <1>3, Zenon

\* What becomes of a result.
LEMMA EmitResultIs ==
    ASSUME NEW p, NEW x, NEW d, NEW o, NEW e
    PROVE  /\ e.id \in x => EmitResult(Waiting(p, x, d), o, e) =
                                  Step(Waiting(p, x \ {e.id}, d), Append(o, e))
           /\ e.id \notin x => EmitResult(Waiting(p, x, d), o, e) =
                                     Refusal(Waiting(p, x, d), o)
  BY DEF EmitResult, Waiting

\* The first event goes on as it is.
PassesFirst(s, r, e, t) ==
    /\ e.kind \in {"text", "call"}
    /\ r = Step(Waiting(s.pairing, s.pairing.expected, t), Append(s.out, e))

\* The first event is a result that is expected.
AnswersFirst(s, r, e, t) ==
    /\ e.kind = "result" /\ e.id \in s.pairing.expected
    /\ r = Step(Waiting(s.pairing, s.pairing.expected \ {e.id}, t), Append(s.out, e))

\* It is one that is not.
RefusesFirst(s, r, e, t) ==
    /\ e.kind = "result" /\ e.id \notin s.pairing.expected
    /\ r = Refusal(Waiting(s.pairing, s.pairing.expected, t), s.out)

\* It is a use without a result.
KeepsFirst(s, r, e, t) ==
    /\ e.kind = "use" /\ ~Has(t, Result(e.id))
    /\ r = s

\* It is a use whose first result comes after f and before b.
JoinsFirst(s, r, e, t) ==
    /\ e.kind = "use"
    /\ \E f, b \in Seq(Kept) :
           /\ t = f \o <<Result(e.id)>> \o b
           /\ ~Has(f, Result(e.id))
           /\ r = Step(Waiting(s.pairing, s.pairing.expected, f \o b), Append(s.out, PairOf(e.id)))

Turn(s, r, e, t) ==
    \/ PassesFirst(s, r, e, t) \/ AnswersFirst(s, r, e, t) \/ RefusesFirst(s, r, e, t)
    \/ KeepsFirst(s, r, e, t) \/ JoinsFirst(s, r, e, t)

\* Where something is deferred a turn is one of these.
LEMMA TurnCases ==
    ASSUME NEW s \in Draining, s.ok, s.pairing.deferred # <<>>
    PROVE  \E e \in Kept, t \in Seq(Kept) :
               s.pairing.deferred = <<e>> \o t /\ Turn(s, DrainOnce(s), e, t)
<1> DEFINE p == s.pairing
           d == p.deferred
           e == d[1]
           t == Tail(d)
           rest == [p EXCEPT !.deferred = Tail(d)]
           results == ResultsOfFirst(d)
           at == CHOOSE i \in results : \A j \in results : i <= j
           r == DrainOnce(s)
<1>1. p \in Pairing /\ d \in Seq(Kept) /\ s.out \in Seq(Emitted) /\ d # <<>>
  BY DEF Draining, Pairing
<1>2. e \in Kept /\ t \in Seq(Kept) /\ d = <<e>> \o t
  BY <1>1
<1>3. rest = Waiting(p, p.expected, t)
  BY <1>1, WaitingIs
<1>4. e.kind \in {"text", "call", "use", "result"} /\ e.id \in Id \cup {NoId}
  BY <1>2 DEF Kept, Text, Call
<1>5. CASE e.kind \in {"text", "call"}
  <2>1. r = Step(rest, Append(s.out, e))
    BY <1>1, <1>5 DEF DrainOnce
  <2>2. PassesFirst(s, r, e, t)
    BY <1>3, <1>5, <2>1 DEF PassesFirst
  <2> HIDE DEF e, t, r
  <2> QED
    BY <1>2, <2>2 DEF Turn, r
<1>6. CASE e.kind = "result"
  <2>1. r = EmitResult(rest, s.out, e)
    BY <1>1, <1>6 DEF DrainOnce
  <2>2. r = EmitResult(Waiting(p, p.expected, t), s.out, e)
    BY <1>3, <2>1
  <2> HIDE DEF r, rest, t, e
  <2>3. CASE e.id \in p.expected
    <3>1. r = Step(Waiting(p, p.expected \ {e.id}, t), Append(s.out, e))
      BY <2>2, <2>3, EmitResultIs
    <3>2. AnswersFirst(s, r, e, t)
      BY <1>6, <2>3, <3>1 DEF AnswersFirst
    <3> QED
      BY <1>2, <3>2 DEF Turn, r
  <2>4. CASE e.id \notin p.expected
    <3>1. r = Refusal(Waiting(p, p.expected, t), s.out)
      BY <2>2, <2>4 DEF EmitResult, Waiting
    <3>2. RefusesFirst(s, r, e, t)
      BY <1>6, <2>4, <3>1 DEF RefusesFirst
    <3> QED
      BY <1>2, <3>2 DEF Turn, r
  <2> QED
    BY <2>3, <2>4
<1>7. CASE e.kind = "use" /\ results = {}
  <2>1. r = s
    BY <1>1, <1>7 DEF DrainOnce
  <2>2. ASSUME NEW i \in 1 .. Len(t), t[i] = Result(e.id) PROVE FALSE
    <3>1. i + 1 \in 2 .. Len(d) /\ d[i + 1] = t[i]
      BY <1>1
    <3> QED
      BY <1>7, <2>2, <3>1 DEF ResultsOfFirst
  <2>3. KeepsFirst(s, r, e, t)
    BY <1>7, <2>1, <2>2 DEF KeepsFirst, Has
  <2> HIDE DEF e, t, r
  <2> QED
    BY <1>2, <2>3 DEF Turn, r
<1>8. CASE e.kind = "use" /\ results # {}
  <2> DEFINE f == SubSeq(d, 2, at - 1)
             b == SubSeq(d, at + 1, Len(d))
  <2>1. results \in SUBSET Nat
    BY DEF ResultsOfFirst
  <2>2. at \in results /\ \A j \in results : at <= j
    <3> HIDE DEF results
    <3> QED
      BY <1>8, <2>1, LeastOfNaturals
  <2>3. at \in 2 .. Len(d) /\ d[at] = Result(e.id)
    BY <2>2 DEF ResultsOfFirst
  <2>4. r = Step([rest EXCEPT !.deferred = f \o b], Append(s.out, PairOf(e.id)))
    BY <1>1, <1>8 DEF DrainOnce
  <2> HIDE DEF at, results
  <2>5. /\ f \in Seq(Kept) /\ b \in Seq(Kept) /\ Len(f) = at - 2 /\ Len(b) = Len(d) - at
        /\ \A i \in 1 .. at - 2 : f[i] = d[i + 1]
        /\ \A i \in 1 .. Len(d) - at : b[i] = d[i + at]
    BY <1>1, <2>3
  <2>6. ~Has(f, Result(e.id))
    <3>1. ASSUME NEW i \in 1 .. Len(f), f[i] = Result(e.id) PROVE FALSE
      <4>1. i \in 1 .. at - 2 /\ d[i + 1] = Result(e.id) /\ i + 1 < at
        BY <2>3, <2>5, <3>1
      <4>2. i + 1 \in results
        BY <1>1, <2>3, <4>1 DEF results, ResultsOfFirst
      <4> QED
        BY <2>2, <2>3, <4>1, <4>2
    <3> QED
      BY <3>1 DEF Has
  <2>7. t = f \o <<Result(e.id)>> \o b
    <3> DEFINE z == Result(e.id)
               u == f \o <<z>> \o b
    <3>1. z = d[at] /\ z \in Kept
      BY <1>1, <2>3
    <3> HIDE DEF z, f, b, e
    <3>2. Len(t) = Len(d) - 1 /\ \A i \in 1 .. Len(t) : t[i] = d[i + 1]
      BY <1>1
    <3>7. f \in Seq(Kept) /\ b \in Seq(Kept) /\ z \in Kept
      BY <2>5, <3>1
    <3>3. /\ u \in Seq(Kept) /\ Len(u) = Len(f) + 1 + Len(b)
          /\ \A i \in 1 .. Len(f) : u[i] = f[i]
          /\ u[Len(f) + 1] = z
          /\ \A i \in 1 .. Len(b) : u[Len(f) + 1 + i] = b[i]
      BY <3>7, BetweenElements
    <3> HIDE DEF u
    <3>4. ASSUME NEW i \in 1 .. Len(d) - 1 PROVE u[i] = d[i + 1]
      <4>0. i \in Int /\ at \in Int /\ 1 <= i /\ Len(f) = at - 2
        BY <2>3, <2>5
      <4>1. CASE i < at - 1
        <5>1. i \in 1 .. at - 2 /\ i \in 1 .. Len(f)
          <6> HIDE DEF d, t
          <6> QED
            BY <4>0, <4>1
        <5> HIDE DEF d, t
        <5> QED
          BY <2>5, <3>3, <5>1
      <4>2. CASE i = at - 1
        <5>1. i = Len(f) + 1 /\ i + 1 = at
          <6> HIDE DEF d, t
          <6> QED
            BY <4>0, <4>2
        <5> HIDE DEF d, t
        <5> QED
          BY <3>1, <3>3, <5>1
      <4>3. CASE i > at - 1
        <5>1. i - (at - 1) \in 1 .. Len(b) /\ i = Len(f) + 1 + (i - (at - 1))
          <6>1. Len(d) \in Nat /\ Len(f) = at - 2 /\ Len(b) = Len(d) - at /\ at \in 2 .. Len(d)
            BY <1>1, <2>3, <2>5
          <6>2. i \in 1 .. Len(d) - 1
            OBVIOUS
          <6> HIDE DEF d, t
          <6> QED
            BY <4>3, <6>1, <6>2
        <5>2. u[i] = b[i - (at - 1)]
          BY <3>3, <5>1
        <5>3. b[i - (at - 1)] = d[i - (at - 1) + at]
          BY <2>5, <5>1
        <5>4. i - (at - 1) + at = i + 1
          BY <2>3
        <5> QED
          BY <5>2, <5>3, <5>4
      <4>4. at \in Int
        BY <2>3
      <4> QED
        BY <4>1, <4>2, <4>3, <4>4
    <3>6. Len(u) = Len(d) - 1
      BY <1>1, <2>3, <2>5, <3>3
    <3> HIDE DEF t, u
    <3>5. t = u
      BY <1>2, <3>2, <3>3, <3>4, <3>6, SeqEqual
    <3> QED
      BY <3>5 DEF u, z
  <2>8. [[p EXCEPT !.deferred = t] EXCEPT !.deferred = f \o b] = Waiting(p, p.expected, f \o b)
    <3> DEFINE v == f \o b
    <3>1. t \in Seq(Kept) /\ v \in Seq(Kept) /\ p \in Pairing
      BY <1>1, <2>3, <2>5
    <3> HIDE DEF p, t, e, f, b, v
    <3>2. [[p EXCEPT !.deferred = t] EXCEPT !.deferred = v] = Waiting(p, p.expected, v)
      BY <3>1, WaitingIs
    <3> QED
      BY <3>2 DEF v
  <2> HIDE DEF f, b, e, t, r
  <2>9. JoinsFirst(s, r, e, t)
    <3>1. r = Step(Waiting(s.pairing, s.pairing.expected, f \o b), Append(s.out, PairOf(e.id)))
      BY <2>4, <2>8 DEF p
    <3>2. e.kind = "use" /\ f \in Seq(Kept) /\ b \in Seq(Kept)
      BY <1>8, <2>5
    <3> HIDE DEF p, d, rest
    <3> QED
      BY <2>6, <2>7, <3>1, <3>2 DEF JoinsFirst
  <2> QED
    BY <1>2, <2>9 DEF Turn, r
<1> QED
  BY <1>4, <1>5, <1>6, <1>7, <1>8

-----------------------------------------------------------------------------
(* Has and Before *)

\* An element occurs in a concatenation where it occurs in a part.
LEMMA HasConcat ==
    ASSUME NEW B, NEW s \in Seq(B), NEW t \in Seq(B), NEW x
    PROVE  Has(s \o t, x) <=> Has(s, x) \/ Has(t, x)
<1> DEFINE u == s \o t
<1>1. /\ u \in Seq(B) /\ Len(u) = Len(s) + Len(t)
      /\ \A i \in 1 .. Len(s) : u[i] = s[i]
      /\ \A i \in 1 .. Len(t) : u[Len(s) + i] = t[i]
      /\ Len(s) \in Nat /\ Len(t) \in Nat
  OBVIOUS
<1> HIDE DEF u
<1>2. ASSUME NEW i \in 1 .. Len(u), u[i] = x PROVE Has(s, x) \/ Has(t, x)
  <2>1. CASE i <= Len(s)
    BY <1>1, <1>2, <2>1 DEF Has
  <2>2. CASE i > Len(s)
    <3>1. i - Len(s) \in 1 .. Len(t) /\ i = Len(s) + (i - Len(s))
      BY <1>1, <2>2
    <3>2. t[i - Len(s)] = x
      BY <1>1, <1>2, <3>1
    <3> QED
      BY <3>1, <3>2 DEF Has
  <2> QED
    BY <1>1, <2>1, <2>2
<1>3. ASSUME NEW i \in 1 .. Len(s), s[i] = x PROVE Has(u, x)
  BY <1>1, <1>3 DEF Has
<1>4. ASSUME NEW i \in 1 .. Len(t), t[i] = x PROVE Has(u, x)
  <2>1. Len(s) + i \in 1 .. Len(u) /\ u[Len(s) + i] = x
    BY <1>1, <1>4
  <2> QED
    BY <2>1 DEF Has
<1>5. Has(u, x) <=> Has(s, x) \/ Has(t, x)
  BY <1>2, <1>3, <1>4 DEF Has
<1> QED
  BY <1>5 DEF u

\* Two elements are in this order in a concatenation when they are in a part,
\* or when the first occurs in the first part and the second in the second.
LEMMA BeforeConcat ==
    ASSUME NEW B, NEW s \in Seq(B), NEW t \in Seq(B), NEW x, NEW y
    PROVE  Before(s \o t, x, y) <=>
               Before(s, x, y) \/ Before(t, x, y) \/ (Has(s, x) /\ Has(t, y))
<1> DEFINE u == s \o t
<1>1. /\ u \in Seq(B) /\ Len(u) = Len(s) + Len(t)
      /\ \A i \in 1 .. Len(s) : u[i] = s[i]
      /\ \A i \in 1 .. Len(t) : u[Len(s) + i] = t[i]
      /\ Len(s) \in Nat /\ Len(t) \in Nat
  OBVIOUS
<1> HIDE DEF u
<1>2. ASSUME NEW i \in 1 .. Len(u), i > Len(s)
      PROVE  /\ i - Len(s) \in 1 .. Len(t)
             /\ t[i - Len(s)] = u[i]
  <2> DEFINE m == Len(s)
             n == Len(t)
  <2>1. m \in Nat /\ n \in Nat /\ i \in 1 .. m + n /\ i > m
    BY <1>1, <1>2
  <2> HIDE DEF m, n
  <2>2. i - m \in 1 .. n /\ i = m + (i - m)
    BY <2>1
  <2>3. i - Len(s) \in 1 .. Len(t) /\ i = Len(s) + (i - Len(s))
    BY <2>2 DEF m, n
  <2> QED
    BY <1>1, <2>3
<1>3. ASSUME NEW i \in 1 .. Len(u), NEW j \in 1 .. Len(u), i < j, u[i] = x, u[j] = y
      PROVE  Before(s, x, y) \/ Before(t, x, y) \/ (Has(s, x) /\ Has(t, y))
  <2>1. CASE j <= Len(s)
    <3>1. i \in 1 .. Len(s) /\ j \in 1 .. Len(s)
      BY <1>1, <1>3, <2>1
    <3>2. s[i] = x /\ s[j] = y
      BY <1>1, <1>3, <3>1
    <3> QED
      BY <1>3, <3>1, <3>2 DEF Before
  <2>2. CASE i <= Len(s) /\ j > Len(s)
    <3>1. i \in 1 .. Len(s) /\ s[i] = x
      BY <1>1, <1>3, <2>2
    <3> QED
      BY <1>2, <1>3, <2>2, <3>1 DEF Has
  <2>3. CASE i > Len(s)
    <3>1. j > Len(s)
      BY <1>1, <1>3, <2>3
    <3>2. i - Len(s) < j - Len(s)
      BY <1>1, <1>3
    <3> QED
      BY <1>2, <1>3, <2>3, <3>1, <3>2 DEF Before
  <2> QED
    BY <1>1, <2>1, <2>2, <2>3
<1>4. ASSUME NEW i \in 1 .. Len(t)
      PROVE  Len(s) + i \in 1 .. Len(u) /\ u[Len(s) + i] = t[i]
  BY <1>1
<1>5. ASSUME NEW i \in 1 .. Len(s)
      PROVE  i \in 1 .. Len(u) /\ u[i] = s[i]
  BY <1>1
<1>6. Before(s, x, y) => Before(u, x, y)
  BY <1>5 DEF Before
<1>7. Before(t, x, y) => Before(u, x, y)
  <2>1. SUFFICES ASSUME NEW i \in 1 .. Len(t), NEW j \in 1 .. Len(t), i < j, t[i] = x, t[j] = y
                 PROVE  Before(u, x, y)
    BY DEF Before
  <2>2. Len(s) + i < Len(s) + j
    BY <1>1, <2>1
  <2> QED
    BY <1>4, <2>1, <2>2 DEF Before
<1>8. ASSUME NEW i \in 1 .. Len(s), NEW j \in 1 .. Len(t), s[i] = x, t[j] = y
      PROVE  Before(u, x, y)
  <2>1. i < Len(s) + j
    BY <1>1
  <2> QED
    BY <1>4, <1>5, <1>8, <2>1 DEF Before
<1>9. Before(u, x, y) <=> Before(s, x, y) \/ Before(t, x, y) \/ (Has(s, x) /\ Has(t, y))
  <2>1. Has(s, x) /\ Has(t, y) => Before(u, x, y)
    BY <1>8 DEF Has
  <2>2. Before(u, x, y) => Before(s, x, y) \/ Before(t, x, y) \/ (Has(s, x) /\ Has(t, y))
    BY <1>3 DEF Before
  <2> QED
    BY <1>6, <1>7, <2>1, <2>2
<1> QED
  BY <1>9 DEF u

\* In a sequence of one element nothing is before anything.
LEMMA HasSingle ==
    ASSUME NEW z, NEW x, NEW y
    PROVE  /\ Has(<<z>>, x) <=> x = z
           /\ ~Before(<<z>>, x, y)
           /\ ~Has(<<>>, x)
           /\ ~Before(<<>>, x, y)
<1>1. Len(<<z>>) = 1 /\ <<z>>[1] = z /\ Len(<<>>) = 0
  OBVIOUS
<1> QED
  BY <1>1 DEF Has, Before

\* One element more at the end.
LEMMA HasAppend ==
    ASSUME NEW B, NEW s \in Seq(B), NEW z \in B, NEW x
    PROVE  Has(Append(s, z), x) <=> x = z \/ Has(s, x)
<1> DEFINE y == <<z>>
<1>1. y \in Seq(B)
  OBVIOUS
<1>2. Has(y, x) <=> x = z
  BY HasSingle
<1>3. Append(s, z) = s \o y
  BY AppendIsConcat
<1> HIDE DEF y
<1> QED
  BY <1>1, <1>2, <1>3, HasConcat

\* A last element has before it whatever the sequence has.
LEMMA BeforeAppend ==
    ASSUME NEW B, NEW s \in Seq(B), NEW z \in B, NEW x, NEW y
    PROVE  Before(Append(s, z), x, y) <=> Before(s, x, y) \/ (Has(s, x) /\ y = z)
<1> DEFINE w == <<z>>
<1>1. w \in Seq(B)
  OBVIOUS
<1>2. (Has(w, y) <=> y = z) /\ ~Before(w, x, y)
  BY HasSingle
<1>3. Append(s, z) = s \o w
  BY AppendIsConcat
<1> HIDE DEF w
<1> QED
  BY <1>1, <1>2, <1>3, BeforeConcat

\* One element more at the front.
LEMMA HasCons ==
    ASSUME NEW B, NEW z \in B, NEW t \in Seq(B), NEW x
    PROVE  Has(<<z>> \o t, x) <=> x = z \/ Has(t, x)
<1> DEFINE y == <<z>>
<1>1. y \in Seq(B)
  OBVIOUS
<1>2. Has(y, x) <=> x = z
  BY HasSingle
<1> HIDE DEF y
<1>3. Has(y \o t, x) <=> x = z \/ Has(t, x)
  BY <1>1, <1>2, HasConcat
<1> QED
  BY <1>3 DEF y

\* A first element is before whatever the sequence has.
LEMMA BeforeCons ==
    ASSUME NEW B, NEW z \in B, NEW t \in Seq(B), NEW x, NEW y
    PROVE  Before(<<z>> \o t, x, y) <=> Before(t, x, y) \/ (x = z /\ Has(t, y))
<1> DEFINE w == <<z>>
<1>1. w \in Seq(B)
  OBVIOUS
<1>2. (Has(w, x) <=> x = z) /\ ~Before(w, x, y)
  BY HasSingle
<1> HIDE DEF w
<1>3. Before(w \o t, x, y) <=> Before(t, x, y) \/ (x = z /\ Has(t, y))
  BY <1>1, <1>2, BeforeConcat
<1> QED
  BY <1>3 DEF w

\* One element between two sequences.
LEMMA HasBetween ==
    ASSUME NEW B, NEW s \in Seq(B), NEW z \in B, NEW t \in Seq(B), NEW x
    PROVE  Has(s \o <<z>> \o t, x) <=> x = z \/ Has(s, x) \/ Has(t, x)
<1>1. s \o <<z>> = Append(s, z)
  BY AppendIsConcat
<1>2. Append(s, z) \in Seq(B)
  OBVIOUS
<1>3. Has(Append(s, z) \o t, x) <=> Has(Append(s, z), x) \/ Has(t, x)
  BY <1>2, HasConcat
<1>4. Has(Append(s, z), x) <=> x = z \/ Has(s, x)
  BY HasAppend
<1> QED
  BY <1>1, <1>3, <1>4

\* The order around an element between two sequences.
LEMMA BeforeBetween ==
    ASSUME NEW B, NEW s \in Seq(B), NEW z \in B, NEW t \in Seq(B), NEW x, NEW y
    PROVE  Before(s \o <<z>> \o t, x, y) <=>
               \/ Before(s, x, y) \/ Before(t, x, y) \/ (Has(s, x) /\ Has(t, y))
               \/ (Has(s, x) /\ y = z)
               \/ (x = z /\ Has(t, y))
<1>1. s \o <<z>> = Append(s, z)
  BY AppendIsConcat
<1>2. Append(s, z) \in Seq(B)
  OBVIOUS
<1>3. Before(Append(s, z) \o t, x, y) <=>
          Before(Append(s, z), x, y) \/ Before(t, x, y) \/ (Has(Append(s, z), x) /\ Has(t, y))
  BY <1>2, BeforeConcat
<1>4. Has(Append(s, z), x) <=> x = z \/ Has(s, x)
  BY HasAppend
<1>5. Before(Append(s, z), x, y) <=> Before(s, x, y) \/ (Has(s, x) /\ y = z)
  BY BeforeAppend
<1> QED
  BY <1>1, <1>3, <1>4, <1>5

-----------------------------------------------------------------------------
(* What joining uses and results makes of a sequence *)

\* What is kept of the stream may be handed on as it is.
LEMMA KeptIsEmitted == Kept \subseteq Emitted
  BY DEF Emitted

\* The place of a use goes to its pair.
InPlace(o, id) == [i \in 1 .. Len(o) |-> IF o[i] = Use(id) THEN PairOf(id) ELSE o[i]]

\* Joining an event gives events to hand on.
LEMMA JoinedType ==
    ASSUME NEW o \in Seq(Emitted), NEW e \in Kept
    PROVE  Joined(o, e) \in Seq(Emitted)
<1>1. CASE e.kind = "result" /\ Has(o, Use(e.id))
  <2>1. e.id \in Id
    BY <1>1 DEF Kept, Text, Call
  <2>2. PairOf(e.id) \in Emitted
    BY <2>1 DEF PairOf, Emitted
  <2>3. Len(o) \in Nat /\ \A i \in 1 .. Len(o) : o[i] \in Emitted
    OBVIOUS
  <2>4. \A i \in 1 .. Len(o) : (IF o[i] = Use(e.id) THEN PairOf(e.id) ELSE o[i]) \in Emitted
    BY <2>2, <2>3
  <2>5. InPlace(o, e.id) \in Seq(Emitted)
    BY <2>3, <2>4, IsASeq DEF InPlace
  <2> QED
    BY <1>1, <2>5 DEF Joined, InPlace
<1>2. CASE ~(e.kind = "result" /\ Has(o, Use(e.id)))
  <2>1. Joined(o, e) = Append(o, e)
    BY <1>2 DEF Joined
  <2> QED
    BY <2>1, KeptIsEmitted
<1> QED
  BY <1>1, <1>2

joining == [x \in Seq(Emitted) \X Kept |-> Joined(x[1], x[2])]

\* Joining event by event is a fold, as the induction over sequences needs it.
LEMMA PairedIsFolded ==
    ASSUME NEW s \in Seq(Kept)
    PROVE  Paired(s) = FoldedBy(joining, <<>>, s)
<1> DEFINE A == Seq(Emitted)
           base == <<>>
           F(g) == [t \in SUBSET (DOMAIN s) |->
                        IF t = {} THEN base ELSE Joined(g[t \ {Max(t)}], s[Max(t)])]
<1>1. StepOn(joining, A, Kept) /\ base \in A
  BY JoinedType DEF StepOn, joining
<1>2. Paired(s) = (CHOOSE g : g = F(g))[DOMAIN s]
  BY DEF Paired, FoldLeft, MapThenFoldSet
<1>3. \A x \in A, e \in Kept : joining[<<x, e>>] = Joined(x, e)
  BY DEF joining
<1> HIDE DEF A, base
<1>4. PICK h : Folding(h, A, Kept, joining, base, s)
  BY <1>1, FoldedByFunction
<1>5. h = F(h)
  <2>1. ASSUME NEW t \in SUBSET (DOMAIN s), t # {}
        PROVE  h[t] = Joined(h[t \ {Max(t)}], s[Max(t)])
    BY <1>3, <1>4, <2>1 DEF Folding
  <2> QED
    BY <1>4, <2>1 DEF Folding
<1>6. PICK g : g = F(g) /\ Paired(s) = g[DOMAIN s]
  <2> HIDE DEF F
  <2> QED
    BY <1>2, <1>5
<1>7. Unfolding(g, A, Kept, joining, base, s)
  BY <1>3, <1>6 DEF Unfolding
<1>8. Paired(s) = FoldedBy(joining, base, s)
  <2> HIDE DEF F
  <2> QED
    BY <1>1, <1>6, <1>7, FoldedByUnfolding
<1> QED
  BY <1>8 DEF base

\* Paired, an event at a time.
LEMMA PairedAppend ==
    ASSUME NEW s \in Seq(Kept), NEW e \in Kept
    PROVE  /\ Paired(<<>>) = <<>>
           /\ Paired(s) \in Seq(Emitted)
           /\ Paired(Append(s, e)) = Joined(Paired(s), e)
<1> DEFINE A == Seq(Emitted)
           z == <<>>
<1>1. StepOn(joining, A, Kept) /\ z \in A /\ z \in Seq(Kept) /\ Append(s, e) \in Seq(Kept)
  BY JoinedType DEF StepOn, joining
<1>2. /\ Paired(z) = FoldedBy(joining, z, z) /\ Paired(s) = FoldedBy(joining, z, s)
      /\ Paired(Append(s, e)) = FoldedBy(joining, z, Append(s, e))
  BY <1>1, PairedIsFolded
<1>3. \A x \in A : joining[<<x, e>>] = Joined(x, e)
  BY DEF joining
<1> HIDE DEF A, z
<1>4. /\ FoldedBy(joining, z, <<>>) = z
      /\ FoldedBy(joining, z, s) \in A
      /\ FoldedBy(joining, z, Append(s, e)) = joining[<<FoldedBy(joining, z, s), e>>]
  BY <1>1, FoldedByAppend
<1> QED
  BY <1>2, <1>3, <1>4 DEF A, z

\* Nothing joined is nothing.
LEMMA PairedEmpty == Paired(<<>>) = <<>>
<1>1. Text \in Kept
  BY DEF Kept
<1> DEFINE n == <<>>
<1>2. n \in Seq(Kept)
  OBVIOUS
<1> HIDE DEF n
<1>3. Paired(<<>>) = <<>>
  BY <1>1, <1>2, PairedAppend
<1> QED
  BY <1>3

\* Events before which no use is open for e stay as they are.
LEMMA JoinedConcat ==
    ASSUME NEW o \in Seq(Emitted), NEW r \in Seq(Emitted), NEW e \in Kept,
           e.kind = "result" => ~Has(o, Use(e.id))
    PROVE  Joined(o \o r, e) = o \o Joined(r, e)
<1>1. Has(o \o r, Use(e.id)) <=> Has(o, Use(e.id)) \/ Has(r, Use(e.id))
  BY HasConcat
<1>2. CASE e.kind = "result" /\ Has(r, Use(e.id))
  <2> DEFINE u == o \o r
             v == InPlace(r, e.id)
             w == o \o v
  <2>1. Joined(u, e) = InPlace(u, e.id) /\ Joined(r, e) = v
    BY <1>1, <1>2 DEF Joined, InPlace
  <2>2. v \in Seq(Emitted) /\ Len(v) = Len(r)
    BY <2>1, JoinedType DEF InPlace
  <2>3. /\ u \in Seq(Emitted) /\ Len(u) = Len(o) + Len(r)
        /\ \A i \in 1 .. Len(o) : u[i] = o[i]
        /\ \A i \in 1 .. Len(r) : u[Len(o) + i] = r[i]
        /\ Len(o) \in Nat /\ Len(r) \in Nat
    OBVIOUS
  <2>4. \A i \in 1 .. Len(r) : v[i] = IF r[i] = Use(e.id) THEN PairOf(e.id) ELSE r[i]
    BY DEF InPlace
  <2> HIDE DEF v
  <2>5. /\ w \in Seq(Emitted) /\ Len(w) = Len(o) + Len(r)
        /\ \A i \in 1 .. Len(o) : w[i] = o[i]
        /\ \A i \in 1 .. Len(r) : w[Len(o) + i] = v[i]
    BY <2>2
  <2> HIDE DEF u, w
  <2>6. \A i \in 1 .. Len(o) : o[i] # Use(e.id)
    BY <1>2 DEF Has
  <2>7. ASSUME NEW i \in 1 .. Len(o) + Len(r)
        PROVE  w[i] = IF u[i] = Use(e.id) THEN PairOf(e.id) ELSE u[i]
    <3>1. CASE i <= Len(o)
      BY <2>3, <2>5, <2>6, <3>1
    <3>2. CASE i > Len(o)
      <4>1. i - Len(o) \in 1 .. Len(r) /\ i = Len(o) + (i - Len(o))
        BY <2>3, <3>2
      <4>2. w[i] = v[i - Len(o)] /\ u[i] = r[i - Len(o)]
        BY <2>3, <2>5, <4>1
      <4> QED
        BY <2>4, <4>1, <4>2
    <3> QED
      BY <2>3, <3>1, <3>2
  <2>8. InPlace(u, e.id) \in Seq(Emitted)
    BY <2>1, <2>3, JoinedType
  <2>9. w = InPlace(u, e.id)
    <3>1. /\ Len(InPlace(u, e.id)) = Len(u)
          /\ \A i \in 1 .. Len(u) :
                 InPlace(u, e.id)[i] = IF u[i] = Use(e.id) THEN PairOf(e.id) ELSE u[i]
      BY <2>3 DEF InPlace
    <3> DEFINE y == InPlace(u, e.id)
    <3>2. y \in Seq(Emitted) /\ Len(y) = Len(w) /\ \A i \in 1 .. Len(w) : w[i] = y[i]
      BY <2>3, <2>5, <2>7, <2>8, <3>1
    <3> HIDE DEF y
    <3>3. w = y
      BY <2>5, <3>2, SeqEqual
    <3> QED
      BY <3>3 DEF y
  <2> QED
    BY <2>1, <2>9 DEF u, w
<1>3. CASE ~(e.kind = "result" /\ Has(r, Use(e.id)))
  <2>1. Joined(o \o r, e) = Append(o \o r, e) /\ Joined(r, e) = Append(r, e)
    BY <1>1, <1>3 DEF Joined
  <2>2. Append(o \o r, e) = o \o Append(r, e)
    BY KeptIsEmitted
  <2> QED
    BY <2>1, <2>2
<1> QED
  BY <1>2, <1>3

\* Events that cannot be joined with what comes after them: a sequence of one.
LEMMA JoinedCons ==
    ASSUME NEW z \in Emitted, NEW r \in Seq(Emitted), NEW e \in Kept,
           e.kind = "result" => z # Use(e.id)
    PROVE  Joined(<<z>> \o r, e) = <<z>> \o Joined(r, e)
<1> DEFINE o == <<z>>
<1>1. o \in Seq(Emitted)
  OBVIOUS
<1>2. Has(o, Use(e.id)) <=> Use(e.id) = z
  BY HasSingle
<1> HIDE DEF o
<1>3. Joined(o \o r, e) = o \o Joined(r, e)
  BY <1>1, <1>2, JoinedConcat
<1> QED
  BY <1>3 DEF o

\* No use comes of joining.
LEMMA PairedUses ==
    ASSUME NEW id, NEW s \in Seq(Kept)
    PROVE  Has(Paired(s), Use(id)) => Has(s, Use(id))
<1> DEFINE P(r) == Has(Paired(r), Use(id)) => Has(r, Use(id))
           S == {r \in Seq(Kept) : P(r)}
<1>1. P(<<>>)
  BY PairedEmpty
<1>2. ASSUME NEW r \in Seq(Kept), NEW e \in Kept, P(r) PROVE P(Append(r, e))
  <2>1. /\ Paired(r) \in Seq(Emitted)
        /\ Paired(Append(r, e)) = Joined(Paired(r), e)
    BY PairedAppend
  <2>2. Has(Append(r, e), Use(id)) <=> Use(id) = e \/ Has(r, Use(id))
    BY HasAppend
  <2> DEFINE o == Paired(r)
  <2> HIDE DEF o
  <2>3. CASE e.kind = "result" /\ Has(o, Use(e.id))
    <3>1. Joined(o, e) = InPlace(o, e.id)
      BY <2>3 DEF Joined, InPlace
    <3>2. \A i \in 1 .. Len(o) : InPlace(o, e.id)[i] = IF o[i] = Use(e.id) THEN PairOf(e.id) ELSE o[i]
      BY DEF InPlace
    <3>3. Len(InPlace(o, e.id)) = Len(o)
      BY <2>1 DEF InPlace, o
    <3>4. PairOf(e.id) # Use(id)
      BY DEF PairOf, Use
    <3>5. Has(InPlace(o, e.id), Use(id)) => Has(o, Use(id))
      BY <3>2, <3>3, <3>4 DEF Has
    <3> QED
      BY <1>2, <2>1, <2>2, <3>1, <3>5 DEF o
  <2>4. CASE ~(e.kind = "result" /\ Has(o, Use(e.id)))
    <3>1. Joined(o, e) = Append(o, e)
      BY <2>4 DEF Joined
    <3>2. o \in Seq(Emitted) /\ e \in Emitted
      BY <2>1, KeptIsEmitted DEF o
    <3>3. Has(Append(o, e), Use(id)) <=> Use(id) = e \/ Has(o, Use(id))
      BY <3>2, HasAppend
    <3> QED
      BY <1>2, <2>1, <2>2, <3>1, <3>3 DEF o
  <2> QED
    BY <2>3, <2>4
<1> HIDE DEF P
<1>3. <<>> \in S /\ \A r \in Seq(Kept), e \in Kept : r \in S => Append(r, e) \in S
  BY <1>1, <1>2
<1> HIDE DEF S
<1>4. s \in S
  BY <1>3, SeqSetInduction
<1> QED
  BY <1>4 DEF S, P

\* What is before an event that is joined with nothing after it stays.
LEMMA PairedCons ==
    ASSUME NEW z \in Kept, NEW s \in Seq(Kept), z.kind = "use" => ~Has(s, Result(z.id))
    PROVE  Paired(<<z>> \o s) = <<z>> \o Paired(s)
<1> DEFINE y == <<z>>
           C(r) == z.kind = "use" => ~Has(r, Result(z.id))
           P(r) == C(r) => Paired(y \o r) = y \o Paired(r)
           S == {r \in Seq(Kept) : P(r)}
<1>1. P(<<>>)
  <2> DEFINE n == <<>>
  <2>1. n \in Seq(Kept) /\ n \in Seq(Emitted) /\ y = Append(n, z) /\ y \o n = y
    OBVIOUS
  <2>2. Paired(y) = Joined(n, z) /\ Paired(n) = n
    BY <2>1, PairedAppend
  <2>3. ~Has(n, Use(z.id))
    BY HasSingle
  <2>4. Joined(n, z) = y
    BY <2>1, <2>3 DEF Joined
  <2> HIDE DEF n, y
  <2>5. Paired(y \o n) = y \o Paired(n)
    BY <2>1, <2>2, <2>4
  <2> QED
    BY <2>5 DEF n
<1>2. ASSUME NEW r \in Seq(Kept), NEW e \in Kept, P(r) PROVE P(Append(r, e))
  <2> SUFFICES ASSUME C(Append(r, e))
               PROVE  Paired(y \o Append(r, e)) = y \o Paired(Append(r, e))
    OBVIOUS
  <2>1. Has(Append(r, e), Result(z.id)) <=> Result(z.id) = e \/ Has(r, Result(z.id))
    BY HasAppend
  <2>2. y \o Append(r, e) = Append(y \o r, e) /\ y \o r \in Seq(Kept)
    OBVIOUS
  <2>3. Paired(Append(y \o r, e)) = Joined(Paired(y \o r), e) /\ Paired(r) \in Seq(Emitted)
        /\ Paired(Append(r, e)) = Joined(Paired(r), e)
    <3> HIDE DEF y
    <3> QED
      BY <2>2, PairedAppend
  <2>4. Paired(y \o r) = y \o Paired(r)
    BY <1>2, <2>1
  <2>5. e.kind = "result" => z # Use(e.id)
    <3>1. SUFFICES ASSUME e.kind = "result", z = Use(e.id) PROVE FALSE
      OBVIOUS
    <3>2. z.kind = "use" /\ z.id = e.id
      BY <3>1 DEF Use
    <3>3. e = Result(e.id)
      BY <3>1 DEF Kept, Text, Call, Result
    <3> QED
      BY <1>2, <2>1, <3>2, <3>3
  <2>6. Joined(y \o Paired(r), e) = y \o Joined(Paired(r), e)
    BY <2>3, <2>5, KeptIsEmitted, JoinedCons
  <2> QED
    BY <2>2, <2>3, <2>4, <2>6
<1> HIDE DEF y, C, P
<1>3. <<>> \in S /\ \A r \in Seq(Kept), e \in Kept : r \in S => Append(r, e) \in S
  BY <1>1, <1>2
<1> HIDE DEF S
<1>4. s \in S
  BY <1>3, SeqSetInduction
<1> QED
  BY <1>4 DEF S, P, C, y

\* A use that the result answers, and nothing else that it would.
LEMMA InPlaceCons ==
    ASSUME NEW id \in Id, NEW r \in Seq(Emitted), ~Has(r, Use(id))
    PROVE  InPlace(<<Use(id)>> \o r, id) = <<PairOf(id)>> \o r
<1> DEFINE y == <<Use(id)>> \o r
           w == <<PairOf(id)>> \o r
           v == InPlace(y, id)
<1>1. Use(id) \in Emitted /\ PairOf(id) \in Emitted
  BY DEF Use, PairOf, Emitted, Kept
<1>2. /\ y \in Seq(Emitted) /\ Len(y) = Len(r) + 1 /\ Len(r) \in Nat
      /\ y[1] = Use(id) /\ \A i \in 2 .. Len(r) + 1 : y[i] = r[i - 1]
  BY <1>1
<1>3. /\ w \in Seq(Emitted) /\ Len(w) = Len(r) + 1
      /\ w[1] = PairOf(id) /\ \A i \in 2 .. Len(r) + 1 : w[i] = r[i - 1]
  BY <1>1
<1> HIDE DEF y, w
<1>4. ASSUME NEW i \in 1 .. Len(r) + 1
      PROVE  w[i] = IF y[i] = Use(id) THEN PairOf(id) ELSE y[i]
  <2>1. CASE i = 1
    BY <1>2, <1>3, <2>1
  <2>2. CASE i # 1
    <3>1. i \in 2 .. Len(r) + 1 /\ i - 1 \in 1 .. Len(r)
      BY <1>2, <2>2
    <3>2. r[i - 1] # Use(id)
      BY <3>1 DEF Has
    <3> QED
      BY <1>2, <1>3, <3>1, <3>2
  <2> QED
    BY <2>1, <2>2
<1>5. w = [i \in 1 .. Len(r) + 1 |-> w[i]]
  BY <1>3
<1>6. v = [i \in 1 .. Len(r) + 1 |-> IF y[i] = Use(id) THEN PairOf(id) ELSE y[i]]
  BY <1>2 DEF InPlace
<1>7. v = w
  BY <1>4, <1>5, <1>6
<1> QED
  BY <1>7 DEF y, w

\* A use and its result, with events that have neither between them.
LEMMA PairedJoined ==
    ASSUME NEW id \in Id, NEW f \in Seq(Kept), NEW b \in Seq(Kept),
           ~Has(f, Result(id)), ~Has(f, Use(id))
    PROVE  Paired(<<Use(id)>> \o (f \o <<Result(id)>> \o b)) = <<PairOf(id)>> \o Paired(f \o b)
<1> DEFINE u == Use(id)
           r == Result(id)
           x == PairOf(id)
           L(t) == Paired(<<u>> \o (f \o <<r>> \o t))
           P(t) == L(t) = <<x>> \o Paired(f \o t)
           S == {t \in Seq(Kept) : P(t)}
<1>1. u \in Kept /\ r \in Kept /\ x \in Emitted /\ u \in Emitted
  BY DEF Use, Result, PairOf, Kept, Emitted
<1>2. Paired(f) \in Seq(Emitted) /\ ~Has(Paired(f), u)
  <2>1. Paired(f) \in Seq(Emitted)
    BY <1>1, PairedAppend
  <2> QED
    BY <2>1, PairedUses
<1>3. P(<<>>)
  <2> HIDE DEF u, r
  <2>1. f \o <<>> = f /\ f \o <<r>> \o <<>> = Append(f, r)
    BY <1>1, AppendIsConcat
  <2>2. <<u>> \o Append(f, r) = Append(<<u>> \o f, r) /\ <<u>> \o f \in Seq(Kept)
    BY <1>1
  <2>3. Paired(Append(<<u>> \o f, r)) = Joined(Paired(<<u>> \o f), r)
    BY <1>1, <2>2, PairedAppend
  <2>4. Paired(<<u>> \o f) = <<u>> \o Paired(f)
    <3>1. u.id = id
      BY DEF u, Use
    <3> QED
      BY <1>1, <3>1, PairedCons
  <2>5. Joined(<<u>> \o Paired(f), r) = InPlace(<<u>> \o Paired(f), id)
    <3>1. r.kind = "result" /\ r.id = id
      BY DEF r, Result
    <3>2. Has(<<u>> \o Paired(f), u)
      BY <1>1, <1>2, HasCons
    <3> QED
      BY <3>1, <3>2 DEF Joined, InPlace, u
  <2>6. InPlace(<<u>> \o Paired(f), id) = <<x>> \o Paired(f)
    BY <1>2, InPlaceCons DEF u
  <2> QED
    BY <2>1, <2>2, <2>3, <2>4, <2>5, <2>6
<1>4. ASSUME NEW t \in Seq(Kept), NEW e \in Kept, P(t) PROVE P(Append(t, e))
  <2> HIDE DEF u, r, x
  <2> DEFINE g == f \o <<r>>
             h == <<u>> \o (g \o t)
  <2>1. f \o Append(t, e) = Append(f \o t, e) /\ f \o t \in Seq(Kept)
    OBVIOUS
  <2>2. g \in Seq(Kept)
    BY <1>1
  <2>3. g \o Append(t, e) = Append(g \o t, e) /\ g \o t \in Seq(Kept)
    <3> HIDE DEF g
    <3> QED
      BY <2>2
  <2>4. <<u>> \o Append(g \o t, e) = Append(h, e) /\ h \in Seq(Kept)
    <3> HIDE DEF g
    <3> QED
      BY <1>1, <2>2
  <2>5. Paired(Append(h, e)) = Joined(Paired(h), e)
    BY <2>4, PairedAppend
  <2>6. Paired(Append(f \o t, e)) = Joined(Paired(f \o t), e) /\ Paired(f \o t) \in Seq(Emitted)
    BY <2>1, PairedAppend
  <2>7. x # Use(e.id)
    BY DEF x, PairOf, Use
  <2>8. Joined(<<x>> \o Paired(f \o t), e) = <<x>> \o Joined(Paired(f \o t), e)
    BY <1>1, <2>6, <2>7, JoinedCons
  <2>9. Paired(h) = <<x>> \o Paired(f \o t)
    BY <1>4
  <2> QED
    BY <2>1, <2>3, <2>4, <2>5, <2>6, <2>8, <2>9
<1> HIDE DEF P
<1>5. <<>> \in S /\ \A t \in Seq(Kept), e \in Kept : t \in S => Append(t, e) \in S
  BY <1>3, <1>4
<1> HIDE DEF S
<1>6. b \in S
  BY <1>5, SeqSetInduction
<1> QED
  BY <1>6 DEF S, P

-----------------------------------------------------------------------------
(* What drain keeps *)

\* Such a pairing is typed, and its fields are these.
LEMMA WaitingType ==
    ASSUME NEW p \in Pairing, NEW x \in SUBSET Id, NEW d \in Seq(Kept)
    PROVE  /\ Waiting(p, x, d) \in Pairing
           /\ Waiting(p, x, d).expected = x
           /\ Waiting(p, x, d).deferred = d
           /\ Waiting(p, x, d).seen = p.seen
           /\ Waiting(p, x, d).client = p.client
  BY DEF Waiting, Pairing

\* A step and a refusal are states of the loop, with what they are made of.
LEMMA StepType ==
    ASSUME NEW p \in Pairing, NEW o \in Seq(Emitted)
    PROVE  /\ Step(p, o) \in Draining /\ Refusal(p, o) \in Draining
           /\ Step(p, o).ok /\ ~Refusal(p, o).ok
           /\ Step(p, o).pairing = p /\ Step(p, o).out = o
           /\ Refusal(p, o).pairing = p /\ Refusal(p, o).out = o
  BY DEF Step, Refusal, Draining

\* A turn gives a state of the loop.
LEMMA TurnType ==
    ASSUME NEW s \in Draining, NEW r, NEW e \in Kept, NEW t \in Seq(Kept), Turn(s, r, e, t)
    PROVE  r \in Draining
<1> DEFINE p == s.pairing
<1>1. p \in Pairing /\ s.out \in Seq(Emitted) /\ p.expected \in SUBSET Id
  BY DEF Draining, Pairing
<1>2. e \in Emitted /\ Append(s.out, e) \in Seq(Emitted)
  BY <1>1, KeptIsEmitted
<1> HIDE DEF p
<1>3. CASE PassesFirst(s, r, e, t)
  <2>1. r = Step(Waiting(p, p.expected, t), Append(s.out, e))
    BY <1>3 DEF PassesFirst, p
  <2> QED
    BY <1>1, <1>2, <2>1, WaitingType, StepType
<1>4. CASE AnswersFirst(s, r, e, t)
  <2>1. r = Step(Waiting(p, p.expected \ {e.id}, t), Append(s.out, e))
    BY <1>4 DEF AnswersFirst, p
  <2>2. p.expected \ {e.id} \in SUBSET Id
    BY <1>1
  <2> QED
    BY <1>1, <1>2, <2>1, <2>2, WaitingType, StepType
<1>5. CASE RefusesFirst(s, r, e, t)
  <2>1. r = Refusal(Waiting(p, p.expected, t), s.out)
    BY <1>5 DEF RefusesFirst, p
  <2> QED
    BY <1>1, <2>1, WaitingType, StepType
<1>6. CASE KeepsFirst(s, r, e, t)
  BY <1>6 DEF KeepsFirst
<1>7. CASE JoinsFirst(s, r, e, t)
  <2>1. PICK f \in Seq(Kept), b \in Seq(Kept) :
            r = Step(Waiting(p, p.expected, f \o b), Append(s.out, PairOf(e.id)))
    BY <1>7 DEF JoinsFirst, p
  <2>2. f \o b \in Seq(Kept)
    OBVIOUS
  <2>3. PairOf(e.id) \in Emitted
    BY <1>7 DEF JoinsFirst, Kept, Text, Call, PairOf, Emitted
  <2>4. Append(s.out, PairOf(e.id)) \in Seq(Emitted)
    BY <1>1, <2>3
  <2> QED
    BY <1>1, <2>1, <2>2, <2>4, WaitingType, StepType
<1> QED
  BY <1>3, <1>4, <1>5, <1>6, <1>7 DEF Turn

\* A turn of the loop of drain keeps its state typed.
LEMMA DrainOnceType ==
    ASSUME NEW s \in Draining
    PROVE  DrainOnce(s) \in Draining
<1>1. CASE ~s.ok \/ s.pairing.deferred = <<>>
  BY <1>1 DEF DrainOnce
<1>2. CASE s.ok /\ s.pairing.deferred # <<>>
  BY <1>2, TurnCases, TurnType
<1> QED
  BY <1>1, <1>2

\* With nothing lost, handed on twice or overtaken: what was given and what
\* waits, and no use that waits is seen twice or answers what is pending.
InOrder(p, o, a) ==
    /\ o \o Paired(p.deferred) = Paired(a)
    /\ \A id \in Id :
           /\ ~Has(o, Use(id))
           /\ Has(p.deferred, Use(id)) =>
                  /\ id \in p.seen
                  /\ id \notin p.expected
                  /\ ~Before(p.deferred, Use(id), Use(id))

\* A turn of the loop of drain that refuses nothing keeps what arrived in its
\* order, each use joined with its result.
LEMMA TurnInOrder ==
    ASSUME NEW s \in Draining, NEW a, InOrder(s.pairing, s.out, a), NEW r, NEW e \in Kept,
           NEW t \in Seq(Kept), s.pairing.deferred = <<e>> \o t, Turn(s, r, e, t), r.ok
    PROVE  InOrder(r.pairing, r.out, a)
<1> DEFINE p == s.pairing
           o == s.out
<1>1. p \in Pairing /\ o \in Seq(Emitted) /\ p.expected \in SUBSET Id
  BY DEF Draining, Pairing
<1>2. e \in Emitted /\ Append(o, e) \in Seq(Emitted)
  BY <1>1, KeptIsEmitted
<1>3. /\ o \o Paired(<<e>> \o t) = Paired(a)
      /\ \A id \in Id :
             /\ ~Has(o, Use(id))
             /\ Has(t, Use(id)) =>
                  /\ id \in p.seen
                  /\ id \notin p.expected
                  /\ ~Before(t, Use(id), Use(id))
  <2>1. ASSUME NEW id \in Id
        PROVE  /\ Has(<<e>> \o t, Use(id)) <=> Use(id) = e \/ Has(t, Use(id))
               /\ Before(<<e>> \o t, Use(id), Use(id)) <=>
                      Before(t, Use(id), Use(id)) \/ (Use(id) = e /\ Has(t, Use(id)))
    <3>1. Has(<<e>> \o t, Use(id)) <=> Use(id) = e \/ Has(t, Use(id))
      BY HasCons
    <3> QED
      BY <3>1, BeforeCons
  <2> QED
    BY <2>1 DEF InOrder
<1>4. Paired(t) \in Seq(Emitted)
  BY PairedAppend
<1> HIDE DEF p, o
<1>5. ASSUME e.kind # "use",
             NEW x \in SUBSET p.expected, r = Step(Waiting(p, x, t), Append(o, e))
      PROVE  InOrder(r.pairing, r.out, a)
  <2>1. Paired(<<e>> \o t) = <<e>> \o Paired(t)
    BY <1>5, PairedCons
  <2>2. Append(o, e) \o Paired(t) = o \o (<<e>> \o Paired(t))
    BY <1>1, <1>2, <1>4, AppendConcat
  <2>3. \A id \in Id : ~Has(Append(o, e), Use(id))
    <3>1. ASSUME NEW id \in Id PROVE ~Has(Append(o, e), Use(id))
      <4>1. Has(Append(o, e), Use(id)) <=> Use(id) = e \/ Has(o, Use(id))
        BY <1>1, <1>2, HasAppend
      <4> QED
        BY <1>3, <1>5, <4>1 DEF Use
    <3> QED
      BY <3>1
  <2>4. x \in SUBSET Id
    BY <1>1
  <2>5. r.out = Append(o, e) /\ r.pairing = Waiting(p, x, t)
    BY <1>5 DEF Step
  <2>6. r.pairing.expected = x /\ r.pairing.deferred = t /\ r.pairing.seen = p.seen
    BY <1>1, <2>4, <2>5, WaitingType
  <2> QED
    BY <1>3, <2>1, <2>2, <2>3, <2>5, <2>6 DEF InOrder
<1>6. CASE PassesFirst(s, r, e, t)
  <2>1. r = Step(Waiting(p, p.expected, t), Append(o, e)) /\ e.kind # "use"
    BY <1>6 DEF PassesFirst, p, o
  <2> QED
    BY <1>5, <2>1
<1>7. CASE AnswersFirst(s, r, e, t)
  <2>1. r = Step(Waiting(p, p.expected \ {e.id}, t), Append(o, e)) /\ e.kind # "use"
    BY <1>7 DEF AnswersFirst, p, o
  <2> QED
    BY <1>5, <2>1
<1>8. CASE RefusesFirst(s, r, e, t)
  BY <1>8 DEF RefusesFirst, Refusal
<1>9. CASE KeepsFirst(s, r, e, t)
  BY <1>9 DEF KeepsFirst
<1>10. CASE JoinsFirst(s, r, e, t)
  <2>1. PICK f \in Seq(Kept), b \in Seq(Kept) :
            /\ t = f \o <<Result(e.id)>> \o b
            /\ ~Has(f, Result(e.id))
            /\ r = Step(Waiting(p, p.expected, f \o b), Append(o, PairOf(e.id)))
    BY <1>10 DEF JoinsFirst, p, o
  <2>2. e.id \in Id /\ e = Use(e.id)
    BY <1>10 DEF JoinsFirst, Kept, Text, Call, Use
  <2> DEFINE id == e.id
  <2>3. Result(id) \in Kept /\ PairOf(id) \in Emitted
    BY <2>2 DEF Result, PairOf, Kept, Emitted
  <2>4. ASSUME NEW i \in Id
        PROVE  /\ Has(f \o b, Use(i)) => Has(t, Use(i))
               /\ Before(f \o b, Use(i), Use(i)) => Before(t, Use(i), Use(i))
               /\ Has(f, Use(i)) => Has(t, Use(i))
    <3>1. Has(t, Use(i)) <=> Use(i) = Result(id) \/ Has(f, Use(i)) \/ Has(b, Use(i))
      BY <2>1, <2>3, HasBetween
    <3>2. Has(f \o b, Use(i)) <=> Has(f, Use(i)) \/ Has(b, Use(i))
      BY HasConcat
    <3>3. Before(t, Use(i), Use(i)) <=>
               \/ Before(f, Use(i), Use(i)) \/ Before(b, Use(i), Use(i))
               \/ (Has(f, Use(i)) /\ Has(b, Use(i)))
               \/ (Has(f, Use(i)) /\ Use(i) = Result(id))
               \/ (Use(i) = Result(id) /\ Has(b, Use(i)))
      BY <2>1, <2>3, BeforeBetween
    <3>4. Before(f \o b, Use(i), Use(i)) <=>
              Before(f, Use(i), Use(i)) \/ Before(b, Use(i), Use(i)) \/ (Has(f, Use(i)) /\ Has(b, Use(i)))
      BY BeforeConcat
    <3> QED
      BY <3>1, <3>2, <3>3, <3>4
  <2>5. ~Has(t, Use(id))
    <3>1. Has(<<e>> \o t, Use(id)) <=> Use(id) = e \/ Has(t, Use(id))
      BY HasCons
    <3>2. Before(<<e>> \o t, Use(id), Use(id)) <=>
              Before(t, Use(id), Use(id)) \/ (Use(id) = e /\ Has(t, Use(id)))
      BY BeforeCons
    <3>3. Has(<<e>> \o t, Use(id)) => ~Before(<<e>> \o t, Use(id), Use(id))
      BY <2>2 DEF InOrder
    <3> QED
      BY <2>2, <3>1, <3>2, <3>3
  <2>6. Paired(<<e>> \o t) = <<PairOf(id)>> \o Paired(f \o b)
    <3>1. ~Has(f, Use(id)) /\ ~Has(f, Result(id)) /\ id \in Id
      BY <2>1, <2>2, <2>4, <2>5
    <3> HIDE DEF id
    <3>2. Paired(<<Use(id)>> \o (f \o <<Result(id)>> \o b)) = <<PairOf(id)>> \o Paired(f \o b)
      BY <3>1, PairedJoined
    <3>3. e = Use(id) /\ t = f \o <<Result(id)>> \o b
      BY <2>1, <2>2 DEF id
    <3> QED
      BY <3>2, <3>3
  <2>7. f \o b \in Seq(Kept)
    OBVIOUS
  <2>8. Paired(f \o b) \in Seq(Emitted)
    BY <2>3, <2>7, PairedAppend
  <2>9. Append(o, PairOf(id)) \o Paired(f \o b) = o \o (<<PairOf(id)>> \o Paired(f \o b))
    <3> DEFINE z == PairOf(id)
               q == Paired(f \o b)
    <3>1. z \in Emitted /\ q \in Seq(Emitted) /\ o \in Seq(Emitted)
      BY <1>1, <2>3, <2>8
    <3> HIDE DEF z, q
    <3>2. Append(o, z) \o q = o \o (<<z>> \o q)
      BY <3>1, EmittedConcat
    <3> QED
      BY <3>2 DEF z, q
  <2>10. \A i \in Id : ~Has(Append(o, PairOf(id)), Use(i))
    <3>1. ASSUME NEW i \in Id PROVE ~Has(Append(o, PairOf(id)), Use(i))
      <4>1. Has(Append(o, PairOf(id)), Use(i)) <=> Use(i) = PairOf(id) \/ Has(o, Use(i))
        BY <1>1, <2>3, HasAppend
      <4> QED
        BY <1>3, <4>1 DEF Use, PairOf
    <3> QED
      BY <3>1
  <2>11. r.out = Append(o, PairOf(id)) /\ r.pairing = Waiting(p, p.expected, f \o b)
    BY <2>1 DEF Step
  <2>12. /\ r.pairing.expected = p.expected /\ r.pairing.deferred = f \o b
         /\ r.pairing.seen = p.seen
    <3> DEFINE g == f \o b
    <3>1. g \in Seq(Kept)
      BY <2>7
    <3> HIDE DEF g
    <3>2. /\ Waiting(p, p.expected, g).expected = p.expected
          /\ Waiting(p, p.expected, g).deferred = g /\ Waiting(p, p.expected, g).seen = p.seen
      BY <1>1, <3>1, WaitingType
    <3> QED
      BY <2>11, <3>2 DEF g
  <2> HIDE DEF id
  <2> QED
    BY <1>3, <2>4, <2>6, <2>9, <2>10, <2>11, <2>12 DEF InOrder
<1> QED
  BY <1>6, <1>7, <1>8, <1>9, <1>10 DEF Turn

-----------------------------------------------------------------------------
(* What an event makes of it all *)

\* The pairing in which pair starts to drain.
Noticed(p, e) == [Noted(p, e) EXCEPT !.deferred = Append(@, e)]

\* The fields of a pairing with others for seen and client.
LEMMA SeenIs ==
    ASSUME NEW p \in Pairing, NEW n, NEW c
    PROVE  [p EXCEPT !.seen = n, !.client = c]
             = [expected |-> p.expected, deferred |-> p.deferred, seen |-> n, client |-> c]
<1>1. p = [expected |-> p.expected, deferred |-> p.deferred, seen |-> p.seen, client |-> p.client]
  BY DEF Pairing
<1> DEFINE q == [p EXCEPT !.seen = n]
<1>2. q = [expected |-> p.expected, deferred |-> p.deferred, seen |-> n, client |-> p.client]
  BY <1>1
<1>3. [p EXCEPT !.seen = n, !.client = c] = [q EXCEPT !.client = c]
  OBVIOUS
<1> HIDE DEF q
<1>4. [q EXCEPT !.client = c]
        = [expected |-> p.expected, deferred |-> p.deferred, seen |-> n, client |-> c]
  BY <1>2
<1> QED
  BY <1>3, <1>4

\* pair defers the event, and notes its id and whether it is a call.
LEMMA NoticedIs ==
    ASSUME NEW p \in Pairing, NEW e \in Kept
    PROVE  /\ Noticed(p, e) \in Pairing
           /\ Noticed(p, e).expected = p.expected
           /\ Noticed(p, e).deferred = Append(p.deferred, e)
           /\ Noticed(p, e).seen = IF e.kind = "use" THEN p.seen \cup {e.id} ELSE p.seen
           /\ Noticed(p, e).client = (p.client \/ e.kind = "call")
<1> DEFINE n == IF e.kind = "use" THEN p.seen \cup {e.id} ELSE p.seen
           c == p.client \/ e.kind = "call"
           d == Append(p.deferred, e)
<1>1. /\ p.expected \in SUBSET Id /\ p.deferred \in Seq(Kept)
      /\ p.seen \in SUBSET Id /\ p.client \in BOOLEAN
      /\ p = [expected |-> p.expected, deferred |-> p.deferred, seen |-> p.seen, client |-> p.client]
  BY DEF Pairing
<1>2. n \in SUBSET Id
  BY <1>1 DEF Kept, Text, Call
<1>3. d \in Seq(Kept) /\ c \in BOOLEAN
  BY <1>1
<1>4. Noted(p, e) = [expected |-> p.expected, deferred |-> p.deferred, seen |-> n, client |-> c]
  <2>1. Noted(p, e) = [p EXCEPT !.seen = n, !.client = c]
    BY DEF Noted
  <2> HIDE DEF n, c
  <2> QED
    BY <2>1, SeenIs
<1>5. Noticed(p, e) = [expected |-> p.expected, deferred |-> d, seen |-> n, client |-> c]
  <2> HIDE DEF n, c
  <2>1. Noticed(p, e) = [Noted(p, e) EXCEPT !.deferred = d]
    BY <1>4 DEF Noticed
  <2> HIDE DEF d
  <2> QED
    BY <1>4, <2>1
<1> HIDE DEF n, c, d
<1>6. /\ Noticed(p, e) \in Pairing
      /\ Noticed(p, e).expected = p.expected /\ Noticed(p, e).deferred = d
      /\ Noticed(p, e).seen = n /\ Noticed(p, e).client = c
  BY <1>1, <1>2, <1>3, <1>5 DEF Pairing
<1> QED
  BY <1>6 DEF n, c, d

\* What is not refused at once is in Kept.
LEMMA NotRepeated ==
    ASSUME NEW p, NEW e \in Event, ~Repeated(p, e)
    PROVE  e \in Kept
  BY DEF Event, Repeated, Use

\* pair keeps what a turn of drain keeps.
LEMMA PairKeeps ==
    ASSUME NEW p \in Pairing, NEW o, NEW e \in Event, ~Repeated(p, e),
           NEW G, Step(Noticed(p, e), o) \in G, \A s \in G : DrainOnce(s) \in G
    PROVE  Pair(p, o, e) \in G
<1>1. e \in Kept
  BY NotRepeated
<1>2. p.deferred \in Seq(Kept)
  BY DEF Pairing
<1>3. Noticed(p, e).deferred \in Seq(Kept)
  <2>1. Noticed(p, e) \in Pairing
    BY <1>1, NoticedIs
  <2> QED
    BY <2>1 DEF Pairing
<1>4. Pair(p, o, e) = Drain(Noticed(p, e), o)
  BY DEF Pair, Noticed
<1> QED
  BY <1>3, <1>4, DrainKeeps

\* pair keeps its state typed.
LEMMA PairType ==
    ASSUME NEW p \in Pairing, NEW o \in Seq(Emitted), NEW e \in Event
    PROVE  Pair(p, o, e) \in Draining
<1>1. CASE Repeated(p, e)
  <2>1. Pair(p, o, e) = Refusal(p, o)
    BY <1>1 DEF Pair
  <2> QED
    BY <2>1, StepType
<1>2. CASE ~Repeated(p, e)
  <2>1. e \in Kept
    BY <1>2, NotRepeated
  <2>2. Step(Noticed(p, e), o) \in Draining
    BY <2>1, NoticedIs, StepType
  <2> QED
    BY <1>2, <2>2, DrainOnceType, PairKeeps
<1> QED
  BY <1>1, <1>2

\* The states of the loop in which all is in order, or which are refused.
DrainingInOrder(a) == {s \in Draining : s.ok => InOrder(s.pairing, s.out, a)}

\* So does a turn among the states that are in order or refused.
LEMMA DrainOnceInOrder ==
    ASSUME NEW a, NEW s \in DrainingInOrder(a)
    PROVE  DrainOnce(s) \in DrainingInOrder(a)
<1>1. s \in Draining /\ DrainOnce(s) \in Draining
  BY DrainOnceType DEF DrainingInOrder
<1>2. CASE ~s.ok \/ s.pairing.deferred = <<>>
  BY <1>2 DEF DrainOnce
<1>3. CASE s.ok /\ s.pairing.deferred # <<>>
  <2>1. PICK e \in Kept, t \in Seq(Kept) :
            s.pairing.deferred = <<e>> \o t /\ Turn(s, DrainOnce(s), e, t)
    BY <1>1, <1>3, TurnCases
  <2>2. InOrder(s.pairing, s.out, a)
    BY <1>3 DEF DrainingInOrder
  <2> DEFINE r == DrainOnce(s)
  <2>3. Turn(s, r, e, t)
    BY <2>1
  <2> HIDE DEF r
  <2>4. r.ok => InOrder(r.pairing, r.out, a)
    BY <1>1, <2>1, <2>2, <2>3, TurnInOrder
  <2> QED
    BY <1>1, <2>4 DEF DrainingInOrder, r
<1> QED
  BY <1>2, <1>3

\* An event that has arrived waits behind the others in its order.
LEMMA NoticedInOrder ==
    ASSUME NEW p \in Pairing, NEW o \in Seq(Emitted), NEW a \in Seq(Kept), InOrder(p, o, a),
           NEW e \in Event, ~Repeated(p, e)
    PROVE  Step(Noticed(p, e), o) \in DrainingInOrder(Append(a, e))
<1>1. ~Repeated(p, e)
  OBVIOUS
<1>2. e \in Kept
  BY <1>1, NotRepeated
<1> DEFINE q == Noticed(p, e)
           b == Append(a, e)
<1>3. /\ q \in Pairing /\ q.expected = p.expected /\ q.deferred = Append(p.deferred, e)
      /\ q.seen = IF e.kind = "use" THEN p.seen \cup {e.id} ELSE p.seen
  BY <1>2, NoticedIs
<1>4. p.deferred \in Seq(Kept)
  BY DEF Pairing
<1>5. e.kind = "result" => e.id \in Id
  BY <1>2 DEF Kept, Text, Call
<1>6. o \o Paired(Append(p.deferred, e)) = Paired(Append(a, e))
  <2>1. /\ Paired(p.deferred) \in Seq(Emitted)
        /\ Paired(Append(p.deferred, e)) = Joined(Paired(p.deferred), e)
        /\ Paired(Append(a, e)) = Joined(Paired(a), e)
    BY <1>2, <1>4, PairedAppend
  <2>2. Joined(o \o Paired(p.deferred), e) = o \o Joined(Paired(p.deferred), e)
    BY <1>2, <1>5, <2>1, JoinedConcat DEF InOrder
  <2> QED
    BY <2>1, <2>2 DEF InOrder
<1>7. ASSUME NEW id \in Id, Has(Append(p.deferred, e), Use(id))
      PROVE  /\ id \in q.seen
             /\ id \notin q.expected
             /\ ~Before(Append(p.deferred, e), Use(id), Use(id))
  <2>1. Has(Append(p.deferred, e), Use(id)) <=> Use(id) = e \/ Has(p.deferred, Use(id))
    BY <1>2, <1>4, HasAppend
  <2>2. Before(Append(p.deferred, e), Use(id), Use(id)) <=>
            Before(p.deferred, Use(id), Use(id)) \/ (Has(p.deferred, Use(id)) /\ Use(id) = e)
    BY <1>2, <1>4, BeforeAppend
  <2>3. CASE Use(id) = e
    <3>1. e.kind = "use" /\ e.id = id
      BY <2>3 DEF Use
    <3>2. id \notin p.seen /\ id \notin p.expected
      BY <1>1, <3>1 DEF Repeated
    <3>3. ~Has(p.deferred, Use(id))
      BY <3>2 DEF InOrder
    <3>4. ~Before(p.deferred, Use(id), Use(id))
      BY <3>3 DEF Has, Before
    <3> QED
      BY <1>3, <2>2, <3>1, <3>2, <3>3, <3>4
  <2>4. CASE Use(id) # e
    BY <1>3, <1>7, <2>1, <2>2, <2>4 DEF InOrder
  <2> QED
    BY <2>3, <2>4
<1>8. InOrder(q, o, b)
  BY <1>3, <1>6, <1>7 DEF InOrder
<1> HIDE DEF q, b
<1>9. Step(q, o) \in DrainingInOrder(b)
  BY <1>3, <1>8, StepType DEF DrainingInOrder
<1> QED
  BY <1>9 DEF q, b

\* With an event that has arrived and is not refused all stays in order.
LEMMA PairInOrder ==
    ASSUME NEW p \in Pairing, NEW o \in Seq(Emitted), NEW a \in Seq(Kept), InOrder(p, o, a),
           NEW e \in Event, Pair(p, o, e).ok
    PROVE  InOrder(Pair(p, o, e).pairing, Pair(p, o, e).out, Append(a, e))
<1> DEFINE b == Append(a, e)
<1>1. ~Repeated(p, e)
  BY DEF Pair, Refusal
<1>2. Step(Noticed(p, e), o) \in DrainingInOrder(b)
  BY <1>1, NoticedInOrder
<1> HIDE DEF b
<1>3. Pair(p, o, e) \in DrainingInOrder(b)
  BY <1>1, <1>2, DrainOnceInOrder, PairKeeps
<1> QED
  BY <1>3 DEF DrainingInOrder, b

-----------------------------------------------------------------------------
(* How a turn ends *)

\* What flushDeferred does with an event.
LEMMA FlushOneCases ==
    ASSUME NEW s \in Draining, NEW e \in Kept
    PROVE  \/ ~s.ok /\ FlushOne(s, e) = s
           \/ /\ s.ok /\ e.kind = "result" /\ e.id \in s.pairing.expected
              /\ FlushOne(s, e) = Step(Waiting(s.pairing, s.pairing.expected \ {e.id},
                                               s.pairing.deferred), Append(s.out, e))
           \/ /\ s.ok /\ e.kind = "result" /\ e.id \notin s.pairing.expected
              /\ FlushOne(s, e) = Refusal(s.pairing, s.out)
           \/ /\ s.ok /\ e.kind # "result"
              /\ FlushOne(s, e) = Step(s.pairing, Append(s.out, e))
<1> DEFINE p == s.pairing
<1>1. p \in Pairing
  BY DEF Draining
<1>2. p = Waiting(p, p.expected, p.deferred)
  <2> HIDE DEF p
  <2> QED
    BY <1>1 DEF Pairing, Waiting
<1>3. CASE s.ok /\ e.kind = "result"
  <2>1. FlushOne(s, e) = EmitResult(p, s.out, e)
    BY <1>3 DEF FlushOne
  <2>2. FlushOne(s, e) = EmitResult(Waiting(p, p.expected, p.deferred), s.out, e)
    BY <1>2, <2>1
  <2>3. CASE e.id \in p.expected
    BY <1>3, <2>2, <2>3, EmitResultIs
  <2>4. CASE e.id \notin p.expected
    <3>1. FlushOne(s, e) = Refusal(p, s.out)
      BY <2>1, <2>4 DEF EmitResult
    <3> QED
      BY <1>3, <2>4, <3>1
  <2> QED
    BY <2>3, <2>4
<1>4. CASE ~s.ok
  BY <1>4 DEF FlushOne
<1>5. CASE s.ok /\ e.kind # "result"
  BY <1>5 DEF FlushOne
<1> QED
  BY <1>3, <1>4, <1>5

\* A turn of the loop of flushDeferred keeps its state typed.
LEMMA FlushOneType ==
    ASSUME NEW s \in Draining, NEW e \in Kept
    PROVE  FlushOne(s, e) \in Draining
<1> DEFINE p == s.pairing
           x == p.expected \ {e.id}
           o == Append(s.out, e)
<1>1. /\ p \in Pairing /\ p.expected \in SUBSET Id /\ p.deferred \in Seq(Kept)
      /\ s.out \in Seq(Emitted)
  BY DEF Draining, Pairing
<1>2. o \in Seq(Emitted) /\ x \in SUBSET Id
  BY <1>1, KeptIsEmitted
<1> HIDE DEF o, x
<1>3. Waiting(p, x, p.deferred) \in Pairing
  <2> HIDE DEF p
  <2> QED
    BY <1>1, <1>2, WaitingType
<1>4. Step(Waiting(p, x, p.deferred), o) \in Draining /\ Step(p, o) \in Draining
      /\ Refusal(p, s.out) \in Draining
  <2> HIDE DEF p
  <2> QED
    BY <1>1, <1>2, <1>3, StepType
<1> QED
  BY <1>4, FlushOneCases DEF o, x

\* flushDeferred keeps its state typed.
LEMMA FlushType ==
    ASSUME NEW p \in Pairing, NEW o \in Seq(Emitted)
    PROVE  Flush(p, o) \in Draining
<1> DEFINE n == <<>>
           q == [p EXCEPT !.deferred = n]
           d == p.deferred
<1>1. n \in Seq(Kept) /\ p.expected \in SUBSET Id /\ d \in Seq(Kept)
  BY DEF Pairing
<1>2. q = Waiting(p, p.expected, n)
  BY WaitingIs
<1>3. q \in Pairing
  <2> HIDE DEF n, q
  <2> QED
    BY <1>1, <1>2, WaitingType
<1>4. Step(q, o) \in Draining
  <2> HIDE DEF q
  <2> QED
    BY <1>3, StepType
<1> HIDE DEF d
<1> QED
  BY <1>1, <1>4, FlushOneType, FlushKeeps DEF d

\* The end of a turn is typed; one that is let pass is what flushDeferred gave.
LEMMA EndType ==
    ASSUME NEW p \in Pairing, NEW o \in Seq(Emitted), NEW reason
    PROVE  /\ End(p, o, reason) \in Draining
           /\ End(p, o, reason).ok => End(p, o, reason) = Flush(p, o)
<1>1. Refusal(p, o) \in Draining /\ ~Refusal(p, o).ok
  BY StepType
<1> QED
  BY <1>1, FlushType DEF End

NewPairingType ==
    \A x \in SUBSET Id :
        /\ NewPairing(x) \in Pairing
        /\ NewPairing(x).expected = x /\ NewPairing(x).deferred = <<>>
        /\ NewPairing(x).seen = {} /\ NewPairing(x).client = FALSE

\* A new pairing is typed: nothing is deferred or seen.
LEMMA NewPairingIs == NewPairingType
  BY EmptySeq DEF NewPairing, Pairing, NewPairingType

ItemType == [model : Model, event : Emitted]

\* A conversation with a turn more, an event at a time.
LEMMA WithAppend ==
    ASSUME NEW s \in Seq(ItemType), NEW m \in Model, NEW o \in Seq(Emitted)
    PROVE  /\ With(s, m, o) \in Seq(ItemType)
           /\ With(s, m, <<>>) = s
           /\ \A e \in Emitted : With(s, m, Append(o, e)) = Append(With(s, m, o), Item(m, e))
<1> DEFINE M == ItemType
           t == [i \in 1 .. Len(o) |-> Item(m, o[i])]
<1>1. \A e \in Emitted : Item(m, e) \in M
  BY DEF Item, ItemType
<1>2. \A i \in 1 .. Len(o) : Item(m, o[i]) \in M
  BY <1>1
<1>3. t \in Seq(M) /\ Len(t) = Len(o)
  <2> HIDE DEF M
  <2>1. Len(o) \in Nat
    OBVIOUS
  <2> QED
    BY <1>2, <2>1, IsASeq
<1>4. With(s, m, o) \in Seq(M)
  <2> HIDE DEF M, t
  <2>1. With(s, m, o) = s \o t
    BY DEF With, t
  <2> QED
    BY <1>3, <2>1 DEF M
<1>5. With(s, m, <<>>) = s
  <2>1. [i \in 1 .. Len(<<>>) |-> Item(m, <<>>[i])] = <<>>
    OBVIOUS
  <2> QED
    BY <2>1 DEF With
<1>6. ASSUME NEW e \in Emitted
      PROVE  With(s, m, Append(o, e)) = Append(With(s, m, o), Item(m, e))
  <2> DEFINE w == Append(o, e)
             v == [i \in 1 .. Len(w) |-> Item(m, w[i])]
             a == Item(m, e)
  <2>1. w \in Seq(Emitted) /\ Len(w) = Len(o) + 1 /\ w[Len(o) + 1] = e
        /\ \A i \in 1 .. Len(o) : w[i] = o[i]
    OBVIOUS
  <2> HIDE DEF w
  <2>2. \A i \in 1 .. Len(o) : v[i] = t[i]
    BY <2>1
  <2>3. v[Len(o) + 1] = a
    BY <2>1
  <2>4. v \in Seq(M) /\ Len(v) = Len(o) + 1
    <3>1. \A i \in 1 .. Len(w) : w[i] \in Emitted
      BY <2>1
    <3>2. \A i \in 1 .. Len(w) : Item(m, w[i]) \in M
      BY <1>1, <3>1
    <3>3. Len(w) \in Nat
      BY <2>1
    <3> HIDE DEF M
    <3> QED
      BY <2>1, <3>2, <3>3, IsASeq
  <2>5. a \in M
    BY <1>1
  <2> HIDE DEF v, t, a, M
  <2>6. Append(t, a) \in Seq(M) /\ Len(Append(t, a)) = Len(o) + 1
        /\ \A i \in 1 .. Len(o) : Append(t, a)[i] = t[i]
        /\ Append(t, a)[Len(o) + 1] = a
    BY <1>3, <2>5
  <2>7. v = Append(t, a)
    <3> DEFINE u == Append(t, a)
    <3>1. u \in Seq(M) /\ Len(u) = Len(v) /\ \A i \in 1 .. Len(v) : v[i] = u[i]
      BY <2>2, <2>3, <2>4, <2>6
    <3> HIDE DEF u
    <3>2. v = u
      BY <2>4, <3>1, SeqEqual
    <3> QED
      BY <3>2 DEF u
  <2>8. s \o Append(t, a) = Append(s \o t, a)
    BY <1>3, <2>5 DEF M
  <2>9. With(s, m, w) = s \o v
    BY DEF With, v
  <2>10. With(s, m, o) = s \o t
    BY DEF With, t
  <2> QED
    BY <2>7, <2>8, <2>9, <2>10 DEF w, a
<1> QED
  BY <1>4, <1>5, <1>6

-----------------------------------------------------------------------------
(* What a request repeats of the conversation *)

Block == [kind : {"use", "result"}, id : Id]

\* The uses with no result after the last of them.
Unanswered(s) ==
    {id \in Id :
        \E i \in 1 .. Len(s) :
            /\ s[i] = Use(id)
            /\ \A k \in i + 1 .. Len(s) : s[k] # Result(id)}

\* A use is unanswered from its block until its result.
LEMMA UnansweredAppend ==
    ASSUME NEW B, NEW s \in Seq(B), NEW e \in B, NEW id \in Id
    PROVE  id \in Unanswered(Append(s, e)) <=>
               e = Use(id) \/ (id \in Unanswered(s) /\ e # Result(id))
<1> DEFINE r == Append(s, e)
           n == Len(s) + 1
<1>1. /\ Len(r) = n /\ r[n] = e /\ \A i \in 1 .. Len(s) : r[i] = s[i]
      /\ Len(s) \in Nat
  OBVIOUS
<1>2. Use(id) # Result(id)
  BY DEF Use, Result
<1> HIDE DEF r
<1>3. ASSUME id \in Unanswered(r) PROVE e = Use(id) \/ (id \in Unanswered(s) /\ e # Result(id))
  <2>1. PICK i \in 1 .. n : r[i] = Use(id) /\ \A k \in i + 1 .. n : r[k] # Result(id)
    BY <1>1, <1>3 DEF Unanswered
  <2>2. CASE i = n
    BY <1>1, <2>1, <2>2
  <2>3. CASE i # n
    <3>1. i \in 1 .. Len(s) /\ n \in i + 1 .. n
      BY <1>1, <2>3
    <3>2. \A k \in i + 1 .. Len(s) : k \in i + 1 .. n /\ r[k] = s[k]
      BY <1>1, <3>1
    <3>3. s[i] = Use(id) /\ \A k \in i + 1 .. Len(s) : s[k] # Result(id)
      BY <1>1, <2>1, <3>1, <3>2
    <3>4. e # Result(id)
      BY <1>1, <2>1, <3>1
    <3> QED
      BY <3>1, <3>3, <3>4 DEF Unanswered
  <2> QED
    BY <2>2, <2>3
<1>4. ASSUME e = Use(id) PROVE id \in Unanswered(r)
  <2>1. n \in 1 .. n /\ r[n] = Use(id) /\ \A k \in n + 1 .. n : r[k] # Result(id)
    BY <1>1, <1>4
  <2> QED
    BY <1>1, <2>1 DEF Unanswered
<1>5. ASSUME id \in Unanswered(s), e # Result(id) PROVE id \in Unanswered(r)
  <2>1. PICK i \in 1 .. Len(s) : s[i] = Use(id) /\ \A k \in i + 1 .. Len(s) : s[k] # Result(id)
    BY <1>5 DEF Unanswered
  <2>2. i \in 1 .. n /\ r[i] = Use(id)
    BY <1>1, <2>1
  <2>3. ASSUME NEW k \in i + 1 .. n PROVE r[k] # Result(id)
    <3>1. CASE k = n
      BY <1>1, <1>5, <3>1
    <3>2. CASE k # n
      <4>1. k \in i + 1 .. Len(s) /\ k \in 1 .. Len(s)
        BY <1>1, <2>1, <3>2
      <4> QED
        BY <1>1, <2>1, <4>1
    <3> QED
      BY <3>1, <3>2
  <2> QED
    BY <1>1, <2>2, <2>3 DEF Unanswered
<1>6. id \in Unanswered(r) <=> e = Use(id) \/ (id \in Unanswered(s) /\ e # Result(id))
  BY <1>3, <1>4, <1>5
<1> QED
  BY <1>6 DEF r

\* A block more answers, if it is no result or that of an unanswered use.
LEMMA AnsweringAppend ==
    ASSUME NEW B, NEW s \in Seq(B), NEW e \in B, Answering(s),
           e.kind = "result" => e = Result(e.id) /\ e.id \in Unanswered(s)
    PROVE  Answering(Append(s, e))
<1> DEFINE r == Append(s, e)
           n == Len(s) + 1
<1>1. /\ Len(r) = n /\ r[n] = e /\ \A i \in 1 .. Len(s) : r[i] = s[i]
      /\ Len(s) \in Nat
  OBVIOUS
<1> HIDE DEF r
<1>2. ASSUME NEW i \in 1 .. n, r[i].kind = "result"
      PROVE  \E j \in 1 .. i - 1 :
                 /\ r[j] = Use(r[i].id)
                 /\ \A k \in j + 1 .. i - 1 : r[k] # r[i]
  <2>1. CASE i = n
    <3>1. PICK j \in 1 .. Len(s) :
              s[j] = Use(e.id) /\ \A k \in j + 1 .. Len(s) : s[k] # Result(e.id)
      BY <1>1, <1>2, <2>1 DEF Unanswered
    <3>2. j \in 1 .. i - 1 /\ i - 1 = Len(s) /\ r[j] = Use(e.id) /\ r[i] = e
      BY <1>1, <2>1, <3>1
    <3>3. \A k \in j + 1 .. i - 1 : r[k] # e
      <4>1. ASSUME NEW k \in j + 1 .. Len(s) PROVE r[k] # e
        <5>1. k \in 1 .. Len(s)
          BY <1>1, <3>1
        <5>2. e = Result(e.id)
          BY <1>1, <1>2, <2>1
        <5> QED
          BY <1>1, <3>1, <5>1, <5>2
      <4> QED
        BY <3>2, <4>1
    <3> QED
      BY <3>2, <3>3
  <2>2. CASE i # n
    <3>1. i \in 1 .. Len(s) /\ r[i] = s[i]
      BY <1>1, <2>2
    <3>2. PICK j \in 1 .. i - 1 : s[j] = Use(s[i].id) /\ \A k \in j + 1 .. i - 1 : s[k] # s[i]
      BY <1>2, <3>1 DEF Answering
    <3>3. j \in 1 .. Len(s) /\ \A k \in j + 1 .. i - 1 : k \in 1 .. Len(s)
      BY <1>1, <3>1, <3>2
    <3> QED
      BY <1>1, <3>1, <3>2, <3>3
  <2> QED
    BY <2>1, <2>2
<1>3. Answering(r)
  BY <1>1, <1>2 DEF Answering
<1> QED
  BY <1>3 DEF r

\* What is repeated of an event is its use, its result or both.
LEMMA BlocksType ==
    ASSUME NEW e \in Emitted
    PROVE  Blocks(e) \in Seq(Block)
<1>1. e.kind \in {"use", "result"} => e \in Block
  BY DEF Emitted, Kept, Text, Call, Block
<1>2. e.kind = "pair" => Use(e.id) \in Block /\ Result(e.id) \in Block
  BY DEF Emitted, Kept, Text, Call, Use, Result, Block
<1>3. CASE e.kind \in {"use", "result"}
  <2>1. Blocks(e) = <<e>>
    BY <1>3 DEF Blocks
  <2> QED
    BY <1>1, <1>3, <2>1
<1>4. CASE e.kind = "pair"
  <2>1. Blocks(e) = <<Use(e.id), Result(e.id)>>
    BY <1>4 DEF Blocks
  <2> QED
    BY <1>2, <1>4, <2>1
<1>5. CASE e.kind \notin {"use", "result", "pair"}
  <2>1. Blocks(e) = <<>>
    BY <1>5 DEF Blocks
  <2> QED
    BY <2>1
<1> QED
  BY <1>3, <1>4, <1>5

\* One item of what is repeated to a model.
Repeating(m, blocks, x) == IF x.model = m THEN blocks \o Blocks(x.event) ELSE blocks

repeating(m) == [x \in Seq(Block) \X ItemType |-> Repeating(m, x[1], x[2])]

\* What a request repeats is a fold over the conversation.
LEMMA ReplayIsFolded ==
    ASSUME NEW m, NEW s \in Seq(ItemType)
    PROVE  /\ StepOn(repeating(m), Seq(Block), ItemType)
           /\ Replay(s, m) = FoldedBy(repeating(m), <<>>, s)
<1> DEFINE A == Seq(Block)
           base == <<>>
           step == repeating(m)
           F(g) == [t \in SUBSET (DOMAIN s) |->
                        IF t = {} THEN base ELSE Repeating(m, g[t \ {Max(t)}], s[Max(t)])]
<1>1. StepOn(step, A, ItemType) /\ base \in A
  <2>1. ASSUME NEW b \in A, NEW x \in ItemType PROVE Repeating(m, b, x) \in A
    <3>1. Blocks(x.event) \in A
      BY BlocksType DEF ItemType
    <3> QED
      BY <3>1 DEF Repeating
  <2> HIDE DEF A
  <2> QED
    BY <2>1, EmptySeq DEF StepOn, repeating, A
<1>2. Replay(s, m) = (CHOOSE g : g = F(g))[DOMAIN s]
  BY DEF Replay, FoldLeft, MapThenFoldSet, Repeating
<1>3. \A b \in A, x \in ItemType : step[<<b, x>>] = Repeating(m, b, x)
  BY DEF repeating
<1> HIDE DEF A, base, step
<1>4. PICK h : Folding(h, A, ItemType, step, base, s)
  BY <1>1, FoldedByFunction
<1>5. h = F(h)
  <2>1. ASSUME NEW t \in SUBSET (DOMAIN s), t # {}
        PROVE  h[t] = Repeating(m, h[t \ {Max(t)}], s[Max(t)])
    BY <1>3, <1>4, <2>1 DEF Folding
  <2> QED
    BY <1>4, <2>1 DEF Folding
<1>6. PICK g : g = F(g) /\ Replay(s, m) = g[DOMAIN s]
  <2> HIDE DEF F
  <2> QED
    BY <1>2, <1>5
<1>7. Unfolding(g, A, ItemType, step, base, s)
  BY <1>3, <1>6 DEF Unfolding
<1>8. Replay(s, m) = FoldedBy(step, base, s)
  <2> HIDE DEF F
  <2> QED
    BY <1>1, <1>6, <1>7, FoldedByUnfolding
<1> QED
  BY <1>1, <1>8 DEF base, step, A

\* Replay, an item at a time.
LEMMA ReplayAppend ==
    ASSUME NEW m, NEW s \in Seq(ItemType), NEW x \in ItemType
    PROVE  /\ Replay(<<>>, m) = <<>>
           /\ Replay(s, m) \in Seq(Block)
           /\ Replay(Append(s, x), m) = Repeating(m, Replay(s, m), x)
<1> DEFINE A == Seq(Block)
           z == <<>>
           step == repeating(m)
<1>1. StepOn(step, A, ItemType) /\ z \in A /\ z \in Seq(ItemType) /\ Append(s, x) \in Seq(ItemType)
  <2>1. z \in A /\ z \in Seq(ItemType)
    BY EmptySeq
  <2>2. Append(s, x) \in Seq(ItemType)
    OBVIOUS
  <2>3. StepOn(step, A, ItemType)
    BY ReplayIsFolded
  <2> QED
    BY <2>1, <2>2, <2>3
<1>2. /\ Replay(z, m) = FoldedBy(step, z, z) /\ Replay(s, m) = FoldedBy(step, z, s)
      /\ Replay(Append(s, x), m) = FoldedBy(step, z, Append(s, x))
  BY <1>1, ReplayIsFolded
<1>3. \A b \in A : step[<<b, x>>] = Repeating(m, b, x)
  BY DEF repeating
<1> HIDE DEF A, z, step
<1>4. /\ FoldedBy(step, z, <<>>) = z
      /\ FoldedBy(step, z, s) \in A
      /\ FoldedBy(step, z, Append(s, x)) = step[<<FoldedBy(step, z, s), x>>]
  BY <1>1, FoldedByAppend
<1> QED
  BY <1>2, <1>3, <1>4 DEF A, z

\* What is repeated to m answers a use with every result, and a use of it
\* waits for every result in x.
Repeats(s, m, x) ==
    /\ Answering(Replay(s, m))
    /\ x \subseteq Unanswered(Replay(s, m))

\* Of an empty conversation nothing is repeated.
LEMMA RepeatsEmpty ==
    ASSUME NEW m
    PROVE  Replay(<<>>, m) = <<>> /\ Answering(<<>>) /\ Unanswered(<<>>) = {}
<1> DEFINE A == Seq(Block)
           z == <<>>
<1>1. Replay(z, m) = z
  <2> DEFINE step == repeating(m)
  <2>1. z \in Seq(ItemType)
    BY EmptySeq
  <2>2. StepOn(step, A, ItemType) /\ Replay(z, m) = FoldedBy(step, z, z)
    BY <2>1, ReplayIsFolded
  <2>3. z \in A
    BY EmptySeq
  <2> HIDE DEF A, step
  <2>4. FoldedBy(step, z, <<>>) = z
    <3> HIDE DEF z
    <3> QED
      BY <2>2, <2>3, FoldedByEmpty
  <2> QED
    BY <2>2, <2>4
<1>2. Len(<<>>) = 0
  OBVIOUS
<1> QED
  BY <1>1, <1>2 DEF Answering, Unanswered

\* An event of another model is not repeated.
LEMMA RepeatsOther ==
    ASSUME NEW s \in Seq(ItemType), NEW m, NEW n \in Model, n # m, NEW e \in Emitted
    PROVE  Replay(Append(s, Item(n, e)), m) = Replay(s, m)
<1>1. Item(n, e) \in ItemType /\ Item(n, e).model = n
  BY DEF Item, ItemType
<1>2. Replay(Append(s, Item(n, e)), m) = Repeating(m, Replay(s, m), Item(n, e))
  BY <1>1, ReplayAppend
<1> QED
  BY <1>1, <1>2 DEF Repeating

\* An event of m: one that is not repeated, a use, a result that is expected, or a pair.
LEMMA RepeatsAppend ==
    ASSUME NEW s \in Seq(ItemType), NEW m \in Model, NEW x \in SUBSET Id, Repeats(s, m, x),
           NEW e \in Emitted, e.kind = "result" => e.id \in x,
           e.kind = "pair" => e.id \notin x,
           NEW y \in SUBSET x, e.kind = "result" => e.id \notin y
    PROVE  Repeats(Append(s, Item(m, e)), m, y)
<1> DEFINE b == Replay(s, m)
           c == Replay(Append(s, Item(m, e)), m)
<1>1. Item(m, e) \in ItemType /\ Item(m, e).model = m /\ Item(m, e).event = e
  BY DEF Item, ItemType
<1>2. b \in Seq(Block)
  BY <1>1, ReplayAppend
<1>3. c = b \o Blocks(e)
  <2>1. c = Repeating(m, b, Item(m, e))
    BY <1>1, ReplayAppend
  <2> QED
    BY <1>1, <2>1 DEF Repeating
<1>4. Answering(b) /\ x \subseteq Unanswered(b)
  BY DEF Repeats
<1> HIDE DEF b, c
<1>5. CASE e.kind = "use"
  <2>1. e \in Block /\ e = Use(e.id) /\ e.id \in Id
    BY <1>5 DEF Emitted, Kept, Text, Call, Block, Use
  <2>2. c = Append(b, e)
    <3>1. Blocks(e) = <<e>>
      BY <1>5 DEF Blocks
    <3> QED
      BY <1>2, <1>3, <2>1, <3>1, AppendIsConcat
  <2>3. Answering(c)
    BY <1>2, <1>4, <1>5, <2>1, <2>2, AnsweringAppend
  <2>4. ASSUME NEW id \in y PROVE id \in Unanswered(c)
    <3>1. e # Result(id) /\ id \in Id /\ id \in Unanswered(b)
      BY <1>4, <1>5 DEF Result
    <3> QED
      BY <1>2, <2>1, <2>2, <3>1, UnansweredAppend
  <2> QED
    BY <2>3, <2>4 DEF Repeats, c
<1>6. CASE e.kind = "result"
  <2>1. e \in Block /\ e = Result(e.id)
    BY <1>6 DEF Emitted, Kept, Text, Call, Block, Result
  <2>2. c = Append(b, e)
    <3>1. Blocks(e) = <<e>>
      BY <1>6 DEF Blocks
    <3> QED
      BY <1>2, <1>3, <2>1, <3>1, AppendIsConcat
  <2>3. Answering(c)
    BY <1>2, <1>4, <1>6, <2>1, <2>2, AnsweringAppend
  <2>4. ASSUME NEW id \in y PROVE id \in Unanswered(c)
    <3>1. e # Result(id) /\ id \in Id /\ id \in Unanswered(b)
      BY <1>4, <1>6 DEF Result
    <3> QED
      BY <1>2, <2>1, <2>2, <3>1, UnansweredAppend
  <2> QED
    BY <2>3, <2>4 DEF Repeats, c
<1>7. CASE e.kind = "pair"
  <2> DEFINE u == Use(e.id)
             r == Result(e.id)
  <2>1. e.id \in Id /\ u \in Block /\ r \in Block
    BY <1>7 DEF Emitted, Kept, Text, Call, Block, Use, Result
  <2>2. Append(b, u) \in Seq(Block)
    BY <1>2, <2>1
  <2>3. c = Append(Append(b, u), r)
    <3>1. Blocks(e) = <<u, r>>
      BY <1>7 DEF Blocks
    <3> HIDE DEF u, r
    <3>2. <<u, r>> = Append(<<u>>, r) /\ <<u>> \in Seq(Block)
      BY <2>1
    <3>3. b \o Append(<<u>>, r) = Append(b \o <<u>>, r)
      BY <1>2, <2>1, <3>2
    <3>4. b \o <<u>> = Append(b, u)
      BY <1>2, <2>1, AppendIsConcat
    <3> QED
      BY <1>3, <3>1, <3>2, <3>3, <3>4
  <2>4. /\ u.kind = "use" /\ u # Result(e.id) /\ r.kind = "result" /\ r.id = e.id
        /\ \A id : u = Use(id) <=> id = e.id
        /\ \A id : r = Result(id) <=> id = e.id
        /\ \A id : u # Result(id) /\ r # Use(id)
    BY DEF Use, Result
  <2>5. r = Result(r.id)
    BY <2>4
  <2> HIDE DEF u, r
  <2>6. Answering(Append(b, u))
    BY <1>2, <1>4, <2>1, <2>4, AnsweringAppend
  <2>7. e.id \in Unanswered(Append(b, u))
    BY <1>2, <2>1, <2>4, UnansweredAppend
  <2>8. Answering(Append(Append(b, u), r))
    BY <2>1, <2>2, <2>4, <2>5, <2>6, <2>7, AnsweringAppend
  <2>9. ASSUME NEW id \in y PROVE id \in Unanswered(c)
    <3>1. id \in Id /\ id \in Unanswered(b) /\ r # Result(id)
      BY <1>4, <1>7, <2>4
    <3>2. id \in Unanswered(Append(b, u))
      BY <1>2, <2>1, <2>4, <3>1, UnansweredAppend
    <3> QED
      BY <2>1, <2>2, <2>3, <3>1, <3>2, UnansweredAppend
  <2> QED
    BY <2>3, <2>8, <2>9 DEF Repeats, c
<1>8. CASE e.kind \notin {"use", "result", "pair"}
  <2>1. Blocks(e) = <<>>
    BY <1>8 DEF Blocks
  <2>2. c = b
    BY <1>2, <1>3, <2>1
  <2> QED
    BY <1>4, <2>2 DEF Repeats, c
<1> QED
  BY <1>5, <1>6, <1>7, <1>8

\* What a turn of n has given is not repeated to another model.
LEMMA WithOther ==
    ASSUME NEW s \in Seq(ItemType), NEW m, NEW n \in Model, n # m, NEW o \in Seq(Emitted)
    PROVE  Replay(With(s, n, o), m) = Replay(s, m)
<1> DEFINE P(r) == Replay(With(s, n, r), m) = Replay(s, m)
           S == {r \in Seq(Emitted) : P(r)}
<1>1. P(<<>>)
  <2> DEFINE z == <<>>
  <2>1. z \in Seq(Emitted)
    BY EmptySeq
  <2> HIDE DEF z
  <2>2. With(s, n, <<>>) = s
    BY <2>1, WithAppend
  <2> QED
    BY <2>2
<1>2. ASSUME NEW r \in Seq(Emitted), NEW e \in Emitted, P(r) PROVE P(Append(r, e))
  <2>1. /\ With(s, n, r) \in Seq(ItemType)
        /\ With(s, n, Append(r, e)) = Append(With(s, n, r), Item(n, e))
    BY WithAppend
  <2> QED
    BY <1>2, <2>1, RepeatsOther
<1> HIDE DEF P
<1>3. <<>> \in S /\ \A r \in Seq(Emitted), e \in Emitted : r \in S => Append(r, e) \in S
  BY <1>1, <1>2, EmptySeq
<1> HIDE DEF S
<1>4. o \in S
  BY <1>3, SeqSetInduction
<1> QED
  BY <1>4 DEF S, P

\* What stream gives of a turn of m, an event at a time.
LEMMA RepeatsWith ==
    ASSUME NEW s \in Seq(ItemType), NEW m \in Model, NEW o \in Seq(Emitted),
           NEW x \in SUBSET Id, Repeats(With(s, m, o), m, x),
           NEW e \in Emitted, e.kind = "result" => e.id \in x,
           e.kind = "pair" => e.id \notin x,
           NEW y \in SUBSET x, e.kind = "result" => e.id \notin y
    PROVE  Repeats(With(s, m, Append(o, e)), m, y)
<1>1. /\ With(s, m, o) \in Seq(ItemType)
      /\ With(s, m, Append(o, e)) = Append(With(s, m, o), Item(m, e))
  BY WithAppend
<1> QED
  BY <1>1, RepeatsAppend

\* A use is pending from its item until its result, in the items of this model.
LEMMA PendingAppend ==
    ASSUME NEW s \in Seq(ItemType), NEW x \in ItemType, NEW m, NEW id \in Id
    PROVE  id \in Pending(Append(s, x), m) <=>
               \/ x = Item(m, Use(id))
               \/ id \in Pending(s, m) /\ x \notin {Item(m, Result(id)), Item(m, PairOf(id))}
<1> DEFINE r == Append(s, x)
           n == Len(s) + 1
           u == Item(m, Use(id))
           A == {Item(m, Result(id)), Item(m, PairOf(id))}
<1>1. /\ Len(r) = n /\ r[n] = x /\ \A i \in 1 .. Len(s) : r[i] = s[i]
      /\ Len(s) \in Nat
  OBVIOUS
<1>2. u \notin A
  BY DEF Use, Result, PairOf, Item
<1>3. /\ id \in Pending(r, m) <=>
             \E i \in 1 .. Len(r) : r[i] = u /\ \A k \in i + 1 .. Len(r) : r[k] \notin A
      /\ id \in Pending(s, m) <=>
             \E i \in 1 .. Len(s) : s[i] = u /\ \A k \in i + 1 .. Len(s) : s[k] \notin A
  BY DEF Pending
<1> HIDE DEF r, u, A
<1>4. ASSUME id \in Pending(r, m) PROVE x = u \/ (id \in Pending(s, m) /\ x \notin A)
  <2>1. PICK i \in 1 .. n : r[i] = u /\ \A k \in i + 1 .. n : r[k] \notin A
    BY <1>1, <1>3, <1>4
  <2>2. CASE i = n
    BY <1>1, <2>1, <2>2
  <2>3. CASE i # n
    <3>1. i \in 1 .. Len(s) /\ n \in i + 1 .. n
      BY <1>1, <2>3
    <3>2. \A k \in i + 1 .. Len(s) : k \in i + 1 .. n /\ r[k] = s[k]
      BY <1>1, <3>1
    <3>3. s[i] = u /\ \A k \in i + 1 .. Len(s) : s[k] \notin A
      BY <1>1, <2>1, <3>1, <3>2
    <3>4. x \notin A
      BY <1>1, <2>1, <3>1
    <3> QED
      BY <1>3, <3>1, <3>3, <3>4
  <2> QED
    BY <2>2, <2>3
<1>5. ASSUME x = u PROVE id \in Pending(r, m)
  <2>1. n \in 1 .. n /\ r[n] = u /\ \A k \in n + 1 .. n : r[k] \notin A
    BY <1>1, <1>5
  <2> QED
    BY <1>1, <1>3, <2>1
<1>6. ASSUME id \in Pending(s, m), x \notin A PROVE id \in Pending(r, m)
  <2>1. PICK i \in 1 .. Len(s) : s[i] = u /\ \A k \in i + 1 .. Len(s) : s[k] \notin A
    BY <1>3, <1>6
  <2>2. i \in 1 .. n /\ r[i] = u
    BY <1>1, <2>1
  <2>3. ASSUME NEW k \in i + 1 .. n PROVE r[k] \notin A
    <3>1. CASE k = n
      BY <1>1, <1>6, <3>1
    <3>2. CASE k # n
      <4>1. k \in i + 1 .. Len(s) /\ k \in 1 .. Len(s)
        BY <1>1, <2>1, <3>2
      <4> QED
        BY <1>1, <2>1, <4>1
    <3> QED
      BY <3>1, <3>2
  <2> QED
    BY <1>1, <1>3, <2>2, <2>3
<1> QED
  BY <1>4, <1>5, <1>6 DEF r, u, A

\* What is pending for m has no answer in what is repeated to m.
LEMMA PendingUnanswered ==
    ASSUME NEW m \in Model, NEW s \in Seq(ItemType)
    PROVE  Pending(s, m) = Unanswered(Replay(s, m))
<1> DEFINE P(r) == \A id \in Id : id \in Pending(r, m) <=> id \in Unanswered(Replay(r, m))
           S == {r \in Seq(ItemType) : P(r)}
<1>1. P(<<>>)
  <2>1. Pending(<<>>, m) = {}
    <3>1. Len(<<>>) = 0
      OBVIOUS
    <3> QED
      BY <3>1 DEF Pending
  <2> QED
    BY <2>1, RepeatsEmpty
<1>2. ASSUME NEW r \in Seq(ItemType), NEW x \in ItemType, P(r) PROVE P(Append(r, x))
  <2> SUFFICES ASSUME NEW id \in Id
               PROVE  id \in Pending(Append(r, x), m) <=> id \in Unanswered(Replay(Append(r, x), m))
    OBVIOUS
  <2> DEFINE b == Replay(r, m)
             c == Replay(Append(r, x), m)
             e == x.event
  <2>1. b \in Seq(Block) /\ c = Repeating(m, b, x)
    BY ReplayAppend
  <2>2. id \in Pending(Append(r, x), m) <=>
               \/ x = Item(m, Use(id))
               \/ id \in Pending(r, m) /\ x \notin {Item(m, Result(id)), Item(m, PairOf(id))}
    BY PendingAppend
  <2>3. id \in Pending(r, m) <=> id \in Unanswered(b)
    BY <1>2
  <2>4. e \in Emitted /\ x = Item(x.model, e)
    BY DEF ItemType, Item
  <2>5. \A f : x = Item(m, f) <=> x.model = m /\ e = f
    BY DEF ItemType, Item
  <2>6. \A i : /\ Use(i).kind = "use" /\ Use(i).id = i
               /\ Result(i).kind = "result" /\ Result(i).id = i
               /\ PairOf(i).kind = "pair" /\ PairOf(i).id = i
    BY DEF Use, Result, PairOf
  <2>7. /\ e.kind = "use" => e = Use(e.id) /\ e \in Block
        /\ e.kind = "result" => e = Result(e.id) /\ e \in Block
        /\ e.kind = "pair" => e = PairOf(e.id) /\ Use(e.id) \in Block /\ Result(e.id) \in Block
    BY <2>4 DEF Emitted, Kept, Text, Call, Use, Result, PairOf, Block
  <2> HIDE DEF b, c, e
  <2>8. CASE x.model # m
    BY <2>1, <2>2, <2>3, <2>5, <2>8 DEF Repeating, c
  <2>9. CASE x.model = m
    <3>1. c = b \o Blocks(e)
      BY <2>1, <2>9 DEF Repeating, e
    <3>2. id \in Pending(Append(r, x), m) <=>
               e = Use(id) \/ (id \in Pending(r, m) /\ e # Result(id) /\ e # PairOf(id))
      BY <2>2, <2>5, <2>9
    <3>3. CASE e.kind \in {"use", "result"}
      <4>1. Blocks(e) = <<e>>
        BY <3>3 DEF Blocks
      <4>2. c = Append(b, e)
        BY <2>1, <2>7, <3>1, <3>3, <4>1, AppendIsConcat
      <4>3. id \in Unanswered(c) <=> e = Use(id) \/ (id \in Unanswered(b) /\ e # Result(id))
        BY <2>1, <2>7, <3>3, <4>2, UnansweredAppend
      <4>4. e # PairOf(id)
        BY <2>6, <3>3
      <4> QED
        BY <2>3, <3>2, <4>3, <4>4 DEF c
    <3>4. CASE e.kind = "pair"
      <4> DEFINE u == Use(e.id)
                 v == Result(e.id)
      <4>1. Blocks(e) = <<u, v>>
        BY <3>4 DEF Blocks
      <4>2. u \in Block /\ v \in Block
        BY <2>7, <3>4
      <4>3. u # Result(id) /\ v # Use(id) /\ (u = Use(id) <=> e.id = id) /\ (v = Result(id) <=> e.id = id)
        BY <2>6
      <4> HIDE DEF u, v
      <4>4. c = Append(Append(b, u), v)
        <5>1. <<u, v>> = Append(<<u>>, v) /\ <<u>> \in Seq(Block)
          BY <4>2
        <5>2. b \o Append(<<u>>, v) = Append(b \o <<u>>, v)
          BY <2>1, <4>2, <5>1
        <5>3. b \o <<u>> = Append(b, u)
          BY <2>1, <4>2, AppendIsConcat
        <5> QED
          BY <3>1, <4>1, <5>1, <5>2, <5>3
      <4>5. Append(b, u) \in Seq(Block)
        BY <2>1, <4>2
      <4>6. id \in Unanswered(c) <=>
                v = Use(id) \/ (id \in Unanswered(Append(b, u)) /\ v # Result(id))
        BY <4>2, <4>4, <4>5, UnansweredAppend
      <4>7. id \in Unanswered(Append(b, u)) <=> u = Use(id) \/ (id \in Unanswered(b) /\ u # Result(id))
        BY <2>1, <4>2, UnansweredAppend
      <4>8. e # Use(id) /\ e # Result(id) /\ (e = PairOf(id) <=> e.id = id)
        BY <2>6, <2>7, <3>4
      <4> QED
        BY <2>3, <3>2, <4>3, <4>6, <4>7, <4>8 DEF c
    <3>5. CASE e.kind \notin {"use", "result", "pair"}
      <4>1. Blocks(e) = <<>>
        BY <3>5 DEF Blocks
      <4>2. c = b
        BY <2>1, <3>1, <4>1
      <4>3. e # Use(id) /\ e # Result(id) /\ e # PairOf(id)
        BY <2>6, <3>5
      <4> QED
        BY <2>3, <3>2, <4>2, <4>3 DEF c
    <3> QED
      BY <3>3, <3>4, <3>5
  <2> QED
    BY <2>8, <2>9
<1> HIDE DEF P
<1>3. <<>> \in S /\ \A r \in Seq(ItemType), x \in ItemType : r \in S => Append(r, x) \in S
  BY <1>1, <1>2, EmptySeq
<1> HIDE DEF S
<1>4. s \in S
  BY <1>3, SeqSetInduction
<1>5. \A id \in Id : id \in Pending(s, m) <=> id \in Unanswered(Replay(s, m))
  BY <1>4 DEF S, P
<1> QED
  BY <1>5 DEF Pending, Unanswered

\* What is repeated once p's events are there: nothing that waits is expected.
Answers(s, m, p, o) ==
    /\ Repeats(With(s, m, o), m, p.expected)
    /\ \A id \in Id : Has(p.deferred, Use(id)) => id \notin p.expected

DrainingAnswers(s, m) == {x \in Draining : Answers(s, m, x.pairing, x.out)}

\* A turn of the loop of drain hands on only results of unanswered uses.
LEMMA TurnAnswers ==
    ASSUME NEW s \in Seq(ItemType), NEW m \in Model,
           NEW x \in DrainingAnswers(s, m), NEW r, NEW e \in Kept,
           NEW t \in Seq(Kept), x.pairing.deferred = <<e>> \o t, Turn(x, r, e, t)
    PROVE  Answers(s, m, r.pairing, r.out)
<1> DEFINE p == x.pairing
           o == x.out
<1>1. /\ x \in Draining /\ p \in Pairing /\ o \in Seq(Emitted) /\ p.expected \in SUBSET Id
      /\ Repeats(With(s, m, o), m, p.expected)
  BY DEF DrainingAnswers, Draining, Pairing, Answers
<1>2. e \in Emitted
  BY KeptIsEmitted
<1>3. \A id \in Id : Has(t, Use(id)) \/ e = Use(id) => id \notin p.expected
  <2>1. ASSUME NEW id \in Id PROVE Has(<<e>> \o t, Use(id)) <=> Use(id) = e \/ Has(t, Use(id))
    BY HasCons
  <2> QED
    BY <2>1 DEF DrainingAnswers, Answers
<1> HIDE DEF p, o
<1>4. ASSUME NEW y \in SUBSET p.expected, NEW f \in Emitted, NEW d \in Seq(Kept),
             r = Step(Waiting(p, y, d), Append(o, f)),
             f.kind = "result" => f.id \in p.expected /\ f.id \notin y,
             f.kind = "pair" => f.id \notin p.expected,
             \A id \in Id : Has(d, Use(id)) => Has(t, Use(id))
      PROVE  Answers(s, m, r.pairing, r.out)
  <2>1. Repeats(With(s, m, Append(o, f)), m, y)
    BY <1>1, <1>4, RepeatsWith
  <2>2. y \in SUBSET Id
    BY <1>1
  <2>3. r.pairing = Waiting(p, y, d) /\ r.out = Append(o, f)
    BY <1>4 DEF Step
  <2>4. r.pairing.expected = y /\ r.pairing.deferred = d
    BY <1>1, <2>2, <2>3, WaitingType
  <2> QED
    BY <1>3, <1>4, <2>1, <2>3, <2>4 DEF Answers
<1>5. CASE PassesFirst(x, r, e, t)
  <2>1. r = Step(Waiting(p, p.expected, t), Append(o, e)) /\ e.kind \in {"text", "call"}
    BY <1>5 DEF PassesFirst, p, o
  <2> QED
    BY <1>2, <1>4, <2>1
<1>6. CASE AnswersFirst(x, r, e, t)
  <2>1. /\ r = Step(Waiting(p, p.expected \ {e.id}, t), Append(o, e))
        /\ e.kind = "result" /\ e.id \in p.expected
    BY <1>6 DEF AnswersFirst, p, o
  <2>2. p.expected \ {e.id} \in SUBSET p.expected /\ e.id \notin p.expected \ {e.id}
    OBVIOUS
  <2> QED
    BY <1>2, <1>4, <2>1, <2>2
<1>7. CASE RefusesFirst(x, r, e, t)
  <2>1. r.pairing = Waiting(p, p.expected, t) /\ r.out = o
    BY <1>7 DEF RefusesFirst, Refusal, p, o
  <2>2. r.pairing.expected = p.expected /\ r.pairing.deferred = t
    BY <1>1, <2>1, WaitingType
  <2> QED
    BY <1>1, <1>3, <2>1, <2>2 DEF Answers
<1>8. CASE KeepsFirst(x, r, e, t)
  BY <1>8 DEF KeepsFirst, DrainingAnswers
<1>9. CASE JoinsFirst(x, r, e, t)
  <2>1. PICK f \in Seq(Kept), b \in Seq(Kept) :
            /\ t = f \o <<Result(e.id)>> \o b
            /\ r = Step(Waiting(p, p.expected, f \o b), Append(o, PairOf(e.id)))
    BY <1>9 DEF JoinsFirst, p, o
  <2>2. e.id \in Id /\ e = Use(e.id)
    BY <1>9 DEF JoinsFirst, Kept, Text, Call, Use
  <2> DEFINE g == f \o b
             q == PairOf(e.id)
  <2>3. Result(e.id) \in Kept /\ q \in Emitted /\ q.kind = "pair" /\ q.id = e.id
    BY <2>2 DEF Result, PairOf, Kept, Emitted
  <2>4. ASSUME NEW id \in Id, Has(g, Use(id)) PROVE Has(t, Use(id))
    <3>1. Has(t, Use(id)) <=> Use(id) = Result(e.id) \/ Has(f, Use(id)) \/ Has(b, Use(id))
      BY <2>1, <2>3, HasBetween
    <3>2. Has(g, Use(id)) <=> Has(f, Use(id)) \/ Has(b, Use(id))
      BY HasConcat
    <3> QED
      BY <2>4, <3>1, <3>2
  <2>5. g \in Seq(Kept) /\ r = Step(Waiting(p, p.expected, g), Append(o, q))
    BY <2>1
  <2>6. q.id \notin p.expected
    BY <1>3, <2>2, <2>3
  <2> HIDE DEF g, q
  <2> QED
    BY <1>4, <2>3, <2>4, <2>5, <2>6
<1> QED
  BY <1>5, <1>6, <1>7, <1>8, <1>9 DEF Turn

\* So it stays among the states that do.
LEMMA DrainOnceAnswers ==
    ASSUME NEW s \in Seq(ItemType), NEW m \in Model, NEW x \in DrainingAnswers(s, m)
    PROVE  DrainOnce(x) \in DrainingAnswers(s, m)
<1>1. x \in Draining /\ DrainOnce(x) \in Draining
  BY DrainOnceType DEF DrainingAnswers
<1>2. CASE ~x.ok \/ x.pairing.deferred = <<>>
  BY <1>2 DEF DrainOnce
<1>3. CASE x.ok /\ x.pairing.deferred # <<>>
  <2>1. PICK e \in Kept, t \in Seq(Kept) :
            x.pairing.deferred = <<e>> \o t /\ Turn(x, DrainOnce(x), e, t)
    BY <1>1, <1>3, TurnCases
  <2>2. Answers(s, m, DrainOnce(x).pairing, DrainOnce(x).out)
    BY <2>1, TurnAnswers
  <2> QED
    BY <1>1, <2>2 DEF DrainingAnswers
<1> QED
  BY <1>2, <1>3

\* pair hands on only results of unanswered uses.
LEMMA PairAnswers ==
    ASSUME NEW s \in Seq(ItemType), NEW m \in Model,
           NEW p \in Pairing, NEW o \in Seq(Emitted), Answers(s, m, p, o), NEW e \in Event
    PROVE  Answers(s, m, Pair(p, o, e).pairing, Pair(p, o, e).out)
<1>1. CASE Repeated(p, e)
  BY <1>1 DEF Pair, Refusal
<1>2. CASE ~Repeated(p, e)
  <2>1. e \in Kept
    BY <1>2, NotRepeated
  <2> DEFINE q == Noticed(p, e)
  <2>2. q \in Pairing /\ q.expected = p.expected /\ q.deferred = Append(p.deferred, e)
    BY <2>1, NoticedIs
  <2>3. p.deferred \in Seq(Kept)
    BY DEF Pairing
  <2>4. ASSUME NEW id \in Id, Has(q.deferred, Use(id)) PROVE id \notin q.expected
    <3>1. Has(Append(p.deferred, e), Use(id)) <=> Use(id) = e \/ Has(p.deferred, Use(id))
      BY <2>1, <2>3, HasAppend
    <3>2. Use(id) = e => id \notin p.expected
      BY <1>2 DEF Repeated, Use
    <3> QED
      BY <2>2, <2>4, <3>1, <3>2 DEF Answers
  <2> HIDE DEF q
  <2>5. Answers(s, m, q, o)
    BY <2>2, <2>4 DEF Answers
  <2>6. Step(q, o) \in DrainingAnswers(s, m)
    BY <2>2, <2>5, StepType DEF DrainingAnswers
  <2>7. Pair(p, o, e) \in DrainingAnswers(s, m)
    BY <1>2, <2>6, DrainOnceAnswers, PairKeeps DEF q
  <2> QED
    BY <2>7 DEF DrainingAnswers
<1> QED
  BY <1>1, <1>2

\* The uses of d may be handed on alone while these ids are expected.
FlushingAnswers(s, m) ==
    {x \in Draining : Repeats(With(s, m, x.out), m, x.pairing.expected)}

\* A turn of the loop of flushDeferred hands on only results of unanswered uses.
LEMMA FlushOneAnswers ==
    ASSUME NEW s \in Seq(ItemType), NEW m \in Model, NEW x \in FlushingAnswers(s, m), NEW e \in Kept
    PROVE  FlushOne(x, e) \in FlushingAnswers(s, m)
<1> DEFINE p == x.pairing
           o == x.out
           r == FlushOne(x, e)
<1>1. /\ x \in Draining /\ p \in Pairing /\ o \in Seq(Emitted) /\ p.expected \in SUBSET Id
      /\ p.deferred \in Seq(Kept)
      /\ Repeats(With(s, m, o), m, p.expected)
  BY DEF FlushingAnswers, Draining, Pairing
<1>2. e \in Emitted /\ e.kind # "pair"
  BY KeptIsEmitted DEF Kept, Text, Call
<1>3. r \in Draining
  BY <1>1, FlushOneType
<1>4. \/ r = x
      \/ /\ e.kind = "result" /\ e.id \in p.expected
         /\ r = Step(Waiting(p, p.expected \ {e.id}, p.deferred), Append(o, e))
      \/ r = Refusal(p, o)
      \/ e.kind # "result" /\ r = Step(p, Append(o, e))
  BY <1>1, FlushOneCases
<1> HIDE DEF p, o, r
<1>5. CASE r = x
  BY <1>5 DEF r
<1>6. CASE /\ e.kind = "result" /\ e.id \in p.expected
           /\ r = Step(Waiting(p, p.expected \ {e.id}, p.deferred), Append(o, e))
  <2> DEFINE y == p.expected \ {e.id}
  <2>1. y \in SUBSET p.expected /\ e.id \notin y /\ y \in SUBSET Id
    BY <1>1
  <2>2. r.pairing = Waiting(p, y, p.deferred) /\ r.out = Append(o, e)
    BY <1>6 DEF Step
  <2> HIDE DEF y
  <2>3. Repeats(With(s, m, Append(o, e)), m, y)
    BY <1>1, <1>2, <1>6, <2>1, RepeatsWith
  <2>4. r.pairing.expected = y
    BY <1>1, <2>1, <2>2, WaitingType
  <2> QED
    BY <1>3, <2>2, <2>3, <2>4 DEF FlushingAnswers, r
<1>7. CASE r = Refusal(p, o)
  <2>1. r.pairing = p /\ r.out = o
    BY <1>7 DEF Refusal
  <2> QED
    BY <1>1, <1>3, <2>1 DEF FlushingAnswers, r
<1>8. CASE e.kind # "result" /\ r = Step(p, Append(o, e))
  <2>1. Repeats(With(s, m, Append(o, e)), m, p.expected)
    BY <1>1, <1>2, <1>8, RepeatsWith
  <2>2. r.pairing = p /\ r.out = Append(o, e)
    BY <1>8 DEF Step
  <2> QED
    BY <1>3, <2>1, <2>2 DEF FlushingAnswers, r
<1> QED
  BY <1>4, <1>5, <1>6, <1>7, <1>8

\* However a turn ends, what it has given answers the uses before it.
LEMMA EndAnswers ==
    ASSUME NEW s \in Seq(ItemType), NEW m \in Model,
           NEW p \in Pairing, NEW o \in Seq(Emitted), Answers(s, m, p, o), NEW reason
    PROVE  Answering(Replay(With(s, m, End(p, o, reason).out), m))
<1> DEFINE z == <<>>
           q == [p EXCEPT !.deferred = z]
           d == p.deferred
<1>1. z \in Seq(Kept) /\ p.expected \in SUBSET Id /\ d \in Seq(Kept)
  BY EmptySeq DEF Pairing
<1>2. q = Waiting(p, p.expected, z)
  BY WaitingIs
<1>3. q \in Pairing /\ q.expected = p.expected
  <2> HIDE DEF z, q
  <2> QED
    BY <1>1, <1>2, WaitingType
<1>4. Step(q, o) \in FlushingAnswers(s, m)
  <2> HIDE DEF q
  <2> QED
    BY <1>3, StepType DEF Answers, FlushingAnswers
<1> HIDE DEF d
<1>5. Flush(p, o) \in FlushingAnswers(s, m)
  BY <1>1, <1>4, FlushOneAnswers, FlushKeeps DEF d
<1>6. CASE End(p, o, reason) = Flush(p, o)
  BY <1>5, <1>6 DEF FlushingAnswers, Repeats
<1>7. CASE End(p, o, reason) = Refusal(p, o)
  BY <1>7 DEF Refusal, Answers, Repeats
<1> QED
  BY <1>6, <1>7 DEF End

-----------------------------------------------------------------------------
(* Types, requests and usage *)

\* What a turn that goes on has used and what its caller was told of it.
Counted ==
    /\ pc # "idle" =>
           /\ model \in Model
           /\ stop = None /\ result = None
           /\ reported = delivered + AddUsage
           /\ requests <= continuations * MaxAttempts + attempt + 1
    /\ pc = "stream" => ~transferred
    /\ pc = "backoff" => transferred /\ AttemptsLeft
    /\ continuations <= maxPauseContinuations
    /\ result # None => delivered = reported

TypeInv == TypeOK /\ Counted

\* Every turn has the attempts of its continuations and no more.
LEMMA RequestsBounded ==
    ASSUME NEW c \in Nat, c <= maxPauseContinuations, NEW a \in 0 .. MaxAttempts - 1,
           NEW r \in Nat, r <= c * MaxAttempts + a + 1
    PROVE  /\ r <= (maxPauseContinuations + 1) * MaxAttempts
           /\ r <= (c + 1) * MaxAttempts
<1>1. MaxAttempts \in Nat /\ maxPauseContinuations \in Nat
  BY LimitAssumption
<1>2. \A x, y, z \in Nat : x <= y => x * z <= y * z
  OBVIOUS
<1>3. (c + 1) * MaxAttempts <= (maxPauseContinuations + 1) * MaxAttempts
  BY <1>1, <1>2
<1>4. (c + 1) * MaxAttempts = c * MaxAttempts + MaxAttempts
  BY <1>1
<1>5. c * MaxAttempts \in Nat /\ (c + 1) * MaxAttempts \in Nat
      /\ (maxPauseContinuations + 1) * MaxAttempts \in Nat
  BY <1>1
<1> QED
  BY <1>1, <1>3, <1>4, <1>5

\* An idle provider without a conversation is typed.
LEMMA InitType == Init => TypeInv
<1> SUFFICES ASSUME Init PROVE TypeInv
  OBVIOUS
<1> USE DEF Init
<1>1. /\ NewPairing({}) \in Pairing
      /\ <<>> \in Seq(ItemType) /\ <<>> \in Seq(Emitted) /\ <<>> \in Seq(Event)
  BY NewPairingIs, EmptySeq DEF NewPairingType
<1>2. TypeOK
  <2>1. saved \in [pairing : Pairing, out : Seq(Emitted), arrived : Seq(Event)]
    BY <1>1
  <2>2. 0 \in 0 .. MaxAttempts - 1 /\ 0 \in 0 .. (maxPauseContinuations + 1) * MaxAttempts
    BY LimitAssumption
  <2>3. items \in Seq([model : Model, event : Emitted])
    BY <1>1 DEF ItemType
  <2>4. {continuations, usage, attemptUsage, reported, delivered, turns} \subseteq Nat
    OBVIOUS
  <2>5. pairing \in Pairing /\ out \in Seq(Emitted) /\ arrived \in Seq(Event)
    BY <1>1
  <2> QED
    BY <2>1, <2>2, <2>3, <2>4, <2>5 DEF TypeOK
<1>3. Counted
  BY LimitAssumption DEF Counted
<1> QED
  BY <1>2, <1>3 DEF TypeInv

\* When stream returns its caller has been told what was reported.
LEMMA ReturnType ==
    ASSUME TypeInv, pc # "idle", NEW r \in {"done", "refused", "failed", "error"}, Return(r),
           reported' = reported, requests' = requests
    PROVE  /\ Counted'
           /\ pc' \in {"idle", "stream", "backoff"}
           /\ pairing' \in Pairing
           /\ saved' \in [pairing : Pairing, out : Seq(Emitted), arrived : Seq(Event)]
           /\ attempt' \in 0 .. MaxAttempts - 1
           /\ continuations' \in Nat /\ usage' \in Nat /\ attemptUsage' \in Nat
           /\ reported' \in Nat /\ delivered' \in Nat
           /\ requests' \in 0 .. (maxPauseContinuations + 1) * MaxAttempts
           /\ transferred' \in BOOLEAN
           /\ result' \in {None, "done", "refused", "failed", "error"}
<1>1. /\ pc' = "idle" /\ result' = r /\ delivered' = delivered + AddUsage
      /\ pairing' = NewPairing({})
      /\ saved' = [pairing |-> NewPairing({}), out |-> <<>>, arrived |-> <<>>]
      /\ attempt' = 0 /\ continuations' = 0
      /\ usage' = 0 /\ attemptUsage' = 0 /\ transferred' = FALSE
  BY DEF Return
<1>2. /\ usage \in Nat /\ attemptUsage \in Nat /\ reported \in Nat /\ delivered \in Nat
      /\ requests \in 0 .. (maxPauseContinuations + 1) * MaxAttempts
      /\ reported = delivered + AddUsage
  BY DEF TypeInv, TypeOK, Counted
<1>3. NewPairing({}) \in Pairing /\ <<>> \in Seq(Emitted) /\ <<>> \in Seq(Event)
  BY NewPairingIs, EmptySeq DEF NewPairingType
<1>4. saved' \in [pairing : Pairing, out : Seq(Emitted), arrived : Seq(Event)]
  BY <1>1, <1>3
<1>5. delivered' = reported'
  BY <1>1, <1>2
<1>6. Counted'
  BY <1>1, <1>5, LimitAssumption DEF Counted
<1>7. 0 \in 0 .. MaxAttempts - 1
  BY LimitAssumption
<1> QED
  BY <1>1, <1>2, <1>3, <1>4, <1>5, <1>6, <1>7

\* Every step keeps the types.
LEMMA NextType == TypeInv /\ [Next]_vars => TypeInv'
<1> SUFFICES ASSUME TypeInv, [Next]_vars PROVE TypeInv'
  OBVIOUS
<1>0. /\ pc \in {"idle", "stream", "backoff"}
      /\ model \in Model \cup {None}
      /\ items \in Seq([model : Model, event : Emitted])
      /\ pairing \in Pairing /\ out \in Seq(Emitted) /\ arrived \in Seq(Event)
      /\ saved \in [pairing : Pairing, out : Seq(Emitted), arrived : Seq(Event)]
      /\ attempt \in 0 .. MaxAttempts - 1
      /\ continuations \in Nat /\ usage \in Nat /\ attemptUsage \in Nat
      /\ reported \in Nat /\ delivered \in Nat /\ turns \in Nat
      /\ requests \in 0 .. (maxPauseContinuations + 1) * MaxAttempts
      /\ transferred \in BOOLEAN
      /\ stop \in {None, "end_turn", "tool_use"}
      /\ result \in {None, "done", "refused", "failed", "error"}
      /\ Counted
  BY DEF TypeInv, TypeOK
<1>1. /\ MaxAttempts \in Nat \ {0} /\ maxPauseContinuations \in Nat /\ MaxAttempts >= 1
  BY LimitAssumption
<1>2. ASSUME NEW m \in Model, Begin(m) PROVE TypeInv'
  <2> DEFINE p == NewPairing(Pending(items, m))
  <2>1. Pending(items, m) \in SUBSET Id
    BY DEF Pending
  <2>2. p \in Pairing
    BY <2>1, NewPairingIs DEF NewPairingType
  <2> HIDE DEF p
  <2>3. /\ pc' = "stream" /\ model' = m /\ items' = items
        /\ pairing' = p /\ out' = <<>> /\ arrived' = <<>>
        /\ saved' = [pairing |-> p, out |-> <<>>, arrived |-> <<>>]
        /\ attempt' = 0 /\ continuations' = 0 /\ usage' = 0 /\ reported' = 0 /\ delivered' = 0
        /\ attemptUsage' = 0 /\ transferred' = FALSE /\ requests' = 1
        /\ stop' = None /\ result' = None /\ turns' = turns + 1
    BY <1>2 DEF Begin, p
  <2>4. <<>> \in Seq(Emitted) /\ <<>> \in Seq(Event)
    BY EmptySeq
  <2>5. saved' \in [pairing : Pairing, out : Seq(Emitted), arrived : Seq(Event)]
    BY <2>2, <2>3, <2>4
  <2>6. 0 \in 0 .. MaxAttempts - 1
    BY <1>1
  <2>7. 1 \in 0 .. (maxPauseContinuations + 1) * MaxAttempts
    <3>1. 1 <= 0 * MaxAttempts + 0 + 1
      BY <1>1
    <3>2. 0 <= maxPauseContinuations
      BY <1>1
    <3>3. 1 <= (maxPauseContinuations + 1) * MaxAttempts
      BY <2>6, <3>1, <3>2, RequestsBounded
    <3> QED
      BY <1>1, <3>3
  <2>8. TypeOK'
    <3>1. /\ pc' \in {"idle", "stream", "backoff"}
          /\ model' \in Model \cup {None}
          /\ items' \in Seq([model : Model, event : Emitted])
          /\ pairing' \in Pairing /\ out' \in Seq(Emitted) /\ arrived' \in Seq(Event)
      BY <1>0, <2>2, <2>3, <2>4, <2>5, <2>6
    <3>2. {continuations, usage, attemptUsage, reported, delivered, turns}' \subseteq Nat
      BY <1>0, <2>2, <2>3, <2>4, <2>5, <2>6
    <3>3. /\ transferred' \in BOOLEAN /\ stop' \in {None, "end_turn", "tool_use"}
          /\ result' \in {None, "done", "refused", "failed", "error"}
      BY <1>0, <2>2, <2>3, <2>4, <2>5, <2>6
    <3>4. /\ attempt' \in 0 .. MaxAttempts - 1
          /\ saved' \in [pairing : Pairing, out : Seq(Emitted), arrived : Seq(Event)]
      BY <1>0, <2>2, <2>3, <2>4, <2>5, <2>6
    <3>5. requests' \in 0 .. (maxPauseContinuations + 1) * MaxAttempts
      BY <2>3, <2>7
    <3> QED
      BY <3>1, <3>2, <3>3, <3>4, <3>5 DEF TypeOK
  <2>9. Counted'
    BY <1>1, <2>3 DEF Counted, AddUsage, None
  <2> QED
    BY <2>8, <2>9 DEF TypeInv
<1>3. CASE Usage
  <2>1. TypeOK'
    BY <1>0, <1>3 DEF Usage, TypeOK
  <2>2. Counted'
    BY <1>0, <1>3 DEF Usage, Counted, AddUsage, AttemptsLeft
  <2> QED
    BY <2>1, <2>2 DEF TypeInv
<1>4. ASSUME NEW e \in Event, Receive(e) PROVE TypeInv'
  <2> DEFINE s == Pair(pairing, out, e)
  <2>1. s \in Draining
    BY <1>0, PairType
  <2>2. s.pairing \in Pairing /\ s.out \in Seq(Emitted)
    BY <2>1 DEF Draining
  <2> HIDE DEF s
  <2>3. /\ pc = "stream" /\ arrived' = Append(arrived, e) /\ out' = s.out
        /\ model' = model /\ items' = items /\ reported' = reported
        /\ requests' = requests /\ stop' = stop /\ turns' = turns
    BY <1>4 DEF Receive, s
  <2>4. arrived' \in Seq(Event)
    BY <1>0, <2>3
  <2>5. CASE /\ s.ok /\ pairing' = s.pairing
             /\ UNCHANGED <<pc, saved, attempt, continuations, usage, attemptUsage, transferred,
                            delivered, result>>
    <3>1. TypeOK'
      BY <1>0, <2>2, <2>3, <2>4, <2>5 DEF TypeOK
    <3>2. Counted'
      BY <1>0, <2>3, <2>5 DEF Counted, AddUsage, AttemptsLeft
    <3> QED
      BY <3>1, <3>2 DEF TypeInv
  <2>6. CASE Return("refused")
    <3>1. pc # "idle"
      BY <2>3
    <3> QED
      BY <1>0, <2>2, <2>3, <2>4, <2>6, <3>1, ReturnType DEF TypeInv, TypeOK
  <2> QED
    BY <1>4, <2>5, <2>6 DEF Receive, s
<1>5. ASSUME NEW reason \in {"end_turn", "tool_use"}, Complete(reason) PROVE TypeInv'
  <2> DEFINE s == End(pairing, out, reason)
             r == IF s.ok THEN "done" ELSE "refused"
  <2>1. s \in Draining
    BY <1>0, EndType
  <2>2. s.out \in Seq(Emitted)
    BY <2>1 DEF Draining
  <2> HIDE DEF s
  <2>3. /\ pc = "stream" /\ stop' = reason /\ out' = s.out /\ Return(r)
        /\ items' = IF s.ok THEN With(items, model, s.out) ELSE items
        /\ model' = model /\ arrived' = arrived /\ reported' = reported
        /\ requests' = requests /\ turns' = turns
    BY <1>5 DEF Complete, s
  <2>4. model \in Model
    BY <1>0, <2>3 DEF Counted
  <2>5. items' \in Seq([model : Model, event : Emitted])
    <3>1. With(items, model, s.out) \in Seq([model : Model, event : Emitted])
      BY <1>0, <2>2, <2>4, WithAppend DEF ItemType
    <3> QED
      BY <1>0, <2>3, <3>1
  <2>6. r \in {"done", "refused", "failed", "error"} /\ pc # "idle"
    BY <2>3
  <2> HIDE DEF r
  <2> QED
    BY <1>0, <2>2, <2>3, <2>5, <2>6, ReturnType DEF TypeInv, TypeOK
<1>6. CASE Pause
  <2>1. /\ pc = "stream" /\ continuations < maxPauseContinuations
        /\ pc' = "stream" /\ attemptUsage' = 0 /\ transferred' = FALSE /\ requests' = requests + 1
        /\ continuations' = continuations + 1 /\ attempt' = 0 /\ usage' = AddUsage
        /\ saved' = [pairing |-> pairing, out |-> out, arrived |-> arrived]
        /\ UNCHANGED <<model, items, pairing, out, arrived, reported, delivered, stop, result, turns>>
    BY <1>6 DEF Pause, Send
  <2>2. AddUsage \in Nat
    BY <1>0 DEF AddUsage
  <2>3. /\ requests \in Nat
        /\ requests <= continuations * MaxAttempts + attempt + 1
        /\ reported = delivered + AddUsage
    BY <1>0, <1>1, <2>1 DEF Counted
  <2>4. requests <= (continuations + 1) * MaxAttempts
    BY <1>0, <2>1, <2>3, RequestsBounded DEF Counted
  <2>5. continuations' \in Nat /\ continuations' <= maxPauseContinuations
    BY <1>0, <1>1, <2>1
  <2>6. (continuations + 1) * MaxAttempts \in Nat
    BY <1>0, <1>1
  <2>7. requests' <= continuations' * MaxAttempts + 0 + 1 /\ requests' \in Nat
    BY <1>0, <2>1, <2>3, <2>4, <2>6
  <2>8. 0 \in 0 .. MaxAttempts - 1
    BY <1>1
  <2>9. requests' <= (maxPauseContinuations + 1) * MaxAttempts
    BY <2>5, <2>7, <2>8, RequestsBounded
  <2>10. requests' \in 0 .. (maxPauseContinuations + 1) * MaxAttempts
    BY <1>1, <2>7, <2>9
  <2>11. saved' \in [pairing : Pairing, out : Seq(Emitted), arrived : Seq(Event)]
    BY <1>0, <2>1
  <2>12. TypeOK'
    <3>1. /\ pc' \in {"idle", "stream", "backoff"}
          /\ model' \in Model \cup {None}
          /\ items' \in Seq([model : Model, event : Emitted])
          /\ pairing' \in Pairing /\ out' \in Seq(Emitted) /\ arrived' \in Seq(Event)
      BY <1>0, <2>1, <2>2, <2>5, <2>8, <2>11
    <3>2. {continuations, usage, attemptUsage, reported, delivered, turns}' \subseteq Nat
      BY <1>0, <2>1, <2>2, <2>5, <2>8, <2>11
    <3>3. /\ transferred' \in BOOLEAN /\ stop' \in {None, "end_turn", "tool_use"}
          /\ result' \in {None, "done", "refused", "failed", "error"}
      BY <1>0, <2>1, <2>2, <2>5, <2>8, <2>11
    <3>4. /\ attempt' \in 0 .. MaxAttempts - 1
          /\ saved' \in [pairing : Pairing, out : Seq(Emitted), arrived : Seq(Event)]
      BY <1>0, <2>1, <2>2, <2>5, <2>8, <2>11
    <3>5. requests' \in 0 .. (maxPauseContinuations + 1) * MaxAttempts
      BY <2>10
    <3> QED
      BY <3>1, <3>2, <3>3, <3>4, <3>5 DEF TypeOK
  <2>13. Counted'
    <3>1. AddUsage' = AddUsage
      BY <2>1, <2>2 DEF AddUsage
    <3> QED
      BY <1>0, <2>1, <2>3, <2>5, <2>7, <3>1 DEF Counted
  <2> QED
    BY <2>12, <2>13 DEF TypeInv
<1>7. CASE PauseTooOften
  BY <1>0, <1>7, ReturnType DEF PauseTooOften, TypeInv, TypeOK
<1>8. CASE Retry
  <2>1. saved.pairing \in Pairing /\ saved.out \in Seq(Emitted) /\ saved.arrived \in Seq(Event)
    BY <1>0
  <2>2. TypeOK'
    BY <1>0, <1>8, <2>1 DEF Retry, Restored, TypeOK
  <2>3. Counted'
    BY <1>0, <1>8 DEF Retry, Counted, AddUsage, AttemptsLeft
  <2> QED
    BY <2>2, <2>3 DEF TypeInv
<1>9. CASE Again
  <2>1. /\ pc = "backoff" /\ pc' = "stream" /\ attemptUsage' = 0 /\ transferred' = FALSE
        /\ requests' = requests + 1 /\ attempt' = attempt + 1
        /\ UNCHANGED <<model, items, pairing, out, arrived, saved, continuations, usage, reported,
                       delivered, stop, result, turns>>
    BY <1>9 DEF Again, Send
  <2>2. /\ requests \in Nat /\ requests <= continuations * MaxAttempts + attempt + 1
        /\ attempt + 1 < MaxAttempts /\ continuations <= maxPauseContinuations
        /\ reported = delivered + usage /\ model \in Model /\ stop = None /\ result = None
    BY <1>0, <1>1, <2>1 DEF Counted, AttemptsLeft, AddUsage
  <2>3. attempt' \in 0 .. MaxAttempts - 1
    BY <1>0, <1>1, <2>1, <2>2
  <2>4. continuations * MaxAttempts \in Nat
    BY <1>0, <1>1
  <2>5. requests' <= continuations * MaxAttempts + attempt' + 1 /\ requests' \in Nat
    BY <1>0, <2>1, <2>2, <2>4
  <2>6. requests' <= (maxPauseContinuations + 1) * MaxAttempts
    BY <1>0, <2>2, <2>3, <2>5, RequestsBounded
  <2>7. requests' \in 0 .. (maxPauseContinuations + 1) * MaxAttempts
    BY <1>1, <2>5, <2>6
  <2>8. TypeOK'
    <3>1. /\ pc' \in {"idle", "stream", "backoff"}
          /\ model' \in Model \cup {None}
          /\ items' \in Seq([model : Model, event : Emitted])
          /\ pairing' \in Pairing /\ out' \in Seq(Emitted) /\ arrived' \in Seq(Event)
      BY <1>0, <2>1, <2>3
    <3>2. {continuations, usage, attemptUsage, reported, delivered, turns}' \subseteq Nat
      BY <1>0, <2>1, <2>3
    <3>3. /\ transferred' \in BOOLEAN /\ stop' \in {None, "end_turn", "tool_use"}
          /\ result' \in {None, "done", "refused", "failed", "error"}
      BY <1>0, <2>1, <2>3
    <3>4. /\ attempt' \in 0 .. MaxAttempts - 1
          /\ saved' \in [pairing : Pairing, out : Seq(Emitted), arrived : Seq(Event)]
      BY <1>0, <2>1, <2>3
    <3>5. requests' \in 0 .. (maxPauseContinuations + 1) * MaxAttempts
      BY <2>7
    <3> QED
      BY <3>1, <3>2, <3>3, <3>4, <3>5 DEF TypeOK
  <2>9. Counted'
    BY <1>0, <2>1, <2>2, <2>5 DEF Counted, AddUsage
  <2> QED
    BY <2>8, <2>9 DEF TypeInv
<1>10. CASE Fail
  BY <1>0, <1>10, ReturnType DEF Fail, TypeInv, TypeOK
<1>11. CASE Cancel
  BY <1>0, <1>11, ReturnType DEF Cancel, TypeInv, TypeOK
<1>12. CASE UNCHANGED vars
  BY <1>0, <1>12 DEF vars, TypeInv, TypeOK, Counted, AddUsage, AttemptsLeft
<1> QED
  BY <1>2, <1>3, <1>4, <1>5, <1>6, <1>7, <1>8, <1>9, <1>10, <1>11, <1>12 DEF Next

\* The state is typed, and the requests of a turn stay within the attempts of
\* its continuations.
THEOREM TypeInvariant == Spec => []TypeInv
  BY InitType, NextType, PTL DEF Spec

\* Every variable keeps its type, and no turn sends more requests than its
\* continuations have attempts.
THEOREM TypeCorrect == Spec => []TypeOK
<1>1. TypeInv => TypeOK
  BY DEF TypeInv
<1> QED
  BY <1>1, TypeInvariant, PTL

\* What the attempts of a turn reported reaches the caller once.
THEOREM UsageOnce == Spec => []UsageCountedOnce
<1>1. TypeInv => UsageCountedOnce
  BY DEF TypeInv, Counted, UsageCountedOnce
<1> QED
  BY <1>1, TypeInvariant, PTL

-----------------------------------------------------------------------------
(* Nothing is lost, handed on twice or overtaken *)

\* What has arrived was kept, and it is in order; so is what a retry goes back to.
OrderInv ==
    pc # "idle" =>
        /\ arrived \in Seq(Kept) /\ saved.arrived \in Seq(Kept)
        /\ InOrder(pairing, out, arrived)
        /\ InOrder(saved.pairing, saved.out, saved.arrived)

\* Where nothing has arrived nothing waits and nothing was handed on.
LEMMA NewInOrder ==
    ASSUME NEW x \in SUBSET Id
    PROVE  InOrder(NewPairing(x), <<>>, <<>>)
<1> DEFINE z == <<>>
<1>1. Paired(z) = z /\ NewPairing(x).deferred = z
  BY PairedEmpty, NewPairingIs DEF NewPairingType
<1>2. z \o z = z
  OBVIOUS
<1>3. \A id : ~Has(z, Use(id))
  BY HasSingle
<1> HIDE DEF z
<1>4. InOrder(NewPairing(x), z, z)
  BY <1>1, <1>2, <1>3 DEF InOrder
<1> QED
  BY <1>4 DEF z

\* No turn is going on at first.
LEMMA InitOrder == Init => OrderInv
  BY DEF Init, OrderInv

\* Every step keeps what was handed on and what waits in order, also of the
\* state a retry restores.
LEMMA NextOrder == TypeInv /\ OrderInv /\ [Next]_vars => OrderInv'
<1> SUFFICES ASSUME TypeInv, OrderInv, [Next]_vars, pc' # "idle"
             PROVE  /\ arrived' \in Seq(Kept) /\ saved'.arrived \in Seq(Kept)
                    /\ InOrder(pairing', out', arrived')
                    /\ InOrder(saved'.pairing, saved'.out, saved'.arrived)
  BY DEF OrderInv
<1>1. pairing \in Pairing /\ out \in Seq(Emitted)
  BY DEF TypeInv, TypeOK
<1>2. ASSUME NEW m \in Model, Begin(m)
      PROVE  /\ arrived' \in Seq(Kept) /\ saved'.arrived \in Seq(Kept)
             /\ InOrder(pairing', out', arrived')
             /\ InOrder(saved'.pairing, saved'.out, saved'.arrived)
  <2>1. Pending(items, m) \in SUBSET Id
    BY DEF Pending
  <2> DEFINE p == NewPairing(Pending(items, m))
  <2>2. InOrder(p, <<>>, <<>>)
    BY <2>1, NewInOrder
  <2>3. /\ pairing' = p /\ out' = <<>> /\ arrived' = <<>>
        /\ saved' = [pairing |-> p, out |-> <<>>, arrived |-> <<>>]
    BY <1>2 DEF Begin
  <2> HIDE DEF p
  <2> QED
    BY <2>2, <2>3, EmptySeq
<1>3. ASSUME NEW e \in Event, Receive(e)
      PROVE  /\ arrived' \in Seq(Kept) /\ saved'.arrived \in Seq(Kept)
             /\ InOrder(pairing', out', arrived')
             /\ InOrder(saved'.pairing, saved'.out, saved'.arrived)
  <2> DEFINE s == Pair(pairing, out, e)
  <2>1. pc = "stream" /\ arrived' = Append(arrived, e) /\ out' = s.out
        /\ s.ok /\ pairing' = s.pairing /\ saved' = saved
    BY <1>3 DEF Receive, Return
  <2>2. ~Repeated(pairing, e)
    BY <2>1 DEF Pair, Refusal
  <2>3. e \in Kept
    BY <2>2, NotRepeated
  <2>4. arrived \in Seq(Kept) /\ InOrder(pairing, out, arrived)
    BY <2>1 DEF OrderInv
  <2>5. InOrder(s.pairing, s.out, Append(arrived, e))
    BY <1>1, <2>1, <2>4, PairInOrder
  <2>6. Append(arrived, e) \in Seq(Kept)
    BY <2>3, <2>4
  <2> HIDE DEF s
  <2> QED
    BY <2>1, <2>5, <2>6 DEF OrderInv
<1>4. CASE Pause
  <2>1. /\ pc = "stream" /\ UNCHANGED <<pairing, out, arrived>>
        /\ saved' = [pairing |-> pairing, out |-> out, arrived |-> arrived]
    BY <1>4 DEF Pause
  <2> QED
    BY <2>1 DEF OrderInv
<1>5. CASE Retry
  <2>1. /\ pc = "stream" /\ saved' = saved /\ pairing' = saved.pairing
        /\ out' = saved.out /\ arrived' = saved.arrived
    BY <1>5 DEF Retry, Restored
  <2> QED
    BY <2>1 DEF OrderInv
<1>6. CASE Usage \/ Again \/ UNCHANGED vars
  <2>1. pc # "idle" /\ UNCHANGED <<pairing, out, arrived, saved>>
    BY <1>6 DEF Usage, Again, vars
  <2> QED
    BY <2>1 DEF OrderInv
<1>7. CASE PauseTooOften \/ Fail \/ Cancel \/ \E reason \in {"end_turn", "tool_use"} : Complete(reason)
  <2>1. pc' = "idle"
    BY <1>7 DEF PauseTooOften, Fail, Cancel, Complete, Return
  <2> QED
    BY <2>1
<1> QED
  BY <1>2, <1>3, <1>4, <1>5, <1>6, <1>7 DEF Next

\* What the caller was given and what waits is what has arrived, in its order,
\* with each use joined with its result, whatever was retried or continued.
THEOREM NothingLost == Spec => []PairedInOrder
<1>1. OrderInv => PairedInOrder
  BY DEF OrderInv, PairedInOrder, InOrder
<1>2. Spec => []OrderInv
  BY InitOrder, NextOrder, TypeInvariant, PTL DEF Spec
<1> QED
  BY <1>1, <1>2, PTL

-----------------------------------------------------------------------------
(* Results follow their uses *)

AnswerInv ==
    /\ ResultsFollowUses
    /\ pc # "idle" =>
           /\ Answers(items, model, pairing, out)
           /\ Answers(items, model, saved.pairing, saved.out)

\* An empty conversation repeats nothing.
LEMMA InitAnswers == Init => AnswerInv
<1> SUFFICES ASSUME Init PROVE AnswerInv
  OBVIOUS
<1>1. items = <<>> /\ pc = "idle"
  BY DEF Init
<1>2. \A m \in Model : Answering(Replay(<<>>, m))
  BY RepeatsEmpty
<1> QED
  BY <1>1, <1>2 DEF AnswerInv, ResultsFollowUses

\* Every step keeps the conversation answering, with what is handed on in it.
LEMMA NextAnswers == TypeInv /\ AnswerInv /\ [Next]_vars => AnswerInv'
<1> SUFFICES ASSUME TypeInv, AnswerInv, [Next]_vars PROVE AnswerInv'
  OBVIOUS
<1>1. pairing \in Pairing /\ out \in Seq(Emitted) /\ items \in Seq(ItemType)
      /\ (pc # "idle" => model \in Model)
  BY DEF TypeInv, TypeOK, Counted, ItemType
<1>2. items' = items => ResultsFollowUses'
  BY DEF AnswerInv, ResultsFollowUses
<1>3. ASSUME NEW m \in Model, Begin(m) PROVE AnswerInv'
  <2> DEFINE x == Pending(items, m)
             p == NewPairing(x)
             z == <<>>
  <2>1. x \in SUBSET Id
    BY DEF Pending
  <2>2. p.expected = x /\ p.deferred = z
    BY <2>1, NewPairingIs DEF NewPairingType
  <2>3. /\ pairing' = p /\ out' = z /\ items' = items /\ model' = m
        /\ saved' = [pairing |-> p, out |-> z, arrived |-> z]
    BY <1>3 DEF Begin
  <2>4. With(items, m, z) = items
    <3>1. z \in Seq(Emitted)
      BY EmptySeq
    <3> HIDE DEF z
    <3>2. With(items, m, <<>>) = items
      BY <1>1, <3>1, WithAppend DEF ItemType
    <3> QED
      BY <3>2 DEF z
  <2>5. x = Unanswered(Replay(items, m)) /\ Answering(Replay(items, m))
    BY <1>1, PendingUnanswered DEF AnswerInv, ResultsFollowUses
  <2>6. \A id : ~Has(z, Use(id))
    BY HasSingle
  <2> HIDE DEF x, p, z
  <2>7. Answers(items, m, p, z)
    BY <2>2, <2>4, <2>5, <2>6 DEF Answers, Repeats
  <2> QED
    BY <1>2, <2>3, <2>7 DEF AnswerInv
<1>4. ASSUME NEW e \in Event, Receive(e) PROVE AnswerInv'
  <2> DEFINE s == Pair(pairing, out, e)
  <2>1. pc = "stream" /\ out' = s.out /\ items' = items /\ model' = model
    BY <1>4 DEF Receive
  <2>2. pc' = "idle" \/ (pairing' = s.pairing /\ saved' = saved)
    BY <1>4 DEF Receive, Return
  <2>3. Answers(items, model, pairing, out)
    BY <2>1 DEF AnswerInv
  <2>4. Answers(items, model, s.pairing, s.out)
    BY <1>1, <2>1, <2>3, PairAnswers
  <2> HIDE DEF s
  <2> QED
    BY <1>2, <2>1, <2>2, <2>4 DEF AnswerInv
<1>5. ASSUME NEW reason \in {"end_turn", "tool_use"}, Complete(reason) PROVE AnswerInv'
  <2> DEFINE s == End(pairing, out, reason)
  <2>1. /\ pc = "stream" /\ pc' = "idle"
        /\ items' = IF s.ok THEN With(items, model, s.out) ELSE items
    BY <1>5 DEF Complete, Return
  <2>2. model \in Model /\ Answers(items, model, pairing, out)
    BY <1>1, <2>1 DEF AnswerInv
  <2>3. s.out \in Seq(Emitted)
    BY <1>1, EndType DEF Draining
  <2>4. Answering(Replay(With(items, model, s.out), model))
    BY <1>1, <2>2, EndAnswers
  <2> HIDE DEF s
  <2>5. ASSUME NEW m \in Model PROVE Answering(Replay(With(items, model, s.out), m))
    <3>1. CASE m = model
      BY <2>4, <3>1
    <3>2. CASE m # model
      <4>1. Replay(With(items, model, s.out), m) = Replay(items, m)
        BY <1>1, <2>2, <2>3, <3>2, WithOther
      <4> QED
        BY <4>1 DEF AnswerInv, ResultsFollowUses
    <3> QED
      BY <3>1, <3>2
  <2>6. ResultsFollowUses'
    <3>1. CASE s.ok
      BY <2>1, <2>5, <3>1 DEF ResultsFollowUses
    <3>2. CASE ~s.ok
      BY <1>2, <2>1, <3>2
    <3> QED
      BY <3>1, <3>2
  <2> QED
    BY <2>1, <2>6 DEF AnswerInv
<1>6. CASE Pause
  <2>1. /\ pc = "stream" /\ UNCHANGED <<pairing, out, items, model>>
        /\ saved' = [pairing |-> pairing, out |-> out, arrived |-> arrived]
    BY <1>6 DEF Pause
  <2> QED
    BY <1>2, <2>1 DEF AnswerInv
<1>7. CASE Retry
  <2>1. /\ pc = "stream" /\ UNCHANGED <<saved, items, model>> /\ pairing' = saved.pairing
        /\ out' = saved.out
    BY <1>7 DEF Retry, Restored
  <2> QED
    BY <1>2, <2>1 DEF AnswerInv
<1>8. CASE Usage \/ Again \/ UNCHANGED vars
  <2>1. UNCHANGED <<pairing, out, saved, items, model>> /\ (pc' # "idle" => pc # "idle")
    BY <1>8 DEF Usage, Again, vars
  <2> QED
    BY <1>2, <2>1 DEF AnswerInv
<1>9. CASE PauseTooOften \/ Fail \/ Cancel
  <2>1. pc' = "idle" /\ items' = items
    BY <1>9 DEF PauseTooOften, Fail, Cancel, Return
  <2> QED
    BY <1>2, <2>1 DEF AnswerInv
<1> QED
  BY <1>3, <1>4, <1>5, <1>6, <1>7, <1>8, <1>9 DEF Next

\* In what a request repeats of a conversation to a model every result follows
\* a use by that model which had none yet.
THEOREM ResultsAnswer == Spec => []ResultsFollowUses
<1>1. AnswerInv => ResultsFollowUses
  BY DEF AnswerInv
<1>2. Spec => []AnswerInv
  BY InitAnswers, NextAnswers, TypeInvariant, PTL DEF Spec
<1> QED
  BY <1>1, <1>2, PTL

-----------------------------------------------------------------------------
(* What joining tells apart *)

\* A pair takes the place of its use, and nothing moves.
LEMMA InPlaceElements ==
    ASSUME NEW o \in Seq(Emitted), NEW i
    PROVE  /\ Len(InPlace(o, i)) = Len(o)
           /\ \A k \in 1 .. Len(o) :
                  InPlace(o, i)[k] = IF o[k] = Use(i) THEN PairOf(i) ELSE o[k]
           /\ Use(i) # PairOf(i)
  BY DEF InPlace, Use, PairOf

\* The use is gone then, and the pair is there.
LEMMA HasInPlace ==
    ASSUME NEW o \in Seq(Emitted), NEW i, NEW z
    PROVE  /\ z = Use(i) => ~Has(InPlace(o, i), z)
           /\ z = PairOf(i) => (Has(InPlace(o, i), z) <=> Has(o, Use(i)) \/ Has(o, z))
           /\ z # Use(i) /\ z # PairOf(i) => (Has(InPlace(o, i), z) <=> Has(o, z))
  BY InPlaceElements DEF Has

\* Everything else keeps its order.
LEMMA BeforeInPlace ==
    ASSUME NEW o \in Seq(Emitted), NEW i, NEW z, z # Use(i), z # PairOf(i), NEW w, w # Use(i)
    PROVE  Before(InPlace(o, i), z, w) <=>
               Before(o, z, w) \/ (w = PairOf(i) /\ Before(o, z, Use(i)))
<1> DEFINE r == InPlace(o, i)
           u == Use(i)
           p == PairOf(i)
<1>1. /\ Len(r) = Len(o) /\ u # p
      /\ \A k \in 1 .. Len(o) : r[k] = IF o[k] = u THEN p ELSE o[k]
  BY InPlaceElements
<1>2. z # u /\ z # p /\ w # u
  OBVIOUS
<1> HIDE DEF r, u, p
<1>3. \A k \in 1 .. Len(o) : r[k] = z <=> o[k] = z
  BY <1>1, <1>2
<1>4. \A k \in 1 .. Len(o) : r[k] = w <=> o[k] = w \/ (w = p /\ o[k] = u)
  BY <1>1, <1>2
<1>5. Before(r, z, w) => Before(o, z, w) \/ (w = p /\ Before(o, z, u))
  BY <1>1, <1>3, <1>4 DEF Before
<1>6. Before(o, z, w) => Before(r, z, w)
  BY <1>1, <1>3, <1>4 DEF Before
<1>7. w = p /\ Before(o, z, u) => Before(r, z, w)
  BY <1>1, <1>3, <1>4 DEF Before
<1> QED
  BY <1>5, <1>6, <1>7 DEF r, u, p

\* How a result changes what is joined, where its use is there.
Joins(o, e) == e.kind = "result" /\ Has(o, Use(e.id))

\* A result joins its use or goes to the end, like anything else.
LEMMA JoinedIs ==
    ASSUME NEW o \in Seq(Emitted), NEW e \in Kept
    PROVE  /\ Joins(o, e) => Joined(o, e) = InPlace(o, e.id)
           /\ ~Joins(o, e) => Joined(o, e) = Append(o, e)
  BY DEF Joined, Joins, InPlace

\* The events of an id are told apart.
LEMMA KindsDiffer ==
    ASSUME NEW i, NEW j
    PROVE  /\ Use(i) = Use(j) <=> i = j
           /\ Result(i) = Result(j) <=> i = j
           /\ PairOf(i) = PairOf(j) <=> i = j
           /\ Use(i) # Result(j) /\ Use(i) # PairOf(j) /\ Result(i) # PairOf(j)
  BY DEF Use, Result, PairOf

\* A kept event is told by its kind and its id, and no pair is kept.
LEMMA KeptKinds ==
    ASSUME NEW e \in Kept
    PROVE  /\ e.kind = "result" <=> \E i \in Id : e = Result(i)
           /\ e.kind = "result" => e.id \in Id /\ e = Result(e.id)
           /\ e.kind = "use" => e.id \in Id /\ e = Use(e.id)
           /\ \A i : e # PairOf(i)
<1>1. /\ e.kind = "result" => e.id \in Id /\ e = Result(e.id)
      /\ e.kind = "use" => e.id \in Id /\ e = Use(e.id)
      /\ \A i : e # PairOf(i)
  BY DEF Kept, Text, Call, Use, Result, PairOf
<1>2. \A i : Result(i).kind = "result"
  BY DEF Result
<1> QED
  BY <1>1, <1>2

UsesOnce(a) == \A id \in Id : ~Before(a, Use(id), Use(id))

\* For an id with one use: which of its events are bare in what is joined.
Bare(a, id) ==
    LET P == Paired(a)
        u == Use(id)
        r == Result(id)
    IN  /\ Has(P, PairOf(id)) <=> Before(a, u, r)
        /\ Has(P, u) <=> Has(a, u) /\ ~Before(a, u, r)
        /\ Has(P, r) <=> Before(a, r, r) \/ (Has(a, r) /\ ~Before(a, u, r))
        /\ ~Has(a, u) => (Before(P, r, r) <=> Before(a, r, r))

\* With one use at most, a result after it joins it, and nothing else does.
LEMMA BareEvents ==
    ASSUME NEW id \in Id, NEW a \in Seq(Kept), ~Before(a, Use(id), Use(id))
    PROVE  Bare(a, id)
<1> DEFINE u == Use(id)
           r == Result(id)
           p == PairOf(id)
           Q(s) == ~Before(s, u, u) => Bare(s, id)
           S == {s \in Seq(Kept) : Q(s)}
<1>0. /\ u # r /\ u # p /\ r # p
      /\ \A i : /\ Use(i) = u <=> i = id
                /\ Result(i) = r <=> i = id
                /\ PairOf(i) = p <=> i = id
                /\ Use(i) # r /\ Use(i) # p /\ Result(i) # u /\ Result(i) # p
                /\ PairOf(i) # u /\ PairOf(i) # r
  BY KindsDiffer
<1>1. Q(<<>>)
  <2>1. \A x, y : ~Has(<<>>, x) /\ ~Before(<<>>, x, y)
    BY HasSingle
  <2> QED
    BY <2>1, PairedEmpty DEF Bare
<1>2. ASSUME NEW s \in Seq(Kept), NEW e \in Kept, Q(s), ~Before(Append(s, e), u, u)
      PROVE  Bare(Append(s, e), id)
  <2> DEFINE P == Paired(s)
             t == Append(s, e)
  <2>1. P \in Seq(Emitted) /\ Paired(t) = Joined(P, e)
    BY PairedAppend
  <2>2. /\ Has(t, u) <=> u = e \/ Has(s, u)
        /\ Has(t, r) <=> r = e \/ Has(s, r)
    BY HasAppend
  <2>3. /\ Before(t, u, u) <=> Before(s, u, u) \/ (Has(s, u) /\ u = e)
        /\ Before(t, u, r) <=> Before(s, u, r) \/ (Has(s, u) /\ r = e)
        /\ Before(t, r, r) <=> Before(s, r, r) \/ (Has(s, r) /\ r = e)
    BY BeforeAppend
  <2>4. e \in Emitted /\ e # p
    BY KeptIsEmitted, KeptKinds
  <2>5. /\ Has(P, p) <=> Before(s, u, r)
        /\ Has(P, u) <=> Has(s, u) /\ ~Before(s, u, r)
        /\ Has(P, r) <=> Before(s, r, r) \/ (Has(s, r) /\ ~Before(s, u, r))
        /\ ~Has(s, u) => (Before(P, r, r) <=> Before(s, r, r))
    BY <1>2, <2>3 DEF Bare
  <2>6. /\ Before(s, u, r) => Has(s, u) /\ Has(s, r)
        /\ Before(s, r, r) => Has(s, r)
    BY DEF Before, Has
  <2>7. e = r <=> e.kind = "result" /\ e.id = id
    BY <1>0, KeptKinds DEF Result
  <2>8. ~Before(t, u, u)
    BY <1>2
  <2> HIDE DEF P, t, u, r, p
  <2>9. CASE Joins(P, e)
    <3> DEFINE i == e.id
               K == InPlace(P, i)
    <3>1. Paired(t) = K /\ e = Result(i) /\ Has(P, Use(i)) /\ e.kind = "result"
      BY <2>1, <2>9, JoinedIs, KeptKinds DEF Joins
    <3>2. e # u
      BY <1>0, <3>1
    <3>3. CASE i = id
      <4>1. e = r /\ Use(i) = u /\ PairOf(i) = p
        BY <1>0, <3>1, <3>3
      <4>2. ~Has(K, u) /\ Has(K, p)
        BY <1>0, <2>1, <3>1, <4>1, HasInPlace
      <4>3. Has(K, r) <=> Has(P, r)
        BY <1>0, <2>1, <4>1, HasInPlace
      <4> HIDE DEF K
      <4> QED
        BY <2>2, <2>3, <2>5, <2>6, <2>8, <3>1, <3>2, <4>1, <4>2, <4>3 DEF Bare, u, r, p, t
    <3>4. CASE i # id
      <4>1. e # r /\ Use(i) # u /\ PairOf(i) # p
        BY <1>0, <3>1, <3>4
      <4>2. /\ Has(K, u) <=> Has(P, u)
            /\ Has(K, p) <=> Has(P, p)
            /\ Has(K, r) <=> Has(P, r)
        BY <1>0, <2>1, <4>1, HasInPlace
      <4>3. Before(K, r, r) <=> Before(P, r, r)
        BY <1>0, <2>1, <4>1, BeforeInPlace
      <4> HIDE DEF K
      <4> QED
        BY <2>2, <2>3, <2>5, <2>6, <2>8, <3>1, <3>2, <4>1, <4>2, <4>3 DEF Bare, u, r, p, t
    <3> QED
      BY <3>3, <3>4
  <2>10. CASE ~Joins(P, e)
    <3> DEFINE K == Append(P, e)
    <3>1. Paired(t) = K
      BY <2>1, <2>10, JoinedIs
    <3>2. /\ Has(K, u) <=> u = e \/ Has(P, u)
          /\ Has(K, p) <=> p = e \/ Has(P, p)
          /\ Has(K, r) <=> r = e \/ Has(P, r)
      BY <2>1, <2>4, HasAppend
    <3>3. Before(K, r, r) <=> Before(P, r, r) \/ (Has(P, r) /\ r = e)
      BY <2>1, <2>4, BeforeAppend
    <3>4. e = r => ~Has(P, u)
      BY <1>0, <2>7, <2>10 DEF Joins, u
    <3> HIDE DEF K
    <3> QED
      BY <1>0, <2>2, <2>3, <2>4, <2>5, <2>6, <2>8, <3>1, <3>2, <3>3, <3>4 DEF Bare, u, r, p, t
  <2> QED
    BY <2>9, <2>10
<1>3. ASSUME NEW s \in Seq(Kept), NEW e \in Kept, Q(s) PROVE Q(Append(s, e))
  BY <1>2, <1>3
<1> HIDE DEF Q
<1>4. <<>> \in S /\ \A s \in Seq(Kept), e \in Kept : s \in S => Append(s, e) \in S
  BY <1>1, <1>3, EmptySeq
<1> HIDE DEF S
<1>5. a \in S
  BY <1>4, SeqSetInduction
<1> QED
  BY <1>5 DEF S, Q

\* A use stands where it is, alone or with its result.
Stands(s, x) == \E i \in 1 .. Len(s) : s[i] \in {Use(x), PairOf(x)}

StandsBefore(s, x, y) ==
    \E i, j \in 1 .. Len(s) : i < j /\ s[i] \in {Use(x), PairOf(x)} /\ s[j] \in {Use(y), PairOf(y)}

\* A pair stands where its use stood.
LEMMA StandsInPlace ==
    ASSUME NEW o \in Seq(Emitted), NEW i, NEW x, NEW y
    PROVE  /\ Stands(InPlace(o, i), x) <=> Stands(o, x)
           /\ StandsBefore(InPlace(o, i), x, y) <=> StandsBefore(o, x, y)
<1> DEFINE q == InPlace(o, i)
<1>1. Len(q) = Len(o)
  BY InPlaceElements
<1>2. ASSUME NEW k \in 1 .. Len(o), NEW z
      PROVE  q[k] \in {Use(z), PairOf(z)} <=> o[k] \in {Use(z), PairOf(z)}
  <2>1. q[k] = IF o[k] = Use(i) THEN PairOf(i) ELSE o[k]
    BY InPlaceElements
  <2> QED
    BY <2>1, KindsDiffer
<1> HIDE DEF q
<1>3. (\E k \in 1 .. Len(o) : q[k] \in {Use(x), PairOf(x)})
          <=> (\E k \in 1 .. Len(o) : o[k] \in {Use(x), PairOf(x)})
  BY <1>2
<1>4. (\E k, l \in 1 .. Len(o) : k < l /\ q[k] \in {Use(x), PairOf(x)} /\ q[l] \in {Use(y), PairOf(y)})
          <=> (\E k, l \in 1 .. Len(o) : k < l /\ o[k] \in {Use(x), PairOf(x)} /\ o[l] \in {Use(y), PairOf(y)})
  BY <1>2
<1> QED
  BY <1>1, <1>3, <1>4 DEF Stands, StandsBefore, q

\* A use more stands last, and nothing else stands where it did not.
LEMMA StandsAppend ==
    ASSUME NEW o \in Seq(Emitted), NEW e \in Kept, NEW x, NEW y
    PROVE  /\ Stands(Append(o, e), x) <=> Stands(o, x) \/ e = Use(x)
           /\ StandsBefore(Append(o, e), x, y) <=>
                  StandsBefore(o, x, y) \/ (Stands(o, x) /\ e = Use(y))
<1> DEFINE q == Append(o, e)
           n == Len(o)
           A(z) == {Use(z), PairOf(z)}
<1>1. e \in Emitted /\ \A z : e \in A(z) <=> e = Use(z)
  BY KeptIsEmitted, KeptKinds
<1>2. /\ n \in Nat /\ Len(q) = n + 1 /\ q[n + 1] = e
      /\ \A k \in 1 .. n : q[k] = o[k]
  BY <1>1
<1> HIDE DEF q, n, A
<1>3. (\E k \in 1 .. n + 1 : q[k] \in A(x)) <=> (\E k \in 1 .. n : o[k] \in A(x)) \/ e = Use(x)
  BY <1>1, <1>2
<1>4. ASSUME NEW k \in 1 .. n + 1, NEW l \in 1 .. n + 1, k < l, q[k] \in A(x), q[l] \in A(y)
      PROVE  \/ \E g, h \in 1 .. n : g < h /\ o[g] \in A(x) /\ o[h] \in A(y)
             \/ (\E g \in 1 .. n : o[g] \in A(x)) /\ e = Use(y)
  BY <1>1, <1>2, <1>4
<1>5. ASSUME NEW g \in 1 .. n, NEW h \in 1 .. n, g < h, o[g] \in A(x), o[h] \in A(y)
      PROVE  \E k, l \in 1 .. n + 1 : k < l /\ q[k] \in A(x) /\ q[l] \in A(y)
  <2>1. g \in 1 .. n + 1 /\ h \in 1 .. n + 1
    BY <1>2
  <2>2. q[g] = o[g] /\ q[h] = o[h]
    BY <1>2
  <2> QED
    BY <1>5, <2>1, <2>2
<1>6. ASSUME NEW g \in 1 .. n, o[g] \in A(x), e = Use(y)
      PROVE  \E k, l \in 1 .. n + 1 : k < l /\ q[k] \in A(x) /\ q[l] \in A(y)
  BY <1>1, <1>2, <1>6
<1>7. (\E k, l \in 1 .. n + 1 : k < l /\ q[k] \in A(x) /\ q[l] \in A(y)) <=>
          \/ \E g, h \in 1 .. n : g < h /\ o[g] \in A(x) /\ o[h] \in A(y)
          \/ (\E g \in 1 .. n : o[g] \in A(x)) /\ e = Use(y)
  BY <1>4, <1>5, <1>6
<1> QED
  BY <1>2, <1>3, <1>7 DEF Stands, StandsBefore, q, n, A

\* Joining keeps the uses where they stand.
LEMMA Standing ==
    ASSUME NEW a \in Seq(Kept), NEW x, NEW y
    PROVE  /\ Stands(Paired(a), x) <=> Has(a, Use(x))
           /\ StandsBefore(Paired(a), x, y) <=> Before(a, Use(x), Use(y))
<1> DEFINE Q(s) == /\ Stands(Paired(s), x) <=> Has(s, Use(x))
                   /\ StandsBefore(Paired(s), x, y) <=> Before(s, Use(x), Use(y))
           S == {s \in Seq(Kept) : Q(s)}
<1>1. Q(<<>>)
  <2> DEFINE z == <<>>
  <2>1. Paired(z) = z /\ Len(z) = 0
    BY PairedEmpty
  <2> HIDE DEF z
  <2> QED
    BY <2>1 DEF Stands, StandsBefore, Has, Before, z
<1>2. ASSUME NEW s \in Seq(Kept), NEW e \in Kept, Q(s) PROVE Q(Append(s, e))
  <2> DEFINE P == Paired(s)
             t == Append(s, e)
  <2>1. P \in Seq(Emitted) /\ Paired(t) = Joined(P, e)
    BY PairedAppend
  <2>2. /\ Has(t, Use(x)) <=> Use(x) = e \/ Has(s, Use(x))
        /\ Before(t, Use(x), Use(y)) <=> Before(s, Use(x), Use(y)) \/ (Has(s, Use(x)) /\ Use(y) = e)
    BY HasAppend, BeforeAppend
  <2>3. Q(s)
    BY <1>2
  <2> HIDE DEF P, t
  <2>4. CASE Joins(P, e)
    <3>1. Paired(t) = InPlace(P, e.id)
      BY <2>1, <2>4, JoinedIs
    <3>2. e # Use(x) /\ e # Use(y)
      BY <2>4 DEF Joins, Use
    <3> QED
      BY <2>1, <2>2, <2>3, <3>1, <3>2, StandsInPlace DEF P, t
  <2>5. CASE ~Joins(P, e)
    <3>1. Paired(t) = Append(P, e)
      BY <2>1, <2>5, JoinedIs
    <3> QED
      BY <2>1, <2>2, <2>3, <3>1, StandsAppend DEF P, t
  <2> QED
    BY <2>4, <2>5 DEF t
<1> HIDE DEF Q
<1>3. <<>> \in S /\ \A s \in Seq(Kept), e \in Kept : s \in S => Append(s, e) \in S
  BY <1>1, <1>2, EmptySeq
<1> HIDE DEF S
<1>4. a \in S
  BY <1>3, SeqSetInduction
<1> QED
  BY <1>4 DEF S, Q


\* Joined or not, these are events to hand on.
LEMMA PairedType ==
    ASSUME NEW s \in Seq(Kept)
    PROVE  Paired(s) \in Seq(Emitted)
<1>1. Text \in Kept
  BY DEF Kept
<1> QED
  BY <1>1, PairedAppend

\* Joining makes no results.
LEMMA PairedResults ==
    ASSUME NEW id, NEW a \in Seq(Kept)
    PROVE  Has(Paired(a), Result(id)) => Has(a, Result(id))
<1> DEFINE Q(s) == Has(Paired(s), Result(id)) => Has(s, Result(id))
           S == {s \in Seq(Kept) : Q(s)}
<1>1. Q(<<>>)
  BY PairedEmpty
<1>2. ASSUME NEW s \in Seq(Kept), NEW e \in Kept, Q(s) PROVE Q(Append(s, e))
  <2> DEFINE P == Paired(s)
  <2>1. P \in Seq(Emitted) /\ Paired(Append(s, e)) = Joined(P, e) /\ e \in Emitted
    BY PairedAppend, KeptIsEmitted
  <2>2. Has(Append(s, e), Result(id)) <=> e = Result(id) \/ Has(s, Result(id))
    BY HasAppend
  <2>3. Has(P, Result(id)) => Has(s, Result(id))
    BY <1>2
  <2> HIDE DEF P
  <2>4. Has(InPlace(P, e.id), Result(id)) <=> Has(P, Result(id))
    BY <2>1, HasInPlace, KindsDiffer
  <2>5. Has(Append(P, e), Result(id)) <=> e = Result(id) \/ Has(P, Result(id))
    BY <2>1, HasAppend
  <2> QED
    BY <2>1, <2>2, <2>3, <2>4, <2>5, JoinedIs
<1> HIDE DEF Q
<1>3. <<>> \in S /\ \A s \in Seq(Kept), e \in Kept : s \in S => Append(s, e) \in S
  BY <1>1, <1>2, EmptySeq
<1> HIDE DEF S
<1>4. a \in S
  BY <1>3, SeqSetInduction
<1> QED
  BY <1>4 DEF S, Q

\* What the pairing knows of the events a of a turn that began with the uses in
\* pend pending.
Heard(p, a, pend) ==
    /\ ~Has(a, Use(NoId))
    /\ \A id \in Id :
           /\ ~Before(a, Use(id), Use(id))
           /\ Has(a, Use(id)) <=> id \in p.seen
    /\ p.client <=> Has(a, Call)
    /\ Reused(a, pend) \/ \A id \in pend : ~Has(a, Use(id))

\* What was handed on alone are the results of pending uses, one of each.
Given(p, o, pend) ==
    /\ p.expected \subseteq pend
    /\ \A id \in Id :
           /\ Has(o, Result(id)) <=> id \in pend \ p.expected
           /\ ~Before(o, Result(id), Result(id))

\* In a sequence that keeps its order nothing is before without being there.
LEMMA BeforeHas ==
    ASSUME NEW s, NEW x, NEW y
    PROVE  Before(s, x, y) => Has(s, x) /\ Has(s, y)
  BY DEF Before, Has

\* What is sound of an id.
SoundOf(id, a, pend) ==
    /\ Has(a, Use(id)) => id \notin pend /\ ~Before(a, Use(id), Use(id))
    /\ Has(a, Result(id)) =>
           /\ ~Before(a, Result(id), Result(id))
           /\ id \in pend \/ Before(a, Use(id), Result(id))

\* What is sound of it in what waits joined: a result that waits is expected.
SoundWaiting(id, q, x) ==
    Has(q, Result(id)) => id \in x /\ ~Before(q, Result(id), Result(id))

\* As long as nothing was refused these are the same.
LEMMA SoundIsWaiting ==
    ASSUME NEW pend \in SUBSET Id, NEW p \in Pairing, NEW o \in Seq(Emitted), NEW a \in Seq(Kept),
           InOrder(p, o, a), Heard(p, a, pend), Given(p, o, pend), ~Reused(a, pend), NEW id \in Id
    PROVE  SoundOf(id, a, pend) <=> SoundWaiting(id, Paired(p.deferred), p.expected)
<1> DEFINE u == Use(id)
           r == Result(id)
           P == Paired(a)
           Q == Paired(p.deferred)
<1>1. Q \in Seq(Emitted)
  <2>1. p.deferred \in Seq(Kept)
    BY DEF Pairing
  <2> QED
    BY <2>1, PairedType
<1>2. P = o \o Q
  BY DEF InOrder
<1>3. ~Before(a, u, u) /\ (id \in pend => ~Has(a, u))
  BY DEF Heard
<1>4. /\ Has(P, r) <=> Before(a, r, r) \/ (Has(a, r) /\ ~Before(a, u, r))
      /\ ~Has(a, u) => (Before(P, r, r) <=> Before(a, r, r))
  BY <1>3, BareEvents DEF Bare
<1>5. p.expected \subseteq pend /\ (Has(o, r) <=> id \in pend \ p.expected) /\ ~Before(o, r, r)
  BY DEF Given
<1>6. /\ Before(a, u, r) => Has(a, u) /\ Has(a, r)
      /\ Before(a, r, r) => Has(a, r)
      /\ Before(Q, r, r) => Has(Q, r)
  BY BeforeHas
<1> HIDE DEF Q, P, u, r
<1>7. /\ Has(P, r) <=> Has(o, r) \/ Has(Q, r)
      /\ Before(P, r, r) <=> Before(o, r, r) \/ Before(Q, r, r) \/ (Has(o, r) /\ Has(Q, r))
  BY <1>1, <1>2, HasConcat, BeforeConcat
<1>8. ASSUME SoundOf(id, a, pend) PROVE SoundWaiting(id, Q, p.expected)
  <2>1. /\ Has(a, r) => ~Before(a, r, r) /\ (id \in pend \/ Before(a, u, r))
    BY <1>8 DEF SoundOf, u, r
  <2>2. Has(Q, r) => id \in pend /\ ~Has(a, u) /\ ~Before(P, r, r)
    BY <1>3, <1>4, <1>6, <1>7, <2>1
  <2> QED
    BY <1>5, <1>7, <2>2 DEF SoundWaiting, r
<1>9. ASSUME SoundWaiting(id, Q, p.expected) PROVE SoundOf(id, a, pend)
  <2>1. Has(Q, r) => id \in p.expected /\ ~Before(Q, r, r)
    BY <1>9 DEF SoundWaiting, r
  <2>2. Has(Q, r) => ~Has(o, r) /\ id \in pend
    BY <1>5, <2>1
  <2>3. ~Before(P, r, r)
    BY <1>5, <1>6, <1>7, <2>1, <2>2
  <2>4. Has(P, r) => id \in pend /\ ~Has(a, u)
    BY <1>3, <1>5, <1>7, <2>2
  <2>5. ~Before(a, r, r)
    BY <1>4, <2>3, <2>4
  <2>6. Has(a, r) => id \in pend \/ Before(a, u, r)
    BY <1>4, <2>4
  <2> QED
    BY <1>3, <2>5, <2>6 DEF SoundOf, u, r
<1> QED
  BY <1>8, <1>9 DEF Q

\* The events so far are well formed exactly when what waits is.
LEMMA WellFormedIsWaiting ==
    ASSUME NEW pend \in SUBSET Id, NEW p \in Pairing, NEW o \in Seq(Emitted), NEW a \in Seq(Kept),
           InOrder(p, o, a), Heard(p, a, pend), Given(p, o, pend), ~Reused(a, pend)
    PROVE  WellFormed(a, pend) <=>
               \A id \in Id : SoundWaiting(id, Paired(p.deferred), p.expected)
<1>1. ~Has(a, Use(NoId))
  BY DEF Heard
<1>2. WellFormed(a, pend) <=> \A id \in Id : SoundOf(id, a, pend)
  BY <1>1 DEF WellFormed, SoundOf
<1> QED
  BY <1>2, SoundIsWaiting


\* A turn that has to be refused, or that uses an id again.
Broken(a, pend) == Reused(a, pend) \/ ~WellFormed(a, pend)

\* What is known of the loop of drain after the events a.
Minds(s, a, pend) ==
    IF s.ok THEN Heard(s.pairing, a, pend) /\ Given(s.pairing, s.out, pend) ELSE Broken(a, pend)

DrainingMinds(a, pend) == {s \in DrainingInOrder(a) : Minds(s, a, pend)}

\* What was seen and whether there is a call do not change in the loop.
LEMMA HeardWaiting ==
    ASSUME NEW a, NEW pend, NEW p, Heard(p, a, pend), NEW x, NEW d
    PROVE  Heard(Waiting(p, x, d), a, pend)
  BY DEF Heard, Waiting

\* Handing on what is no result leaves the results.
LEMMA GivenOther ==
    ASSUME NEW pend, NEW p, NEW o \in Seq(Emitted), Given(p, o, pend),
           NEW e \in Emitted, e.kind # "result", NEW d
    PROVE  Given(Waiting(p, p.expected, d), Append(o, e), pend)
<1> DEFINE q == Waiting(p, p.expected, d)
<1>1. q.expected = p.expected
  BY DEF Waiting
<1>2. ASSUME NEW id \in Id
      PROVE  /\ Has(Append(o, e), Result(id)) <=> Has(o, Result(id))
             /\ Before(Append(o, e), Result(id), Result(id)) <=> Before(o, Result(id), Result(id))
  <2>1. e # Result(id)
    BY DEF Result
  <2> QED
    BY <2>1, HasAppend, BeforeAppend
<1> HIDE DEF q
<1> QED
  BY <1>1, <1>2 DEF Given, q

\* An expected result that is handed on is not expected any more.
LEMMA GivenResult ==
    ASSUME NEW pend, NEW p, NEW o \in Seq(Emitted), Given(p, o, pend),
           NEW e \in Kept, e.kind = "result", e.id \in p.expected, NEW d
    PROVE  Given(Waiting(p, p.expected \ {e.id}, d), Append(o, e), pend)
<1> DEFINE x == p.expected \ {e.id}
           q == Waiting(p, x, d)
<1>1. q.expected = x
  BY DEF Waiting
<1>2. e = Result(e.id) /\ e \in Emitted
  BY KeptKinds, KeptIsEmitted
<1>3. p.expected \subseteq pend
  BY DEF Given
<1>4. ASSUME NEW id \in Id
      PROVE  /\ Has(Append(o, e), Result(id)) <=> id \in pend \ x
             /\ ~Before(Append(o, e), Result(id), Result(id))
  <2>1. /\ Has(Append(o, e), Result(id)) <=> e = Result(id) \/ Has(o, Result(id))
        /\ Before(Append(o, e), Result(id), Result(id)) <=>
               Before(o, Result(id), Result(id)) \/ (Has(o, Result(id)) /\ e = Result(id))
    BY <1>2, HasAppend, BeforeAppend
  <2>2. e = Result(id) <=> id = e.id
    BY <1>2, KindsDiffer
  <2>3. (Has(o, Result(id)) <=> id \in pend \ p.expected) /\ ~Before(o, Result(id), Result(id))
    BY DEF Given
  <2> QED
    BY <1>3, <2>1, <2>2, <2>3
<1> HIDE DEF q, x
<1>5. x \subseteq pend
  BY <1>3 DEF x
<1> QED
  BY <1>1, <1>4, <1>5 DEF Given, q, x

\* A turn of the loop refuses only what is not sound, and knows the rest.
LEMMA TurnMinds ==
    ASSUME NEW a \in Seq(Kept), NEW pend \in SUBSET Id, NEW s \in DrainingMinds(a, pend), s.ok,
           NEW r, NEW e \in Kept, NEW t \in Seq(Kept), s.pairing.deferred = <<e>> \o t,
           Turn(s, r, e, t)
    PROVE  Minds(r, a, pend)
<1> DEFINE p == s.pairing
           o == s.out
<1>1. /\ s \in Draining /\ p \in Pairing /\ o \in Seq(Emitted) /\ p.expected \in SUBSET Id
      /\ InOrder(p, o, a) /\ Heard(p, a, pend) /\ Given(p, o, pend)
  BY DEF DrainingMinds, DrainingInOrder, Draining, Pairing, Minds
<1> HIDE DEF p, o
<1>2. CASE PassesFirst(s, r, e, t)
  <2> DEFINE q == Waiting(p, p.expected, t)
             n == Append(o, e)
  <2>1. r = Step(q, n) /\ e.kind # "result" /\ e \in Emitted
    BY <1>2, KeptIsEmitted DEF PassesFirst, p, o
  <2>2. Heard(q, a, pend) /\ Given(q, n, pend)
    BY <1>1, <2>1, HeardWaiting, GivenOther
  <2> HIDE DEF q, n
  <2> QED
    BY <2>1, <2>2 DEF Minds, Step
<1>3. CASE AnswersFirst(s, r, e, t)
  <2> DEFINE q == Waiting(p, p.expected \ {e.id}, t)
             n == Append(o, e)
  <2>1. r = Step(q, n) /\ e.kind = "result" /\ e.id \in p.expected
    BY <1>3 DEF AnswersFirst, p, o
  <2>2. Heard(q, a, pend) /\ Given(q, n, pend)
    BY <1>1, <2>1, HeardWaiting, GivenResult
  <2> HIDE DEF q, n
  <2> QED
    BY <2>1, <2>2 DEF Minds, Step
<1>4. CASE RefusesFirst(s, r, e, t)
  <2>1. ~r.ok /\ e.kind = "result" /\ e.id \notin p.expected
    BY <1>4 DEF RefusesFirst, Refusal, p
  <2>2. e = Result(e.id) /\ e.id \in Id /\ e \in Emitted
    BY <2>1, KeptKinds, KeptIsEmitted
  <2>3. Paired(t) \in Seq(Emitted)
    BY PairedType
  <2>4. Paired(p.deferred) = <<e>> \o Paired(t)
    BY <2>1, PairedCons DEF p
  <2>5. Has(Paired(p.deferred), Result(e.id))
    BY <2>2, <2>3, <2>4, HasCons
  <2>6. ~SoundWaiting(e.id, Paired(p.deferred), p.expected)
    BY <2>1, <2>5 DEF SoundWaiting
  <2>7. Broken(a, pend)
    BY <1>1, <2>2, <2>6, WellFormedIsWaiting DEF Broken
  <2> QED
    BY <2>1, <2>7 DEF Minds
<1>5. CASE KeepsFirst(s, r, e, t)
  BY <1>5 DEF KeepsFirst, DrainingMinds
<1>6. CASE JoinsFirst(s, r, e, t)
  <2>1. PICK d : r = Step(Waiting(p, p.expected, d), Append(o, PairOf(e.id)))
    BY <1>6 DEF JoinsFirst, p, o
  <2> DEFINE q == Waiting(p, p.expected, d)
             z == PairOf(e.id)
             n == Append(o, z)
  <2>2. z \in Emitted /\ z.kind # "result"
    <3>1. e.id \in Id
      BY <1>6, KeptKinds DEF JoinsFirst
    <3> QED
      BY <3>1 DEF PairOf, Emitted
  <2> HIDE DEF z
  <2>3. Heard(q, a, pend) /\ Given(q, n, pend)
    BY <1>1, <2>2, HeardWaiting, GivenOther
  <2>4. r = Step(q, n)
    BY <2>1 DEF z
  <2> HIDE DEF q, n
  <2> QED
    BY <2>3, <2>4 DEF Minds, Step
<1> QED
  BY <1>2, <1>3, <1>4, <1>5, <1>6 DEF Turn

\* So does every turn of it.
LEMMA DrainOnceMinds ==
    ASSUME NEW a \in Seq(Kept), NEW pend \in SUBSET Id, NEW s \in DrainingMinds(a, pend)
    PROVE  DrainOnce(s) \in DrainingMinds(a, pend)
<1> DEFINE r == DrainOnce(s)
<1>1. s \in DrainingInOrder(a) /\ s \in Draining /\ r \in DrainingInOrder(a)
  BY DrainOnceInOrder DEF DrainingMinds, DrainingInOrder
<1>2. CASE ~s.ok \/ s.pairing.deferred = <<>>
  BY <1>2 DEF DrainOnce
<1>3. CASE s.ok /\ s.pairing.deferred # <<>>
  <2>1. PICK e \in Kept, t \in Seq(Kept) : s.pairing.deferred = <<e>> \o t /\ Turn(s, r, e, t)
    BY <1>1, <1>3, TurnCases
  <2> HIDE DEF r
  <2>2. Minds(r, a, pend)
    BY <1>3, <2>1, TurnMinds
  <2> QED
    BY <1>1, <2>2 DEF DrainingMinds, r
<1> QED
  BY <1>2, <1>3


\* A pending use that is used again before its result is expected.
LEMMA UsedAgain ==
    ASSUME NEW pend \in SUBSET Id, NEW p \in Pairing, NEW o \in Seq(Emitted), NEW a \in Seq(Kept),
           InOrder(p, o, a), Given(p, o, pend), NEW id \in pend, id \notin p.expected
    PROVE  Has(a, Result(id))
<1> DEFINE Q == Paired(p.deferred)
<1>1. Q \in Seq(Emitted)
  BY PairedType DEF Pairing
<1>2. Paired(a) = o \o Q /\ Has(o, Result(id))
  BY DEF InOrder, Given
<1> HIDE DEF Q
<1>3. Has(Paired(a), Result(id))
  BY <1>1, <1>2, HasConcat
<1> QED
  BY <1>3, PairedResults

\* What is known stays known with an event that is not repeated.
LEMMA NoticedHeard ==
    ASSUME NEW pend \in SUBSET Id, NEW p \in Pairing, NEW o \in Seq(Emitted), NEW a \in Seq(Kept),
           InOrder(p, o, a), Heard(p, a, pend), Given(p, o, pend),
           NEW e \in Event, ~Repeated(p, e)
    PROVE  Heard(Noticed(p, e), Append(a, e), pend)
<1> DEFINE q == Noticed(p, e)
           b == Append(a, e)
<1>1. e \in Kept /\ (e.kind = "use" => e.id \in Id /\ e.id # NoId /\ e.id \notin p.seen \cup p.expected)
  BY NotRepeated, KeptKinds DEF Repeated
<1>2. /\ q.seen = IF e.kind = "use" THEN p.seen \cup {e.id} ELSE p.seen
      /\ q.client = (p.client \/ e.kind = "call")
  BY <1>1, NoticedIs
<1>3. \A x : Has(b, x) <=> x = e \/ Has(a, x)
  BY <1>1, HasAppend
<1>4. \A x, y : Before(b, x, y) <=> Before(a, x, y) \/ (Has(a, x) /\ y = e)
  BY <1>1, BeforeAppend
<1>5. \A i : e = Use(i) <=> e.kind = "use" /\ e.id = i
  BY <1>1, KeptKinds DEF Use
<1>6. e = Call <=> e.kind = "call"
  BY <1>1 DEF Kept, Call, Text
<1> HIDE DEF q, b
<1>7. ~Has(b, Use(NoId))
  BY <1>1, <1>3, <1>5 DEF Heard
<1>8. ASSUME NEW id \in Id
      PROVE  ~Before(b, Use(id), Use(id)) /\ (Has(b, Use(id)) <=> id \in q.seen)
  <2>1. ~Before(a, Use(id), Use(id)) /\ (Has(a, Use(id)) <=> id \in p.seen)
    BY DEF Heard
  <2> QED
    BY <1>1, <1>2, <1>3, <1>4, <1>5, <2>1
<1>9. q.client <=> Has(b, Call)
  <2>1. p.client <=> Has(a, Call)
    BY DEF Heard
  <2> QED
    BY <1>2, <1>3, <1>6, <2>1
<1>10. ASSUME ~Reused(b, pend), NEW id \in pend PROVE ~Has(b, Use(id))
  <2>1. ~Before(b, Result(id), Use(id))
    BY <1>10 DEF Reused
  <2>2. ~Reused(a, pend)
    BY <1>4, <1>10 DEF Reused
  <2>3. ~Has(a, Use(id))
    BY <2>2 DEF Heard
  <2>4. CASE e = Use(id)
    <3>1. id \notin p.expected
      BY <1>1, <1>5, <2>4
    <3>2. Has(a, Result(id))
      BY <3>1, UsedAgain
    <3> QED
      BY <1>4, <2>1, <2>4, <3>2
  <2> QED
    BY <1>3, <2>3, <2>4
<1>11. Heard(q, b, pend)
  BY <1>7, <1>8, <1>9, <1>10 DEF Heard
<1> QED
  BY <1>11 DEF q, b

\* pair refuses only what is not sound, and knows what it lets pass.
LEMMA PairMinds ==
    ASSUME NEW pend \in SUBSET Id, NEW p \in Pairing, NEW o \in Seq(Emitted), NEW a \in Seq(Kept),
           InOrder(p, o, a), Heard(p, a, pend), Given(p, o, pend), NEW e \in Event
    PROVE  Minds(Pair(p, o, e), Append(a, e), pend)
<1> DEFINE b == Append(a, e)
           q == Noticed(p, e)
<1>1. CASE Repeated(p, e)
  <2>1. ~Pair(p, o, e).ok
    BY <1>1 DEF Pair, Refusal
  <2>2. a \in Seq(Event) /\ e \in Event
    <3>1. Kept \subseteq Event
      BY DEF Event
    <3> QED
      BY <3>1
  <2>3. \A x : Has(b, x) <=> x = e \/ Has(a, x)
    BY <2>2, HasAppend
  <2>4. \A x, y : Before(b, x, y) <=> Before(a, x, y) \/ (Has(a, x) /\ y = e)
    BY <2>2, BeforeAppend
  <2>5. e = Use(e.id) /\ (e.id = NoId \/ e.id \in p.seen \cup p.expected)
    BY <1>1 DEF Repeated, Event, Kept, Text, Call, Use
  <2>6. p.seen \subseteq Id /\ p.expected \subseteq Id
    BY DEF Pairing
  <2> HIDE DEF b
  <2>7. ~WellFormed(b, pend)
    <3>1. CASE e.id = NoId
      BY <2>3, <2>5, <3>1 DEF WellFormed
    <3>2. CASE e.id \in p.seen
      <4>1. Before(b, Use(e.id), Use(e.id)) /\ Has(b, Use(e.id))
        BY <2>3, <2>4, <2>5, <2>6, <3>2 DEF Heard
      <4> QED
        BY <2>6, <3>2, <4>1 DEF WellFormed
    <3>3. CASE e.id \in p.expected
      <4>1. e.id \in pend /\ Has(b, Use(e.id))
        BY <2>3, <2>5, <3>3 DEF Given
      <4> QED
        BY <2>6, <3>3, <4>1 DEF WellFormed
    <3> QED
      BY <2>5, <3>1, <3>2, <3>3
  <2> QED
    BY <2>1, <2>7 DEF Minds, Broken, b
<1>2. CASE ~Repeated(p, e)
  <2>1. e \in Kept /\ b \in Seq(Kept)
    BY <1>2, NotRepeated
  <2>2. Step(q, o) \in DrainingInOrder(b)
    BY <1>2, NoticedInOrder
  <2>3. Heard(q, b, pend) /\ q.expected = p.expected
    BY <1>2, <2>1, NoticedHeard, NoticedIs
  <2>4. Given(q, o, pend)
    BY <2>3 DEF Given
  <2> HIDE DEF q, b
  <2>5. Minds(Step(q, o), b, pend)
    BY <2>3, <2>4 DEF Minds, Step
  <2>6. Step(q, o) \in DrainingMinds(b, pend)
    BY <2>2, <2>5 DEF DrainingMinds
  <2>7. Pair(p, o, e) \in DrainingMinds(b, pend)
    BY <1>2, <2>1, <2>6, DrainOnceMinds, PairKeeps DEF q
  <2> QED
    BY <2>7 DEF DrainingMinds, b
<1> QED
  BY <1>1, <1>2

-----------------------------------------------------------------------------
(* The loop of drain ends settled *)

\* A use without a result waits first.
Stuck(d) ==
    \E e \in Kept, t \in Seq(Kept) : d = <<e>> \o t /\ e.kind = "use" /\ ~Has(t, Result(e.id))

\* The loop of drain is over: it has refused, or nothing waits, or a use that
\* has no result yet is first.
Settled(s) == s.ok /\ s.pairing.deferred # <<>> => Stuck(s.pairing.deferred)

\* The elements of a sequence with one put before it.
LEMMA ConsElements ==
    ASSUME NEW B, NEW z \in B, NEW t \in Seq(B)
    PROVE  /\ Len(<<z>> \o t) = Len(t) + 1
           /\ (<<z>> \o t)[1] = z
           /\ \A i \in 1 .. Len(t) : (<<z>> \o t)[i + 1] = t[i]
<1> DEFINE y == <<z>>
           c == y \o t
<1>1. y \in Seq(B) /\ Len(y) = 1 /\ y[1] = z
  OBVIOUS
<1> HIDE DEF y
<1>2. /\ Len(c) = Len(y) + Len(t)
      /\ \A i \in 1 .. Len(y) + Len(t) : c[i] = IF i <= Len(y) THEN y[i] ELSE t[i - Len(y)]
  BY <1>1, ConcatProperties
<1> HIDE DEF c
<1>3. Len(t) \in Nat
  OBVIOUS
<1>4. Len(c) = Len(t) + 1 /\ c[1] = z
  BY <1>1, <1>2, <1>3
<1>5. ASSUME NEW i \in 1 .. Len(t) PROVE c[i + 1] = t[i]
  <2>1. i + 1 \in 1 .. 1 + Len(t) /\ ~(i + 1 <= 1) /\ (i + 1) - 1 = i
    BY <1>3
  <2> QED
    BY <1>1, <1>2, <2>1
<1> QED
  BY <1>4, <1>5 DEF c, y

\* A sequence has one first element and one rest.
LEMMA ConsUnique ==
    ASSUME NEW e \in Kept, NEW t \in Seq(Kept), NEW f \in Kept, NEW u \in Seq(Kept),
           <<e>> \o t = <<f>> \o u
    PROVE  e = f /\ t = u
<1> DEFINE v == <<e>> \o t
           w == <<f>> \o u
<1>1. /\ Len(v) = Len(t) + 1 /\ v[1] = e /\ \A i \in 1 .. Len(t) : v[i + 1] = t[i]
      /\ Len(w) = Len(u) + 1 /\ w[1] = f /\ \A i \in 1 .. Len(u) : w[i + 1] = u[i]
  BY ConsElements
<1>2. v = w /\ Len(t) \in Nat /\ Len(u) \in Nat
  OBVIOUS
<1> HIDE DEF v, w
<1>3. Len(t) = Len(u) /\ e = f
  BY <1>1, <1>2
<1>4. \A i \in 1 .. Len(t) : t[i] = u[i]
  BY <1>1, <1>2, <1>3
<1> QED
  BY <1>3, <1>4

\* A turn of the loop changes nothing when it is settled, and makes what waits
\* shorter when it is not.
LEMMA TurnSettles ==
    ASSUME NEW s \in Draining
    PROVE  /\ Settled(s) => DrainOnce(s) = s
           /\ ~Settled(s) =>
                  Len(DrainOnce(s).pairing.deferred) + 1 <= Len(s.pairing.deferred)
<1> DEFINE r == DrainOnce(s)
           p == s.pairing
<1>0. p \in Pairing /\ p.expected \in SUBSET Id
  BY DEF Draining, Pairing
<1>1. CASE ~s.ok \/ p.deferred = <<>>
  BY <1>1 DEF DrainOnce, Settled
<1>2. CASE s.ok /\ p.deferred # <<>>
  <2>1. PICK e \in Kept, t \in Seq(Kept) : p.deferred = <<e>> \o t /\ Turn(s, r, e, t)
    BY <1>2, TurnCases
  <2> HIDE DEF r
  <2>2. e.kind = "use" /\ ~Has(t, Result(e.id)) => Settled(s)
    BY <2>1 DEF Settled, Stuck, p
  <2>3. Settled(s) => e.kind = "use" /\ ~Has(t, Result(e.id))
    <3>1. SUFFICES ASSUME Settled(s) PROVE e.kind = "use" /\ ~Has(t, Result(e.id))
      OBVIOUS
    <3>2. PICK f \in Kept, u \in Seq(Kept) :
              p.deferred = <<f>> \o u /\ f.kind = "use" /\ ~Has(u, Result(f.id))
      BY <1>2, <3>1 DEF Settled, Stuck
    <3>3. e = f /\ t = u
      BY <2>1, <3>2, ConsUnique
    <3> QED
      BY <3>2, <3>3
  <2>4. Len(p.deferred) = Len(t) + 1 /\ Len(t) \in Nat
    BY <2>1, ConsElements
  <2> HIDE DEF p
  <2>5. CASE PassesFirst(s, r, e, t) \/ AnswersFirst(s, r, e, t) \/ RefusesFirst(s, r, e, t)
    <3>1. r.pairing.deferred = t /\ e.kind # "use"
      BY <2>5 DEF PassesFirst, AnswersFirst, RefusesFirst, Step, Refusal, Waiting
    <3> QED
      BY <2>3, <2>4, <3>1 DEF r, p
  <2>6. CASE KeepsFirst(s, r, e, t)
    BY <2>2, <2>6 DEF KeepsFirst, r
  <2>7. CASE JoinsFirst(s, r, e, t)
    <3>1. PICK f \in Seq(Kept), b \in Seq(Kept) :
              /\ t = f \o <<Result(e.id)>> \o b
              /\ r = Step(Waiting(p, p.expected, f \o b), Append(s.out, PairOf(e.id)))
      BY <2>7 DEF JoinsFirst, p
    <3> DEFINE z == Result(e.id)
    <3>2. z \in Kept
      BY <2>7, KeptKinds DEF JoinsFirst, Kept, Result
    <3>3. r.pairing.deferred = f \o b
      BY <3>1 DEF Step, Waiting
    <3>4. t = f \o <<z>> \o b
      BY <3>1
    <3> HIDE DEF z
    <3>5. Len(t) = Len(f) + 1 + Len(b) /\ Has(t, z)
      BY <3>2, <3>4, BetweenElements, HasBetween
    <3>6. Len(f \o b) = Len(f) + Len(b) /\ Len(f) \in Nat /\ Len(b) \in Nat
      OBVIOUS
    <3>7. ~Settled(s)
      BY <2>3, <3>5 DEF z
    <3>8. Len(r.pairing.deferred) + 1 <= Len(p.deferred)
      BY <2>4, <3>3, <3>5, <3>6
    <3> QED
      BY <3>7, <3>8 DEF r, p
  <2> QED
    BY <2>1, <2>5, <2>6, <2>7 DEF Turn
<1> QED
  BY <1>1, <1>2

\* One turn more.
LEMMA TurnsAppend ==
    ASSUME NEW s \in Draining, NEW c \in Seq(Kept), NEW e \in Kept
    PROVE  /\ Turns(s, <<>>) = s
           /\ Turns(s, c) \in Draining
           /\ Turns(s, Append(c, e)) = DrainOnce(Turns(s, c))
<1> DEFINE f == turning(Draining)
           z == <<>>
<1>1. \A x \in Draining : DrainOnce(x) \in Draining
  BY DrainOnceType
<1>2. StepOn(f, Draining, Kept)
  BY <1>1 DEF StepOn, turning
<1>3. z \in Seq(Kept) /\ Append(c, e) \in Seq(Kept)
  OBVIOUS
<1>4. \A d \in Seq(Kept) : Turns(s, d) = FoldedBy(f, s, d)
  BY <1>1, TurnsIsFolded
<1>5. \A x \in Draining : f[<<x, e>>] = DrainOnce(x)
  BY DEF turning
<1> HIDE DEF f
<1>6. /\ FoldedBy(f, s, z) = s
      /\ FoldedBy(f, s, c) \in Draining
      /\ FoldedBy(f, s, Append(c, e)) = f[<<FoldedBy(f, s, c), e>>]
  BY <1>2, FoldedByAppend
<1> QED
  BY <1>3, <1>4, <1>5, <1>6

\* As many turns as there are events settle it.
LEMMA TurnsSettle ==
    ASSUME NEW s \in Draining, NEW c \in Seq(Kept)
    PROVE  \/ Settled(Turns(s, c))
           \/ Len(Turns(s, c).pairing.deferred) + Len(c) <= Len(s.pairing.deferred)
<1> DEFINE Q(d) == \/ Settled(Turns(s, d))
                   \/ Len(Turns(s, d).pairing.deferred) + Len(d) <= Len(s.pairing.deferred)
           S == {d \in Seq(Kept) : Q(d)}
<1>1. Q(<<>>)
  <2> DEFINE z == <<>>
  <2>1. Turns(s, z) = s /\ Len(z) = 0
    <3>1. Text \in Kept
      BY DEF Kept
    <3> QED
      BY <3>1, TurnsAppend
  <2>2. Len(s.pairing.deferred) \in Nat
    BY DEF Draining, Pairing
  <2> HIDE DEF z
  <2> QED
    BY <2>1, <2>2 DEF z
<1>2. ASSUME NEW d \in Seq(Kept), NEW e \in Kept, Q(d) PROVE Q(Append(d, e))
  <2> DEFINE x == Turns(s, d)
             y == DrainOnce(x)
             m == Append(d, e)
  <2>1. x \in Draining /\ Turns(s, m) = y
    BY TurnsAppend
  <2>2. Len(m) = Len(d) + 1 /\ Len(d) \in Nat
    OBVIOUS
  <2>3. Settled(x) \/ Len(x.pairing.deferred) + Len(d) <= Len(s.pairing.deferred)
    BY <1>2
  <2>4. y \in Draining
    BY <2>1, DrainOnceType
  <2> HIDE DEF x, m, y
  <2>5. /\ Len(s.pairing.deferred) \in Nat /\ Len(x.pairing.deferred) \in Nat
        /\ Len(y.pairing.deferred) \in Nat
    BY <2>1, <2>4 DEF Draining, Pairing
  <2>6. CASE Settled(x)
    BY <2>1, <2>6, TurnSettles DEF m, y
  <2>7. CASE ~Settled(x)
    <3>1. Len(y.pairing.deferred) + 1 <= Len(x.pairing.deferred)
      BY <2>1, <2>7, TurnSettles DEF y
    <3> DEFINE k == Len(s.pairing.deferred)
               l == Len(x.pairing.deferred)
               n == Len(y.pairing.deferred)
    <3>3. k \in Nat /\ l \in Nat /\ n \in Nat /\ n + 1 <= l /\ l + Len(d) <= k
      BY <2>3, <2>5, <2>7, <3>1
    <3>4. n + (Len(d) + 1) <= k
      <4> HIDE DEF k, l, n
      <4> QED
        BY <2>2, <3>3
    <3>2. n + Len(m) <= k
      BY <2>2, <3>4
    <3> QED
      BY <2>1, <3>2 DEF m
  <2> QED
    BY <2>6, <2>7
<1> HIDE DEF Q
<1>3. <<>> \in S /\ \A d \in Seq(Kept), e \in Kept : d \in S => Append(d, e) \in S
  BY <1>1, <1>2, EmptySeq
<1> HIDE DEF S
<1>4. c \in S
  BY <1>3, SeqSetInduction
<1> QED
  BY <1>4 DEF S, Q

\* drain leaves its loop settled.
LEMMA DrainSettles ==
    ASSUME NEW p \in Pairing, NEW o \in Seq(Emitted)
    PROVE  Settled(Drain(p, o))
<1> DEFINE s == Step(p, o)
           d == p.deferred
           r == Turns(s, d)
<1>1. s \in Draining /\ s.pairing = p /\ d \in Seq(Kept)
  BY StepType DEF Pairing
<1>2. Drain(p, o) = r
  BY DEF Drain, Turns
<1> HIDE DEF s, d
<1>3. r \in Draining
  <2>1. Text \in Kept
    BY DEF Kept
  <2> QED
    BY <1>1, <2>1, TurnsAppend
<1>4. Settled(r) \/ Len(r.pairing.deferred) + Len(d) <= Len(d)
  BY <1>1, TurnsSettle DEF d
<1> HIDE DEF r
<1>5. r.pairing.deferred \in Seq(Kept) /\ Len(d) \in Nat
  BY <1>1, <1>3 DEF Draining, Pairing
<1>6. CASE Len(r.pairing.deferred) + Len(d) <= Len(d)
  <2>1. r.pairing.deferred = <<>>
    BY <1>5, <1>6
  <2> QED
    BY <1>2, <2>1 DEF Settled
<1> QED
  BY <1>2, <1>4, <1>6

\* So does pair.
LEMMA PairSettles ==
    ASSUME NEW p \in Pairing, NEW o \in Seq(Emitted), NEW e \in Event
    PROVE  Settled(Pair(p, o, e))
<1>1. CASE Repeated(p, e)
  BY <1>1 DEF Pair, Refusal, Settled
<1>2. CASE ~Repeated(p, e)
  <2>1. Noticed(p, e) \in Pairing
    BY <1>2, NotRepeated, NoticedIs
  <2>2. Pair(p, o, e) = Drain(Noticed(p, e), o)
    BY <1>2 DEF Pair, Noticed
  <2> QED
    BY <2>1, <2>2, DrainSettles
<1> QED
  BY <1>1, <1>2

-----------------------------------------------------------------------------
(* What flushDeferred refuses *)

\* One event more is flushed.
LEMMA FlushesAppend ==
    ASSUME NEW s \in Draining, NEW c \in Seq(Kept), NEW e \in Kept
    PROVE  /\ Flushes(s, <<>>) = s
           /\ Flushes(s, c) \in Draining
           /\ Flushes(s, Append(c, e)) = FlushOne(Flushes(s, c), e)
<1> DEFINE f == flushing(Draining)
           z == <<>>
<1>1. \A x \in Draining, y \in Kept : FlushOne(x, y) \in Draining
  BY FlushOneType
<1>2. StepOn(f, Draining, Kept)
  BY <1>1 DEF StepOn, flushing
<1>3. z \in Seq(Kept) /\ Append(c, e) \in Seq(Kept)
  OBVIOUS
<1>4. \A d \in Seq(Kept) : Flushes(s, d) = FoldedBy(f, s, d)
  BY <1>1, FlushesIsFolded
<1>5. \A x \in Draining : f[<<x, e>>] = FlushOne(x, e)
  BY DEF flushing
<1> HIDE DEF f
<1>6. /\ FoldedBy(f, s, z) = s
      /\ FoldedBy(f, s, c) \in Draining
      /\ FoldedBy(f, s, Append(c, e)) = f[<<FoldedBy(f, s, c), e>>]
  BY <1>2, FoldedByAppend
<1> QED
  BY <1>3, <1>4, <1>5, <1>6

\* What the loop leaves expected when it has flushed c: it refuses unless every
\* result in c is expected and alone.
FlushedTo(r, c, x) ==
    /\ r.ok <=> \A id \in Id : SoundWaiting(id, c, x)
    /\ r.ok => \A id \in Id : id \in r.pairing.expected <=> id \in x /\ ~Has(c, Result(id))

\* An event of the loop.
LEMMA FlushOneTo ==
    ASSUME NEW x, NEW r \in Draining, NEW c \in Seq(Kept), FlushedTo(r, c, x), NEW e \in Kept
    PROVE  FlushedTo(FlushOne(r, e), Append(c, e), x)
<1> DEFINE q == FlushOne(r, e)
           m == Append(c, e)
           y == r.pairing.expected
<1>1. ASSUME NEW id \in Id
      PROVE  /\ Has(m, Result(id)) <=> Result(id) = e \/ Has(c, Result(id))
             /\ Before(m, Result(id), Result(id)) <=>
                    Before(c, Result(id), Result(id)) \/ (Has(c, Result(id)) /\ Result(id) = e)
             /\ Before(c, Result(id), Result(id)) => Has(c, Result(id))
  BY HasAppend, BeforeAppend, BeforeHas
<1>2. \A id \in Id : Result(id) = e <=> e.kind = "result" /\ e.id = id
  BY KeptKinds, KindsDiffer DEF Result
<1>3. e.kind = "result" => e.id \in Id
  BY KeptKinds
<1>4. y \subseteq Id /\ r.pairing \in Pairing /\ r.pairing.deferred \in Seq(Kept)
  BY DEF Draining, Pairing
<1>5. \/ ~r.ok /\ q = r
      \/ r.ok /\ e.kind = "result" /\ e.id \in y /\ q.ok /\ q.pairing.expected = y \ {e.id}
      \/ r.ok /\ e.kind = "result" /\ e.id \notin y /\ ~q.ok
      \/ r.ok /\ e.kind # "result" /\ q.ok /\ q.pairing.expected = y
  BY FlushOneCases DEF Step, Refusal, Waiting
<1> HIDE DEF q, m, y
<1>6. CASE ~r.ok /\ q = r
  <2>1. PICK id \in Id : ~SoundWaiting(id, c, x)
    BY <1>6 DEF FlushedTo
  <2>2. ~SoundWaiting(id, m, x)
    BY <1>1, <2>1 DEF SoundWaiting
  <2> QED
    BY <1>6, <2>2 DEF FlushedTo, q, m
<1>7. CASE r.ok /\ e.kind = "result" /\ e.id \in y /\ q.ok /\ q.pairing.expected = y \ {e.id}
  <2>1. /\ \A id \in Id : SoundWaiting(id, c, x)
        /\ \A id \in Id : id \in y <=> id \in x /\ ~Has(c, Result(id))
    BY <1>7 DEF FlushedTo, y
  <2>2. ASSUME NEW id \in Id
        PROVE  /\ SoundWaiting(id, m, x)
               /\ id \in y \ {e.id} <=> id \in x /\ ~Has(m, Result(id))
    BY <1>1, <1>2, <1>3, <1>7, <2>1 DEF SoundWaiting
  <2> QED
    BY <1>7, <2>2 DEF FlushedTo, q, m
<1>8. CASE r.ok /\ e.kind = "result" /\ e.id \notin y /\ ~q.ok
  <2>1. e.id \in y <=> e.id \in x /\ ~Has(c, Result(e.id))
    BY <1>3, <1>8 DEF FlushedTo, y
  <2>2. ~SoundWaiting(e.id, m, x)
    BY <1>1, <1>2, <1>3, <1>8, <2>1 DEF SoundWaiting
  <2> QED
    BY <1>3, <1>8, <2>2 DEF FlushedTo, q, m
<1>9. CASE r.ok /\ e.kind # "result" /\ q.ok /\ q.pairing.expected = y
  <2>1. /\ \A id \in Id : SoundWaiting(id, c, x)
        /\ \A id \in Id : id \in y <=> id \in x /\ ~Has(c, Result(id))
    BY <1>9 DEF FlushedTo, y
  <2>2. ASSUME NEW id \in Id
        PROVE  /\ SoundWaiting(id, m, x)
               /\ id \in y <=> id \in x /\ ~Has(m, Result(id))
    BY <1>1, <1>2, <1>9, <2>1 DEF SoundWaiting
  <2> QED
    BY <1>9, <2>2 DEF FlushedTo, q, m
<1> QED
  BY <1>5, <1>6, <1>7, <1>8, <1>9

\* All of them.
LEMMA FlushesTo ==
    ASSUME NEW s \in Draining, s.ok, NEW c \in Seq(Kept)
    PROVE  FlushedTo(Flushes(s, c), c, s.pairing.expected)
<1> DEFINE x == s.pairing.expected
           Q(d) == FlushedTo(Flushes(s, d), d, x)
           S == {d \in Seq(Kept) : Q(d)}
<1>1. Q(<<>>)
  <2> DEFINE z == <<>>
  <2>1. Flushes(s, z) = s
    <3>1. Text \in Kept
      BY DEF Kept
    <3> QED
      BY <3>1, FlushesAppend
  <2>2. \A y : ~Has(z, y)
    BY HasSingle
  <2> HIDE DEF z
  <2> QED
    BY <2>1, <2>2 DEF FlushedTo, SoundWaiting, z
<1>2. ASSUME NEW d \in Seq(Kept), NEW e \in Kept, Q(d) PROVE Q(Append(d, e))
  <2> DEFINE r == Flushes(s, d)
  <2>1. r \in Draining /\ Flushes(s, Append(d, e)) = FlushOne(r, e)
    BY FlushesAppend
  <2>2. FlushedTo(r, d, x)
    BY <1>2
  <2> HIDE DEF r, x
  <2>3. FlushedTo(FlushOne(r, e), Append(d, e), x)
    BY <2>1, <2>2, FlushOneTo
  <2> QED
    BY <2>1, <2>3
<1> HIDE DEF Q
<1>3. <<>> \in S /\ \A d \in Seq(Kept), e \in Kept : d \in S => Append(d, e) \in S
  BY <1>1, <1>2, EmptySeq
<1> HIDE DEF S
<1>4. c \in S
  BY <1>3, SeqSetInduction
<1> QED
  BY <1>4 DEF S, Q

\* flushDeferred resolves everything exactly when what waits are the results
\* that are expected, one of each, and no others.
LEMMA FlushResolves ==
    ASSUME NEW p \in Pairing, NEW o \in Seq(Emitted)
    PROVE  Flush(p, o).ok /\ Flush(p, o).pairing.expected = {} <=>
               /\ \A id \in Id : SoundWaiting(id, p.deferred, p.expected)
               /\ \A id \in p.expected : Has(p.deferred, Result(id))
<1> DEFINE z == <<>>
           q == [p EXCEPT !.deferred = z]
           s == Step(q, o)
           d == p.deferred
           r == Flushes(s, d)
<1>1. z \in Seq(Kept) /\ p.expected \in SUBSET Id /\ d \in Seq(Kept)
  BY EmptySeq DEF Pairing
<1>2. q = Waiting(p, p.expected, z)
  BY WaitingIs
<1>3. q \in Pairing /\ q.expected = p.expected
  <2> HIDE DEF z, q
  <2> QED
    BY <1>1, <1>2, WaitingType
<1>4. Flush(p, o) = r
  BY DEF Flush, Flushes
<1> HIDE DEF q, d
<1>5. s \in Draining /\ s.ok /\ s.pairing.expected = p.expected
  BY <1>3, StepType
<1> HIDE DEF s
<1>6. r \in Draining
  <2>1. Text \in Kept
    BY DEF Kept
  <2> QED
    BY <1>1, <1>5, <2>1, FlushesAppend
<1>7. FlushedTo(r, d, p.expected)
  BY <1>1, <1>5, FlushesTo
<1>8. r.pairing.expected \subseteq Id
  BY <1>6 DEF Draining, Pairing
<1> HIDE DEF r
<1>9. r.ok /\ r.pairing.expected = {} <=>
          /\ \A id \in Id : SoundWaiting(id, d, p.expected)
          /\ \A id \in p.expected : Has(d, Result(id))
  BY <1>1, <1>7, <1>8 DEF FlushedTo
<1> QED
  BY <1>4, <1>9 DEF d

-----------------------------------------------------------------------------
(* What the end of a turn refuses *)

\* Where uses stand in two sequences, one after the other.
LEMMA StandsConcat ==
    ASSUME NEW s \in Seq(Emitted), NEW t \in Seq(Emitted), NEW x, NEW y
    PROVE  /\ Stands(s \o t, x) <=> Stands(s, x) \/ Stands(t, x)
           /\ StandsBefore(s \o t, x, y) <=>
                  \/ StandsBefore(s, x, y) \/ StandsBefore(t, x, y)
                  \/ Stands(s, x) /\ Stands(t, y)
<1>1. \A r, v : Stands(r, v) <=> Has(r, Use(v)) \/ Has(r, PairOf(v))
  BY DEF Stands, Has
<1>2. \A r, v, w : StandsBefore(r, v, w) <=>
          \/ Before(r, Use(v), Use(w)) \/ Before(r, Use(v), PairOf(w))
          \/ Before(r, PairOf(v), Use(w)) \/ Before(r, PairOf(v), PairOf(w))
  BY DEF StandsBefore, Before
<1>3. \A v : Has(s \o t, v) <=> Has(s, v) \/ Has(t, v)
  BY HasConcat
<1>4. \A v, w : Before(s \o t, v, w) <=>
          Before(s, v, w) \/ Before(t, v, w) \/ (Has(s, v) /\ Has(t, w))
  BY BeforeConcat
<1>5. Stands(s \o t, x) <=> Stands(s, x) \/ Stands(t, x)
  BY <1>1, <1>3
<1> QED
  BY <1>1, <1>2, <1>4, <1>5

\* What is known where the loop of drain is settled.
Known(p, o, a, pend) ==
    /\ InOrder(p, o, a)
    /\ Heard(p, a, pend)
    /\ Given(p, o, pend)
    /\ p.deferred # <<>> => Stuck(p.deferred)

\* The events of an id in what arrived, in what was handed on and in what waits.
LEMMA EventsOfId ==
    ASSUME NEW pend \in SUBSET Id, NEW p \in Pairing, NEW o \in Seq(Emitted), NEW a \in Seq(Kept),
           InOrder(p, o, a), Heard(p, a, pend), NEW id \in Id
    PROVE  LET Q == Paired(p.deferred)
           IN  /\ Before(a, Use(id), Result(id)) <=> Has(o, PairOf(id)) \/ Has(Q, PairOf(id))
               /\ id \in Open(a) <=> Has(Q, Use(id))
               /\ ~Has(a, Use(id)) => (Has(a, Result(id)) <=> Has(o, Result(id)) \/ Has(Q, Result(id)))
<1> DEFINE u == Use(id)
           r == Result(id)
           z == PairOf(id)
           P == Paired(a)
           Q == Paired(p.deferred)
<1>1. Q \in Seq(Emitted)
  BY PairedType DEF Pairing
<1>2. P = o \o Q /\ ~Has(o, u)
  BY DEF InOrder
<1>3. ~Before(a, u, u)
  BY DEF Heard
<1>4. /\ Has(P, z) <=> Before(a, u, r)
      /\ Has(P, u) <=> Has(a, u) /\ ~Before(a, u, r)
      /\ Has(P, r) <=> Before(a, r, r) \/ (Has(a, r) /\ ~Before(a, u, r))
  BY <1>3, BareEvents DEF Bare
<1>5. id \in Open(a) <=> Has(a, u) /\ ~Before(a, u, r)
  BY DEF Open
<1>6. (Before(a, u, r) => Has(a, u)) /\ (Before(a, r, r) => Has(a, r))
  BY BeforeHas
<1> HIDE DEF u, r, z, P, Q
<1>7. \A x : Has(P, x) <=> Has(o, x) \/ Has(Q, x)
  BY <1>1, <1>2, HasConcat
<1> QED
  BY <1>2, <1>4, <1>5, <1>6, <1>7 DEF u, r, z, Q

\* Something waits exactly when a use is open.
LEMMA OpenWaits ==
    ASSUME NEW pend \in SUBSET Id, NEW p \in Pairing, NEW o \in Seq(Emitted), NEW a \in Seq(Kept),
           Known(p, o, a, pend)
    PROVE  p.deferred # <<>> <=> Open(a) # {}
<1>1. ASSUME p.deferred # <<>> PROVE Open(a) # {}
  <2>1. PICK e \in Kept, t \in Seq(Kept) :
            p.deferred = <<e>> \o t /\ e.kind = "use" /\ ~Has(t, Result(e.id))
    BY <1>1 DEF Known, Stuck
  <2>2. e \in Emitted /\ e.id \in Id /\ e = Use(e.id)
    BY <2>1, KeptKinds, KeptIsEmitted
  <2>3. Paired(p.deferred) = <<e>> \o Paired(t) /\ Paired(t) \in Seq(Emitted)
    BY <2>1, PairedCons, PairedType
  <2> DEFINE q == Paired(t)
  <2>4. q \in Seq(Emitted)
    BY <2>3
  <2> HIDE DEF q
  <2>5. Has(<<e>> \o q, e)
    <3>1. e \in Emitted
      BY <2>2
    <3> QED
      BY <2>4, <3>1, HasCons
  <2>6. Has(Paired(p.deferred), e)
    <3>1. Paired(p.deferred) = <<e>> \o q
      BY <2>3 DEF q
    <3> QED
      BY <2>5, <3>1
  <2>7. InOrder(p, o, a) /\ Heard(p, a, pend)
    BY DEF Known
  <2>8. Has(Paired(p.deferred), Use(e.id))
    BY <2>2, <2>6
  <2> DEFINE id == e.id
  <2>9. id \in Id
    BY <2>2
  <2> HIDE DEF id
  <2>10. id \in Open(a) <=> Has(Paired(p.deferred), Use(id))
    BY <2>7, <2>9, EventsOfId
  <2> QED
    BY <2>8, <2>10 DEF id
<1>2. ASSUME p.deferred = <<>> PROVE Open(a) = {}
  <2>1. \A x : ~Has(Paired(p.deferred), x)
    BY <1>2, PairedEmpty, HasSingle
  <2>2. Open(a) \subseteq Id
    BY DEF Open
  <2> QED
    BY <2>1, <2>2, EventsOfId DEF Known
<1> QED
  BY <1>1, <1>2

\* No use that has its result comes after an open one.
NonePasses(a) == \A open \in Open(a), id \in Id : Before(a, Use(open), Use(id)) => id \in Open(a)

\* That is so exactly when no pair waits.
LEMMA PairsWait ==
    ASSUME NEW pend \in SUBSET Id, NEW p \in Pairing, NEW o \in Seq(Emitted), NEW a \in Seq(Kept),
           Known(p, o, a, pend)
    PROVE  NonePasses(a) <=> \A id \in Id : ~Has(Paired(p.deferred), PairOf(id))
<1> DEFINE Q == Paired(p.deferred)
<1>1. Q \in Seq(Emitted) /\ Paired(a) = o \o Q
  BY PairedType DEF Pairing, Known, InOrder
<1>2. ASSUME NEW id \in Id
      PROVE  /\ Before(a, Use(id), Result(id)) <=> Has(o, PairOf(id)) \/ Has(Q, PairOf(id))
             /\ id \in Open(a) <=> Has(Q, Use(id))
             /\ ~Has(o, Use(id))
  BY EventsOfId DEF Known, InOrder
<1>3. \A id : id \in Open(a) => id \in Id /\ ~Before(a, Use(id), Result(id))
  BY DEF Open
<1>4. ASSUME \A id \in Id : ~Has(Q, PairOf(id)), NEW open \in Open(a), NEW id \in Id,
             Before(a, Use(open), Use(id))
      PROVE  id \in Open(a)
  <2>1. StandsBefore(Paired(a), open, id)
    BY <1>4, Standing
  <2> HIDE DEF Q
  <2>2. \/ StandsBefore(o, open, id) \/ StandsBefore(Q, open, id)
        \/ Stands(o, open) /\ Stands(Q, id)
    BY <1>1, <2>1, StandsConcat
  <2>3. ~Stands(o, open)
    <3>1. ~Has(o, Use(open)) /\ ~Has(o, PairOf(open))
      BY <1>2, <1>3, <1>4
    <3> QED
      BY <3>1 DEF Stands, Has
  <2>4. Stands(Q, id)
    BY <2>2, <2>3 DEF Stands, StandsBefore
  <2>5. Has(Q, Use(id)) \/ Has(Q, PairOf(id))
    BY <2>4 DEF Stands, Has
  <2> QED
    BY <1>2, <1>4, <2>5
<1>5. ASSUME NonePasses(a), NEW id \in Id, Has(Q, PairOf(id)) PROVE FALSE
  <2>1. p.deferred # <<>>
    BY <1>5, PairedEmpty, HasSingle
  <2>2. PICK e \in Kept, t \in Seq(Kept) :
            p.deferred = <<e>> \o t /\ e.kind = "use" /\ ~Has(t, Result(e.id))
    BY <2>1 DEF Known, Stuck
  <2>3. e \in Emitted /\ e.id \in Id /\ e = Use(e.id)
    BY <2>2, KeptKinds, KeptIsEmitted
  <2> DEFINE y == <<e>>
             w == Paired(t)
  <2>4. Q = y \o w /\ w \in Seq(Emitted) /\ y \in Seq(Emitted)
    <3>1. Q = <<e>> \o Paired(t)
      BY <2>2, PairedCons
    <3>2. Paired(t) \in Seq(Emitted)
      BY PairedType
    <3>3. <<e>> \in Seq(Emitted)
      BY <2>3
    <3> QED
      BY <3>1, <3>2, <3>3
  <2>5. Has(Q, e) /\ (Has(Q, PairOf(id)) => Has(w, PairOf(id)))
    <3>1. PairOf(id) # e
      BY KeptKinds
    <3>2. \A v : Has(Q, v) <=> v = e \/ Has(w, v)
      BY <2>3, <2>4, HasCons
    <3> QED
      BY <3>1, <3>2
  <2>6. Stands(y, e.id)
    <3>1. Has(y, e)
      BY HasSingle
    <3> HIDE DEF y
    <3> QED
      BY <2>3, <3>1 DEF Stands, Has
  <2> HIDE DEF Q, y, w
  <2>7. Stands(w, id)
    BY <1>5, <2>5 DEF Stands, Has
  <2>8. StandsBefore(Q, e.id, id)
    BY <2>4, <2>6, <2>7, StandsConcat
  <2>9. Before(a, Use(e.id), Use(id))
    <3>1. StandsBefore(o \o Q, e.id, id)
      BY <1>1, <2>8, StandsConcat
    <3>2. StandsBefore(Paired(a), e.id, id)
      BY <1>1, <3>1
    <3> QED
      BY <3>2, Standing
  <2>10. e.id \in Open(a)
    BY <1>2, <2>3, <2>5
  <2>11. id \in Open(a)
    BY <1>5, <2>9, <2>10 DEF NonePasses
  <2> QED
    BY <1>2, <1>3, <1>5, <2>11
<1> HIDE DEF Q
<1>6. NonePasses(a) => \A id \in Id : ~Has(Q, PairOf(id))
  BY <1>5
<1>7. (\A id \in Id : ~Has(Q, PairOf(id))) => NonePasses(a)
  BY <1>4 DEF NonePasses
<1> QED
  BY <1>6, <1>7 DEF Q

\* What waits, joined and as it is.
LEMMA WaitingAlone ==
    ASSUME NEW p \in Pairing, NEW o, NEW a, InOrder(p, o, a), NEW id \in Id
    PROVE  LET d == p.deferred
               Q == Paired(d)
               x == p.expected
           IN  /\ SoundWaiting(id, Q, x) /\ ~Has(Q, PairOf(id)) <=> SoundWaiting(id, d, x)
               /\ id \in x => (Has(Q, Result(id)) <=> Has(d, Result(id)))
<1> DEFINE d == p.deferred
           Q == Paired(d)
           x == p.expected
           u == Use(id)
           r == Result(id)
           z == PairOf(id)
<1>1. d \in Seq(Kept)
  BY DEF Pairing
<1>2. (Has(d, u) => id \notin x /\ ~Before(d, u, u)) /\ (Before(d, u, u) => Has(d, u))
  BY BeforeHas DEF InOrder
<1>3. /\ Has(Q, z) <=> Before(d, u, r)
      /\ Has(Q, r) <=> Before(d, r, r) \/ (Has(d, r) /\ ~Before(d, u, r))
      /\ ~Has(d, u) => (Before(Q, r, r) <=> Before(d, r, r))
  BY <1>1, <1>2, BareEvents DEF Bare
<1>4. (Before(d, u, r) => Has(d, u) /\ Has(d, r)) /\ (Before(d, r, r) => Has(d, r))
  BY BeforeHas
<1> HIDE DEF d, Q, x, u, r, z
<1>5. (Has(Q, r) => id \in x /\ ~Before(Q, r, r)) /\ ~Has(Q, z) <=>
          (Has(d, r) => id \in x /\ ~Before(d, r, r))
  BY <1>2, <1>3, <1>4
<1>6. id \in x => (Has(Q, r) <=> Has(d, r))
  BY <1>2, <1>3, <1>4
<1> QED
  BY <1>5, <1>6 DEF SoundWaiting, d, Q, x, u, r, z

\* A turn may end exactly when its events are well formed and well ended.
LEMMA EndIsSound ==
    ASSUME NEW pend \in SUBSET Id, NEW p \in Pairing, NEW o \in Seq(Emitted), NEW a \in Seq(Kept),
           Known(p, o, a, pend), ~Reused(a, pend), NEW reason
    PROVE  End(p, o, reason).ok <=> WellFormed(a, pend) /\ WellEnded(a, pend, reason)
<1> DEFINE d == p.deferred
           Q == Paired(d)
           x == p.expected
           s == Flush(p, o)
           allowed == reason = "tool_use" /\ p.client
<1>1. End(p, o, reason).ok <=> (d # <<>> => allowed) /\ s.ok /\ s.pairing.expected = {}
  <2> HIDE DEF allowed, s
  <2>1. CASE (d # <<>> => allowed) /\ s.ok /\ s.pairing.expected = {}
    BY <2>1 DEF End, allowed, s
  <2>2. CASE ~((d # <<>> => allowed) /\ s.ok /\ s.pairing.expected = {})
    BY <2>2 DEF End, Refusal, allowed, s
  <2> QED
    BY <2>1, <2>2
<1>2. s.ok /\ s.pairing.expected = {} <=>
          (\A id \in Id : SoundWaiting(id, d, x)) /\ \A id \in x : Has(d, Result(id))
  BY FlushResolves
<1>3. x \subseteq pend /\ x \subseteq Id
  BY DEF Known, Given
<1>4. ASSUME NEW id \in Id
      PROVE  /\ SoundWaiting(id, Q, x) /\ ~Has(Q, PairOf(id)) <=> SoundWaiting(id, d, x)
             /\ id \in x => (Has(Q, Result(id)) <=> Has(d, Result(id)))
  BY WaitingAlone DEF Known
<1>5. WellFormed(a, pend) <=> \A id \in Id : SoundWaiting(id, Q, x)
  BY WellFormedIsWaiting DEF Known
<1>6. NonePasses(a) <=> \A id \in Id : ~Has(Q, PairOf(id))
  BY PairsWait
<1>7. (d # <<>> <=> Open(a) # {}) /\ (p.client <=> Has(a, Call))
  BY OpenWaits DEF Known, Heard
<1>8. (\A id \in pend : Has(a, Result(id))) <=> \A id \in x : Has(Q, Result(id))
  <2>1. ASSUME NEW id \in pend
        PROVE  /\ Has(a, Result(id)) <=> Has(o, Result(id)) \/ Has(Q, Result(id))
               /\ Has(o, Result(id)) <=> id \notin x
    <3>1. ~Has(a, Use(id))
      BY DEF Known, Heard
    <3>2. Has(o, Result(id)) <=> id \notin x
      BY DEF Known, Given
    <3> QED
      BY <3>1, <3>2, EventsOfId DEF Known
  <2> HIDE DEF Q, x
  <2> QED
    BY <1>3, <2>1
<1>9. WellEnded(a, pend, reason) <=>
          /\ \A id \in pend : Has(a, Result(id))
          /\ Open(a) # {} => reason = "tool_use" /\ Has(a, Call)
          /\ NonePasses(a)
  BY DEF WellEnded, NonePasses
<1> HIDE DEF d, Q, x, s
<1>10. (\A id \in Id : SoundWaiting(id, d, x)) <=>
           (\A id \in Id : SoundWaiting(id, Q, x)) /\ \A id \in Id : ~Has(Q, PairOf(id))
  BY <1>4
<1>11. (\A id \in x : Has(d, Result(id))) <=> \A id \in x : Has(Q, Result(id))
  BY <1>3, <1>4
<1> QED
  BY <1>1, <1>2, <1>5, <1>6, <1>7, <1>8, <1>9, <1>10, <1>11

-----------------------------------------------------------------------------
(* Turns are judged rightly *)

\* The conversation before a turn is what is before its events.
LEMMA WithFirst ==
    ASSUME NEW s \in Seq(ItemType), NEW m \in Model, NEW o \in Seq(Emitted)
    PROVE  /\ SubSeq(s, 1, Len(s)) = s
           /\ SubSeq(With(s, m, o), 1, Len(With(s, m, o)) - Len(o)) = s
<1> DEFINE t == [i \in 1 .. Len(o) |-> Item(m, o[i])]
           w == With(s, m, o)
<1>1. t \in Seq(ItemType) /\ Len(t) = Len(o)
  <2>1. \A i \in 1 .. Len(o) : Item(m, o[i]) \in ItemType
    BY DEF Item, ItemType
  <2>2. Len(o) \in Nat
    OBVIOUS
  <2> QED
    BY <2>1, <2>2, IsASeq
<1>2. w = s \o t
  BY DEF With
<1> HIDE DEF t, w
<1>3. /\ w \in Seq(ItemType) /\ Len(w) = Len(s) + Len(o)
      /\ \A i \in 1 .. Len(s) + Len(t) : w[i] = IF i <= Len(s) THEN s[i] ELSE t[i - Len(s)]
  <2> HIDE DEF ItemType
  <2>1. /\ s \o t \in Seq(ItemType) /\ Len(s \o t) = Len(s) + Len(t)
        /\ \A i \in 1 .. Len(s) + Len(t) : (s \o t)[i] = IF i <= Len(s) THEN s[i] ELSE t[i - Len(s)]
    BY <1>1, ConcatProperties, Zenon
  <2> QED
    BY <1>1, <1>2, <2>1
<1>4. Len(s) \in Nat /\ Len(o) \in Nat /\ Len(w) - Len(o) = Len(s)
  BY <1>3
<1>5. \A i \in 1 .. Len(s) : w[i] = s[i]
  BY <1>1, <1>3, <1>4
<1>6. SubSeq(s, 1, Len(s)) = s
  OBVIOUS
<1>7. SubSeq(w, 1, Len(s)) = s
  <2> DEFINE v == SubSeq(w, 1, Len(s))
  <2>1. v \in Seq(ItemType) /\ Len(v) = Len(s) /\ \A i \in 1 .. Len(s) : v[i] = w[i]
    BY <1>3, <1>4
  <2> HIDE DEF v
  <2>2. \A i \in 1 .. Len(s) : v[i] = s[i]
    BY <1>5, <2>1
  <2> QED
    BY <2>1, <2>2 DEF v
<1> QED
  BY <1>4, <1>6, <1>7 DEF w

\* What is known when a turn begins.
LEMMA NewKnown ==
    ASSUME NEW x \in SUBSET Id
    PROVE  Known(NewPairing(x), <<>>, <<>>, x)
<1> DEFINE z == <<>>
           p == NewPairing(x)
<1>1. InOrder(p, z, z)
  BY NewInOrder
<1>2. p.expected = x /\ p.deferred = z /\ p.seen = {} /\ p.client = FALSE
  BY NewPairingIs DEF NewPairingType
<1>3. \A y, w : ~Has(z, y) /\ ~Before(z, y, w)
  BY HasSingle
<1> HIDE DEF z, p
<1>4. Heard(p, z, x)
  BY <1>2, <1>3 DEF Heard
<1>5. Given(p, z, x)
  BY <1>2, <1>3 DEF Given
<1> QED
  BY <1>1, <1>2, <1>4, <1>5 DEF Known, z, p

\* An event that pair lets pass is known, and one that it refuses is not sound.
LEMMA PairKnown ==
    ASSUME NEW pend \in SUBSET Id, NEW p \in Pairing, NEW o \in Seq(Emitted), NEW a \in Seq(Kept),
           Known(p, o, a, pend), NEW e \in Event
    PROVE  LET s == Pair(p, o, e)
           IN  IF s.ok THEN Known(s.pairing, s.out, Append(a, e), pend)
                       ELSE Broken(Append(a, e), pend)
<1> DEFINE s == Pair(p, o, e)
           b == Append(a, e)
<1>1. InOrder(p, o, a) /\ Heard(p, a, pend) /\ Given(p, o, pend)
  BY DEF Known
<1>2. Minds(s, b, pend)
  BY <1>1, PairMinds
<1>3. s.ok => InOrder(s.pairing, s.out, b)
  BY <1>1, PairInOrder
<1>4. Settled(s)
  BY PairSettles
<1> HIDE DEF s, b
<1>5. IF s.ok THEN Known(s.pairing, s.out, b, pend) ELSE Broken(b, pend)
  BY <1>2, <1>3, <1>4 DEF Minds, Known, Settled
<1> QED
  BY <1>5 DEF s, b

\* Of the turn that is going on, and of the one a retry goes back to.
KnownInv ==
    pc # "idle" =>
        /\ Known(pairing, out, arrived, Pending(items, model))
        /\ Known(saved.pairing, saved.out, saved.arrived, Pending(items, model))

\* A turn ended rightly.
Judged(refused, a, pend, reason) ==
    \/ Reused(a, pend)
    \/ refused <=> ~(WellFormed(a, pend) /\ (reason # None => WellEnded(a, pend, reason)))

\* No turn is going on at first, and none has ended.
LEMMA InitKnown == Init => KnownInv /\ RefusedIffBroken
  BY DEF Init, KnownInv, RefusedIffBroken, None

\* A turn that is refused while its events arrive.
LEMMA RefusedJudged ==
    ASSUME items \in Seq(ItemType), items' = items, model' = model, result' = "refused",
           Judged(TRUE, arrived', Pending(items, model), stop')
    PROVE  RefusedIffBroken'
<1>1. SubSeq(items, 1, Len(items)) = items
  OBVIOUS
<1> QED
  BY <1>1 DEF RefusedIffBroken, Judged

\* A turn that is done.
LEMMA DoneJudged ==
    ASSUME items \in Seq(ItemType), model \in Model, out' \in Seq(Emitted),
           items' = With(items, model, out'), model' = model, result' = "done",
           Judged(FALSE, arrived', Pending(items, model), stop')
    PROVE  RefusedIffBroken'
<1>1. SubSeq(items', 1, Len(items') - Len(out')) = items
  BY WithFirst
<1> QED
  BY <1>1 DEF RefusedIffBroken, Judged

\* Every step keeps what is known, and ends a turn rightly.
LEMMA NextKnown ==
    TypeInv /\ OrderInv /\ KnownInv /\ RefusedIffBroken /\ [Next]_vars
        => KnownInv' /\ RefusedIffBroken'
<1> SUFFICES ASSUME TypeInv, OrderInv, KnownInv, RefusedIffBroken, [Next]_vars
             PROVE  KnownInv' /\ RefusedIffBroken'
  OBVIOUS
<1> DEFINE pend == Pending(items, model)
<1>1. /\ pairing \in Pairing /\ out \in Seq(Emitted) /\ items \in Seq(ItemType)
      /\ (pc # "idle" => model \in Model /\ stop = None /\ result = None)
      /\ (pc # "idle" => arrived \in Seq(Kept))
  BY DEF TypeInv, TypeOK, Counted, ItemType, OrderInv
<1>2. pend \in SUBSET Id
  BY DEF Pending
<1>3. result' \notin {"done", "refused"} => RefusedIffBroken'
  BY DEF RefusedIffBroken
<1>4. ASSUME NEW m \in Model, Begin(m) PROVE KnownInv' /\ RefusedIffBroken'
  <2> DEFINE x == Pending(items, m)
             p == NewPairing(x)
             z == <<>>
  <2>1. x \in SUBSET Id
    BY DEF Pending
  <2>2. Known(p, z, z, x)
    BY <2>1, NewKnown
  <2>3. /\ pairing' = p /\ out' = z /\ arrived' = z /\ items' = items /\ model' = m
        /\ saved' = [pairing |-> p, out |-> z, arrived |-> z] /\ result' = None
    BY <1>4 DEF Begin
  <2>4. Pending(items, model)' = x
    BY <2>3
  <2> HIDE DEF x, p, z
  <2> QED
    BY <1>3, <2>2, <2>3, <2>4 DEF KnownInv, None
<1>5. ASSUME NEW e \in Event, Receive(e) PROVE KnownInv' /\ RefusedIffBroken'
  <2> DEFINE s == Pair(pairing, out, e)
             b == Append(arrived, e)
  <2>1. /\ pc = "stream" /\ out' = s.out /\ items' = items /\ model' = model /\ stop' = stop
        /\ arrived' = b
    BY <1>5 DEF Receive
  <2>2. \/ s.ok /\ pairing' = s.pairing /\ saved' = saved /\ result' = result
        \/ ~s.ok /\ pc' = "idle" /\ result' = "refused"
    BY <1>5 DEF Receive, Return
  <2>3. Known(pairing, out, arrived, pend) /\ Known(saved.pairing, saved.out, saved.arrived, pend)
    BY <2>1 DEF KnownInv
  <2>4. IF s.ok THEN Known(s.pairing, s.out, b, pend) ELSE Broken(b, pend)
    BY <1>1, <1>2, <2>1, <2>3, PairKnown
  <2>5. Pending(items, model)' = pend
    BY <2>1
  <2> HIDE DEF s, b, pend
  <2>6. CASE s.ok
    <3>1. pairing' = s.pairing /\ saved' = saved /\ result' = None
      BY <1>1, <2>1, <2>2, <2>6
    <3> QED
      BY <1>3, <2>1, <2>3, <2>4, <2>5, <2>6, <3>1 DEF KnownInv, None
  <2>7. CASE ~s.ok
    <3>1. pc' = "idle" /\ result' = "refused" /\ stop' = None
      BY <1>1, <2>1, <2>2, <2>7
    <3>2. Judged(TRUE, arrived', pend, stop')
      BY <2>1, <2>4, <2>7, <3>1 DEF Judged, Broken
    <3>3. RefusedIffBroken'
      BY <1>1, <2>1, <3>1, <3>2, RefusedJudged DEF pend
    <3> QED
      BY <3>1, <3>3 DEF KnownInv
  <2> QED
    BY <2>6, <2>7
<1>6. ASSUME NEW reason \in {"end_turn", "tool_use"}, Complete(reason)
      PROVE  KnownInv' /\ RefusedIffBroken'
  <2> DEFINE s == End(pairing, out, reason)
  <2>1. /\ pc = "stream" /\ pc' = "idle" /\ stop' = reason /\ out' = s.out
        /\ result' = (IF s.ok THEN "done" ELSE "refused")
        /\ items' = (IF s.ok THEN With(items, model, s.out) ELSE items)
        /\ model' = model /\ arrived' = arrived
    BY <1>6 DEF Complete, Return
  <2>2. Known(pairing, out, arrived, pend) /\ model \in Model /\ arrived \in Seq(Kept)
    BY <1>1, <2>1 DEF KnownInv
  <2>3. s \in Draining /\ s.out \in Seq(Emitted) /\ s.ok \in BOOLEAN
    BY <1>1, EndType DEF Draining
  <2>4. Reused(arrived, pend) \/
            (s.ok <=> WellFormed(arrived, pend) /\ WellEnded(arrived, pend, reason))
    BY <1>1, <1>2, <2>2, EndIsSound
  <2>5. reason # None
    BY DEF None
  <2> HIDE DEF s, pend
  <2>6. Judged(~s.ok, arrived, pend, reason)
    BY <2>3, <2>4, <2>5 DEF Judged
  <2>7. CASE s.ok
    <3>1. Judged(FALSE, arrived', pend, stop')
      BY <2>1, <2>6, <2>7 DEF Judged
    <3> QED
      BY <1>1, <2>1, <2>2, <2>3, <2>7, <3>1, DoneJudged DEF pend, KnownInv
  <2>8. CASE ~s.ok
    <3>1. Judged(TRUE, arrived', pend, stop')
      BY <2>1, <2>6, <2>8 DEF Judged
    <3> QED
      BY <1>1, <2>1, <2>8, <3>1, RefusedJudged DEF pend, KnownInv
  <2> QED
    BY <2>3, <2>7, <2>8
<1>7. CASE Pause
  <2>1. /\ pc = "stream" /\ UNCHANGED <<pairing, out, arrived, items, model, result>>
        /\ saved' = [pairing |-> pairing, out |-> out, arrived |-> arrived]
    BY <1>7 DEF Pause
  <2> QED
    BY <1>1, <1>3, <2>1 DEF KnownInv, None
<1>8. CASE Retry
  <2>1. /\ pc = "stream" /\ UNCHANGED <<saved, items, model, result>> /\ pairing' = saved.pairing
        /\ out' = saved.out /\ arrived' = saved.arrived
    BY <1>8 DEF Retry, Restored
  <2> QED
    BY <1>1, <1>3, <2>1 DEF KnownInv, None
<1>9. CASE Usage \/ Again
  <2>1. UNCHANGED <<pairing, out, arrived, saved, items, model, result>> /\ pc # "idle"
    BY <1>9 DEF Usage, Again
  <2> QED
    BY <1>1, <1>3, <2>1 DEF KnownInv, None
<1>10. CASE PauseTooOften \/ Fail \/ Cancel
  <2>1. pc' = "idle" /\ result' \in {"failed", "error"}
    BY <1>10 DEF PauseTooOften, Fail, Cancel, Return
  <2> QED
    BY <1>3, <2>1 DEF KnownInv
<1>11. CASE UNCHANGED vars
  BY <1>11 DEF vars, KnownInv, RefusedIffBroken
<1> QED
  BY <1>4, <1>5, <1>6, <1>7, <1>8, <1>9, <1>10, <1>11 DEF Next

\* A turn is refused because of its server tools exactly when the blocks that
\* count do not match, for conversations, continuations and retries of any
\* number; an id that is used again after its result is excepted.
THEOREM SoundTurnsPass == Spec => []RefusedIffBroken
<1>1. Spec => [](KnownInv /\ RefusedIffBroken)
  <2>1. Spec => []OrderInv
    BY InitOrder, NextOrder, TypeInvariant, PTL DEF Spec
  <2> QED
    BY <2>1, InitKnown, NextKnown, TypeInvariant, PTL DEF Spec
<1> QED
  BY <1>1, PTL
=============================================================================
