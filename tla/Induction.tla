----------------------------- MODULE Induction -----------------------------
(***************************************************************************)
(* Induction over data, without an operator as a parameter: on a set of    *)
(* naturals, on a set of sequences, and what FoldLeft computes, one more   *)
(* element at a time.                                                      *)
(*                                                                         *)
(* FoldLeft of the community modules is a CHOOSE of a function on the sets *)
(* of positions that picks their greatest first.  FoldedBy is that function *)
(* where the operator is one, step; an operator that is folded is shown to *)
(* be such a step where it is used.                                        *)
(***************************************************************************)
EXTENDS SequencesExt, SequenceTheorems, TLAPS, WellFoundedInduction

-----------------------------------------------------------------------------
(* Sets of naturals and of sequences *)

\* A set with 0 that has n + 1 with every n has every natural: that the
\* naturals are well founded is stated without an operator.
THEOREM NatSetInduction ==
    ASSUME NEW S, 0 \in S, \A n \in Nat : n \in S => n + 1 \in S
    PROVE  Nat \subseteq S
<1> DEFINE T == Nat \ S
<1>1. SUFFICES ASSUME T # {} PROVE FALSE
  OBVIOUS
<1>2. PICK x \in T : \A y \in T : <<y, x>> \notin OpToRel(<, Nat)
  <2> HIDE DEF T
  <2>1. T \subseteq Nat
    BY DEF T
  <2> QED
    BY <1>1, <2>1, NatLessThanWellFounded, WFMin
<1>3. \A y \in T : ~(y < x)
  BY <1>2 DEF OpToRel
<1>4. x # 0 /\ x \in Nat
  OBVIOUS
<1>5. x - 1 \in Nat /\ x - 1 \notin T
  BY <1>3, <1>4
<1> QED
  BY <1>4, <1>5

\* Some naturals have a least one.
LEMMA LeastOfNaturals ==
    ASSUME NEW s \in SUBSET Nat, s # {}
    PROVE  \E x \in s : \A y \in s : x <= y
<1>1. PICK x \in s : \A y \in s : <<y, x>> \notin OpToRel(<, Nat)
  BY NatLessThanWellFounded, WFMin
<1>2. \A y \in s : ~(y < x)
  BY <1>1 DEF OpToRel
<1>3. \A y \in s : x \in Nat /\ y \in Nat
  OBVIOUS
<1> QED
  BY <1>2, <1>3

\* A set of sequences with the empty one that has a sequence with one element
\* more with every sequence has every sequence.
LEMMA SeqSetInduction ==
    ASSUME NEW B, NEW S, <<>> \in S, \A s \in Seq(B), e \in B : s \in S => Append(s, e) \in S
    PROVE  Seq(B) \subseteq S
<1> DEFINE P(n) == \A s \in Seq(B) : Len(s) = n => s \in S
<1>1. P(0)
  <2>1. ASSUME NEW s \in Seq(B), Len(s) = 0 PROVE s = <<>>
    BY <2>1
  <2> QED
    BY <2>1
<1>2. ASSUME NEW n \in Nat, P(n) PROVE P(n + 1)
  <2>1. SUFFICES ASSUME NEW s \in Seq(B), Len(s) = n + 1 PROVE s \in S
    OBVIOUS
  <2> DEFINE r == SubSeq(s, 1, n)
             e == s[n + 1]
  <2>2. r \in Seq(B) /\ Len(r) = n /\ e \in B
    BY <2>1
  <2>3. s = Append(r, e)
    BY <2>1
  <2>4. r \in S
    BY <1>2, <2>2
  <2> HIDE DEF r, e
  <2> QED
    BY <2>2, <2>3, <2>4
<1> DEFINE N == {n \in Nat : P(n)}
<1> HIDE DEF P
<1>3. 0 \in N /\ \A n \in Nat : n \in N => n + 1 \in N
  BY <1>1, <1>2
<1> HIDE DEF N
<1>4. Nat \subseteq N
  BY <1>3, NatSetInduction
<1>5. ASSUME NEW s \in Seq(B) PROVE s \in S
  <2>1. Len(s) \in Nat
    OBVIOUS
  <2>2. P(Len(s))
    BY <1>4, <2>1 DEF N
  <2> QED
    BY <2>2 DEF P
<1> QED
  BY <1>5

-----------------------------------------------------------------------------
(* Folds *)

\* The greatest of some positions is one of them.
LEMMA MaxOfSegment ==
    ASSUME NEW N \in Nat, NEW s \in SUBSET (1 .. N), s # {}
    PROVE  /\ Max(s) \in s
           /\ \A y \in s : Max(s) >= y
<1> DEFINE P(n) == \A t \in SUBSET (1 .. n) : t # {} => \E x \in t : \A y \in t : x >= y
<1>1. P(0)
  <2>1. 1 .. 0 = {}
    OBVIOUS
  <2> QED
    BY <2>1
<1>2. ASSUME NEW n \in Nat, P(n) PROVE P(n + 1)
  <2>1. SUFFICES ASSUME NEW t \in SUBSET (1 .. n + 1), t # {}
                 PROVE  \E x \in t : \A y \in t : x >= y
    OBVIOUS
  <2>2. CASE n + 1 \in t
    BY <2>2
  <2>3. CASE n + 1 \notin t
    <3>1. t \in SUBSET (1 .. n)
      BY <2>3
    <3> QED
      BY <1>2, <2>1, <3>1
  <2> QED
    BY <2>2, <2>3
<1>3. P(N)
  <2> DEFINE S == {n \in Nat : P(n)}
  <2> HIDE DEF P
  <2>1. 0 \in S /\ \A n \in Nat : n \in S => n + 1 \in S
    BY <1>1, <1>2
  <2> HIDE DEF S
  <2>2. N \in S
    BY <2>1, NatSetInduction
  <2> QED
    BY <2>2 DEF S
<1>4. \E x \in s : \A y \in s : x >= y
  BY <1>3
<1> QED
  BY <1>4 DEF Max

\* A function of a value of A and an element of B.
StepOn(step, A, B) == step \in [A \X B -> A]

\* h gives what step makes of base at the positions of a set, in their order.
Computing(h, A, base, step, N) ==
    /\ h \in [SUBSET (1 .. N) -> A]
    /\ \A s \in SUBSET (1 .. N) :
           h[s] = IF s = {} THEN base ELSE step[<<h[s \ {Max(s)}], Max(s)>>]

\* Such a function exists, whatever is computed at each position.
LEMMA FoldExists ==
    ASSUME NEW A, NEW base \in A, NEW N \in Nat, NEW step, StepOn(step, A, 1 .. N)
    PROVE  \E h : Computing(h, A, base, step, N)
<1> USE DEF StepOn
<1> DEFINE Good(k, h) == Computing(h, A, base, step, k)
           P(k) == k <= N => \E h : Good(k, h)
<1>1. P(0)
  <2> DEFINE h == [s \in SUBSET (1 .. 0) |-> base]
  <2>1. Good(0, h)
    BY DEF Computing
  <2> QED
    BY <2>1
<1>2. ASSUME NEW k \in Nat, P(k) PROVE P(k + 1)
  <2>1. SUFFICES ASSUME k + 1 <= N PROVE \E h : Good(k + 1, h)
    OBVIOUS
  <2>2. PICK h : Good(k, h)
    <3> HIDE DEF Good
    <3>1. k <= N
      BY <2>1
    <3> QED
      BY <1>2, <3>1
  <2> DEFINE g == [s \in SUBSET (1 .. k + 1) |->
                     IF k + 1 \in s THEN step[<<h[s \ {k + 1}], k + 1>>] ELSE h[s]]
  <2>3. ASSUME NEW s \in SUBSET (1 .. k + 1)
        PROVE  /\ k + 1 \in s => s \ {k + 1} \in SUBSET (1 .. k)
               /\ k + 1 \notin s => s \in SUBSET (1 .. k)
    OBVIOUS
  <2>4. g \in [SUBSET (1 .. k + 1) -> A]
    <3>1. ASSUME NEW s \in SUBSET (1 .. k + 1) PROVE g[s] \in A
      <4>1. CASE k + 1 \in s
        <5>1. h[s \ {k + 1}] \in A
          BY <2>2, <2>3, <4>1 DEF Computing
        <5>2. k + 1 \in 1 .. N
          BY <2>1
        <5> QED
          BY <4>1, <5>1, <5>2
      <4>2. CASE k + 1 \notin s
        BY <2>2, <2>3, <4>2 DEF Computing
      <4> QED
        BY <4>1, <4>2
    <3> QED
      BY <3>1
  <2>5. ASSUME NEW s \in SUBSET (1 .. k + 1)
        PROVE  g[s] = IF s = {} THEN base ELSE step[<<g[s \ {Max(s)}], Max(s)>>]
    <3>1. CASE k + 1 \in s
      <4>1. Max(s) = k + 1
        <5>1. k + 1 \in Nat /\ s # {}
          BY <3>1
        <5>2. Max(s) \in s /\ \A y \in s : Max(s) >= y
          BY <5>1, MaxOfSegment
        <5>3. Max(s) >= k + 1 /\ Max(s) \in 1 .. k + 1
          BY <3>1, <5>2
        <5> QED
          BY <5>3
      <4>2. g[s] = step[<<h[s \ {k + 1}], k + 1>>]
        BY <3>1
      <4>3. g[s \ {k + 1}] = h[s \ {k + 1}]
        BY <2>3, <3>1
      <4> QED
        BY <3>1, <4>1, <4>2, <4>3
    <3>2. CASE k + 1 \notin s /\ s # {}
      <4>1. s \in SUBSET (1 .. k) /\ Max(s) \in s
        BY <2>3, <3>2, MaxOfSegment
      <4>2. k + 1 \notin s \ {Max(s)} /\ s \ {Max(s)} \in SUBSET (1 .. k)
        BY <3>2, <4>1
      <4>3. g[s] = h[s] /\ g[s \ {Max(s)}] = h[s \ {Max(s)}]
        BY <3>2, <4>1, <4>2
      <4>4. h[s] = step[<<h[s \ {Max(s)}], Max(s)>>]
        BY <2>2, <3>2, <4>1 DEF Computing
      <4> QED
        BY <3>2, <4>3, <4>4
    <3>3. CASE s = {}
      <4>1. s \in SUBSET (1 .. k)
        BY <3>3
      <4>2. h[s] = base
        BY <2>2, <3>3, <4>1 DEF Computing
      <4> QED
        BY <3>3, <4>2
    <3> QED
      BY <3>1, <3>2, <3>3
  <2>6. Good(k + 1, g)
    <3> HIDE DEF g
    <3> QED
      BY <2>4, <2>5 DEF Computing
  <2> HIDE DEF Good
  <2> QED
    BY <2>6
<1>3. P(N)
  <2> DEFINE S == {n \in Nat : P(n)}
  <2> HIDE DEF P
  <2>1. 0 \in S /\ \A n \in Nat : n \in S => n + 1 \in S
    BY <1>1, <1>2
  <2> HIDE DEF S
  <2>2. N \in S
    BY <2>1, NatSetInduction
  <2> QED
    BY <2>2 DEF S
<1> QED
  BY <1>3

\* Two functions that agree on {} and wherever they agree on what is left without
\* the greatest element.
Agreeing(N, g, h) ==
    /\ g[{}] = h[{}]
    /\ \A t \in SUBSET (1 .. N) : t # {} /\ g[t \ {Max(t)}] = h[t \ {Max(t)}] => g[t] = h[t]

\* Two functions that agree like this are equal.
LEMMA FoldUnique ==
    ASSUME NEW N \in Nat, NEW g, NEW h, Agreeing(N, g, h)
    PROVE  \A t \in SUBSET (1 .. N) : g[t] = h[t]
<1> DEFINE P(k) == k <= N => \A t \in SUBSET (1 .. k) : g[t] = h[t]
<1>1. P(0)
  <2>1. SUBSET (1 .. 0) = {{}}
    OBVIOUS
  <2> QED
    BY <2>1 DEF Agreeing
<1>2. ASSUME NEW k \in Nat, P(k) PROVE P(k + 1)
  <2>1. SUFFICES ASSUME k + 1 <= N, NEW t \in SUBSET (1 .. k + 1) PROVE g[t] = h[t]
    OBVIOUS
  <2>2. CASE t = {}
    BY <2>2 DEF Agreeing
  <2>3. CASE t # {}
    <3>1. t \in SUBSET (1 .. N)
      BY <2>1
    <3>2. Max(t) \in t /\ \A y \in t : Max(t) >= y
      BY <2>3, <3>1, MaxOfSegment
    <3>3. t \ {Max(t)} \in SUBSET (1 .. k)
      <4>1. ASSUME NEW y \in t \ {Max(t)} PROVE y \in 1 .. k
        <5>1. y \in 1 .. k + 1 /\ Max(t) \in 1 .. k + 1 /\ Max(t) >= y /\ y # Max(t)
          BY <3>2
        <5> QED
          BY <5>1
      <4> QED
        BY <4>1
    <3>4. g[t \ {Max(t)}] = h[t \ {Max(t)}]
      BY <1>2, <2>1, <3>3
    <3> QED
      BY <2>3, <3>1, <3>4 DEF Agreeing
  <2> QED
    BY <2>2, <2>3
<1>3. P(N)
  <2> DEFINE S == {n \in Nat : P(n)}
  <2> HIDE DEF P
  <2>1. 0 \in S /\ \A n \in Nat : n \in S => n + 1 \in S
    BY <1>1, <1>2
  <2> HIDE DEF S
  <2>2. N \in S
    BY <2>1, NatSetInduction
  <2> QED
    BY <2>2 DEF S
<1> QED
  BY <1>3

\* FoldLeft of a function: what FoldLeft is for an operator that is one.
FoldedBy(step, base, s) ==
    (CHOOSE g : g = [t \in SUBSET (DOMAIN s) |->
                        IF t = {} THEN base ELSE step[<<g[t \ {Max(t)}], s[Max(t)]>>]])[DOMAIN s]

\* The function that a fold of s over the values of A computes.
Folding(h, A, B, step, base, s) ==
    /\ h \in [SUBSET (DOMAIN s) -> A]
    /\ h[{}] = base
    /\ \A t \in SUBSET (DOMAIN s) :
           t # {} => /\ t \ {Max(t)} \in SUBSET (DOMAIN s)
                     /\ s[Max(t)] \in B
                     /\ h[t \ {Max(t)}] \in A
                     /\ h[t] = step[<<h[t \ {Max(t)}], s[Max(t)]>>]

\* FoldedBy is what the function of the fold gives for all positions.
LEMMA FoldedByFunction ==
    ASSUME NEW A, NEW B, NEW base \in A, NEW step, StepOn(step, A, B), NEW s \in Seq(B)
    PROVE  \E h : Folding(h, A, B, step, base, s) /\ FoldedBy(step, base, s) = h[DOMAIN s]
<1> DEFINE N == Len(s)
           at == [x \in A \X (1 .. N) |-> step[<<x[1], s[x[2]]>>]]
           F(g) == [t \in SUBSET (DOMAIN s) |->
                        IF t = {} THEN base ELSE step[<<g[t \ {Max(t)}], s[Max(t)]>>]]
<1>1. N \in Nat /\ DOMAIN s = 1 .. N
  OBVIOUS
<1>2. StepOn(at, A, 1 .. N)
  BY DEF StepOn
<1>3. PICK h : Computing(h, A, base, at, N)
  <2> HIDE DEF at, N
  <2> QED
    BY <1>1, <1>2, FoldExists
<1>4. ASSUME NEW t \in SUBSET (DOMAIN s), t # {}
      PROVE  /\ t \ {Max(t)} \in SUBSET (DOMAIN s)
             /\ s[Max(t)] \in B
             /\ h[t \ {Max(t)}] \in A
             /\ h[t] = step[<<h[t \ {Max(t)}], s[Max(t)]>>]
  <2>1. Max(t) \in 1 .. N
    BY <1>1, <1>4, MaxOfSegment
  <2>2. t \ {Max(t)} \in SUBSET (1 .. N)
    BY <1>1
  <2>3. h[t \ {Max(t)}] \in A
    BY <1>3, <2>2 DEF Computing
  <2>4. h[t] = at[<<h[t \ {Max(t)}], Max(t)>>]
    BY <1>1, <1>3, <1>4 DEF Computing
  <2>5. s[Max(t)] \in B
    BY <2>1
  <2>6. at[<<h[t \ {Max(t)}], Max(t)>>] = step[<<h[t \ {Max(t)}], s[Max(t)]>>]
    BY <2>1, <2>3
  <2> HIDE DEF at
  <2> QED
    BY <1>1, <2>2, <2>3, <2>4, <2>5, <2>6
<1>5. h[{}] = base
  BY <1>3 DEF Computing
<1>6. h = F(h)
  <2>1. ASSUME NEW t \in SUBSET (DOMAIN s)
        PROVE  h[t] = IF t = {} THEN base ELSE step[<<h[t \ {Max(t)}], s[Max(t)]>>]
    BY <1>4, <1>5
  <2>2. h = [t \in SUBSET (DOMAIN s) |-> h[t]]
    BY <1>1, <1>3 DEF Computing
  <2> QED
    BY <2>1, <2>2
<1>7. PICK g : g = F(g) /\ FoldedBy(step, base, s) = g[DOMAIN s]
  <2>1. FoldedBy(step, base, s) = (CHOOSE g : g = F(g))[DOMAIN s]
    BY DEF FoldedBy
  <2> HIDE DEF F
  <2> QED
    BY <1>6, <2>1
<1>8. \A t \in SUBSET (1 .. N) : g[t] = h[t]
  <2>1. g[{}] = h[{}]
    BY <1>5, <1>7
  <2>2. ASSUME NEW t \in SUBSET (1 .. N), t # {}, g[t \ {Max(t)}] = h[t \ {Max(t)}]
        PROVE  g[t] = h[t]
    <3>1. g[t] = step[<<g[t \ {Max(t)}], s[Max(t)]>>]
      BY <1>1, <1>7, <2>2
    <3> QED
      BY <1>1, <1>4, <2>2, <3>1
  <2>3. Agreeing(N, g, h)
    BY <2>1, <2>2 DEF Agreeing
  <2> HIDE DEF N
  <2> QED
    BY <1>1, <2>3, FoldUnique
<1>9. FoldedBy(step, base, s) = h[DOMAIN s] /\ h \in [SUBSET (DOMAIN s) -> A]
  BY <1>1, <1>3, <1>7, <1>8 DEF Computing
<1> HIDE DEF N, at, F
<1>10. Folding(h, A, B, step, base, s)
  BY <1>4, <1>5, <1>9 DEF Folding
<1> QED
  BY <1>9, <1>10

\* The fold of the empty sequence.
LEMMA FoldedByEmpty ==
    ASSUME NEW A, NEW B, NEW base \in A, NEW step, StepOn(step, A, B)
    PROVE  FoldedBy(step, base, <<>>) = base
<1> DEFINE z == <<>>
<1>1. z \in Seq(B)
  OBVIOUS
<1>2. PICK h : Folding(h, A, B, step, base, z) /\ FoldedBy(step, base, z) = h[DOMAIN z]
  <2> HIDE DEF z
  <2> QED
    BY <1>1, FoldedByFunction
<1>3. FoldedBy(step, base, z) = base
  <2>1. DOMAIN z = {}
    OBVIOUS
  <2> HIDE DEF z
  <2> QED
    BY <1>2, <2>1 DEF Folding
<1> QED
  BY <1>3

\* The fold of a sequence with one element more.
LEMMA FoldedByAppend ==
    ASSUME NEW A, NEW B, NEW base \in A, NEW step, StepOn(step, A, B), NEW s \in Seq(B), NEW e \in B
    PROVE  /\ FoldedBy(step, base, <<>>) = base
           /\ FoldedBy(step, base, s) \in A
           /\ FoldedBy(step, base, Append(s, e)) = step[<<FoldedBy(step, base, s), e>>]
<1>1. FoldedBy(step, base, <<>>) = base
  BY FoldedByEmpty
<1> DEFINE r == Append(s, e)
           N == Len(s)
<1>2. /\ N \in Nat /\ DOMAIN s = 1 .. N
      /\ r \in Seq(B) /\ DOMAIN r = 1 .. N + 1 /\ r[N + 1] = e
      /\ \A i \in 1 .. N : r[i] = s[i]
  OBVIOUS
<1> HIDE DEF r, N
<1>3. PICK h : Folding(h, A, B, step, base, s) /\ FoldedBy(step, base, s) = h[DOMAIN s]
  BY FoldedByFunction
<1>4. PICK g : Folding(g, A, B, step, base, r) /\ FoldedBy(step, base, r) = g[DOMAIN r]
  BY <1>2, FoldedByFunction
<1>5. \A t \in SUBSET (1 .. N) : g[t] = h[t]
  <2>1. ASSUME NEW t \in SUBSET (1 .. N), t # {}, g[t \ {Max(t)}] = h[t \ {Max(t)}]
        PROVE  g[t] = h[t]
    <3>1. Max(t) \in 1 .. N
      BY <1>2, <2>1, MaxOfSegment
    <3>2. t \in SUBSET (DOMAIN r) /\ t \in SUBSET (DOMAIN s)
      <4>1. 1 .. N \subseteq 1 .. N + 1
        BY <1>2
      <4> QED
        BY <1>2, <4>1
    <3>3. g[t] = step[<<g[t \ {Max(t)}], r[Max(t)]>>]
      BY <1>4, <2>1, <3>2 DEF Folding
    <3>4. h[t] = step[<<h[t \ {Max(t)}], s[Max(t)]>>]
      BY <1>3, <2>1, <3>2 DEF Folding
    <3> QED
      BY <1>2, <2>1, <3>1, <3>3, <3>4
  <2>2. g[{}] = h[{}]
    BY <1>3, <1>4 DEF Folding
  <2>3. Agreeing(N, g, h)
    BY <2>1, <2>2 DEF Agreeing
  <2> QED
    BY <1>2, <2>3, FoldUnique
<1>6. Max(1 .. N + 1) = N + 1
  <2>1. N + 1 \in Nat /\ N + 1 \in 1 .. N + 1
    BY <1>2
  <2>2. 1 .. N + 1 \in SUBSET (1 .. N + 1) /\ 1 .. N + 1 # {}
    BY <2>1
  <2>3. Max(1 .. N + 1) \in 1 .. N + 1 /\ Max(1 .. N + 1) >= N + 1
    BY <2>1, <2>2, MaxOfSegment
  <2> QED
    BY <1>2, <2>3
<1>7. (1 .. N + 1) \ {N + 1} = 1 .. N /\ N + 1 \in 1 .. N + 1
  BY <1>2
<1>8. g[1 .. N + 1] = step[<<g[1 .. N], e>>]
  <2>1. DOMAIN r \in SUBSET (DOMAIN r) /\ DOMAIN r # {} /\ Max(DOMAIN r) = N + 1
    BY <1>2, <1>6, <1>7
  <2>2. g[DOMAIN r] = step[<<g[DOMAIN r \ {Max(DOMAIN r)}], r[Max(DOMAIN r)]>>]
    BY <1>4, <2>1 DEF Folding
  <2> QED
    BY <1>2, <1>7, <2>1, <2>2
<1>9. g[1 .. N] = h[1 .. N] /\ h[1 .. N] \in A
  <2>1. 1 .. N \in SUBSET (1 .. N)
    OBVIOUS
  <2> QED
    BY <1>2, <1>3, <1>5, <2>1 DEF Folding
<1>10. FoldedBy(step, base, r) = step[<<FoldedBy(step, base, s), e>>]
  BY <1>2, <1>3, <1>4, <1>8, <1>9
<1>11. FoldedBy(step, base, s) \in A
  BY <1>2, <1>3, <1>9
<1> QED
  BY <1>1, <1>10, <1>11 DEF r

\* A function of the sets of positions that makes a step at the greatest.
Unfolding(g, A, B, step, base, s) ==
    /\ g[{}] = base
    /\ \A t \in SUBSET (DOMAIN s) :
           t # {} /\ g[t \ {Max(t)}] \in A /\ s[Max(t)] \in B =>
               g[t] = step[<<g[t \ {Max(t)}], s[Max(t)]>>]

\* Whatever makes these steps gives FoldedBy for all positions.
LEMMA FoldedByUnfolding ==
    ASSUME NEW A, NEW B, NEW base \in A, NEW step, StepOn(step, A, B), NEW s \in Seq(B),
           NEW g, Unfolding(g, A, B, step, base, s)
    PROVE  g[DOMAIN s] = FoldedBy(step, base, s)
<1>1. PICK h : Folding(h, A, B, step, base, s) /\ FoldedBy(step, base, s) = h[DOMAIN s]
  BY FoldedByFunction
<1>2. DOMAIN s = 1 .. Len(s) /\ Len(s) \in Nat
  OBVIOUS
<1>3. ASSUME NEW t \in SUBSET (1 .. Len(s)), t # {}, g[t \ {Max(t)}] = h[t \ {Max(t)}]
      PROVE  g[t] = h[t]
  BY <1>1, <1>2, <1>3 DEF Folding, Unfolding
<1>4. g[{}] = h[{}]
  BY <1>1 DEF Folding, Unfolding
<1>5. Agreeing(Len(s), g, h)
  BY <1>3, <1>4 DEF Agreeing
<1> QED
  BY <1>1, <1>2, <1>5, FoldUnique

\* A fold keeps what its steps keep.
LEMMA FoldedByType ==
    ASSUME NEW A, NEW B, NEW base \in A, NEW step, StepOn(step, A, B), NEW s \in Seq(B)
    PROVE  FoldedBy(step, base, s) \in A
<1>1. PICK h : Folding(h, A, B, step, base, s) /\ FoldedBy(step, base, s) = h[DOMAIN s]
  BY FoldedByFunction
<1> QED
  BY <1>1 DEF Folding

\* One sequence after another, with one more element.
LEMMA ConcatAppend ==
    ASSUME NEW B, NEW s \in Seq(B), NEW t \in Seq(B), NEW e \in B
    PROVE  s \o Append(t, e) = Append(s \o t, e)
<1>1. Append(t, e) = t \o <<e>> /\ Append(s \o t, e) = (s \o t) \o <<e>>
  BY AppendIsConcat, ConcatProperties
<1>2. <<e>> \in Seq(B)
  OBVIOUS
<1> QED
  BY <1>1, <1>2, ConcatAssociative

\* A fold of one sequence after another.
LEMMA FoldedByConcat ==
    ASSUME NEW A, NEW B, NEW base \in A, NEW step, StepOn(step, A, B), NEW s \in Seq(B), NEW t \in Seq(B)
    PROVE  FoldedBy(step, base, s \o t) = FoldedBy(step, FoldedBy(step, base, s), t)
<1> DEFINE mid == FoldedBy(step, base, s)
           S == {u \in Seq(B) : FoldedBy(step, base, s \o u) = FoldedBy(step, mid, u)}
<1>1. mid \in A
  BY FoldedByType
<1>2. <<>> \in S
  <2>1. s \o <<>> = s /\ <<>> \in Seq(B)
    BY ConcatEmptySeq, EmptySeq
  <2>2. FoldedBy(step, mid, <<>>) = mid
    <3> HIDE DEF mid
    <3> QED
      BY <1>1, FoldedByEmpty
  <2> QED
    BY <2>1, <2>2
<1>3. ASSUME NEW u \in Seq(B), NEW e \in B, u \in S PROVE Append(u, e) \in S
  <2> DEFINE v == s \o u
  <2>1. v \in Seq(B) /\ s \o Append(u, e) = Append(v, e) /\ Append(u, e) \in Seq(B)
    BY ConcatProperties, ConcatAppend, AppendProperties
  <2>2. FoldedBy(step, base, v) = FoldedBy(step, mid, u)
    BY <1>3
  <2> HIDE DEF v, mid
  <2>3. FoldedBy(step, base, Append(v, e)) = step[<<FoldedBy(step, base, v), e>>]
    BY <2>1, FoldedByAppend
  <2>4. FoldedBy(step, mid, Append(u, e)) = step[<<FoldedBy(step, mid, u), e>>]
    BY <1>1, FoldedByAppend
  <2> QED
    BY <2>1, <2>2, <2>3, <2>4
<1> HIDE DEF S
<1>4. t \in S
  BY <1>2, <1>3, SeqSetInduction
<1> QED
  BY <1>4 DEF S, mid

-----------------------------------------------------------------------------
(* Sequences of sequences *)

\* The chunks of s up to each, one after the other.
Flattening(f, B, s) ==
    /\ f \in [0 .. Len(s) -> Seq(B)]
    /\ f[0] = <<>>
    /\ \A i \in 1 .. Len(s) : f[i] = f[i - 1] \o s[i]

\* With one chunk more.
LEMMA FlatteningAppend ==
    ASSUME NEW B, NEW s \in Seq(Seq(B)), NEW c \in Seq(B), NEW f, Flattening(f, B, s)
    PROVE  \E g : Flattening(g, B, Append(s, c)) /\ g[Len(s) + 1] = f[Len(s)] \o c
<1> DEFINE N == Len(s)
           r == Append(s, c)
           g == [i \in 0 .. N + 1 |-> IF i = N + 1 THEN f[N] \o c ELSE f[i]]
<1>1. /\ N \in Nat /\ Len(r) = N + 1 /\ r[N + 1] = c
      /\ \A i \in 1 .. N : r[i] = s[i]
  BY AppendProperties
<1> HIDE DEF r, N
<1>2. /\ f \in [0 .. N -> Seq(B)] /\ f[0] = <<>>
      /\ \A i \in 1 .. N : f[i] = f[i - 1] \o s[i]
  BY DEF Flattening, N
<1>3. f[N] \o c \in Seq(B)
  <2>1. f[N] \in Seq(B)
    BY <1>1, <1>2
  <2> QED
    BY <2>1, ConcatProperties
<1>4. g \in [0 .. N + 1 -> Seq(B)]
  <2>1. ASSUME NEW i \in 0 .. N + 1 PROVE g[i] \in Seq(B)
    <3>1. i = N + 1 \/ i \in 0 .. N
      BY <1>1
    <3> QED
      BY <1>2, <1>3, <3>1
  <2> QED
    BY <2>1
<1>5. g[0] = <<>> /\ g[N + 1] = f[N] \o c
  BY <1>1, <1>2
<1>6. ASSUME NEW i \in 1 .. N + 1 PROVE g[i] = g[i - 1] \o r[i]
  <2>1. CASE i = N + 1
    <3>1. i - 1 = N /\ N \in 0 .. N + 1 /\ N # N + 1 /\ i \in 0 .. N + 1
      BY <1>1, <2>1
    <3>2. g[i] = f[N] \o c /\ g[i - 1] = f[N] /\ r[i] = c
      BY <1>1, <2>1, <3>1
    <3> QED
      BY <3>2
  <2>2. CASE i # N + 1
    <3>1. i \in 1 .. N /\ i - 1 \in 0 .. N + 1 /\ i - 1 # N + 1 /\ i \in 0 .. N + 1
      BY <1>1, <2>2
    <3>2. g[i] = f[i] /\ g[i - 1] = f[i - 1] /\ r[i] = s[i] /\ f[i] = f[i - 1] \o s[i]
      BY <1>1, <1>2, <2>2, <3>1
    <3> QED
      BY <3>2
  <2> QED
    BY <2>1, <2>2
<1> HIDE DEF g
<1>7. Flattening(g, B, r)
  BY <1>1, <1>4, <1>5, <1>6 DEF Flattening
<1> QED
  BY <1>5, <1>7 DEF r, N

\* FlattenSeq puts them one after the other.
LEMMA FlattenIs ==
    ASSUME NEW B, NEW s \in Seq(Seq(B))
    PROVE  /\ \E f : Flattening(f, B, s)
           /\ \A f : Flattening(f, B, s) => FlattenSeq(s) = f[Len(s)]
<1>1. \E f : Flattening(f, B, s)
  <2> DEFINE S == {t \in Seq(Seq(B)) : \E f : Flattening(f, B, t)}
             C == Seq(B)
  <2>1. <<>> \in S
    <3>1. PICK z : z = <<>>
      OBVIOUS
    <3>2. z \in Seq(Seq(B)) /\ Len(z) = 0 /\ z \in Seq(B)
      BY <3>1, EmptySeq
    <3> DEFINE f == [i \in 0 .. 0 |-> z]
    <3>3. Flattening(f, B, z)
      BY <3>1, <3>2 DEF Flattening
    <3> QED
      BY <3>1, <3>2, <3>3
  <2>2. ASSUME NEW t \in Seq(C), NEW c \in C, t \in S PROVE Append(t, c) \in S
    <3>1. PICK f : Flattening(f, B, t)
      BY <2>2
    <3>2. \E g : Flattening(g, B, Append(t, c))
      BY <3>1, FlatteningAppend
    <3>3. Append(t, c) \in Seq(C)
      <4> HIDE DEF C
      <4> QED
        BY AppendProperties
    <3> QED
      BY <3>2, <3>3
  <2>3. s \in Seq(C)
    OBVIOUS
  <2> HIDE DEF S, C
  <2>4. s \in S
    BY <2>1, <2>2, <2>3, SeqSetInduction
  <2> QED
    BY <2>4 DEF S
<1>2. ASSUME NEW f, Flattening(f, B, s) PROVE FlattenSeq(s) = f[Len(s)]
  <2> DEFINE N == Len(s)
  <2>1. /\ f \in [0 .. N -> Seq(B)] /\ f[0] = <<>>
        /\ \A i \in 1 .. N : f[i] = f[i - 1] \o s[i]
    BY <1>2 DEF Flattening
  <2>2. N \in Nat /\ \A i \in 1 .. N : s[i] \in Seq(B)
    OBVIOUS
  <2>3. CASE N = 0
    <3>1. s = <<>>
      BY <2>3
    <3> QED
      BY <2>1, <2>3, <3>1 DEF FlattenSeq
  <2>4. CASE N # 0
    <3> DEFINE F(g) == [i \in 1 .. N |-> IF i = 1 THEN s[i] ELSE g[i - 1] \o s[i]]
               h == [i \in 1 .. N |-> f[i]]
    <3>1. FlattenSeq(s) = (CHOOSE g : g = F(g))[N]
      BY <2>4 DEF FlattenSeq
    <3> HIDE DEF N
    <3>2. ASSUME NEW i \in 1 .. N
          PROVE  h[i] = IF i = 1 THEN s[i] ELSE h[i - 1] \o s[i]
      <4>1. CASE i = 1
        <5>1. f[1] = <<>> \o s[1] /\ s[1] \in Seq(B)
          <6>1. 1 \in 1 .. N /\ 1 - 1 = 0
            BY <2>2, <2>4
          <6> QED
            BY <2>1, <2>2, <6>1
        <5>2. f[1] = s[1]
          BY <5>1, ConcatEmptySeq
        <5> QED
          BY <4>1, <5>2
      <4>2. CASE i # 1
        <5>1. i - 1 \in 1 .. N
          BY <2>2, <4>2
        <5> QED
          BY <2>1, <4>2, <5>1
      <4> QED
        BY <4>1, <4>2
    <3>3. h = F(h)
      BY <3>2
    <3>4. PICK g : g = F(g) /\ FlattenSeq(s) = g[N]
      <4> HIDE DEF F, h
      <4> QED
        BY <3>1, <3>3
    <3> DEFINE S == {k \in Nat : k + 1 <= N => g[k + 1] = f[k + 1]}
    <3>5. 0 \in S
      <4>1. 1 \in 1 .. N
        BY <2>2, <2>4
      <4>2. g[1] = s[1] /\ h[1] = s[1] /\ h[1] = f[1]
        BY <3>2, <3>4, <4>1
      <4> QED
        BY <4>2
    <3>6. ASSUME NEW k \in Nat, k \in S PROVE k + 1 \in S
      <4> SUFFICES ASSUME (k + 1) + 1 <= N PROVE g[(k + 1) + 1] = f[(k + 1) + 1]
        OBVIOUS
      <4> DEFINE i == (k + 1) + 1
      <4>1. i \in 1 .. N /\ i # 1 /\ i - 1 = k + 1 /\ k + 1 <= N
        BY <2>2
      <4>2. g[k + 1] = f[k + 1]
        BY <3>6, <4>1
      <4> HIDE DEF i
      <4>3. g[i] = g[i - 1] \o s[i]
        BY <3>4, <4>1
      <4>4. f[i] = f[i - 1] \o s[i]
        BY <2>1, <4>1
      <4>5. g[i] = f[i]
        BY <4>1, <4>2, <4>3, <4>4
      <4> QED
        BY <4>5 DEF i
    <3>7. N - 1 \in Nat /\ (N - 1) + 1 = N
      BY <2>2, <2>4
    <3> HIDE DEF S
    <3>8. N - 1 \in S
      BY <3>5, <3>6, <3>7, NatSetInduction
    <3>9. g[N] = f[N]
      BY <2>2, <3>7, <3>8 DEF S
    <3> QED
      BY <3>4, <3>9 DEF N
  <2> QED
    BY <2>3, <2>4
<1> QED
  BY <1>1, <1>2

\* A stream, a chunk at a time.
LEMMA FlattenAppend ==
    ASSUME NEW B, NEW s \in Seq(Seq(B)), NEW c \in Seq(B)
    PROVE  /\ FlattenSeq(<<>>) = <<>>
           /\ FlattenSeq(s) \in Seq(B)
           /\ FlattenSeq(Append(s, c)) = FlattenSeq(s) \o c
<1>1. FlattenSeq(<<>>) = <<>>
  <2>1. Len(<<>>) = 0
    OBVIOUS
  <2> QED
    BY <2>1 DEF FlattenSeq
<1> DEFINE C == Seq(B)
<1>2. s \in Seq(C) /\ c \in C
  OBVIOUS
<1> HIDE DEF C
<1>3. Append(s, c) \in Seq(C) /\ Len(Append(s, c)) = Len(s) + 1 /\ Len(s) \in Nat
  BY <1>2, AppendProperties
<1>4. PICK f : Flattening(f, B, s)
  BY <1>2, FlattenIs DEF C
<1>5. FlattenSeq(s) = f[Len(s)] /\ f[Len(s)] \in Seq(B)
  <2>1. FlattenSeq(s) = f[Len(s)]
    BY <1>2, <1>4, FlattenIs DEF C
  <2>2. Len(s) \in 0 .. Len(s) /\ f \in [0 .. Len(s) -> Seq(B)]
    BY <1>3, <1>4 DEF Flattening
  <2> QED
    BY <2>1, <2>2
<1>6. PICK g : Flattening(g, B, Append(s, c)) /\ g[Len(s) + 1] = f[Len(s)] \o c
  BY <1>4, FlatteningAppend
<1>7. FlattenSeq(Append(s, c)) = g[Len(s) + 1]
  BY <1>3, <1>6, FlattenIs DEF C
<1> QED
  BY <1>1, <1>5, <1>6, <1>7

-----------------------------------------------------------------------------
(* Loops *)

\* h is what a step that is made n times makes of base.
Looping(h, A, base, step, N) ==
    /\ h \in [0 .. N -> A]
    /\ h[0] = base
    /\ \A n \in 0 .. N - 1 : h[n + 1] = step[<<h[n], n>>]

\* There is such a function, whatever the step.
LEMMA LoopExists ==
    ASSUME NEW A, NEW base \in A, NEW N \in Nat, NEW step \in [A \X (0 .. N - 1) -> A]
    PROVE  \E h : Looping(h, A, base, step, N)
<1> DEFINE S == {k \in Nat : k <= N => \E g : Looping(g, A, base, step, k)}
<1>1. 0 \in S
  <2>1. Looping([n \in 0 .. 0 |-> base], A, base, step, 0)
    BY DEF Looping
  <2> QED
    BY <2>1
<1>2. ASSUME NEW k \in Nat, k \in S PROVE k + 1 \in S
  <2> SUFFICES ASSUME k + 1 <= N PROVE \E g : Looping(g, A, base, step, k + 1)
    OBVIOUS
  <2>1. PICK g : Looping(g, A, base, step, k)
    BY <1>2
  <2> DEFINE h == [n \in 0 .. k + 1 |-> IF n = k + 1 THEN step[<<g[k], k>>] ELSE g[n]]
  <2>2. h \in [0 .. k + 1 -> A] /\ h[0] = base
    BY <2>1 DEF Looping
  <2>3. ASSUME NEW n \in 0 .. (k + 1) - 1 PROVE h[n + 1] = step[<<h[n], n>>]
    <3>1. CASE n = k
      <4>1. h[k + 1] = step[<<g[k], k>>] /\ h[k] = g[k]
        OBVIOUS
      <4> QED
        BY <3>1, <4>1
    <3>2. CASE n # k
      <4>1. n \in 0 .. k - 1 /\ n + 1 # k + 1 /\ n # k + 1 /\ n + 1 \in 0 .. k + 1
        BY <3>2
      <4> QED
        BY <2>1, <4>1 DEF Looping
    <3> QED
      BY <3>1, <3>2
  <2> HIDE DEF h
  <2>4. Looping(h, A, base, step, k + 1)
    BY <2>2, <2>3 DEF Looping
  <2> QED
    BY <2>4
<1> HIDE DEF S
<1>3. N \in S
  BY <1>1, <1>2, NatSetInduction
<1> QED
  BY <1>3 DEF S

\* A loop that makes the step on what is in A stays in A.
LEMMA LoopStays ==
    ASSUME NEW A, NEW N \in Nat, NEW f, f[0] \in A, \A n \in 0 .. N - 1 : f[n] \in A => f[n + 1] \in A
    PROVE  \A n \in 0 .. N : f[n] \in A
<1> DEFINE S == {n \in Nat : n <= N => f[n] \in A}
<1>1. 0 \in S /\ \A n \in Nat : n \in S => n + 1 \in S
  OBVIOUS
<1> HIDE DEF S
<1>2. Nat \subseteq S
  BY <1>1, NatSetInduction
<1> QED
  BY <1>2 DEF S
=============================================================================
