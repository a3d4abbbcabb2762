--------------------------- MODULE TextDiff_proofs ---------------------------
(***************************************************************************)
(* That UnifiedDiff makes patches, of all texts and for all constants.     *)
(*                                                                         *)
(* The argument follows the code.  However the comparison splits a region  *)
(* and whenever its budget runs out, it marks lines so that the same lines *)
(* are left on both sides (RegionIsSolved), and sliding a run of marks     *)
(* keeps what is left (SlideRunsIs).  So the changes that are read off the *)
(* marks have the same lines between them (ChangesAre), the hunks that are *)
(* made of near changes do too, and each has the lines of both texts in    *)
(* its place (HunksAre).  The window starts and ends at lines of both      *)
(* texts, which are the same around it (WindowIs), and the lines of a text *)
(* that is cut there are those of its parts (LinesConcat); with both, what *)
(* holds of the lines in the window holds of the texts (DiffsArePatches).  *)
(*                                                                         *)
(* A loop of the code is a function of the turns it has made; the lemmas   *)
(* of the first part show that such a function exists.                     *)
(***************************************************************************)
EXTENDS TextDiff, Induction, FiniteSetTheorems

-----------------------------------------------------------------------------
(* The loops of the diff *)

\* The starts of the lines before one.
BeforeTurns(a, lo, k, A, f) ==
    /\ Before(a, lo, k) = f[k]
    /\ f \in [0 .. k -> A]
    /\ f[0] = lo
    /\ \A n \in 0 .. k - 1 : f[n + 1] = LineBefore(a, f[n])

\* So many steps back from the start of a line are such turns.
LEMMA BeforeLoop ==
    ASSUME NEW a, NEW lo, NEW k \in Nat, NEW A, lo \in A,
           \A t \in A, n \in 0 .. k - 1 : LineBefore(a, t) \in A
    PROVE  \E f : BeforeTurns(a, lo, k, A, f)
<1> DEFINE N == k
           first == lo
           F(g) == [n \in 0 .. N |-> IF n = 0 THEN first ELSE LineBefore(a, g[n - 1])]
           f == CHOOSE g : g = F(g)
           step == [p \in A \X (0 .. N - 1) |-> LineBefore(a, p[1])]
<1>0. first \in A /\ N \in Nat
  OBVIOUS
<1>1. step \in [A \X (0 .. N - 1) -> A]
  OBVIOUS
<1>2. PICK h : Looping(h, A, first, step, N)
  <2> HIDE DEF step, first, N
  <2> QED
    BY <1>0, <1>1, LoopExists
<1>3. h = F(h)
  <2> HIDE DEF first, N
  <2>1. ASSUME NEW n \in 0 .. N PROVE h[n] = F(h)[n]
    <3>1. CASE n = 0
      BY <1>2, <3>1 DEF Looping
    <3>2. CASE n # 0
      <4>1. n - 1 \in 0 .. N - 1 /\ n - 1 \in 0 .. N /\ (n - 1) + 1 = n
        BY <1>0, <3>2
      <4>2. h[n] = step[<<h[n - 1], n - 1>>] /\ h[n - 1] \in A
        BY <1>2, <4>1 DEF Looping
      <4> QED
        BY <3>2, <4>1, <4>2
    <3> QED
      BY <3>1, <3>2
  <2>2. F(h) = [n \in 0 .. N |-> F(h)[n]] /\ h = [n \in 0 .. N |-> h[n]]
    BY <1>2 DEF Looping
  <2> HIDE DEF F
  <2> QED
    BY <2>1, <2>2
<1>4. f = F(f)
  <2> HIDE DEF F
  <2> QED
    BY <1>3
<1>5. Before(a, lo, k) = f[N]
  BY DEF Before
<1> HIDE DEF f, N, first
<1>6. f[0] = first /\ \A n \in 0 .. N - 1 : f[n + 1] = LineBefore(a, f[n])
  <2>1. 0 \in 0 .. N
    BY <1>0
  <2>2. ASSUME NEW n \in 0 .. N - 1 PROVE f[n + 1] = LineBefore(a, f[n])
    <3>1. n + 1 \in 0 .. N /\ n + 1 # 0 /\ (n + 1) - 1 = n
      BY <1>0
    <3>2. f[n + 1] = F(f)[n + 1]
      BY <1>4
    <3> QED
      BY <3>1, <3>2
  <2> QED
    BY <1>4, <2>1, <2>2
<1>7. \A n \in 0 .. N : f[n] \in A
  <2>1. ASSUME NEW n \in 0 .. N - 1, f[n] \in A PROVE f[n + 1] \in A
    BY <1>6, <2>1 DEF N
  <2> QED
    BY <1>0, <1>6, <2>1, LoopStays
<1>8. f \in [0 .. N -> A]
  BY <1>4, <1>7
<1> QED
  BY <1>5, <1>6, <1>8 DEF N, first, BeforeTurns

\* The starts of the lines after one.
AfterTurns(a, hi, k, A, f) ==
    /\ After(a, hi, k) = f[k]
    /\ f \in [0 .. k -> A]
    /\ f[0] = hi
    /\ \A n \in 0 .. k - 1 : f[n + 1] = LineAfter(a, f[n])

\* So many steps on from the end of a line are such turns.
LEMMA AfterLoop ==
    ASSUME NEW a, NEW hi, NEW k \in Nat, NEW A, hi \in A,
           \A t \in A, n \in 0 .. k - 1 : LineAfter(a, t) \in A
    PROVE  \E f : AfterTurns(a, hi, k, A, f)
<1> DEFINE N == k
           first == hi
           F(g) == [n \in 0 .. N |-> IF n = 0 THEN first ELSE LineAfter(a, g[n - 1])]
           f == CHOOSE g : g = F(g)
           step == [p \in A \X (0 .. N - 1) |-> LineAfter(a, p[1])]
<1>0. first \in A /\ N \in Nat
  OBVIOUS
<1>1. step \in [A \X (0 .. N - 1) -> A]
  OBVIOUS
<1>2. PICK h : Looping(h, A, first, step, N)
  <2> HIDE DEF step, first, N
  <2> QED
    BY <1>0, <1>1, LoopExists
<1>3. h = F(h)
  <2> HIDE DEF first, N
  <2>1. ASSUME NEW n \in 0 .. N PROVE h[n] = F(h)[n]
    <3>1. CASE n = 0
      BY <1>2, <3>1 DEF Looping
    <3>2. CASE n # 0
      <4>1. n - 1 \in 0 .. N - 1 /\ n - 1 \in 0 .. N /\ (n - 1) + 1 = n
        BY <1>0, <3>2
      <4>2. h[n] = step[<<h[n - 1], n - 1>>] /\ h[n - 1] \in A
        BY <1>2, <4>1 DEF Looping
      <4> QED
        BY <3>2, <4>1, <4>2
    <3> QED
      BY <3>1, <3>2
  <2>2. F(h) = [n \in 0 .. N |-> F(h)[n]] /\ h = [n \in 0 .. N |-> h[n]]
    BY <1>2 DEF Looping
  <2> HIDE DEF F
  <2> QED
    BY <2>1, <2>2
<1>4. f = F(f)
  <2> HIDE DEF F
  <2> QED
    BY <1>3
<1>5. After(a, hi, k) = f[N]
  BY DEF After
<1> HIDE DEF f, N, first
<1>6. f[0] = first /\ \A n \in 0 .. N - 1 : f[n + 1] = LineAfter(a, f[n])
  <2>1. 0 \in 0 .. N
    BY <1>0
  <2>2. ASSUME NEW n \in 0 .. N - 1 PROVE f[n + 1] = LineAfter(a, f[n])
    <3>1. n + 1 \in 0 .. N /\ n + 1 # 0 /\ (n + 1) - 1 = n
      BY <1>0
    <3>2. f[n + 1] = F(f)[n + 1]
      BY <1>4
    <3> QED
      BY <3>1, <3>2
  <2> QED
    BY <1>4, <2>1, <2>2
<1>7. \A n \in 0 .. N : f[n] \in A
  <2>1. ASSUME NEW n \in 0 .. N - 1, f[n] \in A PROVE f[n + 1] \in A
    BY <1>6, <2>1 DEF N
  <2> QED
    BY <1>0, <1>6, <2>1, LoopStays
<1>8. f \in [0 .. N -> A]
  BY <1>4, <1>7
<1> QED
  BY <1>5, <1>6, <1>8 DEF N, first, AfterTurns

\* The forward paths of d steps.
ForwardTurns(c, r, s, d, A, f) ==
    /\ ForwardPaths(c, r, s, d) = f[(d + 1)]
    /\ f \in [0 .. (d + 1) -> A]
    /\ f[0] = s
    /\ \A n \in 0 .. (d + 1) - 1 : f[n + 1] = ForwardOn(c, r, f[n], d, 2 * n - d)

\* The forward paths of d steps are such turns.
LEMMA ForwardLoop ==
    ASSUME NEW c, NEW r, NEW s, NEW d \in Nat, NEW A, s \in A,
           \A t \in A, n \in 0 .. (d + 1) - 1 : ForwardOn(c, r, t, d, 2 * n - d) \in A
    PROVE  \E f : ForwardTurns(c, r, s, d, A, f)
<1> DEFINE N == (d + 1)
           first == s
           F(g) == [n \in 0 .. N |-> IF n = 0 THEN first ELSE ForwardOn(c, r, g[n - 1], d, 2 * (n - 1) - d)]
           f == CHOOSE g : g = F(g)
           step == [p \in A \X (0 .. N - 1) |-> ForwardOn(c, r, p[1], d, 2 * p[2] - d)]
<1>0. first \in A /\ N \in Nat
  OBVIOUS
<1>1. step \in [A \X (0 .. N - 1) -> A]
  OBVIOUS
<1>2. PICK h : Looping(h, A, first, step, N)
  <2> HIDE DEF step, first, N
  <2> QED
    BY <1>0, <1>1, LoopExists
<1>3. h = F(h)
  <2> HIDE DEF first, N
  <2>1. ASSUME NEW n \in 0 .. N PROVE h[n] = F(h)[n]
    <3>1. CASE n = 0
      BY <1>2, <3>1 DEF Looping
    <3>2. CASE n # 0
      <4>1. n - 1 \in 0 .. N - 1 /\ n - 1 \in 0 .. N /\ (n - 1) + 1 = n
        BY <1>0, <3>2
      <4>2. h[n] = step[<<h[n - 1], n - 1>>] /\ h[n - 1] \in A
        BY <1>2, <4>1 DEF Looping
      <4> QED
        BY <3>2, <4>1, <4>2
    <3> QED
      BY <3>1, <3>2
  <2>2. F(h) = [n \in 0 .. N |-> F(h)[n]] /\ h = [n \in 0 .. N |-> h[n]]
    BY <1>2 DEF Looping
  <2> HIDE DEF F
  <2> QED
    BY <2>1, <2>2
<1>4. f = F(f)
  <2> HIDE DEF F
  <2> QED
    BY <1>3
<1>5. ForwardPaths(c, r, s, d) = f[N]
  BY DEF ForwardPaths
<1> HIDE DEF f, N, first
<1>6. f[0] = first /\ \A n \in 0 .. N - 1 : f[n + 1] = ForwardOn(c, r, f[n], d, 2 * n - d)
  <2>1. 0 \in 0 .. N
    BY <1>0
  <2>2. ASSUME NEW n \in 0 .. N - 1 PROVE f[n + 1] = ForwardOn(c, r, f[n], d, 2 * n - d)
    <3>1. n + 1 \in 0 .. N /\ n + 1 # 0 /\ (n + 1) - 1 = n
      BY <1>0
    <3>2. f[n + 1] = F(f)[n + 1]
      BY <1>4
    <3> QED
      BY <3>1, <3>2
  <2> QED
    BY <1>4, <2>1, <2>2
<1>7. \A n \in 0 .. N : f[n] \in A
  <2>1. ASSUME NEW n \in 0 .. N - 1, f[n] \in A PROVE f[n + 1] \in A
    BY <1>6, <2>1 DEF N
  <2> QED
    BY <1>0, <1>6, <2>1, LoopStays
<1>8. f \in [0 .. N -> A]
  BY <1>4, <1>7
<1> QED
  BY <1>5, <1>6, <1>8 DEF N, first, ForwardTurns

\* The backward paths of d steps.
BackwardTurns(c, r, s, d, A, f) ==
    /\ BackwardPaths(c, r, s, d) = f[(d + 1)]
    /\ f \in [0 .. (d + 1) -> A]
    /\ f[0] = s
    /\ \A n \in 0 .. (d + 1) - 1 : f[n + 1] = BackwardOn(c, r, f[n], d, 2 * n - d)

\* The backward paths of d steps are such turns.
LEMMA BackwardLoop ==
    ASSUME NEW c, NEW r, NEW s, NEW d \in Nat, NEW A, s \in A,
           \A t \in A, n \in 0 .. (d + 1) - 1 : BackwardOn(c, r, t, d, 2 * n - d) \in A
    PROVE  \E f : BackwardTurns(c, r, s, d, A, f)
<1> DEFINE N == (d + 1)
           first == s
           F(g) == [n \in 0 .. N |-> IF n = 0 THEN first ELSE BackwardOn(c, r, g[n - 1], d, 2 * (n - 1) - d)]
           f == CHOOSE g : g = F(g)
           step == [p \in A \X (0 .. N - 1) |-> BackwardOn(c, r, p[1], d, 2 * p[2] - d)]
<1>0. first \in A /\ N \in Nat
  OBVIOUS
<1>1. step \in [A \X (0 .. N - 1) -> A]
  OBVIOUS
<1>2. PICK h : Looping(h, A, first, step, N)
  <2> HIDE DEF step, first, N
  <2> QED
    BY <1>0, <1>1, LoopExists
<1>3. h = F(h)
  <2> HIDE DEF first, N
  <2>1. ASSUME NEW n \in 0 .. N PROVE h[n] = F(h)[n]
    <3>1. CASE n = 0
      BY <1>2, <3>1 DEF Looping
    <3>2. CASE n # 0
      <4>1. n - 1 \in 0 .. N - 1 /\ n - 1 \in 0 .. N /\ (n - 1) + 1 = n
        BY <1>0, <3>2
      <4>2. h[n] = step[<<h[n - 1], n - 1>>] /\ h[n - 1] \in A
        BY <1>2, <4>1 DEF Looping
      <4> QED
        BY <3>2, <4>1, <4>2
    <3> QED
      BY <3>1, <3>2
  <2>2. F(h) = [n \in 0 .. N |-> F(h)[n]] /\ h = [n \in 0 .. N |-> h[n]]
    BY <1>2 DEF Looping
  <2> HIDE DEF F
  <2> QED
    BY <2>1, <2>2
<1>4. f = F(f)
  <2> HIDE DEF F
  <2> QED
    BY <1>3
<1>5. BackwardPaths(c, r, s, d) = f[N]
  BY DEF BackwardPaths
<1> HIDE DEF f, N, first
<1>6. f[0] = first /\ \A n \in 0 .. N - 1 : f[n + 1] = BackwardOn(c, r, f[n], d, 2 * n - d)
  <2>1. 0 \in 0 .. N
    BY <1>0
  <2>2. ASSUME NEW n \in 0 .. N - 1 PROVE f[n + 1] = BackwardOn(c, r, f[n], d, 2 * n - d)
    <3>1. n + 1 \in 0 .. N /\ n + 1 # 0 /\ (n + 1) - 1 = n
      BY <1>0
    <3>2. f[n + 1] = F(f)[n + 1]
      BY <1>4
    <3> QED
      BY <3>1, <3>2
  <2> QED
    BY <1>4, <2>1, <2>2
<1>7. \A n \in 0 .. N : f[n] \in A
  <2>1. ASSUME NEW n \in 0 .. N - 1, f[n] \in A PROVE f[n + 1] \in A
    BY <1>6, <2>1 DEF N
  <2> QED
    BY <1>0, <1>6, <2>1, LoopStays
<1>8. f \in [0 .. N -> A]
  BY <1>4, <1>7
<1> QED
  BY <1>5, <1>6, <1>8 DEF N, first, BackwardTurns

\* The steps of a split.
StepsTurns(c, r, s, budget, A, f) ==
    /\ Steps(c, r, s, budget) = f[(budget + 1)]
    /\ f \in [0 .. (budget + 1) -> A]
    /\ f[0] = s
    /\ \A n \in 0 .. (budget + 1) - 1 : f[n + 1] = Step(c, r, f[n], n)

\* The steps within a budget are such turns.
LEMMA StepsLoop ==
    ASSUME NEW c, NEW r, NEW s, NEW budget \in Nat, NEW A, s \in A,
           \A t \in A, n \in 0 .. (budget + 1) - 1 : Step(c, r, t, n) \in A
    PROVE  \E f : StepsTurns(c, r, s, budget, A, f)
<1> DEFINE N == (budget + 1)
           first == s
           F(g) == [n \in 0 .. N |-> IF n = 0 THEN first ELSE Step(c, r, g[n - 1], (n - 1))]
           f == CHOOSE g : g = F(g)
           step == [p \in A \X (0 .. N - 1) |-> Step(c, r, p[1], p[2])]
<1>0. first \in A /\ N \in Nat
  OBVIOUS
<1>1. step \in [A \X (0 .. N - 1) -> A]
  OBVIOUS
<1>2. PICK h : Looping(h, A, first, step, N)
  <2> HIDE DEF step, first, N
  <2> QED
    BY <1>0, <1>1, LoopExists
<1>3. h = F(h)
  <2> HIDE DEF first, N
  <2>1. ASSUME NEW n \in 0 .. N PROVE h[n] = F(h)[n]
    <3>1. CASE n = 0
      BY <1>2, <3>1 DEF Looping
    <3>2. CASE n # 0
      <4>1. n - 1 \in 0 .. N - 1 /\ n - 1 \in 0 .. N /\ (n - 1) + 1 = n
        BY <1>0, <3>2
      <4>2. h[n] = step[<<h[n - 1], n - 1>>] /\ h[n - 1] \in A
        BY <1>2, <4>1 DEF Looping
      <4> QED
        BY <3>2, <4>1, <4>2
    <3> QED
      BY <3>1, <3>2
  <2>2. F(h) = [n \in 0 .. N |-> F(h)[n]] /\ h = [n \in 0 .. N |-> h[n]]
    BY <1>2 DEF Looping
  <2> HIDE DEF F
  <2> QED
    BY <2>1, <2>2
<1>4. f = F(f)
  <2> HIDE DEF F
  <2> QED
    BY <1>3
<1>5. Steps(c, r, s, budget) = f[N]
  BY DEF Steps
<1> HIDE DEF f, N, first
<1>6. f[0] = first /\ \A n \in 0 .. N - 1 : f[n + 1] = Step(c, r, f[n], n)
  <2>1. 0 \in 0 .. N
    BY <1>0
  <2>2. ASSUME NEW n \in 0 .. N - 1 PROVE f[n + 1] = Step(c, r, f[n], n)
    <3>1. n + 1 \in 0 .. N /\ n + 1 # 0 /\ (n + 1) - 1 = n
      BY <1>0
    <3>2. f[n + 1] = F(f)[n + 1]
      BY <1>4
    <3> QED
      BY <3>1, <3>2
  <2> QED
    BY <1>4, <2>1, <2>2
<1>7. \A n \in 0 .. N : f[n] \in A
  <2>1. ASSUME NEW n \in 0 .. N - 1, f[n] \in A PROVE f[n + 1] \in A
    BY <1>6, <2>1 DEF N
  <2> QED
    BY <1>0, <1>6, <2>1, LoopStays
<1>8. f \in [0 .. N -> A]
  BY <1>4, <1>7
<1> QED
  BY <1>5, <1>6, <1>8 DEF N, first, StepsTurns

\* The depths of a region.
RegionTurns(c, r, A, f) ==
    /\ Region(c, r) = f[LineCount(r)][<<c, r>>]
    /\ f \in [0 .. LineCount(r) -> A]
    /\ f[0] = AsIs(c)
    /\ \A n \in 0 .. LineCount(r) - 1 : f[n + 1] = Deeper(f[n], c)

\* A region, to the depth of its size, is such turns.
LEMMA RegionLoop ==
    ASSUME NEW c, NEW r, LineCount(r) \in Nat, NEW A, AsIs(c) \in A,
           \A t \in A, n \in 0 .. LineCount(r) - 1 : Deeper(t, c) \in A
    PROVE  \E f : RegionTurns(c, r, A, f)
<1> DEFINE N == LineCount(r)
           first == AsIs(c)
           F(g) == [n \in 0 .. N |-> IF n = 0 THEN first ELSE Deeper(g[n - 1], c)]
           f == CHOOSE g : g = F(g)
           step == [p \in A \X (0 .. N - 1) |-> Deeper(p[1], c)]
<1>0. first \in A /\ N \in Nat
  OBVIOUS
<1>1. step \in [A \X (0 .. N - 1) -> A]
  OBVIOUS
<1>2. PICK h : Looping(h, A, first, step, N)
  <2> HIDE DEF step, first, N
  <2> QED
    BY <1>0, <1>1, LoopExists
<1>3. h = F(h)
  <2> HIDE DEF first, N
  <2>1. ASSUME NEW n \in 0 .. N PROVE h[n] = F(h)[n]
    <3>1. CASE n = 0
      BY <1>2, <3>1 DEF Looping
    <3>2. CASE n # 0
      <4>1. n - 1 \in 0 .. N - 1 /\ n - 1 \in 0 .. N /\ (n - 1) + 1 = n
        BY <1>0, <3>2
      <4>2. h[n] = step[<<h[n - 1], n - 1>>] /\ h[n - 1] \in A
        BY <1>2, <4>1 DEF Looping
      <4> QED
        BY <3>2, <4>1, <4>2
    <3> QED
      BY <3>1, <3>2
  <2>2. F(h) = [n \in 0 .. N |-> F(h)[n]] /\ h = [n \in 0 .. N |-> h[n]]
    BY <1>2 DEF Looping
  <2> HIDE DEF F
  <2> QED
    BY <2>1, <2>2
<1>4. f = F(f)
  <2> HIDE DEF F
  <2> QED
    BY <1>3
<1>5. Region(c, r) = f[N][<<c, r>>]
  BY DEF Region
<1> HIDE DEF f, N, first
<1>6. f[0] = first /\ \A n \in 0 .. N - 1 : f[n + 1] = Deeper(f[n], c)
  <2>1. 0 \in 0 .. N
    BY <1>0
  <2>2. ASSUME NEW n \in 0 .. N - 1 PROVE f[n + 1] = Deeper(f[n], c)
    <3>1. n + 1 \in 0 .. N /\ n + 1 # 0 /\ (n + 1) - 1 = n
      BY <1>0
    <3>2. f[n + 1] = F(f)[n + 1]
      BY <1>4
    <3> QED
      BY <3>1, <3>2
  <2> QED
    BY <1>4, <2>1, <2>2
<1>7. \A n \in 0 .. N : f[n] \in A
  <2>1. ASSUME NEW n \in 0 .. N - 1, f[n] \in A PROVE f[n + 1] \in A
    BY <1>6, <2>1 DEF N
  <2> QED
    BY <1>0, <1>6, <2>1, LoopStays
<1>8. f \in [0 .. N -> A]
  BY <1>4, <1>7
<1> QED
  BY <1>5, <1>6, <1>8 DEF N, first, RegionTurns

\* The turns of slideRuns.
SlideTurns(s, changed, A, f) ==
    /\ SlideRuns(s, changed) = f[Len(s)].changed
    /\ f \in [0 .. Len(s) -> A]
    /\ f[0] = [changed |-> changed, scan |-> 0]
    /\ \A n \in 0 .. Len(s) - 1 : f[n + 1] = SlideNext(s, f[n])

\* slideRuns makes such turns.
LEMMA SlideLoop ==
    ASSUME NEW s, Len(s) \in Nat, NEW changed, NEW A, [changed |-> changed, scan |-> 0] \in A,
           \A t \in A, n \in 0 .. Len(s) - 1 : SlideNext(s, t) \in A
    PROVE  \E f : SlideTurns(s, changed, A, f)
<1> DEFINE N == Len(s)
           first == [changed |-> changed, scan |-> 0]
           F(g) == [n \in 0 .. N |-> IF n = 0 THEN first ELSE SlideNext(s, g[n - 1])]
           f == CHOOSE g : g = F(g)
           step == [p \in A \X (0 .. N - 1) |-> SlideNext(s, p[1])]
<1>0. first \in A /\ N \in Nat
  OBVIOUS
<1>1. step \in [A \X (0 .. N - 1) -> A]
  OBVIOUS
<1>2. PICK h : Looping(h, A, first, step, N)
  <2> HIDE DEF step, first, N
  <2> QED
    BY <1>0, <1>1, LoopExists
<1>3. h = F(h)
  <2> HIDE DEF first, N
  <2>1. ASSUME NEW n \in 0 .. N PROVE h[n] = F(h)[n]
    <3>1. CASE n = 0
      BY <1>2, <3>1 DEF Looping
    <3>2. CASE n # 0
      <4>1. n - 1 \in 0 .. N - 1 /\ n - 1 \in 0 .. N /\ (n - 1) + 1 = n
        BY <1>0, <3>2
      <4>2. h[n] = step[<<h[n - 1], n - 1>>] /\ h[n - 1] \in A
        BY <1>2, <4>1 DEF Looping
      <4> QED
        BY <3>2, <4>1, <4>2
    <3> QED
      BY <3>1, <3>2
  <2>2. F(h) = [n \in 0 .. N |-> F(h)[n]] /\ h = [n \in 0 .. N |-> h[n]]
    BY <1>2 DEF Looping
  <2> HIDE DEF F
  <2> QED
    BY <2>1, <2>2
<1>4. f = F(f)
  <2> HIDE DEF F
  <2> QED
    BY <1>3
<1>5. SlideRuns(s, changed) = f[N].changed
  BY DEF SlideRuns
<1> HIDE DEF f, N, first
<1>6. f[0] = first /\ \A n \in 0 .. N - 1 : f[n + 1] = SlideNext(s, f[n])
  <2>1. 0 \in 0 .. N
    BY <1>0
  <2>2. ASSUME NEW n \in 0 .. N - 1 PROVE f[n + 1] = SlideNext(s, f[n])
    <3>1. n + 1 \in 0 .. N /\ n + 1 # 0 /\ (n + 1) - 1 = n
      BY <1>0
    <3>2. f[n + 1] = F(f)[n + 1]
      BY <1>4
    <3> QED
      BY <3>1, <3>2
  <2> QED
    BY <1>4, <2>1, <2>2
<1>7. \A n \in 0 .. N : f[n] \in A
  <2>1. ASSUME NEW n \in 0 .. N - 1, f[n] \in A PROVE f[n + 1] \in A
    BY <1>6, <2>1 DEF N
  <2> QED
    BY <1>0, <1>6, <2>1, LoopStays
<1>8. f \in [0 .. N -> A]
  BY <1>4, <1>7
<1> QED
  BY <1>5, <1>6, <1>8 DEF N, first, SlideTurns

\* The turns of changes.
ChangeTurns(a, b, A, f) ==
    /\ Changes(a, b) = f[(Count(a) + Count(b))].cs
    /\ f \in [0 .. (Count(a) + Count(b)) -> A]
    /\ f[0] = [i |-> 0, j |-> 0, cs |-> <<>>]
    /\ \A n \in 0 .. (Count(a) + Count(b)) - 1 : f[n + 1] = ChangeNext(a, b, f[n])

\* changes makes such turns.
LEMMA ChangeLoop ==
    ASSUME NEW a, NEW b, Count(a) + Count(b) \in Nat, NEW A, [i |-> 0, j |-> 0, cs |-> <<>>] \in A,
           \A t \in A, n \in 0 .. (Count(a) + Count(b)) - 1 : ChangeNext(a, b, t) \in A
    PROVE  \E f : ChangeTurns(a, b, A, f)
<1> DEFINE N == (Count(a) + Count(b))
           first == [i |-> 0, j |-> 0, cs |-> <<>>]
           F(g) == [n \in 0 .. N |-> IF n = 0 THEN first ELSE ChangeNext(a, b, g[n - 1])]
           f == CHOOSE g : g = F(g)
           step == [p \in A \X (0 .. N - 1) |-> ChangeNext(a, b, p[1])]
<1>0. first \in A /\ N \in Nat
  OBVIOUS
<1>1. step \in [A \X (0 .. N - 1) -> A]
  OBVIOUS
<1>2. PICK h : Looping(h, A, first, step, N)
  <2> HIDE DEF step, first, N
  <2> QED
    BY <1>0, <1>1, LoopExists
<1>3. h = F(h)
  <2> HIDE DEF first, N
  <2>1. ASSUME NEW n \in 0 .. N PROVE h[n] = F(h)[n]
    <3>1. CASE n = 0
      BY <1>2, <3>1 DEF Looping
    <3>2. CASE n # 0
      <4>1. n - 1 \in 0 .. N - 1 /\ n - 1 \in 0 .. N /\ (n - 1) + 1 = n
        BY <1>0, <3>2
      <4>2. h[n] = step[<<h[n - 1], n - 1>>] /\ h[n - 1] \in A
        BY <1>2, <4>1 DEF Looping
      <4> QED
        BY <3>2, <4>1, <4>2
    <3> QED
      BY <3>1, <3>2
  <2>2. F(h) = [n \in 0 .. N |-> F(h)[n]] /\ h = [n \in 0 .. N |-> h[n]]
    BY <1>2 DEF Looping
  <2> HIDE DEF F
  <2> QED
    BY <2>1, <2>2
<1>4. f = F(f)
  <2> HIDE DEF F
  <2> QED
    BY <1>3
<1>5. Changes(a, b) = f[N].cs
  BY DEF Changes
<1> HIDE DEF f, N, first
<1>6. f[0] = first /\ \A n \in 0 .. N - 1 : f[n + 1] = ChangeNext(a, b, f[n])
  <2>1. 0 \in 0 .. N
    BY <1>0
  <2>2. ASSUME NEW n \in 0 .. N - 1 PROVE f[n + 1] = ChangeNext(a, b, f[n])
    <3>1. n + 1 \in 0 .. N /\ n + 1 # 0 /\ (n + 1) - 1 = n
      BY <1>0
    <3>2. f[n + 1] = F(f)[n + 1]
      BY <1>4
    <3> QED
      BY <3>1, <3>2
  <2> QED
    BY <1>4, <2>1, <2>2
<1>7. \A n \in 0 .. N : f[n] \in A
  <2>1. ASSUME NEW n \in 0 .. N - 1, f[n] \in A PROVE f[n + 1] \in A
    BY <1>6, <2>1 DEF N
  <2> QED
    BY <1>0, <1>6, <2>1, LoopStays
<1>8. f \in [0 .. N -> A]
  BY <1>4, <1>7
<1> QED
  BY <1>5, <1>6, <1>8 DEF N, first, ChangeTurns

\* The turns of appendHunks.
HunkTurns(x, y, cs, b, A, f) ==
    /\ Hunks(x, y, cs, b) = f[Len(cs)].out
    /\ f \in [0 .. Len(cs) -> A]
    /\ f[0] = [group |-> 1, out |-> <<>>]
    /\ \A n \in 0 .. Len(cs) - 1 : f[n + 1] = HunkNext(x, y, cs, b, f[n])

\* appendHunks makes such turns.
LEMMA HunkLoop ==
    ASSUME NEW x, NEW y, NEW cs, Len(cs) \in Nat, NEW b, NEW A, [group |-> 1, out |-> <<>>] \in A,
           \A t \in A, n \in 0 .. Len(cs) - 1 : HunkNext(x, y, cs, b, t) \in A
    PROVE  \E f : HunkTurns(x, y, cs, b, A, f)
<1> DEFINE N == Len(cs)
           first == [group |-> 1, out |-> <<>>]
           F(g) == [n \in 0 .. N |-> IF n = 0 THEN first ELSE HunkNext(x, y, cs, b, g[n - 1])]
           f == CHOOSE g : g = F(g)
           step == [p \in A \X (0 .. N - 1) |-> HunkNext(x, y, cs, b, p[1])]
<1>0. first \in A /\ N \in Nat
  OBVIOUS
<1>1. step \in [A \X (0 .. N - 1) -> A]
  OBVIOUS
<1>2. PICK h : Looping(h, A, first, step, N)
  <2> HIDE DEF step, first, N
  <2> QED
    BY <1>0, <1>1, LoopExists
<1>3. h = F(h)
  <2> HIDE DEF first, N
  <2>1. ASSUME NEW n \in 0 .. N PROVE h[n] = F(h)[n]
    <3>1. CASE n = 0
      BY <1>2, <3>1 DEF Looping
    <3>2. CASE n # 0
      <4>1. n - 1 \in 0 .. N - 1 /\ n - 1 \in 0 .. N /\ (n - 1) + 1 = n
        BY <1>0, <3>2
      <4>2. h[n] = step[<<h[n - 1], n - 1>>] /\ h[n - 1] \in A
        BY <1>2, <4>1 DEF Looping
      <4> QED
        BY <3>2, <4>1, <4>2
    <3> QED
      BY <3>1, <3>2
  <2>2. F(h) = [n \in 0 .. N |-> F(h)[n]] /\ h = [n \in 0 .. N |-> h[n]]
    BY <1>2 DEF Looping
  <2> HIDE DEF F
  <2> QED
    BY <2>1, <2>2
<1>4. f = F(f)
  <2> HIDE DEF F
  <2> QED
    BY <1>3
<1>5. Hunks(x, y, cs, b) = f[N].out
  BY DEF Hunks
<1> HIDE DEF f, N, first
<1>6. f[0] = first /\ \A n \in 0 .. N - 1 : f[n + 1] = HunkNext(x, y, cs, b, f[n])
  <2>1. 0 \in 0 .. N
    BY <1>0
  <2>2. ASSUME NEW n \in 0 .. N - 1 PROVE f[n + 1] = HunkNext(x, y, cs, b, f[n])
    <3>1. n + 1 \in 0 .. N /\ n + 1 # 0 /\ (n + 1) - 1 = n
      BY <1>0
    <3>2. f[n + 1] = F(f)[n + 1]
      BY <1>4
    <3> QED
      BY <3>1, <3>2
  <2> QED
    BY <1>4, <2>1, <2>2
<1>7. \A n \in 0 .. N : f[n] \in A
  <2>1. ASSUME NEW n \in 0 .. N - 1, f[n] \in A PROVE f[n + 1] \in A
    BY <1>6, <2>1 DEF N
  <2> QED
    BY <1>0, <1>6, <2>1, LoopStays
<1>8. f \in [0 .. N -> A]
  BY <1>4, <1>7
<1> QED
  BY <1>5, <1>6, <1>8 DEF N, first, HunkTurns

-----------------------------------------------------------------------------
(* The lines that are left *)

Line == Seq(STRING)
Marks(s) == [0 .. Len(s) - 1 -> BOOLEAN]

\* The lines of s from lo on that are not marked as changed, one more line at a time.
LeftStep(s, ch, lo, n) ==
    [p \in Seq(Line) \X (0 .. n - 1) |-> IF ch[lo + p[2]] THEN p[1] ELSE Append(p[1], s[lo + p[2] + 1])]

\* The lines from lo up to hi that are not marked.
Left(s, ch, lo, hi) ==
    (CHOOSE h : Looping(h, Seq(Line), <<>>, LeftStep(s, ch, lo, Len(s) - lo), Len(s) - lo))[hi - lo]

\* None at first, and with the next line that one, when it is not marked.
LEMMA LeftNext ==
    ASSUME NEW s \in Seq(Line), NEW ch \in Marks(s), NEW lo \in 0 .. Len(s), NEW hi \in lo .. Len(s)
    PROVE  /\ Left(s, ch, lo, lo) = <<>>
           /\ Left(s, ch, lo, hi) \in Seq(Line)
           /\ hi < Len(s) => Left(s, ch, lo, hi + 1) =
                  IF ch[hi] THEN Left(s, ch, lo, hi) ELSE Append(Left(s, ch, lo, hi), s[hi + 1])
<1> DEFINE A == Seq(Line)
           none == <<>>
           n == Len(s) - lo
           step == LeftStep(s, ch, lo, n)
           h == CHOOSE g : Looping(g, A, none, step, n)
<1>1. Len(s) \in Nat /\ lo \in Nat /\ hi \in Nat /\ n \in Nat
  OBVIOUS
<1>2. none \in A
  BY EmptySeq
<1>3. ASSUME NEW u \in A, NEW k \in 0 .. n - 1
      PROVE  (IF ch[lo + k] THEN u ELSE Append(u, s[lo + k + 1])) \in A
  <2>1. s[lo + k + 1] \in Line
    <3>1. lo + k + 1 \in 1 .. Len(s)
      BY <1>1
    <3> QED
      BY <3>1
  <2> HIDE DEF A
  <2>2. Append(u, s[lo + k + 1]) \in A
    BY <2>1, AppendProperties DEF A
  <2> QED
    BY <2>2
<1>4. step \in [A \X (0 .. n - 1) -> A]
  <2> HIDE DEF A, n
  <2>1. ASSUME NEW p \in A \X (0 .. n - 1)
        PROVE  (IF ch[lo + p[2]] THEN p[1] ELSE Append(p[1], s[lo + p[2] + 1])) \in A
    BY <1>3
  <2>2. step = [p \in A \X (0 .. n - 1) |-> IF ch[lo + p[2]] THEN p[1] ELSE Append(p[1], s[lo + p[2] + 1])]
    BY DEF LeftStep, A
  <2> HIDE DEF step
  <2> QED
    BY <2>1, <2>2
<1>5. ASSUME NEW u \in A, NEW k \in 0 .. n - 1
      PROVE  step[<<u, k>>] = IF ch[lo + k] THEN u ELSE Append(u, s[lo + k + 1])
  BY DEF LeftStep
<1>6. \A k : Left(s, ch, lo, lo + k) = h[(lo + k) - lo]
  BY DEF Left
<1>61. Left(s, ch, lo, hi) = h[hi - lo] /\ Left(s, ch, lo, lo) = h[lo - lo] /\ Left(s, ch, lo, hi + 1) = h[(hi + 1) - lo]
  BY DEF Left
<1>7. Looping(h, A, none, step, n)
  <2> HIDE DEF A, n, none, step
  <2>1. \E g : Looping(g, A, none, step, n)
    BY <1>1, <1>2, <1>4, LoopExists
  <2> QED
    BY <2>1
<1>8. h \in [0 .. n -> A] /\ h[0] = <<>> /\ \A k \in 0 .. n - 1 : h[k + 1] = step[<<h[k], k>>]
  BY <1>7 DEF Looping
<1> HIDE DEF h, step, A
<1>9. hi - lo \in 0 .. n /\ lo - lo = 0
  BY <1>1
<1>10. ASSUME hi < Len(s)
       PROVE  h[(hi + 1) - lo] = IF ch[hi] THEN h[hi - lo] ELSE Append(h[hi - lo], s[hi + 1])
  <2>1. hi - lo \in 0 .. n - 1 /\ (hi + 1) - lo = (hi - lo) + 1 /\ lo + (hi - lo) = hi
    BY <1>1, <1>10
  <2>2. h[hi - lo] \in A
    BY <1>8, <1>9
  <2>3. h[(hi - lo) + 1] = step[<<h[hi - lo], hi - lo>>]
    BY <1>8, <2>1
  <2> QED
    BY <1>5, <2>1, <2>2, <2>3
<1> QED
  BY <1>61, <1>8, <1>9, <1>10 DEF A

\* What is left of two parts is what is left of the whole.
LEMMA LeftSplit ==
    ASSUME NEW s \in Seq(Line), NEW ch \in Marks(s), NEW lo \in 0 .. Len(s), NEW mid \in lo .. Len(s),
           NEW hi \in mid .. Len(s)
    PROVE  Left(s, ch, lo, hi) = Left(s, ch, lo, mid) \o Left(s, ch, mid, hi)
<1> DEFINE S == {k \in Nat : mid + k <= Len(s) =>
                     Left(s, ch, lo, mid + k) = Left(s, ch, lo, mid) \o Left(s, ch, mid, mid + k)}
<1>1. Len(s) \in Nat /\ lo \in Nat /\ mid \in Nat /\ hi \in Nat /\ mid \in 0 .. Len(s)
  OBVIOUS
<1>2. Left(s, ch, lo, mid) \in Seq(Line) /\ Left(s, ch, mid, mid) = <<>>
  <2>1. mid \in mid .. Len(s)
    BY <1>1
  <2> QED
    BY <1>1, <2>1, LeftNext
<1>3. 0 \in S
  <2>1. Left(s, ch, lo, mid) \o <<>> = Left(s, ch, lo, mid)
    BY <1>2, ConcatEmptySeq
  <2> QED
    BY <1>1, <1>2, <2>1
<1>4. ASSUME NEW k \in Nat, k \in S PROVE k + 1 \in S
  <2> SUFFICES ASSUME mid + (k + 1) <= Len(s)
               PROVE  Left(s, ch, lo, mid + (k + 1)) = Left(s, ch, lo, mid) \o Left(s, ch, mid, mid + (k + 1))
    OBVIOUS
  <2> DEFINE at == mid + k
  <2>1. at \in mid .. Len(s) /\ at \in lo .. Len(s) /\ at < Len(s) /\ mid + (k + 1) = at + 1 /\ at \in Nat
    BY <1>1
  <2>2. Left(s, ch, lo, at) = Left(s, ch, lo, mid) \o Left(s, ch, mid, at)
    BY <1>4, <2>1
  <2> HIDE DEF at
  <2>3. Left(s, ch, lo, at + 1) = IF ch[at] THEN Left(s, ch, lo, at) ELSE Append(Left(s, ch, lo, at), s[at + 1])
    BY <2>1, LeftNext
  <2>4. /\ Left(s, ch, mid, at) \in Seq(Line)
        /\ Left(s, ch, mid, at + 1) = IF ch[at] THEN Left(s, ch, mid, at) ELSE Append(Left(s, ch, mid, at), s[at + 1])
    BY <1>1, <2>1, LeftNext
  <2>5. s[at + 1] \in Line
    <3>1. at + 1 \in 1 .. Len(s)
      BY <1>1, <2>1
    <3> QED
      BY <3>1
  <2> DEFINE u == Left(s, ch, lo, mid)
             v == Left(s, ch, mid, at)
  <2>6. u \o Append(v, s[at + 1]) = Append(u \o v, s[at + 1])
    <3>1. u \in Seq(Line) /\ v \in Seq(Line)
      BY <1>2, <2>4
    <3> HIDE DEF u, v
    <3> QED
      BY <2>5, <3>1, ConcatAppend
  <2> QED
    BY <2>1, <2>2, <2>3, <2>4, <2>6
<1> HIDE DEF S
<1>5. hi - mid \in S /\ mid + (hi - mid) = hi
  <2>1. hi - mid \in Nat
    BY <1>1
  <2> QED
    BY <1>1, <1>3, <1>4, <2>1, NatSetInduction
<1> QED
  BY <1>5 DEF S

\* The same lines, marked in the same way, leave the same.
LEMMA LeftSame ==
    ASSUME NEW s \in Seq(Line), NEW ch \in Marks(s), NEW t \in Seq(Line), NEW dh \in Marks(t),
           NEW i \in 0 .. Len(s), NEW j \in 0 .. Len(t), NEW n \in Nat, i + n <= Len(s), j + n <= Len(t),
           \A k \in 0 .. n - 1 : s[i + k + 1] = t[j + k + 1] /\ ch[i + k] = dh[j + k]
    PROVE  Left(s, ch, i, i + n) = Left(t, dh, j, j + n)
<1> DEFINE S == {k \in Nat : k <= n => Left(s, ch, i, i + k) = Left(t, dh, j, j + k)}
<1>1. Len(s) \in Nat /\ i \in Nat /\ Len(t) \in Nat /\ j \in Nat
  OBVIOUS
<1>2. 0 \in S
  <2>1. i \in i .. Len(s) /\ j \in j .. Len(t)
    BY <1>1
  <2> QED
    BY <1>1, <2>1, LeftNext
<1>3. ASSUME NEW k \in Nat, k \in S PROVE k + 1 \in S
  <2> SUFFICES ASSUME k + 1 <= n PROVE Left(s, ch, i, i + (k + 1)) = Left(t, dh, j, j + (k + 1))
    OBVIOUS
  <2>1. Left(s, ch, i, i + k) = Left(t, dh, j, j + k) /\ k \in 0 .. n - 1
    BY <1>3
  <2>2. s[i + k + 1] = t[j + k + 1] /\ ch[i + k] = dh[j + k]
    BY <2>1
  <2> DEFINE p == i + k
             q == j + k
  <2>3. p \in i .. Len(s) /\ p < Len(s) /\ q \in j .. Len(t) /\ q < Len(t) /\ i + (k + 1) = p + 1 /\ j + (k + 1) = q + 1
    BY <1>1
  <2>4. Left(s, ch, i, p + 1) = IF ch[p] THEN Left(s, ch, i, p) ELSE Append(Left(s, ch, i, p), s[p + 1])
    <3> HIDE DEF p
    <3> QED
      BY <2>3, LeftNext
  <2>5. Left(t, dh, j, q + 1) = IF dh[q] THEN Left(t, dh, j, q) ELSE Append(Left(t, dh, j, q), t[q + 1])
    <3> HIDE DEF q
    <3> QED
      BY <2>3, LeftNext
  <2> QED
    BY <2>1, <2>2, <2>3, <2>4, <2>5
<1> HIDE DEF S
<1>4. n \in S
  BY <1>2, <1>3, NatSetInduction
<1> QED
  BY <1>4 DEF S

\* Marked lines leave nothing.
LEMMA LeftNone ==
    ASSUME NEW s \in Seq(Line), NEW ch \in Marks(s), NEW lo \in 0 .. Len(s), NEW hi \in lo .. Len(s),
           \A k \in lo .. hi - 1 : ch[k]
    PROVE  Left(s, ch, lo, hi) = <<>>
<1> DEFINE S == {k \in Nat : lo + k <= hi => Left(s, ch, lo, lo + k) = <<>>}
<1>1. Len(s) \in Nat /\ lo \in Nat /\ hi \in Nat
  OBVIOUS
<1>2. 0 \in S
  BY <1>1, LeftNext
<1>3. ASSUME NEW k \in Nat, k \in S PROVE k + 1 \in S
  <2> SUFFICES ASSUME lo + (k + 1) <= hi PROVE Left(s, ch, lo, lo + (k + 1)) = <<>>
    OBVIOUS
  <2> DEFINE p == lo + k
  <2>1. p \in lo .. Len(s) /\ p < Len(s) /\ p \in lo .. hi - 1 /\ lo + (k + 1) = p + 1 /\ lo + k <= hi
    BY <1>1
  <2>2. Left(s, ch, lo, p) = <<>>
    BY <1>3, <2>1
  <2> HIDE DEF p
  <2>3. Left(s, ch, lo, p + 1) = IF ch[p] THEN Left(s, ch, lo, p) ELSE Append(Left(s, ch, lo, p), s[p + 1])
    BY <2>1, LeftNext
  <2> QED
    BY <2>1, <2>2, <2>3
<1> HIDE DEF S
<1>4. hi - lo \in S /\ lo + (hi - lo) = hi
  <2>1. hi - lo \in Nat
    BY <1>1
  <2> QED
    BY <1>1, <1>2, <1>3, <2>1, NatSetInduction
<1> QED
  BY <1>4 DEF S

\* A line that is not marked comes first.
LEMMA LeftFirst ==
    ASSUME NEW s \in Seq(Line), NEW ch \in Marks(s), NEW lo \in 0 .. Len(s), NEW hi \in lo .. Len(s), lo < hi
    PROVE  Left(s, ch, lo, hi) = IF ch[lo] THEN Left(s, ch, lo + 1, hi) ELSE <<s[lo + 1]>> \o Left(s, ch, lo + 1, hi)
<1>1. Len(s) \in Nat /\ lo \in Nat /\ hi \in Nat /\ lo + 1 \in lo .. Len(s) /\ hi \in lo + 1 .. Len(s) /\ lo < Len(s)
      /\ lo \in lo .. Len(s) /\ lo + 1 \in 0 .. Len(s)
  OBVIOUS
<1> DEFINE m == lo + 1
<1>2. Left(s, ch, lo, hi) = Left(s, ch, lo, m) \o Left(s, ch, m, hi)
  <2>1. m \in lo .. Len(s) /\ hi \in m .. Len(s)
    BY <1>1
  <2> HIDE DEF m
  <2> QED
    BY <2>1, LeftSplit
<1>3. Left(s, ch, lo, m) = IF ch[lo] THEN <<>> ELSE <<s[lo + 1]>>
  <2>1. Left(s, ch, lo, lo) = <<>> /\ Left(s, ch, lo, m) = IF ch[lo] THEN Left(s, ch, lo, lo) ELSE Append(Left(s, ch, lo, lo), s[lo + 1])
    BY <1>1, LeftNext
  <2>2. Append(<<>>, s[lo + 1]) = <<s[lo + 1]>>
    OBVIOUS
  <2> QED
    BY <2>1, <2>2
<1>4. Left(s, ch, m, hi) \in Seq(Line)
  <2>1. m \in 0 .. Len(s) /\ hi \in m .. Len(s)
    BY <1>1
  <2> HIDE DEF m
  <2> QED
    BY <2>1, LeftNext
<1> DEFINE v == Left(s, ch, m, hi)
<1>5. <<>> \o v = v
  <2>1. v \in Seq(Line)
    BY <1>4
  <2> HIDE DEF v
  <2> QED
    BY <2>1, ConcatEmptySeq
<1> QED
  BY <1>2, <1>3, <1>5

-----------------------------------------------------------------------------
(* The largest and the smallest *)

\* Some numbers between two have a largest and a smallest.
LEMMA SmallestIs ==
    ASSUME NEW lo \in Int, NEW hi \in Int, NEW S \in SUBSET (lo .. hi), S # {}
    PROVE  Smallest(S) \in S /\ \A y \in S : Smallest(S) <= y
<1> DEFINE T == {y - lo : y \in S}
<1>1. T \in SUBSET Nat /\ T # {}
  OBVIOUS
<1>2. PICK t \in T : \A u \in T : t <= u
  <2> HIDE DEF T
  <2> QED
    BY <1>1, LeastOfNaturals
<1>3. PICK x \in S : t = x - lo
  OBVIOUS
<1>4. \A y \in S : x <= y
  <2> SUFFICES ASSUME NEW y \in S PROVE x <= y
    OBVIOUS
  <2>1. t <= y - lo
    BY <1>2
  <2>2. x \in lo .. hi /\ y \in lo .. hi
    OBVIOUS
  <2> QED
    BY <1>3, <2>1, <2>2
<1> QED
  BY <1>4 DEF Smallest

\* The largest one, likewise.
LEMMA LargestIs ==
    ASSUME NEW lo \in Int, NEW hi \in Int, NEW S \in SUBSET (lo .. hi), S # {}
    PROVE  Largest(S) \in S /\ \A y \in S : y <= Largest(S)
<1> DEFINE T == {hi - y : y \in S}
<1>1. T \in SUBSET Nat /\ T # {}
  OBVIOUS
<1>2. PICK t \in T : \A u \in T : t <= u
  <2> HIDE DEF T
  <2> QED
    BY <1>1, LeastOfNaturals
<1>3. PICK x \in S : t = hi - x
  OBVIOUS
<1>4. \A y \in S : y <= x
  <2> SUFFICES ASSUME NEW y \in S PROVE y <= x
    OBVIOUS
  <2>1. t <= hi - y
    BY <1>2
  <2>2. x \in lo .. hi /\ y \in lo .. hi
    OBVIOUS
  <2> QED
    BY <1>3, <2>1, <2>2
<1> QED
  BY <1>4 DEF Largest

-----------------------------------------------------------------------------
(* The comparison *)

Points == [-(regionStepsMax + 1) .. regionStepsMax + 1 -> Int]
ContextsOf(x, y) ==
    [a : {x}, b : {y}, work : Nat, kvf : Points, kvb : Points, aChanged : Marks(x), bChanged : Marks(y)]
RegionsOf(x, y) ==
    {r \in [aLo : 0 .. Len(x), aHi : 0 .. Len(x), bLo : 0 .. Len(y), bHi : 0 .. Len(y)] :
        r.aLo <= r.aHi /\ r.bLo <= r.bHi}
Splits == [kvf : Points, kvb : Points, work : Nat, best : Int, x : Int, y : Int, found : BOOLEAN]

\* The first context is one, with nothing marked.
LEMMA NewContextIs ==
    ASSUME NEW x \in Seq(Line), NEW y \in Seq(Line), NEW work \in Nat
    PROVE  /\ NewContext(x, y, work) \in ContextsOf(x, y)
           /\ \A k \in 0 .. Len(x) - 1 : ~NewContext(x, y, work).aChanged[k]
           /\ \A k \in 0 .. Len(y) - 1 : ~NewContext(x, y, work).bChanged[k]
<1> DEFINE kv == [k \in -(regionStepsMax + 1) .. regionStepsMax + 1 |-> 0]
           ma == [i \in 0 .. Len(x) - 1 |-> FALSE]
           mb == [j \in 0 .. Len(y) - 1 |-> FALSE]
           c == [a |-> x, b |-> y, work |-> work, kvf |-> kv, kvb |-> kv, aChanged |-> ma, bChanged |-> mb]
<1>1. NewContext(x, y, work) = c
  BY DEF NewContext
<1>2. kv \in Points /\ ma \in Marks(x) /\ mb \in Marks(y)
  BY DEF Points, Marks
<1>3. (\A k \in 0 .. Len(x) - 1 : ~ma[k]) /\ \A k \in 0 .. Len(y) - 1 : ~mb[k]
  OBVIOUS
<1> HIDE DEF kv, ma, mb
<1>4. c \in ContextsOf(x, y) /\ c.aChanged = ma /\ c.bChanged = mb
  BY <1>2 DEF ContextsOf
<1> QED
  BY <1>1, <1>3, <1>4

\* The contexts and the regions of one context are those of its texts.
LEMMA ContextsAre ==
    ASSUME NEW x, NEW y, Len(x) \in Nat, Len(y) \in Nat, NEW c \in ContextsOf(x, y)
    PROVE  Contexts(c) = ContextsOf(x, y) /\ Regions(c) = RegionsOf(x, y)
<1>1. c.a = x /\ c.b = y
  BY DEF ContextsOf
<1>2. c.kvf \in Points /\ c.kvb \in Points /\ c.aChanged \in Marks(x) /\ c.bChanged \in Marks(y)
  BY DEF ContextsOf
<1>3. /\ [DOMAIN c.kvf -> Int] = Points /\ [DOMAIN c.kvb -> Int] = Points
      /\ [DOMAIN c.aChanged -> BOOLEAN] = Marks(x) /\ [DOMAIN c.bChanged -> BOOLEAN] = Marks(y)
  BY <1>2 DEF Points, Marks
<1> QED
  BY <1>1, <1>3 DEF Contexts, Regions, ContextsOf, RegionsOf

\* As many pairs as there are, or none.
LEMMA PairsAre ==
    ASSUME NEW x \in Seq(Line), NEW y \in Seq(Line), NEW r \in RegionsOf(x, y), NEW i \in Int, NEW j \in Int
    PROVE  Pairs(r, i, j) \in Nat
<1>1. r.aHi \in Int /\ r.aLo \in Int /\ r.bHi \in Int /\ r.bLo \in Int
  BY DEF RegionsOf
<1> QED
  <2> DEFINE u == r.aHi - r.aLo - i
             v == r.bHi - r.bLo - j
  <2>1. u \in Int /\ v \in Int
    BY <1>1
  <2>2. Pairs(r, i, j) = AtLeast0(Least(u, v))
    BY DEF Pairs
  <2> HIDE DEF u, v
  <2> QED
    BY <2>1, <2>2 DEF AtLeast0, Least

\* What is left of some work after n comparisons that were equal.
LEMMA ComparedIs ==
    ASSUME NEW most \in Nat, NEW work \in Nat, NEW n \in 0 .. Least(most, work)
    PROVE  /\ Compared(n, work, most).n = n /\ n <= most
           /\ Compared(n, work, most).work \in Nat
<1>1. n \in Nat /\ n <= most /\ n <= work
  BY DEF Least
<1> QED
  BY <1>1 DEF Compared, Least

\* The lines of a region that are equal from two of them on.
LEMMA ForwardIs ==
    ASSUME NEW x \in Seq(Line), NEW y \in Seq(Line), NEW c \in ContextsOf(x, y), NEW r \in RegionsOf(x, y),
           NEW work \in Nat, NEW i \in Int, NEW j \in Int
    PROVE  /\ Forward(c, r, work, i, j).n \in 0 .. Pairs(r, i, j)
           /\ Forward(c, r, work, i, j).work \in Nat
           /\ \A k \in 0 .. Forward(c, r, work, i, j).n - 1 : x[r.aLo + i + k + 1] = y[r.bLo + j + k + 1]
<1> DEFINE most == Pairs(r, i, j)
           all == Least(most, work)
           S == {n \in 0 .. all : \A k \in 0 .. n - 1 : c.a[r.aLo + i + k + 1] = c.b[r.bLo + j + k + 1]}
           n == Largest(S)
<1>1. c.a = x /\ c.b = y
  BY DEF ContextsOf
<1>2. most \in Nat
  BY PairsAre
<1>3. Forward(c, r, work, i, j) = Compared(n, work, most)
  BY DEF Forward
<1> HIDE DEF most
<1>4. all \in Nat
  BY <1>2 DEF Least
<1>5. n \in S
  <2>1. S \in SUBSET (0 .. all) /\ S # {}
    <3>1. 0 \in S
      BY <1>4
    <3> QED
      BY <3>1
  <2>2. 0 \in Int /\ all \in Int
    BY <1>4
  <2> HIDE DEF S, all
  <2> QED
    BY <2>1, <2>2, LargestIs
<1>6. n \in 0 .. all /\ \A k \in 0 .. n - 1 : x[r.aLo + i + k + 1] = y[r.bLo + j + k + 1]
  BY <1>1, <1>5
<1> HIDE DEF n
<1>7. Compared(n, work, most).n = n /\ n <= most /\ Compared(n, work, most).work \in Nat
  BY <1>2, <1>6, ComparedIs
<1> QED
  BY <1>2, <1>3, <1>6, <1>7 DEF most

\* The lines of a region that are equal from two of them back.
LEMMA BackwardIs ==
    ASSUME NEW x \in Seq(Line), NEW y \in Seq(Line), NEW c \in ContextsOf(x, y), NEW r \in RegionsOf(x, y),
           NEW work \in Nat, NEW i \in Int, NEW j \in Int
    PROVE  /\ Backward(c, r, work, i, j).n \in 0 .. Pairs(r, i, j)
           /\ Backward(c, r, work, i, j).work \in Nat
           /\ \A k \in 0 .. Backward(c, r, work, i, j).n - 1 : x[r.aHi - i - k] = y[r.bHi - j - k]
<1> DEFINE most == Pairs(r, i, j)
           all == Least(most, work)
           S == {n \in 0 .. all : \A k \in 0 .. n - 1 : c.a[r.aHi - i - k] = c.b[r.bHi - j - k]}
           n == Largest(S)
<1>1. c.a = x /\ c.b = y
  BY DEF ContextsOf
<1>2. most \in Nat
  BY PairsAre
<1>3. Backward(c, r, work, i, j) = Compared(n, work, most)
  BY DEF Backward
<1> HIDE DEF most
<1>4. all \in Nat
  BY <1>2 DEF Least
<1>5. n \in S
  <2>1. S \in SUBSET (0 .. all) /\ S # {}
    <3>1. 0 \in S
      BY <1>4
    <3> QED
      BY <3>1
  <2>2. 0 \in Int /\ all \in Int
    BY <1>4
  <2> HIDE DEF S, all
  <2> QED
    BY <2>1, <2>2, LargestIs
<1>6. n \in 0 .. all /\ \A k \in 0 .. n - 1 : x[r.aHi - i - k] = y[r.bHi - j - k]
  BY <1>1, <1>5
<1> HIDE DEF n
<1>7. Compared(n, work, most).n = n /\ n <= most /\ Compared(n, work, most).work \in Nat
  BY <1>2, <1>6, ComparedIs
<1> QED
  BY <1>2, <1>3, <1>6, <1>7 DEF most

\* Where a path goes on is a number.
LEMMA FurthestIs ==
    ASSUME NEW kv \in Points, NEW d \in 0 .. regionStepsMax, NEW k \in -d .. d
    PROVE  Furthest(kv, d, k) \in Int
<1>1. regionStepsMax \in Nat
  BY DiffAssumption
<1>2. k - 1 \in -(regionStepsMax + 1) .. regionStepsMax + 1 /\ k + 1 \in -(regionStepsMax + 1) .. regionStepsMax + 1
  BY <1>1
<1>3. kv[k - 1] \in Int /\ kv[k + 1] \in Int
  BY <1>2 DEF Points
<1> QED
  BY <1>3 DEF Furthest

\* A point is put among the points.
LEMMA PointsWith ==
    ASSUME NEW kv \in Points, NEW k, NEW i \in Int
    PROVE  [kv EXCEPT ![k] = i] \in Points
BY DEF Points

\* A forward path on a diagonal leaves a split.
LEMMA ForwardOnIs ==
    ASSUME NEW x \in Seq(Line), NEW y \in Seq(Line), NEW c \in ContextsOf(x, y), NEW r \in RegionsOf(x, y),
           NEW s \in Splits, NEW d \in 0 .. regionStepsMax, NEW k \in -d .. d
    PROVE  ForwardOn(c, r, s, d, k) \in Splits
<1>1. /\ s.kvf \in Points /\ s.kvb \in Points /\ s.work \in Nat /\ s.best \in Int /\ s.x \in Int /\ s.y \in Int
      /\ s.found \in BOOLEAN
  BY DEF Splits
<1>2. ASSUME NEW i \in Int, NEW work \in Nat PROVE ForwardTo(r, s, d, k, i, work) \in Splits
  <2> DEFINE n == r.aHi - r.aLo
             m == r.bHi - r.bLo
             kb == n - m - k
             met == (n - m) % 2 # 0 /\ kb \in -(d - 1) .. d - 1 /\ Met(i, s.kvb[kb], n)
             better == i <= n /\ i - k <= m /\ i + (i - k) > s.best
             kv == [s.kvf EXCEPT ![k] = i]
             best == IF better THEN i + (i - k) ELSE s.best
             sx == IF met \/ better THEN i ELSE s.x
             sy == IF met \/ better THEN i - k ELSE s.y
             t == [s EXCEPT !.kvf = kv, !.work = work, !.found = met, !.best = best, !.x = sx, !.y = sy]
  <2>1. ForwardTo(r, s, d, k, i, work) = t
    BY DEF ForwardTo
  <2>2. kv \in Points
    BY <1>1, PointsWith
  <2>3. best \in Int /\ sx \in Int /\ sy \in Int
    BY <1>1
  <2>4. met \in BOOLEAN
    BY DEF Met
  <2> HIDE DEF kv, best, sx, sy, met
  <2>5. t \in Splits
    BY <2>2, <2>3, <2>4 DEF Splits
  <2> QED
    BY <2>1, <2>5
<1>3. Furthest(s.kvf, d, k) \in Int
  BY <1>1, FurthestIs
<1>4. ASSUME NEW i \in Int PROVE ForwardFrom(c, r, s, d, k, i) \in Splits
  <2> DEFINE e == Forward(c, r, s.work, i, i - k)
  <2>1. e.n \in 0 .. Pairs(r, i, i - k) /\ e.work \in Nat
    <3>1. i - k \in Int
      OBVIOUS
    <3> QED
      BY <1>1, <3>1, ForwardIs
  <2>2. i + e.n \in Int
    BY <2>1
  <2> HIDE DEF e
  <2>3. ForwardTo(r, s, d, k, i + e.n, e.work) \in Splits
    BY <1>2, <2>1, <2>2
  <2> QED
    BY <2>3 DEF ForwardFrom, ForwardPath, e
<1> QED
  BY <1>3, <1>4 DEF ForwardOn

\* A backward path on a diagonal leaves a split.
LEMMA BackwardOnIs ==
    ASSUME NEW x \in Seq(Line), NEW y \in Seq(Line), NEW c \in ContextsOf(x, y), NEW r \in RegionsOf(x, y),
           NEW s \in Splits, NEW d \in 0 .. regionStepsMax, NEW k \in -d .. d
    PROVE  BackwardOn(c, r, s, d, k) \in Splits
<1>1. /\ s.kvf \in Points /\ s.kvb \in Points /\ s.work \in Nat /\ s.best \in Int /\ s.x \in Int /\ s.y \in Int
      /\ s.found \in BOOLEAN
  BY DEF Splits
<1>2. ASSUME NEW i \in Int, NEW work \in Nat PROVE BackwardTo(r, s, d, k, i, work) \in Splits
  <2> DEFINE n == r.aHi - r.aLo
             m == r.bHi - r.bLo
             kf == n - m - k
             met == (n - m) % 2 = 0 /\ kf \in -d .. d /\ Met(s.kvf[kf], i, n)
             kv == [s.kvb EXCEPT ![k] = i]
             sx == IF met THEN n - i ELSE s.x
             sy == IF met THEN m - (i - k) ELSE s.y
             t == [s EXCEPT !.kvb = kv, !.work = work, !.found = met, !.x = sx, !.y = sy]
  <2>1. BackwardTo(r, s, d, k, i, work) = t
    BY DEF BackwardTo
  <2>2. kv \in Points
    BY <1>1, PointsWith
  <2>3. sx \in Int /\ sy \in Int
    <3>1. r.aHi \in Int /\ r.aLo \in Int /\ r.bHi \in Int /\ r.bLo \in Int
      BY DEF RegionsOf
    <3>2. n \in Int /\ m \in Int
      BY <3>1
    <3> HIDE DEF met, n, m
    <3> QED
      BY <1>1, <3>2
  <2>4. met \in BOOLEAN
    BY DEF Met
  <2> HIDE DEF kv, sx, sy, met
  <2>5. t \in Splits
    BY <2>2, <2>3, <2>4 DEF Splits
  <2> QED
    BY <2>1, <2>5
<1>3. Furthest(s.kvb, d, k) \in Int
  BY <1>1, FurthestIs
<1>4. ASSUME NEW i \in Int PROVE BackwardFrom(c, r, s, d, k, i) \in Splits
  <2> DEFINE e == Backward(c, r, s.work, i, i - k)
  <2>1. e.n \in 0 .. Pairs(r, i, i - k) /\ e.work \in Nat
    <3>1. i - k \in Int
      OBVIOUS
    <3> QED
      BY <1>1, <3>1, BackwardIs
  <2>2. i + e.n \in Int
    BY <2>1
  <2> HIDE DEF e
  <2>3. BackwardTo(r, s, d, k, i + e.n, e.work) \in Splits
    BY <1>2, <2>1, <2>2
  <2> QED
    BY <2>3 DEF BackwardFrom, BackwardPath, e
<1> QED
  BY <1>3, <1>4 DEF BackwardOn

\* The paths of d steps, the steps, and the split itself stay among the splits.
LEMMA PathsAre ==
    ASSUME NEW x \in Seq(Line), NEW y \in Seq(Line), NEW c \in ContextsOf(x, y), NEW r \in RegionsOf(x, y),
           NEW s \in Splits, NEW d \in 0 .. regionStepsMax
    PROVE  ForwardPaths(c, r, s, d) \in Splits /\ BackwardPaths(c, r, s, d) \in Splits
<1> DEFINE A == Splits
<1>1. d \in Nat /\ (d + 1) \in 0 .. (d + 1) /\ s \in A
  BY DiffAssumption
<1>2. \A n \in 0 .. (d + 1) - 1 : 2 * n - d \in -d .. d
  BY <1>1
<1>3. \A t \in A, n \in 0 .. (d + 1) - 1 : ForwardOn(c, r, t, d, 2 * n - d) \in A
  BY <1>2, ForwardOnIs
<1>4. \A t \in A, n \in 0 .. (d + 1) - 1 : BackwardOn(c, r, t, d, 2 * n - d) \in A
  BY <1>2, BackwardOnIs
<1> HIDE DEF A
<1>5. ForwardPaths(c, r, s, d) \in A
  <2>1. PICK f : ForwardTurns(c, r, s, d, A, f)
    BY <1>1, <1>3, ForwardLoop
  <2> QED
    BY <1>1, <2>1 DEF ForwardTurns
<1>6. BackwardPaths(c, r, s, d) \in A
  <2>1. PICK f : BackwardTurns(c, r, s, d, A, f)
    BY <1>1, <1>4, BackwardLoop
  <2> QED
    BY <1>1, <2>1 DEF BackwardTurns
<1> QED
  BY <1>5, <1>6 DEF A

\* All the steps within a budget leave a split.
LEMMA StepsAre ==
    ASSUME NEW x \in Seq(Line), NEW y \in Seq(Line), NEW c \in ContextsOf(x, y), NEW r \in RegionsOf(x, y),
           NEW s \in Splits, NEW budget \in 0 .. regionStepsMax
    PROVE  Steps(c, r, s, budget) \in Splits
<1> DEFINE A == Splits
<1>1. budget \in Nat /\ (budget + 1) \in 0 .. (budget + 1) /\ s \in A
  BY DiffAssumption
<1>2. ASSUME NEW t \in A, NEW d \in 0 .. (budget + 1) - 1 PROVE Step(c, r, t, d) \in A
  <2>1. d \in 0 .. regionStepsMax
    BY DiffAssumption
  <2>2. ForwardPaths(c, r, t, d) \in A
    BY <2>1, PathsAre
  <2> DEFINE u == ForwardPaths(c, r, t, d)
  <2>3. BackwardPaths(c, r, u, d) \in A
    <3>1. u \in Splits
      BY <2>2
    <3> HIDE DEF u
    <3> QED
      BY <2>1, <3>1, PathsAre
  <2> QED
    BY <2>3 DEF Step
<1> HIDE DEF A
<1>3. PICK f : StepsTurns(c, r, s, budget, A, f)
  BY <1>1, <1>2, StepsLoop
<1> QED
  BY <1>1, <1>3 DEF A, StepsTurns

\* A budget is within the limit.
LEMMA BudgetIs ==
    ASSUME NEW size \in Nat
    PROVE  Budget(size) \in 0 .. regionStepsMax
<1> DEFINE S == {b \in regionStepsMin .. regionStepsMax :
                    (\E e \in 0 .. 10 : b = regionStepsMin * 2 ^ e) /\ (b * b >= size \/ b = regionStepsMax)}
           most == Smallest(S)
<1>1. regionStepsMin \in Nat /\ regionStepsMax \in Nat /\ regionStepsMin <= regionStepsMax
  BY DiffAssumption
<1>2. regionStepsMax \in S
  <2>1. \E e \in 0 .. 10 : regionStepsMax = regionStepsMin * 2 ^ e
    BY DiffAssumption
  <2>2. regionStepsMax \in regionStepsMin .. regionStepsMax
    BY <1>1
  <2> QED
    BY <2>1, <2>2
<1>3. most \in 0 .. regionStepsMax
  <2>1. S \in SUBSET (regionStepsMin .. regionStepsMax) /\ S # {} /\ regionStepsMin \in Int /\ regionStepsMax \in Int
    BY <1>1, <1>2
  <2>2. most \in S
    <3> HIDE DEF S
    <3> QED
      BY <2>1, SmallestIs
  <2>3. most \in regionStepsMin .. regionStepsMax
    BY <2>1, <2>2
  <2> HIDE DEF most
  <2> QED
    BY <1>1, <2>3
<1>4. Budget(size) = Least(most, size \div 2 + 1)
  BY DEF Budget
<1> HIDE DEF most
<1>5. size \div 2 + 1 \in Nat
  OBVIOUS
<1> QED
  BY <1>1, <1>3, <1>4, <1>5 DEF Least

\* A split leaves the marks as they are, and is in the region.
LEMMA MyersSplitIs ==
    ASSUME NEW x \in Seq(Line), NEW y \in Seq(Line), NEW c \in ContextsOf(x, y), NEW r \in RegionsOf(x, y)
    PROVE  /\ MyersSplit(c, r).c \in ContextsOf(x, y)
           /\ MyersSplit(c, r).c.aChanged = c.aChanged
           /\ MyersSplit(c, r).c.bChanged = c.bChanged
           /\ MyersSplit(c, r).at.a \in r.aLo .. r.aHi
           /\ MyersSplit(c, r).at.b \in r.bLo .. r.bHi
           /\ MyersSplit(c, r).at = [a |-> MyersSplit(c, r).at.a, b |-> MyersSplit(c, r).at.b]
<1> DEFINE s == [kvf |-> [c.kvf EXCEPT ![1] = 0], kvb |-> [c.kvb EXCEPT ![1] = 0], work |-> c.work,
                 best |-> -1, x |-> 0, y |-> 0, found |-> FALSE]
           t == Steps(c, r, s, Budget(LineCount(r)))
           d == [c EXCEPT !.kvf = t.kvf, !.kvb = t.kvb, !.work = t.work]
           at == SplitOut(r, t.x, t.y)
<1>1. MyersSplit(c, r) = [c |-> d, at |-> at]
  BY DEF MyersSplit, SplitAt
<1>2. s \in Splits
  <2>1. c.kvf \in Points /\ c.kvb \in Points /\ c.work \in Nat
    BY DEF ContextsOf
  <2> DEFINE kf == [c.kvf EXCEPT ![1] = 0]
             kb == [c.kvb EXCEPT ![1] = 0]
  <2>2. kf \in Points /\ kb \in Points
    <3>1. 0 \in Int
      OBVIOUS
    <3> QED
      BY <2>1, <3>1, PointsWith
  <2> HIDE DEF kf, kb
  <2>3. [kvf |-> kf, kvb |-> kb, work |-> c.work, best |-> -1, x |-> 0, y |-> 0, found |-> FALSE] \in Splits
    BY <2>1, <2>2 DEF Splits
  <2> QED
    BY <2>3 DEF kf, kb
<1>3. r.aHi \in Nat /\ r.aLo \in Nat /\ r.bHi \in Nat /\ r.bLo \in Nat /\ r.aLo <= r.aHi /\ r.bLo <= r.bHi
  BY DEF RegionsOf
<1>4. t \in Splits
  <2>1. LineCount(r) \in Nat
    BY <1>3 DEF LineCount
  <2>2. Budget(LineCount(r)) \in 0 .. regionStepsMax
    BY <2>1, BudgetIs
  <2> HIDE DEF s
  <2> QED
    BY <1>2, <2>2, StepsAre
<1> HIDE DEF t
<1>5. t.kvf \in Points /\ t.kvb \in Points /\ t.work \in Nat /\ t.x \in Int /\ t.y \in Int
  BY <1>4 DEF Splits
<1>6. d \in ContextsOf(x, y) /\ d.aChanged = c.aChanged /\ d.bChanged = c.bChanged
  BY <1>5 DEF ContextsOf
<1>7. at = [a |-> at.a, b |-> at.b] /\ at.a \in r.aLo .. r.aHi /\ at.b \in r.bLo .. r.bHi
  <2> DEFINE i == AtLeast0(Least(r.aHi - r.aLo, t.x))
             j == AtLeast0(Least(r.bHi - r.bLo, t.y))
  <2>1. i \in 0 .. r.aHi - r.aLo
    BY <1>3, <1>5 DEF AtLeast0, Least
  <2>2. j \in 0 .. r.bHi - r.bLo
    BY <1>3, <1>5 DEF AtLeast0, Least
  <2>3. at = [a |-> r.aLo + i, b |-> r.bLo + j]
    BY DEF SplitOut
  <2> HIDE DEF i, j, at
  <2>4. \A lo, hi \in Nat, n \in Int : lo <= hi /\ n \in 0 .. hi - lo => lo + n \in lo .. hi
    OBVIOUS
  <2>5. i \in Int /\ j \in Int
    BY <1>3, <2>1, <2>2
  <2>6. r.aLo + i \in r.aLo .. r.aHi /\ r.bLo + j \in r.bLo .. r.bHi
    <3> PICK lo, hi, l, h : lo = r.aLo /\ hi = r.aHi /\ l = r.bLo /\ h = r.bHi
      OBVIOUS
    <3>1. lo + i \in lo .. hi
      BY <1>3, <2>1, <2>4, <2>5
    <3>2. l + j \in l .. h
      BY <1>3, <2>2, <2>4, <2>5
    <3> QED
      BY <3>1, <3>2
  <2>7. at.a = r.aLo + i /\ at.b = r.bLo + j
    BY <2>3
  <2> QED
    BY <2>3, <2>6, <2>7
<1> HIDE DEF d, at
<1> QED
  BY <1>1, <1>6, <1>7

-----------------------------------------------------------------------------
(* A region of the comparison *)

\* Nothing is marked from lo up to hi.
Clean(ch, lo, hi) == \A k \in lo .. hi - 1 : ~ch[k]

\* Of n lines only those from lo up to hi are marked in another way.
Only(ch, dh, lo, hi, n) == \A k \in 0 .. n - 1 : k \notin lo .. hi - 1 => dh[k] = ch[k]

\* What a region is not to have when it is compared, and what it must have afterwards:
\* the same lines left on both sides.
Fresh(c, r) == Clean(c.aChanged, r.aLo, r.aHi) /\ Clean(c.bChanged, r.bLo, r.bHi)
Within(x, y, c, r, d) ==
    /\ Only(c.aChanged, d.aChanged, r.aLo, r.aHi, Len(x))
    /\ Only(c.bChanged, d.bChanged, r.bLo, r.bHi, Len(y))
Agreed(x, y, r, d) == Left(x, d.aChanged, r.aLo, r.aHi) = Left(y, d.bChanged, r.bLo, r.bHi)
Solved(x, y, c, r, d) == Within(x, y, c, r, d) /\ Agreed(x, y, r, d)

\* The fields of a context.
LEMMA ContextIs ==
    ASSUME NEW x, NEW y, NEW c \in ContextsOf(x, y)
    PROVE  c.aChanged \in Marks(x) /\ c.bChanged \in Marks(y) /\ c.work \in Nat
BY DEF ContextsOf

\* The bounds of a region.
LEMMA RegionIs ==
    ASSUME NEW x \in Seq(Line), NEW y \in Seq(Line), NEW r \in RegionsOf(x, y)
    PROVE  /\ r.aLo \in 0 .. Len(x) /\ r.aHi \in r.aLo .. Len(x)
           /\ r.bLo \in 0 .. Len(y) /\ r.bHi \in r.bLo .. Len(y)
           /\ Len(x) \in Nat /\ Len(y) \in Nat
           /\ r = [aLo |-> r.aLo, aHi |-> r.aHi, bLo |-> r.bLo, bHi |-> r.bHi]
           /\ LineCount(r) = (r.aHi - r.aLo) + (r.bHi - r.bLo)
<1>1. /\ r \in [aLo : 0 .. Len(x), aHi : 0 .. Len(x), bLo : 0 .. Len(y), bHi : 0 .. Len(y)]
      /\ r.aLo <= r.aHi /\ r.bLo <= r.bHi
  BY DEF RegionsOf
<1>2. r.aLo \in 0 .. Len(x) /\ r.aHi \in 0 .. Len(x) /\ r.bLo \in 0 .. Len(y) /\ r.bHi \in 0 .. Len(y)
  BY <1>1
<1> QED
  BY <1>1, <1>2 DEF LineCount

\* Bounds in order make a region.
LEMMA RegionMade ==
    ASSUME NEW x \in Seq(Line), NEW y \in Seq(Line), NEW i \in 0 .. Len(x), NEW p \in i .. Len(x),
           NEW j \in 0 .. Len(y), NEW q \in j .. Len(y)
    PROVE  [aLo |-> i, aHi |-> p, bLo |-> j, bHi |-> q] \in RegionsOf(x, y)
BY DEF RegionsOf

\* The lines left are the same when the marks are.
LEMMA LeftWhere ==
    ASSUME NEW s \in Seq(Line), NEW ch \in Marks(s), NEW dh \in Marks(s), NEW lo \in 0 .. Len(s),
           NEW hi \in lo .. Len(s), \A k \in lo .. hi - 1 : ch[k] = dh[k]
    PROVE  Left(s, ch, lo, hi) = Left(s, dh, lo, hi)
<1> DEFINE n == hi - lo
<1>1. n \in Nat /\ lo + n = hi /\ lo + n <= Len(s)
  OBVIOUS
<1>2. \A k \in 0 .. n - 1 : s[lo + k + 1] = s[lo + k + 1] /\ ch[lo + k] = dh[lo + k]
  <2>1. \A k \in 0 .. n - 1 : lo + k \in lo .. hi - 1
    OBVIOUS
  <2> QED
    BY <2>1
<1> HIDE DEF n
<1>3. Left(s, ch, lo, lo + n) = Left(s, dh, lo, lo + n)
  BY <1>1, <1>2, LeftSame
<1> QED
  BY <1>1, <1>3

\* With all its lines marked nothing is left on both sides.
LEMMA ChangeIs ==
    ASSUME NEW x \in Seq(Line), NEW y \in Seq(Line), NEW c \in ContextsOf(x, y), NEW r \in RegionsOf(x, y)
    PROVE  Change(c, r) \in ContextsOf(x, y) /\ Solved(x, y, c, r, Change(c, r))
<1> DEFINE ma == Marked(c.aChanged, r.aLo, r.aHi)
           mb == Marked(c.bChanged, r.bLo, r.bHi)
           d == Change(c, r)
<1>1. ma \in Marks(x) /\ mb \in Marks(y)
  BY ContextIs DEF Marked, Marks
<1>2. /\ \A k \in 0 .. Len(x) - 1 : IF k \in r.aLo .. r.aHi - 1 THEN ma[k] ELSE ma[k] = c.aChanged[k]
      /\ \A k \in 0 .. Len(y) - 1 : IF k \in r.bLo .. r.bHi - 1 THEN mb[k] ELSE mb[k] = c.bChanged[k]
  <2>1. c.aChanged \in [0 .. Len(x) - 1 -> BOOLEAN] /\ c.bChanged \in [0 .. Len(y) - 1 -> BOOLEAN]
    BY ContextIs DEF Marks
  <2>2. ASSUME NEW k \in 0 .. Len(x) - 1
        PROVE  IF k \in r.aLo .. r.aHi - 1 THEN ma[k] ELSE ma[k] = c.aChanged[k]
    BY <2>1 DEF Marked
  <2>3. ASSUME NEW k \in 0 .. Len(y) - 1
        PROVE  IF k \in r.bLo .. r.bHi - 1 THEN mb[k] ELSE mb[k] = c.bChanged[k]
    BY <2>1 DEF Marked
  <2> QED
    BY <2>2, <2>3
<1>3. d = [c EXCEPT !.aChanged = ma, !.bChanged = mb]
  BY DEF Change
<1> HIDE DEF ma, mb
<1>4. d \in ContextsOf(x, y) /\ d.aChanged = ma /\ d.bChanged = mb
  BY <1>1, <1>3 DEF ContextsOf
<1> HIDE DEF d
<1>5. /\ r.aLo \in 0 .. Len(x) /\ r.aHi \in r.aLo .. Len(x) /\ Len(x) \in Nat
      /\ r.bLo \in 0 .. Len(y) /\ r.bHi \in r.bLo .. Len(y) /\ Len(y) \in Nat
  BY RegionIs
<1>6. Left(x, ma, r.aLo, r.aHi) = <<>>
  <2>1. \A k \in r.aLo .. r.aHi - 1 : k \in 0 .. Len(x) - 1
    BY <1>5
  <2>2. \A k \in r.aLo .. r.aHi - 1 : ma[k]
    BY <1>2, <2>1
  <2> QED
    BY <1>1, <1>5, <2>2, LeftNone
<1>7. Left(y, mb, r.bLo, r.bHi) = <<>>
  <2>1. \A k \in r.bLo .. r.bHi - 1 : k \in 0 .. Len(y) - 1
    BY <1>5
  <2>2. \A k \in r.bLo .. r.bHi - 1 : mb[k]
    BY <1>2, <2>1
  <2> QED
    BY <1>1, <1>5, <2>2, LeftNone
<1>8. Only(c.aChanged, ma, r.aLo, r.aHi, Len(x)) /\ Only(c.bChanged, mb, r.bLo, r.bHi, Len(y))
  BY <1>2 DEF Only
<1> QED
  BY <1>4, <1>6, <1>7, <1>8 DEF d, Solved, Within, Agreed

\* A region is its four bounds, whichever are moved.
LEMMA FourBounds ==
    ASSUME NEW t \in [aLo : Int, aHi : Int, bLo : Int, bHi : Int]
    PROVE  t = [aLo |-> t.aLo, aHi |-> t.aHi, bLo |-> t.bLo, bHi |-> t.bHi]
OBVIOUS

\* A region with another start.
LEMMA StartMoved ==
    ASSUME NEW r \in [aLo : Int, aHi : Int, bLo : Int, bHi : Int], NEW i \in Int, NEW j \in Int
    PROVE  [r EXCEPT !.aLo = i, !.bLo = j] = [aLo |-> i, aHi |-> r.aHi, bLo |-> j, bHi |-> r.bHi]
<1> DEFINE t == [r EXCEPT !.aLo = i, !.bLo = j]
<1>1. t \in [aLo : Int, aHi : Int, bLo : Int, bHi : Int]
  OBVIOUS
<1>2. t.aLo = i /\ t.aHi = r.aHi /\ t.bLo = j /\ t.bHi = r.bHi
  OBVIOUS
<1> HIDE DEF t
<1>3. t = [aLo |-> t.aLo, aHi |-> t.aHi, bLo |-> t.bLo, bHi |-> t.bHi]
  BY <1>1, FourBounds
<1> QED
  BY <1>2, <1>3 DEF t

\* A region with another end.
LEMMA EndMoved ==
    ASSUME NEW r \in [aLo : Int, aHi : Int, bLo : Int, bHi : Int], NEW i \in Int, NEW j \in Int
    PROVE  [r EXCEPT !.aHi = i, !.bHi = j] = [aLo |-> r.aLo, aHi |-> i, bLo |-> r.bLo, bHi |-> j]
<1> DEFINE t == [r EXCEPT !.aHi = i, !.bHi = j]
<1>1. t \in [aLo : Int, aHi : Int, bLo : Int, bHi : Int]
  OBVIOUS
<1>2. t.aLo = r.aLo /\ t.aHi = i /\ t.bLo = r.bLo /\ t.bHi = j
  OBVIOUS
<1> HIDE DEF t
<1>3. t = [aLo |-> t.aLo, aHi |-> t.aHi, bLo |-> t.bLo, bHi |-> t.bHi]
  BY <1>1, FourBounds
<1> QED
  BY <1>2, <1>3 DEF t

\* Without the lines that both sides share at the beginning.
LEMMA AfterPrefixIs ==
    ASSUME NEW x \in Seq(Line), NEW y \in Seq(Line), NEW r \in RegionsOf(x, y), NEW f, f.n \in 0 .. Pairs(r, 0, 0)
    PROVE  /\ AfterPrefix(r, f) = [aLo |-> r.aLo + f.n, aHi |-> r.aHi, bLo |-> r.bLo + f.n, bHi |-> r.bHi]
           /\ AfterPrefix(r, f) \in RegionsOf(x, y)
           /\ r.aLo + f.n <= r.aHi /\ r.bLo + f.n <= r.bHi
<1>1. /\ r.aLo \in 0 .. Len(x) /\ r.aHi \in r.aLo .. Len(x) /\ Len(x) \in Nat
      /\ r.bLo \in 0 .. Len(y) /\ r.bHi \in r.bLo .. Len(y) /\ Len(y) \in Nat
      /\ r = [aLo |-> r.aLo, aHi |-> r.aHi, bLo |-> r.bLo, bHi |-> r.bHi]
  BY RegionIs
<1>2. Pairs(r, 0, 0) \in Nat /\ Pairs(r, 0, 0) <= r.aHi - r.aLo /\ Pairs(r, 0, 0) <= r.bHi - r.bLo
  BY <1>1 DEF Pairs, AtLeast0, Least
<1> DEFINE n == f.n
           i == r.aLo + n
           j == r.bLo + n
<1>3. n \in Nat /\ i \in 0 .. Len(x) /\ r.aHi \in i .. Len(x) /\ j \in 0 .. Len(y) /\ r.bHi \in j .. Len(y)
  BY <1>1, <1>2
<1>4. AfterPrefix(r, f) = [aLo |-> i, aHi |-> r.aHi, bLo |-> j, bHi |-> r.bHi]
  <2>1. r \in [aLo : Int, aHi : Int, bLo : Int, bHi : Int]
    BY DEF RegionsOf
  <2>2. AfterPrefix(r, f) = [r EXCEPT !.aLo = i, !.bLo = j]
    BY DEF AfterPrefix
  <2>3. i \in Int /\ j \in Int
    BY <1>1, <1>3
  <2> HIDE DEF i, j
  <2> QED
    BY <2>1, <2>2, <2>3, StartMoved
<1> HIDE DEF i, j, n
<1>5. [aLo |-> i, aHi |-> r.aHi, bLo |-> j, bHi |-> r.bHi] \in RegionsOf(x, y)
  BY <1>3, RegionMade
<1>6. i <= r.aHi /\ j <= r.bHi
  BY <1>1, <1>3
<1> QED
  BY <1>4, <1>5, <1>6 DEF i, j, n

\* A region without a suffix that is shared.
LEMMA BeforeSuffixIs ==
    ASSUME NEW x \in Seq(Line), NEW y \in Seq(Line), NEW r \in RegionsOf(x, y), NEW g, g.n \in 0 .. Pairs(r, 0, 0)
    PROVE  /\ BeforeSuffix(r, g) = [aLo |-> r.aLo, aHi |-> r.aHi - g.n, bLo |-> r.bLo, bHi |-> r.bHi - g.n]
           /\ BeforeSuffix(r, g) \in RegionsOf(x, y)
           /\ r.aLo <= r.aHi - g.n /\ r.bLo <= r.bHi - g.n
<1>1. /\ r.aLo \in 0 .. Len(x) /\ r.aHi \in r.aLo .. Len(x) /\ Len(x) \in Nat
      /\ r.bLo \in 0 .. Len(y) /\ r.bHi \in r.bLo .. Len(y) /\ Len(y) \in Nat
      /\ r = [aLo |-> r.aLo, aHi |-> r.aHi, bLo |-> r.bLo, bHi |-> r.bHi]
  BY RegionIs
<1>2. Pairs(r, 0, 0) \in Nat /\ Pairs(r, 0, 0) <= r.aHi - r.aLo /\ Pairs(r, 0, 0) <= r.bHi - r.bLo
  BY <1>1 DEF Pairs, AtLeast0, Least
<1> DEFINE n == g.n
           p == r.aHi - n
           q == r.bHi - n
<1>3. n \in Nat /\ p \in r.aLo .. Len(x) /\ q \in r.bLo .. Len(y)
  BY <1>1, <1>2
<1>4. BeforeSuffix(r, g) = [aLo |-> r.aLo, aHi |-> p, bLo |-> r.bLo, bHi |-> q]
  <2>1. r \in [aLo : Int, aHi : Int, bLo : Int, bHi : Int]
    BY DEF RegionsOf
  <2>2. BeforeSuffix(r, g) = [r EXCEPT !.aHi = p, !.bHi = q]
    BY DEF BeforeSuffix
  <2>3. p \in Int /\ q \in Int
    BY <1>1, <1>3
  <2> HIDE DEF p, q
  <2> QED
    BY <2>1, <2>2, <2>3, EndMoved
<1> HIDE DEF p, q, n
<1>5. [aLo |-> r.aLo, aHi |-> p, bLo |-> r.bLo, bHi |-> q] \in RegionsOf(x, y)
  BY <1>1, <1>3, RegionMade
<1>6. r.aLo <= p /\ r.bLo <= q
  BY <1>1, <1>3
<1> QED
  BY <1>4, <1>5, <1>6 DEF p, q, n

\* Lines that are shared and not marked are left on both sides.
LEMMA SharedLeft ==
    ASSUME NEW s \in Seq(Line), NEW ch \in Marks(s), NEW t \in Seq(Line), NEW dh \in Marks(t),
           NEW i \in 0 .. Len(s), NEW j \in 0 .. Len(t), NEW n \in Nat, i + n <= Len(s), j + n <= Len(t),
           Clean(ch, i, i + n), Clean(dh, j, j + n), \A k \in 0 .. n - 1 : s[i + k + 1] = t[j + k + 1]
    PROVE  Left(s, ch, i, i + n) = Left(t, dh, j, j + n)
<1>1. ASSUME NEW k \in 0 .. n - 1 PROVE ch[i + k] = dh[j + k]
  <2>1. i + k \in i .. (i + n) - 1 /\ j + k \in j .. (j + n) - 1 /\ i + k \in 0 .. Len(s) - 1 /\ j + k \in 0 .. Len(t) - 1
    OBVIOUS
  <2>2. ~ch[i + k] /\ ~dh[j + k] /\ ch[i + k] \in BOOLEAN /\ dh[j + k] \in BOOLEAN
    BY <2>1 DEF Clean, Marks
  <2> QED
    BY <2>2
<1> QED
  BY <1>1, LeftSame

\* Lines that are not marked are not afterwards, when others were.
LEMMA CleanKept ==
    ASSUME NEW n \in Nat, NEW lo \in Nat, NEW hi \in Nat, hi <= n, NEW from \in Int, NEW to \in Int,
           hi <= from \/ to <= lo, NEW ch, NEW dh, Clean(ch, lo, hi), Only(ch, dh, from, to, n)
    PROVE  Clean(dh, lo, hi)
<1> SUFFICES ASSUME NEW k \in lo .. hi - 1 PROVE ~dh[k]
  BY DEF Clean
<1>1. k \in 0 .. n - 1 /\ k \notin from .. to - 1
  OBVIOUS
<1>2. dh[k] = ch[k] /\ ~ch[k]
  BY <1>1 DEF Only, Clean
<1> QED
  BY <1>2

\* Some of the lines of a clean region are clean.
LEMMA CleanPart ==
    ASSUME NEW lo \in Int, NEW hi \in Int, NEW from \in Int, NEW to \in Int, lo <= from, to <= hi, NEW ch,
           Clean(ch, lo, hi)
    PROVE  Clean(ch, from, to)
<1>1. from .. to - 1 \subseteq lo .. hi - 1
  OBVIOUS
<1> QED
  BY <1>1 DEF Clean

\* Only lines of the whole are marked where only those of a part are.
LEMMA OnlyWhole ==
    ASSUME NEW lo \in Int, NEW hi \in Int, NEW from \in Int, NEW to \in Int, lo <= from, to <= hi,
           NEW ch, NEW dh, NEW n, Only(ch, dh, from, to, n)
    PROVE  Only(ch, dh, lo, hi, n)
<1>1. from .. to - 1 \subseteq lo .. hi - 1
  OBVIOUS
<1> QED
  BY <1>1 DEF Only

\* What is solved after a shared prefix is solved with it.
LEMMA SolvedWithPrefix ==
    ASSUME NEW x \in Seq(Line), NEW y \in Seq(Line), NEW c \in ContextsOf(x, y), NEW d \in ContextsOf(x, y),
           NEW r \in RegionsOf(x, y), NEW f, f.n \in 0 .. Pairs(r, 0, 0)
    PROVE  /\ Within(x, y, c, AfterPrefix(r, f), d) => Within(x, y, c, r, d)
           /\ Fresh(c, r) => Fresh(c, AfterPrefix(r, f))
           /\ LineCount(AfterPrefix(r, f)) <= LineCount(r)
           /\ /\ Fresh(c, r)
              /\ Solved(x, y, c, AfterPrefix(r, f), d)
              /\ \A k \in 0 .. f.n - 1 : x[r.aLo + k + 1] = y[r.bLo + k + 1]
              => Solved(x, y, c, r, d)
<1> DEFINE n == f.n
           i == r.aLo
           j == r.bLo
           p == r.aHi
           q == r.bHi
           z == AfterPrefix(r, f)
           ca == c.aChanged
           cb == c.bChanged
           da == d.aChanged
           db == d.bChanged
<1>1. /\ i \in 0 .. Len(x) /\ p \in i .. Len(x) /\ Len(x) \in Nat /\ j \in 0 .. Len(y) /\ q \in j .. Len(y)
      /\ Len(y) \in Nat /\ LineCount(r) = (p - i) + (q - j)
  BY RegionIs
<1>2. n \in Nat
  BY PairsAre
<1>3. z.aLo = i + n /\ z.aHi = p /\ z.bLo = j + n /\ z.bHi = q /\ i + n <= p /\ j + n <= q
  BY AfterPrefixIs
<1>4. ca \in Marks(x) /\ cb \in Marks(y) /\ da \in Marks(x) /\ db \in Marks(y)
  BY ContextIs
<1>5. LineCount(z) = (p - (i + n)) + (q - (j + n))
  BY <1>3 DEF LineCount
<1>6. Within(x, y, c, z, d) => Only(ca, da, i + n, p, Len(x)) /\ Only(cb, db, j + n, q, Len(y))
  BY <1>3 DEF Within
<1>7. Fresh(c, r) => Clean(ca, i, p) /\ Clean(cb, j, q)
  BY DEF Fresh
<1>8. Clean(ca, i + n, p) /\ Clean(cb, j + n, q) => Fresh(c, z)
  BY <1>3 DEF Fresh
<1>9. Only(ca, da, i, p, Len(x)) /\ Only(cb, db, j, q, Len(y)) => Within(x, y, c, r, d)
  BY DEF Within
<1>10. Solved(x, y, c, z, d) => Within(x, y, c, z, d) /\ Left(x, da, i + n, p) = Left(y, db, j + n, q)
  BY <1>3 DEF Solved, Agreed
<1>11. Within(x, y, c, r, d) /\ Left(x, da, i, p) = Left(y, db, j, q) => Solved(x, y, c, r, d)
  BY DEF Solved, Agreed
<1>12. (\A k \in 0 .. f.n - 1 : x[r.aLo + k + 1] = y[r.bLo + k + 1]) => \A k \in 0 .. n - 1 : x[i + k + 1] = y[j + k + 1]
  OBVIOUS
<1> HIDE DEF n, i, j, p, q, z, ca, cb, da, db
<1>13. Only(ca, da, i + n, p, Len(x)) => Only(ca, da, i, p, Len(x))
  BY <1>1, <1>2, OnlyWhole
<1>14. Only(cb, db, j + n, q, Len(y)) => Only(cb, db, j, q, Len(y))
  BY <1>1, <1>2, OnlyWhole
<1>15. Clean(ca, i, p) => Clean(ca, i + n, p)
  BY <1>1, <1>2, CleanPart
<1>16. Clean(cb, j, q) => Clean(cb, j + n, q)
  BY <1>1, <1>2, CleanPart
<1>17. ASSUME Clean(ca, i, p), Only(ca, da, i + n, p, Len(x)) PROVE Clean(da, i, i + n)
  <2>1. Clean(ca, i, i + n)
    BY <1>1, <1>2, <1>3, <1>17, CleanPart
  <2>2. i + n \in Nat /\ i + n <= Len(x) /\ i \in Nat /\ p \in Int
    BY <1>1, <1>2, <1>3
  <2> QED
    BY <1>1, <1>17, <2>1, <2>2, CleanKept
<1>18. ASSUME Clean(cb, j, q), Only(cb, db, j + n, q, Len(y)) PROVE Clean(db, j, j + n)
  <2>1. Clean(cb, j, j + n)
    BY <1>1, <1>2, <1>3, <1>18, CleanPart
  <2>2. j + n \in Nat /\ j + n <= Len(y) /\ j \in Nat /\ q \in Int
    BY <1>1, <1>2, <1>3
  <2> QED
    BY <1>1, <1>18, <2>1, <2>2, CleanKept
<1>19. ASSUME Clean(da, i, i + n), Clean(db, j, j + n), Left(x, da, i + n, p) = Left(y, db, j + n, q),
              \A k \in 0 .. n - 1 : x[i + k + 1] = y[j + k + 1]
       PROVE  Left(x, da, i, p) = Left(y, db, j, q)
  <2>1. i + n <= Len(x) /\ j + n <= Len(y) /\ i \in 0 .. Len(x) /\ j \in 0 .. Len(y)
    BY <1>1, <1>2, <1>3
  <2>11. Clean(da, i, i + n) /\ Clean(db, j, j + n) /\ \A k \in 0 .. n - 1 : x[i + k + 1] = y[j + k + 1]
    BY <1>19
  <2>2. Left(x, da, i, i + n) = Left(y, db, j, j + n)
    BY <1>2, <1>4, <2>1, <2>11, SharedLeft
  <2>3. Left(x, da, i, p) = Left(x, da, i, i + n) \o Left(x, da, i + n, p)
    <3>1. i + n \in i .. Len(x) /\ p \in i + n .. Len(x)
      BY <1>1, <1>2, <1>3
    <3> QED
      BY <1>1, <1>4, <3>1, LeftSplit
  <2>4. Left(y, db, j, q) = Left(y, db, j, j + n) \o Left(y, db, j + n, q)
    <3>1. j + n \in j .. Len(y) /\ q \in j + n .. Len(y)
      BY <1>1, <1>2, <1>3
    <3> QED
      BY <1>1, <1>4, <3>1, LeftSplit
  <2> QED
    BY <1>19, <2>2, <2>3, <2>4
<1>20. LineCount(z) <= LineCount(r)
  BY <1>1, <1>2, <1>5
<1>21. /\ Within(x, y, c, z, d) => Within(x, y, c, r, d)
       /\ Fresh(c, r) => Fresh(c, z)
       /\ /\ Fresh(c, r)
          /\ Solved(x, y, c, z, d)
          /\ \A k \in 0 .. n - 1 : x[i + k + 1] = y[j + k + 1]
          => Solved(x, y, c, r, d)
  BY <1>6, <1>7, <1>8, <1>9, <1>10, <1>11, <1>13, <1>14, <1>15, <1>16, <1>17, <1>18, <1>19
<1> QED
  BY <1>20, <1>21, <1>12 DEF z

\* What is solved before a shared suffix is solved with it.
LEMMA SolvedWithSuffix ==
    ASSUME NEW x \in Seq(Line), NEW y \in Seq(Line), NEW c \in ContextsOf(x, y), NEW d \in ContextsOf(x, y),
           NEW r \in RegionsOf(x, y), NEW g, g.n \in 0 .. Pairs(r, 0, 0)
    PROVE  /\ Within(x, y, c, BeforeSuffix(r, g), d) => Within(x, y, c, r, d)
           /\ Fresh(c, r) => Fresh(c, BeforeSuffix(r, g))
           /\ LineCount(BeforeSuffix(r, g)) <= LineCount(r)
           /\ /\ Fresh(c, r)
              /\ Solved(x, y, c, BeforeSuffix(r, g), d)
              /\ \A k \in 0 .. g.n - 1 : x[r.aHi - k] = y[r.bHi - k]
              => Solved(x, y, c, r, d)
<1> DEFINE n == g.n
           i == r.aLo
           j == r.bLo
           p == r.aHi
           q == r.bHi
           z == BeforeSuffix(r, g)
           ca == c.aChanged
           cb == c.bChanged
           da == d.aChanged
           db == d.bChanged
<1>1. /\ i \in 0 .. Len(x) /\ p \in i .. Len(x) /\ Len(x) \in Nat /\ j \in 0 .. Len(y) /\ q \in j .. Len(y)
      /\ Len(y) \in Nat /\ LineCount(r) = (p - i) + (q - j)
  BY RegionIs
<1>2. n \in Nat
  BY PairsAre
<1>3. z.aLo = i /\ z.aHi = p - n /\ z.bLo = j /\ z.bHi = q - n /\ i <= p - n /\ j <= q - n
  BY BeforeSuffixIs
<1>4. ca \in Marks(x) /\ cb \in Marks(y) /\ da \in Marks(x) /\ db \in Marks(y)
  BY ContextIs
<1>5. LineCount(z) = ((p - n) - i) + ((q - n) - j)
  BY <1>3 DEF LineCount
<1>6. Within(x, y, c, z, d) => Only(ca, da, i, p - n, Len(x)) /\ Only(cb, db, j, q - n, Len(y))
  BY <1>3 DEF Within
<1>7. Fresh(c, r) => Clean(ca, i, p) /\ Clean(cb, j, q)
  BY DEF Fresh
<1>8. Clean(ca, i, p - n) /\ Clean(cb, j, q - n) => Fresh(c, z)
  BY <1>3 DEF Fresh
<1>9. Only(ca, da, i, p, Len(x)) /\ Only(cb, db, j, q, Len(y)) => Within(x, y, c, r, d)
  BY DEF Within
<1>10. Solved(x, y, c, z, d) => Within(x, y, c, z, d) /\ Left(x, da, i, p - n) = Left(y, db, j, q - n)
  BY <1>3 DEF Solved, Agreed
<1>11. Within(x, y, c, r, d) /\ Left(x, da, i, p) = Left(y, db, j, q) => Solved(x, y, c, r, d)
  BY DEF Solved, Agreed
<1>12. (\A k \in 0 .. g.n - 1 : x[r.aHi - k] = y[r.bHi - k]) => \A k \in 0 .. n - 1 : x[p - k] = y[q - k]
  OBVIOUS
<1> HIDE DEF n, i, j, p, q, z, ca, cb, da, db
<1>13. Only(ca, da, i, p - n, Len(x)) => Only(ca, da, i, p, Len(x))
  BY <1>1, <1>2, OnlyWhole
<1>14. Only(cb, db, j, q - n, Len(y)) => Only(cb, db, j, q, Len(y))
  BY <1>1, <1>2, OnlyWhole
<1>15. Clean(ca, i, p) => Clean(ca, i, p - n)
  BY <1>1, <1>2, CleanPart
<1>16. Clean(cb, j, q) => Clean(cb, j, q - n)
  BY <1>1, <1>2, CleanPart
<1>17. ASSUME Clean(ca, i, p), Only(ca, da, i, p - n, Len(x)) PROVE Clean(da, p - n, p)
  <2>1. Clean(ca, p - n, p)
    BY <1>1, <1>2, <1>3, <1>17, CleanPart
  <2>2. p - n \in Nat /\ p <= Len(x) /\ i \in Int /\ p \in Nat
    BY <1>1, <1>2, <1>3
  <2> QED
    BY <1>1, <1>17, <2>1, <2>2, CleanKept
<1>18. ASSUME Clean(cb, j, q), Only(cb, db, j, q - n, Len(y)) PROVE Clean(db, q - n, q)
  <2>1. Clean(cb, q - n, q)
    BY <1>1, <1>2, <1>3, <1>18, CleanPart
  <2>2. q - n \in Nat /\ q <= Len(y) /\ j \in Int /\ q \in Nat
    BY <1>1, <1>2, <1>3
  <2> QED
    BY <1>1, <1>18, <2>1, <2>2, CleanKept
<1>19. ASSUME Clean(da, p - n, p), Clean(db, q - n, q), Left(x, da, i, p - n) = Left(y, db, j, q - n),
              \A k \in 0 .. n - 1 : x[p - k] = y[q - k]
       PROVE  Left(x, da, i, p) = Left(y, db, j, q)
  <2> DEFINE u == p - n
             v == q - n
  <2>1. u \in 0 .. Len(x) /\ v \in 0 .. Len(y) /\ u + n = p /\ v + n = q /\ u + n <= Len(x) /\ v + n <= Len(y)
    BY <1>1, <1>2, <1>3
  <2>2. \A k \in 0 .. n - 1 : x[u + k + 1] = y[v + k + 1]
    <3> SUFFICES ASSUME NEW k \in 0 .. n - 1 PROVE x[u + k + 1] = y[v + k + 1]
      OBVIOUS
    <3>1. (n - 1) - k \in 0 .. n - 1 /\ u + k + 1 = p - ((n - 1) - k) /\ v + k + 1 = q - ((n - 1) - k)
      BY <1>1, <1>2
    <3> HIDE DEF u, v
    <3> QED
      BY <1>19, <3>1
  <2>3. u \in i .. Len(x) /\ p \in u .. Len(x) /\ v \in j .. Len(y) /\ q \in v .. Len(y)
    BY <1>1, <1>2, <1>3
  <2>4. Clean(da, u, p) /\ Clean(db, v, q) /\ Left(x, da, i, u) = Left(y, db, j, v)
    BY <1>19
  <2> HIDE DEF u, v
  <2>5. Clean(da, u, u + n) /\ Clean(db, v, v + n)
    BY <2>1, <2>4
  <2>6. Left(x, da, u, u + n) = Left(y, db, v, v + n)
    BY <1>2, <1>4, <2>1, <2>2, <2>5, SharedLeft
  <2>7. Left(x, da, i, p) = Left(x, da, i, u) \o Left(x, da, u, p)
    BY <1>1, <1>4, <2>3, LeftSplit
  <2>8. Left(y, db, j, q) = Left(y, db, j, v) \o Left(y, db, v, q)
    BY <1>1, <1>4, <2>3, LeftSplit
  <2> QED
    BY <2>1, <2>4, <2>6, <2>7, <2>8
<1>20. LineCount(z) <= LineCount(r)
  BY <1>1, <1>2, <1>5
<1>21. /\ Within(x, y, c, z, d) => Within(x, y, c, r, d)
       /\ Fresh(c, r) => Fresh(c, z)
       /\ /\ Fresh(c, r)
          /\ Solved(x, y, c, z, d)
          /\ \A k \in 0 .. n - 1 : x[p - k] = y[q - k]
          => Solved(x, y, c, r, d)
  BY <1>6, <1>7, <1>8, <1>9, <1>10, <1>11, <1>13, <1>14, <1>15, <1>16, <1>17, <1>18, <1>19
<1> QED
  BY <1>20, <1>21, <1>12 DEF z

\* The two parts from lo to mid and from mid to hi, in either order.
Halved(lo, mid, hi, i, j, p, q) ==
    (i = lo /\ j = mid /\ p = mid /\ q = hi) \/ (i = mid /\ j = hi /\ p = lo /\ q = mid)

\* One side of a region in two parts, the one after the other in either order.
LEMMA SideParts ==
    ASSUME NEW s \in Seq(Line), NEW ca \in Marks(s), NEW da \in Marks(s), NEW ea \in Marks(s),
           NEW lo \in 0 .. Len(s), NEW mid \in lo .. Len(s), NEW hi \in mid .. Len(s),
           NEW i, NEW j, NEW p, NEW q, Halved(lo, mid, hi, i, j, p, q),
           Only(ca, da, i, j, Len(s)), Only(da, ea, p, q, Len(s))
    PROVE  /\ Only(ca, ea, lo, hi, Len(s))
           /\ Clean(ca, lo, hi) => Clean(ca, i, j) /\ Clean(da, p, q)
           /\ Left(s, ea, i, j) = Left(s, da, i, j)
           /\ Left(s, ea, lo, hi) = Left(s, ea, lo, mid) \o Left(s, ea, mid, hi)
<1>1. Len(s) \in Nat /\ lo \in Nat /\ mid \in Nat /\ hi \in Nat /\ lo <= mid /\ mid <= hi /\ hi <= Len(s)
  OBVIOUS
<1>2. /\ i \in Nat /\ j \in Nat /\ p \in Nat /\ q \in Nat
      /\ lo <= i /\ i <= j /\ j <= hi /\ lo <= p /\ p <= q /\ q <= hi /\ (q <= i \/ j <= p)
  BY <1>1 DEF Halved
<1>3. Only(ca, ea, lo, hi, Len(s))
  <2> SUFFICES ASSUME NEW k \in 0 .. Len(s) - 1, k \notin lo .. hi - 1 PROVE ea[k] = ca[k]
    BY DEF Only
  <2>1. k \notin i .. j - 1 /\ k \notin p .. q - 1
    BY <1>1, <1>2
  <2> QED
    BY <2>1 DEF Only
<1>4. ASSUME Clean(ca, lo, hi) PROVE Clean(ca, i, j) /\ Clean(da, p, q)
  <2>1. Clean(ca, i, j)
    BY <1>1, <1>2, <1>4, CleanPart
  <2>2. Clean(ca, p, q)
    BY <1>1, <1>2, <1>4, CleanPart
  <2>3. Clean(da, p, q)
    <3>1. q <= Len(s) /\ (q <= i \/ j <= p) /\ i \in Int /\ j \in Int
      BY <1>1, <1>2
    <3> QED
      BY <1>1, <1>2, <2>2, <3>1, CleanKept
  <2> QED
    BY <2>1, <2>3
<1>5. Left(s, ea, i, j) = Left(s, da, i, j)
  <2>1. i \in 0 .. Len(s) /\ j \in i .. Len(s)
    BY <1>1, <1>2
  <2>2. ASSUME NEW k \in i .. j - 1 PROVE ea[k] = da[k]
    <3>1. k \in 0 .. Len(s) - 1 /\ k \notin p .. q - 1
      BY <1>1, <1>2
    <3> QED
      BY <3>1 DEF Only
  <2> QED
    BY <2>1, <2>2, LeftWhere
<1>6. Left(s, ea, lo, hi) = Left(s, ea, lo, mid) \o Left(s, ea, mid, hi)
  BY LeftSplit
<1> QED
  BY <1>3, <1>4, <1>5, <1>6

\* Two parts that meet at a point of a region.
InParts(r, at, p, q) ==
    LET low == [aLo |-> r.aLo, aHi |-> at.a, bLo |-> r.bLo, bHi |-> at.b]
        high == [aLo |-> at.a, aHi |-> r.aHi, bLo |-> at.b, bHi |-> r.bHi]
    IN  (p = low /\ q = high) \/ (p = high /\ q = low)

\* A region is solved when first the one of its parts is and then the other.
LEMMA PartsSolved ==
    ASSUME NEW x \in Seq(Line), NEW y \in Seq(Line), NEW c \in ContextsOf(x, y), NEW d \in ContextsOf(x, y),
           NEW e \in ContextsOf(x, y), NEW r \in RegionsOf(x, y), NEW at, at.a \in r.aLo .. r.aHi,
           at.b \in r.bLo .. r.bHi, NEW p, NEW q, InParts(r, at, p, q),
           Within(x, y, c, p, d), Within(x, y, d, q, e)
    PROVE  /\ Within(x, y, c, r, e)
           /\ Fresh(c, r) => Fresh(c, p) /\ Fresh(d, q)
           /\ Agreed(x, y, p, d) /\ Agreed(x, y, q, e) => Agreed(x, y, r, e)
<1> DEFINE i == r.aLo
           j == r.bLo
           m == at.a
           w == at.b
           h == r.aHi
           l == r.bHi
           ca == c.aChanged
           cb == c.bChanged
           da == d.aChanged
           db == d.bChanged
           ea == e.aChanged
           eb == e.bChanged
<1>1. /\ i \in 0 .. Len(x) /\ m \in i .. Len(x) /\ h \in m .. Len(x)
      /\ j \in 0 .. Len(y) /\ w \in j .. Len(y) /\ l \in w .. Len(y)
  BY RegionIs
<1>2. /\ ca \in Marks(x) /\ cb \in Marks(y) /\ da \in Marks(x) /\ db \in Marks(y)
      /\ ea \in Marks(x) /\ eb \in Marks(y)
  BY ContextIs
<1>3. \/ p.aLo = i /\ p.aHi = m /\ q.aLo = m /\ q.aHi = h /\ p.bLo = j /\ p.bHi = w /\ q.bLo = w /\ q.bHi = l
      \/ p.aLo = m /\ p.aHi = h /\ q.aLo = i /\ q.aHi = m /\ p.bLo = w /\ p.bHi = l /\ q.bLo = j /\ q.bHi = w
  BY DEF InParts
<1>4. /\ Only(ca, da, p.aLo, p.aHi, Len(x)) /\ Only(da, ea, q.aLo, q.aHi, Len(x))
      /\ Only(cb, db, p.bLo, p.bHi, Len(y)) /\ Only(db, eb, q.bLo, q.bHi, Len(y))
  BY DEF Within
<1>5. Only(ca, ea, i, h, Len(x)) /\ Only(cb, eb, j, l, Len(y)) => Within(x, y, c, r, e)
  BY DEF Within
<1>6. Fresh(c, r) => Clean(ca, i, h) /\ Clean(cb, j, l)
  BY DEF Fresh
<1>7. /\ Clean(ca, p.aLo, p.aHi) /\ Clean(cb, p.bLo, p.bHi) => Fresh(c, p)
      /\ Clean(da, q.aLo, q.aHi) /\ Clean(db, q.bLo, q.bHi) => Fresh(d, q)
  BY DEF Fresh
<1>8. /\ Agreed(x, y, p, d) => Left(x, da, p.aLo, p.aHi) = Left(y, db, p.bLo, p.bHi)
      /\ Agreed(x, y, q, e) => Left(x, ea, q.aLo, q.aHi) = Left(y, eb, q.bLo, q.bHi)
      /\ Left(x, ea, i, h) = Left(y, eb, j, l) => Agreed(x, y, r, e)
  BY DEF Agreed
<1> DEFINE pa == p.aLo
           pA == p.aHi
           qa == q.aLo
           qA == q.aHi
           pb == p.bLo
           pB == p.bHi
           qb == q.bLo
           qB == q.bHi
<1> HIDE DEF i, j, m, w, h, l, ca, cb, da, db, ea, eb, pa, pA, qa, qA, pb, pB, qb, qB
<1>9. Halved(i, m, h, pa, pA, qa, qA)
  BY <1>3 DEF pa, pA, qa, qA, Halved
<1>10. Halved(j, w, l, pb, pB, qb, qB)
  BY <1>3 DEF pb, pB, qb, qB, Halved
<1>11. Only(ca, da, pa, pA, Len(x)) /\ Only(da, ea, qa, qA, Len(x))
  BY <1>4 DEF pa, pA, qa, qA
<1>12. Only(cb, db, pb, pB, Len(y)) /\ Only(db, eb, qb, qB, Len(y))
  BY <1>4 DEF pb, pB, qb, qB
<1>13. /\ Only(ca, ea, i, h, Len(x))
       /\ Clean(ca, i, h) => Clean(ca, pa, pA) /\ Clean(da, qa, qA)
       /\ Left(x, ea, pa, pA) = Left(x, da, pa, pA)
       /\ Left(x, ea, i, h) = Left(x, ea, i, m) \o Left(x, ea, m, h)
  BY <1>1, <1>2, <1>9, <1>11, SideParts
<1>14. /\ Only(cb, eb, j, l, Len(y))
       /\ Clean(cb, j, l) => Clean(cb, pb, pB) /\ Clean(db, qb, qB)
       /\ Left(y, eb, pb, pB) = Left(y, db, pb, pB)
       /\ Left(y, eb, j, l) = Left(y, eb, j, w) \o Left(y, eb, w, l)
  BY <1>1, <1>2, <1>10, <1>12, SideParts
<1>15. Fresh(c, r) => Fresh(c, p) /\ Fresh(d, q)
  BY <1>6, <1>7, <1>13, <1>14 DEF pa, pA, qa, qA, pb, pB, qb, qB
<1>16. ASSUME Agreed(x, y, p, d), Agreed(x, y, q, e) PROVE Agreed(x, y, r, e)
  <2>1. Left(x, ea, pa, pA) = Left(y, eb, pb, pB) /\ Left(x, ea, qa, qA) = Left(y, eb, qb, qB)
    BY <1>8, <1>13, <1>14, <1>16 DEF pa, pA, qa, qA, pb, pB, qb, qB
  <2>2. \/ /\ pa = i /\ pA = m /\ qa = m /\ qA = h
           /\ pb = j /\ pB = w /\ qb = w /\ qB = l
        \/ /\ pa = m /\ pA = h /\ qa = i /\ qA = m
           /\ pb = w /\ pB = l /\ qb = j /\ qB = w
    BY <1>3 DEF pa, pA, qa, qA, pb, pB, qb, qB
  <2>3. Left(x, ea, i, m) = Left(y, eb, j, w) /\ Left(x, ea, m, h) = Left(y, eb, w, l)
    BY <2>1, <2>2
  <2> QED
    BY <1>8, <1>13, <1>14, <2>3
<1> QED
  BY <1>5, <1>13, <1>14, <1>15, <1>16

\* What compares regions: it leaves a context of the same texts, and the marks outside
\* the region as they are.
Solvers(x, y) ==
    {g \in [ContextsOf(x, y) \X RegionsOf(x, y) -> ContextsOf(x, y)] :
        \A c \in ContextsOf(x, y), r \in RegionsOf(x, y) : Within(x, y, c, r, g[<<c, r>>])}

\* It solves the regions of up to n lines.
Solving(x, y, g, n) ==
    \A c \in ContextsOf(x, y), r \in RegionsOf(x, y) :
        Fresh(c, r) /\ LineCount(r) <= n => Solved(x, y, c, r, g[<<c, r>>])

\* A region d that is compared well, once all smaller ones are.
Doing(x, y, g, n, c, r, d) ==
    /\ d \in ContextsOf(x, y)
    /\ Within(x, y, c, r, d)
    /\ Solving(x, y, g, n) /\ Fresh(c, r) /\ LineCount(r) <= n + 1 => Solved(x, y, c, r, d)

\* What a solver makes of a region.
LEMMA SolverIs ==
    ASSUME NEW x, NEW y, NEW g \in Solvers(x, y), NEW c \in ContextsOf(x, y), NEW r \in RegionsOf(x, y)
    PROVE  g[<<c, r>>] \in ContextsOf(x, y) /\ Within(x, y, c, r, g[<<c, r>>])
<1> DEFINE C == ContextsOf(x, y)
           R == RegionsOf(x, y)
<1>1. g \in [C \X R -> C] /\ c \in C /\ r \in R
  BY DEF Solvers
<1>2. Within(x, y, c, r, g[<<c, r>>])
  BY DEF Solvers
<1> HIDE DEF C, R
<1>3. g[<<c, r>>] \in C
  BY <1>1
<1> QED
  BY <1>2, <1>3 DEF C

\* Of two parts that meet inside a region each is smaller.
LEMMA SmallerParts ==
    ASSUME NEW i \in Nat, NEW h \in Nat, NEW m \in i .. h, NEW j \in Nat, NEW l \in Nat, NEW w \in j .. l, NEW n \in Nat,
           ~(m = i /\ w = j), ~(m = h /\ w = l), (h - i) + (l - j) <= n + 1
    PROVE  (m - i) + (w - j) <= n /\ (h - m) + (l - w) <= n
OBVIOUS

\* A region is solved in two halves, when they meet inside it.
LEMMA HalvesIs ==
    ASSUME NEW x \in Seq(Line), NEW y \in Seq(Line), NEW g \in Solvers(x, y), NEW n \in Nat,
           NEW c \in ContextsOf(x, y), NEW r \in RegionsOf(x, y), NEW at, at.a \in r.aLo .. r.aHi,
           at.b \in r.bLo .. r.bHi, at = [a |-> at.a, b |-> at.b], at \notin Corners(r)
    PROVE  Doing(x, y, g, n, c, r, Halves(g, c, r, at))
<1> DEFINE low == [r EXCEPT !.aHi = at.a, !.bHi = at.b]
           high == [r EXCEPT !.aLo = at.a, !.bLo = at.b]
           lowFirst == (at.a - r.aLo) + (at.b - r.bLo) <= (r.aHi - at.a) + (r.bHi - at.b)
           p == IF lowFirst THEN low ELSE high
           q == IF lowFirst THEN high ELSE low
           d == g[<<c, p>>]
           e == g[<<d, q>>]
<1>1. /\ r.aLo \in 0 .. Len(x) /\ r.aHi \in r.aLo .. Len(x) /\ Len(x) \in Nat
      /\ r.bLo \in 0 .. Len(y) /\ r.bHi \in r.bLo .. Len(y) /\ Len(y) \in Nat
      /\ LineCount(r) = (r.aHi - r.aLo) + (r.bHi - r.bLo)
  BY RegionIs
<1>2. r \in [aLo : Int, aHi : Int, bLo : Int, bHi : Int]
  BY DEF RegionsOf
<1>3. Halves(g, c, r, at) = e
  BY DEF Halves
<1> DEFINE lo == [aLo |-> r.aLo, aHi |-> at.a, bLo |-> r.bLo, bHi |-> at.b]
           hi == [aLo |-> at.a, aHi |-> r.aHi, bLo |-> at.b, bHi |-> r.bHi]
<1>4. low = lo /\ high = hi
  <2> DEFINE m == at.a
             w == at.b
  <2>1. m \in Int /\ w \in Int
    BY <1>1
  <2> HIDE DEF m, w
  <2>2. [r EXCEPT !.aHi = m, !.bHi = w] = [aLo |-> r.aLo, aHi |-> m, bLo |-> r.bLo, bHi |-> w]
    BY <1>2, <2>1, EndMoved
  <2>3. [r EXCEPT !.aLo = m, !.bLo = w] = [aLo |-> m, aHi |-> r.aHi, bLo |-> w, bHi |-> r.bHi]
    BY <1>2, <2>1, StartMoved
  <2> QED
    BY <2>2, <2>3 DEF m, w
<1>5. lo \in RegionsOf(x, y) /\ hi \in RegionsOf(x, y)
  <2>1. at.a \in r.aLo .. Len(x) /\ at.b \in r.bLo .. Len(y)
    BY <1>1
  <2>2. at.a \in 0 .. Len(x) /\ at.b \in 0 .. Len(y) /\ r.aHi \in at.a .. Len(x) /\ r.bHi \in at.b .. Len(y)
    BY <1>1
  <2> QED
    BY <1>1, <2>1, <2>2, RegionMade
<1>6. LineCount(lo) = (at.a - r.aLo) + (at.b - r.bLo) /\ LineCount(hi) = (r.aHi - at.a) + (r.bHi - at.b)
  BY DEF LineCount
<1>7. LineCount(r) <= n + 1 => LineCount(lo) <= n /\ LineCount(hi) <= n
  <2>1. ~(at.a = r.aLo /\ at.b = r.bLo) /\ ~(at.a = r.aHi /\ at.b = r.bHi)
    BY DEF Corners
  <2> DEFINE m == at.a
             w == at.b
             i == r.aLo
             j == r.bLo
             h == r.aHi
             l == r.bHi
  <2>2. /\ i \in Nat /\ h \in Nat /\ m \in i .. h /\ j \in Nat /\ l \in Nat /\ w \in j .. l
        /\ ~(m = i /\ w = j) /\ ~(m = h /\ w = l)
    BY <1>1, <2>1
  <2>3. LineCount(lo) = (m - i) + (w - j) /\ LineCount(hi) = (h - m) + (l - w) /\ LineCount(r) = (h - i) + (l - j)
    BY <1>1, <1>6
  <2> HIDE DEF m, w, i, j, h, l, lo, hi
  <2>4. (h - i) + (l - j) <= n + 1 => (m - i) + (w - j) <= n /\ (h - m) + (l - w) <= n
    BY <2>2, SmallerParts
  <2> QED
    BY <2>3, <2>4
<1>8. (p = lo /\ q = hi) \/ (p = hi /\ q = lo)
  BY <1>4
<1> HIDE DEF p, q
<1>9. InParts(r, at, p, q)
  BY <1>8 DEF InParts
<1> HIDE DEF lo, hi
<1>10. p \in RegionsOf(x, y) /\ q \in RegionsOf(x, y) /\ (LineCount(r) <= n + 1 => LineCount(p) <= n /\ LineCount(q) <= n)
  BY <1>5, <1>7, <1>8
<1>11. d \in ContextsOf(x, y) /\ Within(x, y, c, p, d)
  BY <1>10, SolverIs
<1> HIDE DEF d
<1>12. e \in ContextsOf(x, y) /\ Within(x, y, d, q, e)
  BY <1>10, <1>11, SolverIs
<1> HIDE DEF e
<1>13. /\ Within(x, y, c, r, e)
       /\ Fresh(c, r) => Fresh(c, p) /\ Fresh(d, q)
       /\ Agreed(x, y, p, d) /\ Agreed(x, y, q, e) => Agreed(x, y, r, e)
  BY <1>9, <1>11, <1>12, PartsSolved
<1>14. ASSUME Solving(x, y, g, n), Fresh(c, r), LineCount(r) <= n + 1 PROVE Solved(x, y, c, r, e)
  <2>1. Solved(x, y, c, p, d)
    BY <1>10, <1>13, <1>14 DEF Solving, d
  <2>2. Solved(x, y, d, q, e)
    BY <1>10, <1>11, <1>13, <1>14 DEF Solving, e
  <2> QED
    BY <1>13, <2>1, <2>2 DEF Solved
<1> QED
  BY <1>3, <1>12, <1>13, <1>14 DEF Doing

\* Only the marks of a context tell.
LEMMA SameMarks ==
    ASSUME NEW x, NEW y, NEW c, NEW b, b.aChanged = c.aChanged, b.bChanged = c.bChanged, NEW r, NEW d
    PROVE  /\ Fresh(b, r) <=> Fresh(c, r)
           /\ Within(x, y, b, r, d) <=> Within(x, y, c, r, d)
           /\ Solved(x, y, b, r, d) <=> Solved(x, y, c, r, d)
BY DEF Fresh, Within, Solved

\* Without a prefix and a suffix a region is all changed, or split.
LEMMA TrimmedIs ==
    ASSUME NEW x \in Seq(Line), NEW y \in Seq(Line), NEW g \in Solvers(x, y), NEW n \in Nat,
           NEW c \in ContextsOf(x, y), NEW r \in RegionsOf(x, y)
    PROVE  Doing(x, y, g, n, c, r, Trimmed(g, c, r))
<1>1. ASSUME NEW b \in ContextsOf(x, y), b.aChanged = c.aChanged, b.bChanged = c.bChanged
      PROVE  Doing(x, y, g, n, c, r, Change(b, r))
  <2>1. Change(b, r) \in ContextsOf(x, y) /\ Solved(x, y, b, r, Change(b, r))
    BY ChangeIs
  <2>2. Solved(x, y, c, r, Change(b, r))
    BY <1>1, <2>1, SameMarks
  <2> QED
    BY <2>1, <2>2 DEF Doing, Solved
<1>2. Doing(x, y, g, n, c, r, Change(c, r))
  BY <1>1
<1> DEFINE s == MyersSplit(c, r)
           b == s.c
           at == s.at
<1>3. /\ b \in ContextsOf(x, y) /\ b.aChanged = c.aChanged /\ b.bChanged = c.bChanged
      /\ at.a \in r.aLo .. r.aHi /\ at.b \in r.bLo .. r.bHi /\ at = [a |-> at.a, b |-> at.b]
  BY MyersSplitIs
<1>4. SplitAlong(g, r, s) = IF at \in Corners(r) THEN Change(b, r) ELSE Halves(g, b, r, at)
  BY DEF SplitAlong
<1> HIDE DEF b, at
<1>5. Doing(x, y, g, n, c, r, SplitAlong(g, r, s))
  <2>1. CASE at \in Corners(r)
    BY <1>1, <1>3, <1>4, <2>1
  <2>2. CASE at \notin Corners(r)
    <3> DEFINE e == Halves(g, b, r, at)
    <3>1. Doing(x, y, g, n, b, r, e)
      BY <1>3, <2>2, HalvesIs
    <3> HIDE DEF e
    <3>2. Doing(x, y, g, n, c, r, e)
      BY <1>3, <3>1, SameMarks DEF Doing
    <3> QED
      BY <1>4, <2>2, <3>2 DEF e
  <2> QED
    BY <2>1, <2>2
<1> HIDE DEF s
<1>6. Trimmed(g, c, r) = IF r.aLo = r.aHi \/ r.bLo = r.bHi \/ c.work = 0 THEN Change(c, r) ELSE SplitAlong(g, r, s)
  BY DEF Trimmed, s
<1> QED
  BY <1>2, <1>5, <1>6

\* A whole region, once all smaller ones are compared well.
LEMMA WholeIs ==
    ASSUME NEW x \in Seq(Line), NEW y \in Seq(Line), NEW g \in Solvers(x, y), NEW n \in Nat,
           NEW c \in ContextsOf(x, y), NEW r \in RegionsOf(x, y)
    PROVE  Doing(x, y, g, n, c, r, Whole(g, c, r))
<1> DEFINE f == Forward(c, r, c.work, 0, 0)
           r1 == AfterPrefix(r, f)
           h == Backward(c, r1, f.work, 0, 0)
           r2 == BeforeSuffix(r1, h)
           b == [c EXCEPT !.work = h.work]
           d == Trimmed(g, b, r2)
<1>0. Whole(g, c, r) = d
  BY DEF Whole, WithoutPrefix, WithoutSuffix
<1>1. c.work \in Nat /\ 0 \in Int
  BY ContextIs
<1>2. /\ f.n \in 0 .. Pairs(r, 0, 0) /\ f.work \in Nat
      /\ \A k \in 0 .. f.n - 1 : x[r.aLo + 0 + k + 1] = y[r.bLo + 0 + k + 1]
  <2> DEFINE z == 0
  <2>1. z \in Int
    OBVIOUS
  <2> HIDE DEF z
  <2>2. /\ Forward(c, r, c.work, z, z).n \in 0 .. Pairs(r, z, z)
        /\ Forward(c, r, c.work, z, z).work \in Nat
        /\ \A k \in 0 .. Forward(c, r, c.work, z, z).n - 1 : x[r.aLo + z + k + 1] = y[r.bLo + z + k + 1]
    BY <1>1, <2>1, ForwardIs
  <2> QED
    BY <2>2 DEF z
<1> HIDE DEF f
<1>3. r1 \in RegionsOf(x, y)
  BY <1>2, AfterPrefixIs
<1>4. \A k \in 0 .. f.n - 1 : x[r.aLo + k + 1] = y[r.bLo + k + 1]
  <2>1. r.aLo \in Nat /\ r.bLo \in Nat
    BY RegionIs
  <2>2. r.aLo + 0 = r.aLo /\ r.bLo + 0 = r.bLo
    BY <2>1
  <2> QED
    BY <1>2, <2>2
<1> HIDE DEF r1
<1>5. /\ h.n \in 0 .. Pairs(r1, 0, 0) /\ h.work \in Nat
      /\ \A k \in 0 .. h.n - 1 : x[r1.aHi - 0 - k] = y[r1.bHi - 0 - k]
  <2> DEFINE z == 0
  <2>1. z \in Int
    OBVIOUS
  <2> HIDE DEF z
  <2>2. /\ Backward(c, r1, f.work, z, z).n \in 0 .. Pairs(r1, z, z)
        /\ Backward(c, r1, f.work, z, z).work \in Nat
        /\ \A k \in 0 .. Backward(c, r1, f.work, z, z).n - 1 : x[r1.aHi - z - k] = y[r1.bHi - z - k]
    BY <1>2, <1>3, <2>1, BackwardIs
  <2> QED
    BY <2>2 DEF z
<1> HIDE DEF h
<1>6. r2 \in RegionsOf(x, y)
  BY <1>3, <1>5, BeforeSuffixIs
<1>7. \A k \in 0 .. h.n - 1 : x[r1.aHi - k] = y[r1.bHi - k]
  <2>1. r1.aHi \in Nat /\ r1.bHi \in Nat
    BY <1>3, RegionIs
  <2>2. r1.aHi - 0 = r1.aHi /\ r1.bHi - 0 = r1.bHi
    BY <2>1
  <2> QED
    BY <1>5, <2>2
<1>8. b \in ContextsOf(x, y) /\ b.aChanged = c.aChanged /\ b.bChanged = c.bChanged
  BY <1>5 DEF ContextsOf
<1> HIDE DEF b, r2
<1>9. Doing(x, y, g, n, b, r2, d)
  BY <1>6, <1>8, TrimmedIs
<1> HIDE DEF d
<1>10. d \in ContextsOf(x, y) /\ Within(x, y, c, r2, d)
  BY <1>8, <1>9, SameMarks DEF Doing
<1>11. Solving(x, y, g, n) /\ Fresh(c, r2) /\ LineCount(r2) <= n + 1 => Solved(x, y, c, r2, d)
  BY <1>8, <1>9, SameMarks DEF Doing
<1>12. /\ Within(x, y, c, r2, d) => Within(x, y, c, r1, d)
       /\ Fresh(c, r1) => Fresh(c, r2)
       /\ LineCount(r2) <= LineCount(r1)
       /\ Fresh(c, r1) /\ Solved(x, y, c, r2, d) => Solved(x, y, c, r1, d)
  BY <1>3, <1>5, <1>7, <1>10, SolvedWithSuffix DEF r2
<1>13. /\ Within(x, y, c, r1, d) => Within(x, y, c, r, d)
       /\ Fresh(c, r) => Fresh(c, r1)
       /\ LineCount(r1) <= LineCount(r)
       /\ Fresh(c, r) /\ Solved(x, y, c, r1, d) => Solved(x, y, c, r, d)
  BY <1>2, <1>4, <1>10, SolvedWithPrefix DEF r1
<1>14. LineCount(r) <= n + 1 => LineCount(r2) <= n + 1
  <2>1. LineCount(r) \in Int /\ LineCount(r1) \in Int /\ LineCount(r2) \in Int
    <3>1. ASSUME NEW z \in RegionsOf(x, y) PROVE LineCount(z) \in Int
      <4>1. z.aLo \in Int /\ z.aHi \in Int /\ z.bLo \in Int /\ z.bHi \in Int /\ LineCount(z) = (z.aHi - z.aLo) + (z.bHi - z.bLo)
        BY RegionIs
      <4> QED
        BY <4>1
    <3> QED
      BY <1>3, <1>6, <3>1
  <2> QED
    BY <1>12, <1>13, <2>1
<1>15. Doing(x, y, g, n, c, r, d)
  BY <1>10, <1>11, <1>12, <1>13, <1>14 DEF Doing
<1> QED
  BY <1>0, <1>15

\* One depth more.
LEMMA DeeperIs ==
    ASSUME NEW x \in Seq(Line), NEW y \in Seq(Line), NEW g \in Solvers(x, y), NEW c \in ContextsOf(x, y)
    PROVE  /\ Deeper(g, c) \in Solvers(x, y)
           /\ \A n \in Nat : Solving(x, y, g, n) => Solving(x, y, Deeper(g, c), n + 1)
<1> DEFINE C == ContextsOf(x, y)
           R == RegionsOf(x, y)
           D == Deeper(g, c)
<1>1. D = [of \in C \X R |-> Whole(g, of[1], of[2])]
  <2>1. Len(x) \in Nat /\ Len(y) \in Nat
    OBVIOUS
  <2>2. Contexts(c) = C /\ Regions(c) = R
    BY <2>1, ContextsAre
  <2> QED
    BY <2>2 DEF Deeper
<1>2. ASSUME NEW e \in C, NEW r \in R PROVE \A n \in Nat : Doing(x, y, g, n, e, r, Whole(g, e, r))
  BY WholeIs
<1> HIDE DEF C, R, D
<1>3. \A e \in C, r \in R : D[<<e, r>>] = Whole(g, e, r)
  BY <1>1
<1>4. \A e \in C, r \in R : Whole(g, e, r) \in C /\ Within(x, y, e, r, Whole(g, e, r))
  BY <1>2 DEF Doing, C
<1>5. D \in [C \X R -> C]
  BY <1>1, <1>4
<1>6. D \in Solvers(x, y)
  BY <1>3, <1>4, <1>5 DEF Solvers, C, R
<1>7. ASSUME NEW n \in Nat, Solving(x, y, g, n) PROVE Solving(x, y, D, n + 1)
  BY <1>2, <1>3, <1>7 DEF Solving, Doing, C, R
<1> QED
  BY <1>6, <1>7 DEF D

\* At no depth there is nothing to solve.
LEMMA AsIsIs ==
    ASSUME NEW x \in Seq(Line), NEW y \in Seq(Line), NEW c \in ContextsOf(x, y)
    PROVE  AsIs(c) \in Solvers(x, y) /\ Solving(x, y, AsIs(c), 0)
<1> DEFINE C == ContextsOf(x, y)
           R == RegionsOf(x, y)
           D == AsIs(c)
<1>1. D = [of \in C \X R |-> of[1]]
  <2>1. Len(x) \in Nat /\ Len(y) \in Nat
    OBVIOUS
  <2>2. Contexts(c) = C /\ Regions(c) = R
    BY <2>1, ContextsAre
  <2> QED
    BY <2>2 DEF AsIs
<1>2. ASSUME NEW e \in C, NEW r \in R PROVE Within(x, y, e, r, e)
  BY DEF Within, Only
<1>3. ASSUME NEW e \in C, NEW r \in R, LineCount(r) <= 0 PROVE Agreed(x, y, r, e)
  <2>1. /\ r.aLo \in 0 .. Len(x) /\ r.aHi \in r.aLo .. Len(x)
        /\ r.bLo \in 0 .. Len(y) /\ r.bHi \in r.bLo .. Len(y)
        /\ LineCount(r) = (r.aHi - r.aLo) + (r.bHi - r.bLo)
    BY RegionIs
  <2>2. r.aHi = r.aLo /\ r.bHi = r.bLo
    BY <1>3, <2>1
  <2>3. e.aChanged \in Marks(x) /\ e.bChanged \in Marks(y)
    BY ContextIs
  <2>4. Left(x, e.aChanged, r.aLo, r.aLo) = <<>>
    BY <2>1, <2>3, LeftNext
  <2>5. Left(y, e.bChanged, r.bLo, r.bLo) = <<>>
    BY <2>1, <2>3, LeftNext
  <2> QED
    BY <2>2, <2>4, <2>5 DEF Agreed
<1> HIDE DEF C, R, D
<1>4. \A e \in C, r \in R : D[<<e, r>>] = e
  BY <1>1
<1>5. D \in [C \X R -> C]
  BY <1>1
<1>6. D \in Solvers(x, y)
  BY <1>2, <1>4, <1>5 DEF Solvers, C, R
<1>7. Solving(x, y, D, 0)
  BY <1>2, <1>3, <1>4 DEF Solving, Solved, C, R
<1> QED
  BY <1>6, <1>7 DEF D

\* A region that is not marked yet is marked so that both sides are left with the same lines.
THEOREM RegionIsSolved ==
    ASSUME NEW x \in Seq(Line), NEW y \in Seq(Line), NEW c \in ContextsOf(x, y), NEW r \in RegionsOf(x, y),
           Fresh(c, r)
    PROVE  Region(c, r) \in ContextsOf(x, y) /\ Solved(x, y, c, r, Region(c, r))
<1> DEFINE A == Solvers(x, y)
           N == LineCount(r)
<1>1. N \in Nat
  <2>1. /\ r.aLo \in 0 .. Len(x) /\ r.aHi \in r.aLo .. Len(x)
        /\ r.bLo \in 0 .. Len(y) /\ r.bHi \in r.bLo .. Len(y)
        /\ LineCount(r) = (r.aHi - r.aLo) + (r.bHi - r.bLo)
    BY RegionIs
  <2> QED
    BY <2>1
<1>2. AsIs(c) \in A /\ \A t \in A, n \in 0 .. LineCount(r) - 1 : Deeper(t, c) \in A
  BY AsIsIs, DeeperIs
<1> HIDE DEF A
<1>3. PICK f : RegionTurns(c, r, A, f)
  BY <1>1, <1>2, RegionLoop
<1>4. /\ Region(c, r) = f[N][<<c, r>>]
      /\ f \in [0 .. N -> A] /\ f[0] = AsIs(c)
      /\ \A n \in 0 .. N - 1 : f[n + 1] = Deeper(f[n], c)
  BY <1>3 DEF RegionTurns
<1> HIDE DEF N
<1> DEFINE S == {n \in Nat : n <= N => Solving(x, y, f[n], n)}
<1>5. 0 \in S
  BY <1>4, AsIsIs
<1>6. ASSUME NEW n \in Nat, n \in S PROVE n + 1 \in S
  <2> SUFFICES ASSUME n + 1 <= N PROVE Solving(x, y, f[n + 1], n + 1)
    OBVIOUS
  <2>1. n \in 0 .. N - 1 /\ n \in 0 .. N /\ n <= N
    BY <1>1
  <2>2. f[n] \in Solvers(x, y) /\ Solving(x, y, f[n], n) /\ f[n + 1] = Deeper(f[n], c)
    BY <1>4, <1>6, <2>1 DEF A
  <2> QED
    BY <2>2, DeeperIs
<1> HIDE DEF S
<1>7. N \in S
  BY <1>1, <1>5, <1>6, NatSetInduction
<1>8. f[N] \in Solvers(x, y) /\ Solving(x, y, f[N], N)
  <2>1. N \in 0 .. N
    BY <1>1
  <2> QED
    BY <1>1, <1>4, <1>7, <2>1 DEF S, A
<1>9. Solved(x, y, c, r, f[N][<<c, r>>])
  <2>1. LineCount(r) <= N
    BY <1>1 DEF N
  <2> QED
    BY <1>8, <2>1 DEF Solving
<1> QED
  BY <1>4, <1>8, <1>9, SolverIs

-----------------------------------------------------------------------------
(* Runs of changes are slid *)

\* A run that is a line further, over a line that equals the one it leaves, leaves the same lines.
LEMMA RunShifted ==
    ASSUME NEW s \in Seq(Line), NEW p \in Marks(s), NEW q \in Marks(s), NEW run \in Nat,
           NEW to \in Nat, to + run + 1 <= Len(s), s[to + 1] = s[to + run + 1],
           \A i \in to .. to + run - 1 : p[i], ~p[to + run],
           \A i \in to + 1 .. to + run : q[i], ~q[to],
           \A i \in 0 .. Len(s) - 1 : i \notin to .. to + run => p[i] = q[i]
    PROVE  Left(s, p, 0, Len(s)) = Left(s, q, 0, Len(s))
<1> DEFINE L == Len(s)
           m == to + run
           e == m + 1
<1>1. /\ L \in Nat /\ m \in Nat /\ e \in Nat /\ to \in 0 .. L /\ m \in to .. L /\ e \in to .. L /\ to + 1 \in 0 .. L
      /\ e \in 0 .. L /\ L \in e .. L /\ L \in to .. L /\ e \in to + 1 .. L /\ m < L /\ to < e
  OBVIOUS
<1>2. Left(s, p, 0, to) = Left(s, q, 0, to)
  <2>1. \A k \in 0 .. to - 1 : p[k] = q[k]
    <3>1. \A k \in 0 .. to - 1 : k \in 0 .. Len(s) - 1 /\ k \notin to .. to + run
      BY <1>1
    <3> QED
      BY <3>1
  <2>2. 0 \in 0 .. Len(s) /\ to \in 0 .. Len(s)
    BY <1>1
  <2> QED
    BY <2>1, <2>2, LeftWhere
<1>3. Left(s, p, e, L) = Left(s, q, e, L)
  <2>1. \A k \in e .. L - 1 : p[k] = q[k]
    <3>1. \A k \in e .. L - 1 : k \in 0 .. Len(s) - 1 /\ k \notin to .. to + run
      BY <1>1
    <3> QED
      BY <3>1
  <2> HIDE DEF e
  <2> QED
    BY <1>1, <2>1, LeftWhere
<1>4. Left(s, p, to, e) = <<s[m + 1]>>
  <2>1. \A k \in to .. m - 1 : p[k]
    OBVIOUS
  <2>2. ~p[m]
    OBVIOUS
  <2> HIDE DEF m
  <2>3. Left(s, p, to, m) = <<>>
    BY <1>1, <2>1, LeftNone
  <2>4. Left(s, p, to, m + 1) = Append(Left(s, p, to, m), s[m + 1])
    BY <1>1, <2>2, LeftNext
  <2> QED
    BY <2>3, <2>4
<1>5. Left(s, q, to, e) = <<s[to + 1]>>
  <2> DEFINE n == to + 1
  <2>1. \A k \in n .. e - 1 : q[k]
    BY <1>1
  <2> HIDE DEF m, e
  <2>2. Left(s, q, n, e) = <<>>
    <3> HIDE DEF n
    <3>1. n \in 0 .. Len(s) /\ e \in n .. Len(s)
      BY <1>1 DEF n
    <3> QED
      BY <2>1, <3>1, LeftNone
  <2>3. Left(s, q, to, e) = <<s[to + 1]>> \o Left(s, q, to + 1, e)
    BY <1>1, LeftFirst
  <2>4. <<s[to + 1]>> \in Seq(Line)
    <3>1. s[to + 1] \in Line
      <4>1. to + 1 \in 1 .. Len(s)
        BY <1>1
      <4> QED
        BY <4>1
    <3> HIDE DEF n
    <3> QED
      BY <3>1
  <2>5. <<s[to + 1]>> \o <<>> = <<s[to + 1]>>
    BY <2>4, ConcatEmptySeq
  <2> QED
    BY <2>2, <2>3, <2>5
<1> HIDE DEF L, m, e
<1>6. ASSUME NEW ch \in Marks(s) PROVE Left(s, ch, 0, L) = (Left(s, ch, 0, to) \o Left(s, ch, to, e)) \o Left(s, ch, e, L)
  <2> DEFINE z == 0
  <2>1. z \in 0 .. Len(s) /\ to \in z .. Len(s) /\ e \in to .. Len(s) /\ e \in z .. Len(s) /\ L \in e .. Len(s)
    BY <1>1 DEF L
  <2> HIDE DEF z
  <2>2. Left(s, ch, z, e) = Left(s, ch, z, to) \o Left(s, ch, to, e)
    BY <2>1, LeftSplit
  <2>3. Left(s, ch, z, L) = Left(s, ch, z, e) \o Left(s, ch, e, L)
    BY <2>1, LeftSplit
  <2> QED
    BY <2>2, <2>3 DEF z
<1>7. s[m + 1] = s[to + 1]
  BY DEF m
<1> QED
  BY <1>2, <1>3, <1>4, <1>5, <1>6, <1>7 DEF L

\* The places to which a run can be slid.
Slidable(s, ch, scan, run, lo, hi) ==
    /\ \A i \in scan .. hi - 1 : ~ch[i + run] /\ s[i + 1] = s[i + run + 1]
    /\ \A i \in lo .. scan - 1 : ~ch[i] /\ s[i + 1] = s[i + run + 1]

\* The marks when a run is slid.
LEMMA MovedIs ==
    ASSUME NEW s \in Seq(Line), NEW ch \in Marks(s), NEW scan \in Nat, NEW run \in Nat, NEW to \in Nat
    PROVE  /\ Moved(ch, scan, run, to) \in Marks(s)
           /\ \A i \in 0 .. Len(s) - 1 :
                  Moved(ch, scan, run, to)[i] <=>
                      (i \in to .. to + run - 1 \/ (i \notin scan .. scan + run - 1 /\ ch[i]))
<1>1. ch \in [0 .. Len(s) - 1 -> BOOLEAN]
  BY DEF Marks
<1> DEFINE d == [i \in 0 .. Len(s) - 1 |-> ch[i] /\ i \notin scan .. scan + run - 1]
           e == [i \in 0 .. Len(s) - 1 |-> d[i] \/ i \in to .. to + run - 1]
<1>2. Moved(ch, scan, run, to) = e
  BY <1>1 DEF Moved, Marked
<1>3. e \in [0 .. Len(s) - 1 -> BOOLEAN]
  OBVIOUS
<1>4. ASSUME NEW i \in 0 .. Len(s) - 1
      PROVE  e[i] <=> (i \in to .. to + run - 1 \/ (i \notin scan .. scan + run - 1 /\ ch[i]))
  <2>1. (e[i] <=> (d[i] \/ i \in to .. to + run - 1)) /\ (d[i] <=> (ch[i] /\ i \notin scan .. scan + run - 1))
    OBVIOUS
  <2> HIDE DEF d, e
  <2> QED
    BY <2>1
<1> QED
  BY <1>2, <1>3, <1>4 DEF Marks

\* From one of these places to the next the same lines are left.
LEMMA MovedOn ==
    ASSUME NEW s \in Seq(Line), NEW ch \in Marks(s), NEW scan \in Nat, NEW run \in Nat, run > 0,
           NEW lo \in 0 .. scan, NEW hi \in scan .. Len(s) - run, Slidable(s, ch, scan, run, lo, hi),
           NEW to \in lo .. hi - 1
    PROVE  Left(s, Moved(ch, scan, run, to), 0, Len(s)) = Left(s, Moved(ch, scan, run, to + 1), 0, Len(s))
<1> DEFINE p == Moved(ch, scan, run, to)
           q == Moved(ch, scan, run, to + 1)
           L == Len(s)
<1>1. L \in Nat /\ to \in Nat /\ to + 1 \in Nat /\ to + run + 1 <= L /\ lo \in Nat /\ hi \in Nat
  OBVIOUS
<1>2. p \in Marks(s) /\ \A i \in 0 .. L - 1 : p[i] <=> (i \in to .. to + run - 1 \/ (i \notin scan .. scan + run - 1 /\ ch[i]))
  BY <1>1, MovedIs
<1>3. q \in Marks(s) /\ \A i \in 0 .. L - 1 : q[i] <=> (i \in to + 1 .. to + 1 + run - 1 \/ (i \notin scan .. scan + run - 1 /\ ch[i]))
  <2> DEFINE w == to + 1
  <2>1. w \in Nat
    BY <1>1
  <2> HIDE DEF w
  <2>2. /\ Moved(ch, scan, run, w) \in Marks(s)
        /\ \A i \in 0 .. Len(s) - 1 :
               Moved(ch, scan, run, w)[i] <=> (i \in w .. w + run - 1 \/ (i \notin scan .. scan + run - 1 /\ ch[i]))
    BY <2>1, MovedIs
  <2> QED
    BY <2>2 DEF w
<1>4. s[to + 1] = s[to + run + 1]
  <2>1. to \in scan .. hi - 1 \/ to \in lo .. scan - 1
    BY <1>1
  <2> QED
    BY <2>1 DEF Slidable
<1>5. to + run \in scan .. scan + run - 1 \/ ~ch[to + run]
  <2>1. CASE to >= scan
    BY <1>1, <2>1 DEF Slidable
  <2>2. CASE to < scan /\ to + run < scan
    <3>1. to + run \in lo .. scan - 1
      BY <1>1, <2>2
    <3> QED
      BY <3>1 DEF Slidable
  <2> QED
    BY <1>1, <2>1, <2>2
<1>6. to \in scan .. scan + run - 1 \/ ~ch[to]
  <2>1. CASE to < scan
    BY <1>1, <2>1 DEF Slidable
  <2>2. CASE to >= scan + run
    <3> DEFINE i == to - run
    <3>1. i \in scan .. hi - 1 /\ i + run = to
      BY <1>1, <2>2
    <3>2. ~ch[i + run]
      BY <3>1 DEF Slidable
    <3> QED
      BY <3>1, <3>2
  <2> QED
    BY <1>1, <2>1, <2>2
<1> HIDE DEF p, q
<1>7. (\A i \in to .. to + run - 1 : p[i]) /\ ~p[to + run]
  <2>1. ASSUME NEW i \in to .. to + run - 1 PROVE p[i]
    <3>1. i \in 0 .. L - 1
      BY <1>1
    <3> QED
      BY <1>2, <3>1
  <2>2. to + run \in 0 .. L - 1 /\ to + run \notin to .. to + run - 1
    BY <1>1
  <2> QED
    BY <1>2, <1>5, <2>1, <2>2
<1>8. (\A i \in to + 1 .. to + run : q[i]) /\ ~q[to]
  <2>1. ASSUME NEW i \in to + 1 .. to + run PROVE q[i]
    <3>1. i \in 0 .. L - 1 /\ i \in to + 1 .. to + 1 + run - 1
      BY <1>1
    <3> QED
      BY <1>3, <3>1
  <2>2. to \in 0 .. L - 1 /\ to \notin to + 1 .. to + 1 + run - 1
    BY <1>1
  <2> QED
    BY <1>3, <1>6, <2>1, <2>2
<1>9. ASSUME NEW i \in 0 .. L - 1, i \notin to .. to + run PROVE p[i] = q[i]
  <2>1. i \notin to .. to + run - 1 /\ i \notin to + 1 .. to + 1 + run - 1
    BY <1>1, <1>9
  <2>2. p[i] \in BOOLEAN /\ q[i] \in BOOLEAN
    BY <1>2, <1>3 DEF Marks
  <2>3. p[i] <=> q[i]
    BY <1>2, <1>3, <2>1
  <2> QED
    BY <2>2, <2>3
<1>10. Left(s, p, 0, Len(s)) = Left(s, q, 0, Len(s))
  BY <1>1, <1>2, <1>3, <1>4, <1>7, <1>8, <1>9, RunShifted
<1> QED
  BY <1>10 DEF p, q

\* Wherever a run is slid.
LEMMA MovedAnywhere ==
    ASSUME NEW s \in Seq(Line), NEW ch \in Marks(s), NEW scan \in Nat, NEW run \in Nat, run > 0,
           NEW lo \in 0 .. scan, NEW hi \in scan .. Len(s) - run, Slidable(s, ch, scan, run, lo, hi),
           \A i \in scan .. scan + run - 1 : ch[i],
           NEW to \in lo .. hi
    PROVE  Left(s, Moved(ch, scan, run, to), 0, Len(s)) = Left(s, ch, 0, Len(s))
<1> DEFINE N(k) == Left(s, Moved(ch, scan, run, k), 0, Len(s))
           S == {k \in Nat : lo + k <= hi => N(lo + k) = N(lo)}
<1>1. lo \in Nat /\ hi \in Nat
  OBVIOUS
<1>2. 0 \in S
  BY <1>1
<1>3. ASSUME NEW k \in Nat, k \in S PROVE k + 1 \in S
  <2> SUFFICES ASSUME lo + (k + 1) <= hi PROVE N(lo + (k + 1)) = N(lo)
    OBVIOUS
  <2> DEFINE at == lo + k
  <2>1. at \in lo .. hi - 1 /\ lo + (k + 1) = at + 1 /\ lo + k <= hi
    BY <1>1
  <2>2. N(at) = N(lo)
    BY <1>3, <2>1
  <2> HIDE DEF at
  <2>3. N(at) = N(at + 1)
    BY <2>1, MovedOn
  <2> QED
    BY <2>1, <2>2, <2>3
<1>4. \A k \in lo .. hi : N(k) = N(lo)
  <2> HIDE DEF S
  <2>1. Nat \subseteq S
    BY <1>2, <1>3, NatSetInduction
  <2>2. ASSUME NEW k \in lo .. hi PROVE N(k) = N(lo)
    <3>1. k - lo \in S /\ lo + (k - lo) = k /\ lo + (k - lo) <= hi
      BY <1>1, <2>1
    <3> HIDE DEF N
    <3> QED
      BY <3>1 DEF S
  <2> QED
    BY <2>2
<1>5. Left(s, Moved(ch, scan, run, scan), 0, Len(s)) = Left(s, ch, 0, Len(s))
  <2> DEFINE d == Moved(ch, scan, run, scan)
  <2>1. d \in Marks(s) /\ \A i \in 0 .. Len(s) - 1 : d[i] <=> (i \in scan .. scan + run - 1 \/ (i \notin scan .. scan + run - 1 /\ ch[i]))
    BY MovedIs
  <2> HIDE DEF d
  <2>2. ch \in [0 .. Len(s) - 1 -> BOOLEAN]
    BY DEF Marks
  <2>3. ASSUME NEW i \in 0 .. Len(s) - 1 PROVE d[i] = ch[i]
    <3>1. d[i] \in BOOLEAN /\ ch[i] \in BOOLEAN
      BY <2>1, <2>2 DEF Marks
    <3>2. d[i] <=> ch[i]
      BY <2>1
    <3> QED
      BY <3>1, <3>2
  <2>4. 0 \in 0 .. Len(s) /\ Len(s) \in 0 .. Len(s)
    OBVIOUS
  <2>5. Left(s, d, 0, Len(s)) = Left(s, ch, 0, Len(s))
    BY <2>1, <2>3, <2>4, LeftWhere
  <2> QED
    BY <2>5 DEF d
<1>6. scan \in lo .. hi
  OBVIOUS
<1> QED
  BY <1>4, <1>5, <1>6

\* There is a best place for a run.
LEMMA BestIs ==
    ASSUME NEW s, NEW run, NEW lo \in Int, NEW hi \in Int, lo <= hi
    PROVE  Best(s, run, lo .. hi) \in lo .. hi
<1> DEFINE V == {RunScore(s, p, p + run) : p \in lo .. hi}
           W == {p \in lo .. hi : \A q \in lo .. hi : RunScore(s, q, q + run) <= RunScore(s, p, p + run)}
           none == 0
           most == 3
<1>1. \A p \in lo .. hi : RunScore(s, p, p + run) \in none .. most
  BY DEF RunScore
<1>2. V \in SUBSET (none .. most) /\ V # {} /\ none \in Int /\ most \in Int
  <2>1. lo \in lo .. hi
    OBVIOUS
  <2> QED
    BY <1>1, <2>1
<1>3. Largest(V) \in V /\ \A v \in V : v <= Largest(V)
  <2> HIDE DEF V, none, most
  <2> QED
    BY <1>2, LargestIs
<1>4. W # {}
  <2> DEFINE v == Largest(V)
  <2>1. v \in V /\ \A u \in V : u <= v
    BY <1>3
  <2> HIDE DEF v
  <2>2. PICK p \in lo .. hi : v = RunScore(s, p, p + run)
    BY <2>1
  <2>3. \A q \in lo .. hi : RunScore(s, q, q + run) <= RunScore(s, p, p + run)
    BY <2>1, <2>2
  <2> QED
    BY <2>3
<1>5. W \in SUBSET (lo .. hi)
  OBVIOUS
<1>6. Largest(W) \in W
  <2> HIDE DEF W
  <2> QED
    BY <1>4, <1>5, LargestIs
<1> QED
  BY <1>6 DEF Best

\* How far a run can be slid.
LEMMA SlidableIs ==
    ASSUME NEW s \in Seq(Line), NEW ch \in Marks(s), NEW scan \in Nat, NEW run \in Nat, scan + run <= Len(s)
    PROVE  /\ Highest(s, ch, scan, run) \in 0 .. scan
           /\ Lowest(s, ch, scan, run) \in scan .. Len(s) - run
           /\ Slidable(s, ch, scan, run, Highest(s, ch, scan, run), Lowest(s, ch, scan, run))
<1> DEFINE U == {hi \in scan .. Len(s) - run : \A i \in scan .. hi - 1 : ~ch[i + run] /\ s[i + 1] = s[i + run + 1]}
           D == {lo \in 0 .. scan : \A i \in lo .. scan - 1 : ~ch[i] /\ s[i + 1] = s[i + run + 1]}
           z == 0
           m == Len(s) - run
<1>1. Len(s) \in Nat /\ m \in Int /\ z \in Int /\ scan \in Int
  OBVIOUS
<1>2. scan \in U /\ scan \in D
  BY <1>1
<1>3. U \in SUBSET (scan .. m) /\ U # {} /\ D \in SUBSET (z .. scan) /\ D # {}
  BY <1>2
<1>4. Largest(U) \in U
  <2> HIDE DEF U, m
  <2> QED
    BY <1>1, <1>3, LargestIs
<1>5. Smallest(D) \in D
  <2> HIDE DEF D, z
  <2> QED
    BY <1>1, <1>3, SmallestIs
<1>6. Highest(s, ch, scan, run) = Smallest(D) /\ Lowest(s, ch, scan, run) = Largest(U)
  BY DEF Highest, Lowest
<1> QED
  BY <1>4, <1>5, <1>6 DEF Slidable

\* The marks and the place of slideRuns: what is left of the lines stays as it was.
Slides(s, ch) ==
    {t \in [changed : Marks(s), scan : Nat] : Left(s, t.changed, 0, Len(s)) = Left(s, ch, 0, Len(s))}

\* A turn of slideRuns.
LEMMA SlideNextIs ==
    ASSUME NEW s \in Seq(Line), NEW ch \in Marks(s), NEW t \in Slides(s, ch)
    PROVE  SlideNext(s, t) \in Slides(s, ch)
<1>1. t.changed \in Marks(s) /\ t.scan \in Nat /\ Left(s, t.changed, 0, Len(s)) = Left(s, ch, 0, Len(s)) /\ Len(s) \in Nat
  BY DEF Slides
<1>2. CASE t.scan >= Len(s)
  BY <1>2 DEF SlideNext
<1>3. CASE t.scan < Len(s) /\ ~t.changed[t.scan]
  <2>1. SlideNext(s, t) = [t EXCEPT !.scan = @ + 1]
    BY <1>1, <1>3 DEF SlideNext
  <2> QED
    BY <1>1, <2>1 DEF Slides
<1>4. CASE t.scan < Len(s) /\ t.changed[t.scan]
  <2> DEFINE scan == t.scan
             d == t.changed
             R == {n \in 1 .. Len(s) - scan : \A i \in scan .. scan + n - 1 : d[i]}
             run == Largest(R)
             one == 1
             m == Len(s) - scan
  <2>1. 1 \in R
    <3>1. 1 \in 1 .. Len(s) - scan /\ \A i \in scan .. scan + 1 - 1 : i = scan
      BY <1>1, <1>4
    <3>2. d[scan]
      BY <1>4
    <3> QED
      BY <3>1, <3>2
  <2>2. R \in SUBSET (one .. m) /\ R # {} /\ one \in Int /\ m \in Int
    BY <1>1, <2>1
  <2>3. run \in R
    <3> HIDE DEF R, one, m
    <3> QED
      BY <2>2, LargestIs
  <2>4. run \in Nat /\ run > 0 /\ scan + run <= Len(s) /\ \A i \in scan .. scan + run - 1 : d[i]
    BY <1>1, <2>3
  <2>5. SlideNext(s, t) = SlideRun(s, t, run)
    BY <1>1, <1>4 DEF SlideNext
  <2> HIDE DEF R, run
  <2> DEFINE lo == Highest(s, d, scan, run)
             hi == Lowest(s, d, scan, run)
             to == Best(s, run, lo .. hi)
             e == Moved(d, scan, run, to)
             L == Largest({to, scan})
  <2>6. SlideNext(s, t) = [changed |-> e, scan |-> L + run]
    BY <2>5 DEF SlideRun, Slid
  <2>7. d \in Marks(s) /\ scan \in Nat
    BY <1>1
  <2> HIDE DEF scan, d
  <2>8. lo \in 0 .. scan /\ hi \in scan .. Len(s) - run /\ Slidable(s, d, scan, run, lo, hi)
    BY <2>4, <2>7, SlidableIs
  <2> HIDE DEF lo, hi
  <2>9. to \in lo .. hi
    <3>1. lo \in Int /\ hi \in Int /\ lo <= hi
      BY <2>4, <2>7, <2>8
    <3> QED
      BY <3>1, BestIs
  <2> HIDE DEF to
  <2>10. Left(s, e, 0, Len(s)) = Left(s, d, 0, Len(s))
    BY <2>4, <2>7, <2>8, <2>9, MovedAnywhere
  <2>11. to \in Nat
    BY <2>7, <2>8, <2>9
  <2>12. e \in Marks(s)
    BY <2>4, <2>7, <2>11, MovedIs
  <2>13. L \in Nat
    <3> DEFINE P == {to, scan}
               z == 0
               w == to + scan
    <3>1. P \in SUBSET (z .. w) /\ P # {} /\ z \in Int /\ w \in Int /\ P \subseteq Nat
      BY <2>7, <2>11
    <3>2. Largest(P) \in P
      <4> HIDE DEF P, z, w
      <4> QED
        BY <3>1, LargestIs
    <3> QED
      BY <3>1, <3>2
  <2> HIDE DEF e, L
  <2>14. Left(s, e, 0, Len(s)) = Left(s, ch, 0, Len(s))
    BY <1>1, <2>10 DEF d
  <2> QED
    BY <2>4, <2>6, <2>12, <2>13, <2>14 DEF Slides
<1> QED
  BY <1>1, <1>2, <1>3, <1>4

\* However runs of changes are slid, the same lines are left.
THEOREM SlideRunsIs ==
    ASSUME NEW s \in Seq(Line), NEW ch \in Marks(s)
    PROVE  SlideRuns(s, ch) \in Marks(s) /\ Left(s, SlideRuns(s, ch), 0, Len(s)) = Left(s, ch, 0, Len(s))
<1> DEFINE A == Slides(s, ch)
<1>1. Len(s) \in Nat
  OBVIOUS
<1>2. [changed |-> ch, scan |-> 0] \in A
  BY DEF Slides
<1>3. \A t \in A, n \in 0 .. Len(s) - 1 : SlideNext(s, t) \in A
  BY SlideNextIs
<1> HIDE DEF A
<1>4. PICK f : SlideTurns(s, ch, A, f)
  BY <1>1, <1>2, <1>3, SlideLoop
<1>5. SlideRuns(s, ch) = f[Len(s)].changed /\ f[Len(s)] \in A
  <2>1. SlideRuns(s, ch) = f[Len(s)].changed /\ f \in [0 .. Len(s) -> A]
    BY <1>4 DEF SlideTurns
  <2>2. Len(s) \in 0 .. Len(s)
    BY <1>1
  <2> QED
    BY <2>1, <2>2
<1> QED
  BY <1>5 DEF A, Slides

-----------------------------------------------------------------------------
(* The changes *)

\* As many marks as lines.
LEMMA CountIs ==
    ASSUME NEW s \in Seq(Line), NEW ch \in Marks(s)
    PROVE  Count(ch) = Len(s) /\ Len(s) \in Nat /\ DOMAIN ch = 0 .. Len(s) - 1
<1> DEFINE n == Len(s)
           m == n - 1
           z == 0
<1>1. n \in Nat /\ m \in Int /\ z \in Int /\ DOMAIN ch = z .. m
  BY DEF Marks
<1>2. Cardinality(z .. m) = IF z > m THEN 0 ELSE m - z + 1
  <2> HIDE DEF z, m
  <2> QED
    BY <1>1, FS_Interval
<1>3. Cardinality(z .. m) = n
  <2> HIDE DEF n
  <2> QED
    BY <1>1, <1>2
<1> QED
  BY <1>1, <1>3 DEF Count

\* The lines of a run are marked, and the next is not.
LEMMA RunEndIs ==
    ASSUME NEW s \in Seq(Line), NEW ch \in Marks(s), NEW i \in 0 .. Len(s)
    PROVE  /\ RunEnd(ch, i) \in i .. Len(s)
           /\ \A k \in i .. RunEnd(ch, i) - 1 : ch[k]
           /\ i < Len(s) /\ ch[i] => RunEnd(ch, i) > i
<1> DEFINE n == Len(s)
           S == {e \in DOMAIN ch \cup {i, Count(ch)} : e >= i /\ (e \in DOMAIN ch => ~ch[e])}
           e == Smallest(S)
<1>1. Count(ch) = n /\ n \in Nat /\ DOMAIN ch = 0 .. n - 1 /\ i \in Int
  BY CountIs
<1>2. S \in SUBSET (i .. n) /\ n \in S
  BY <1>1
<1>3. e \in S /\ \A k \in S : e <= k
  <2>1. S # {} /\ n \in Int
    BY <1>1, <1>2
  <2> HIDE DEF S, n
  <2> QED
    BY <1>1, <1>2, <2>1, SmallestIs
<1>4. RunEnd(ch, i) = e
  BY DEF RunEnd
<1> HIDE DEF e
<1>5. e \in i .. n
  BY <1>2, <1>3
<1>6. ASSUME NEW k \in i .. e - 1 PROVE ch[k]
  <2>1. k \in 0 .. n - 1 /\ k >= i /\ ~(e <= k)
    BY <1>1, <1>5
  <2>2. k \notin S
    BY <1>3, <2>1
  <2> QED
    BY <1>1, <2>1, <2>2
<1>7. i < n /\ ch[i] => e > i
  <2>1. i < n /\ ch[i] => i \in DOMAIN ch /\ i \notin S
    BY <1>1
  <2>2. i < n /\ ch[i] => e # i
    BY <1>3, <2>1
  <2> QED
    BY <1>1, <1>5, <2>2
<1> QED
  BY <1>4, <1>5, <1>6, <1>7

\* Texts that go on from lines p and q to lines i and j in the same way.
Joined(x, y, p, q, i, j) == p <= i /\ i - p = j - q /\ \A k \in 0 .. i - p - 1 : x[p + k + 1] = y[q + k + 1]

\* Where the first k of the changes end.
EndA(cs, k) == IF k = 0 THEN 0 ELSE cs[k].aStart + cs[k].aLines
EndB(cs, k) == IF k = 0 THEN 0 ELSE cs[k].bStart + cs[k].bLines

\* The k-th change comes after lines that are the same in both texts.
ChangeAt(x, y, cs, k) ==
    /\ Joined(x, y, EndA(cs, k - 1), EndB(cs, k - 1), cs[k].aStart, cs[k].bStart)
    /\ EndA(cs, k) <= Len(x) /\ EndB(cs, k) <= Len(y)

ChangesOf(x, y) ==
    {cs \in Seq([aStart : Nat, aLines : Nat, bStart : Nat, bLines : Nat]) :
        \A k \in 1 .. Len(cs) : ChangeAt(x, y, cs, k)}

\* The turns of changes.
Progress(x, y, a, b) ==
    {t \in [i : 0 .. Len(x), j : 0 .. Len(y), cs : ChangesOf(x, y)] :
        /\ Left(x, a, t.i, Len(x)) = Left(y, b, t.j, Len(y))
        /\ Joined(x, y, EndA(t.cs, Len(t.cs)), EndB(t.cs, Len(t.cs)), t.i, t.j)}

\* The fields of a change.
LEMMA FieldsOf ==
    ASSUME NEW cs \in Seq([aStart : Nat, aLines : Nat, bStart : Nat, bLines : Nat]), NEW k \in 1 .. Len(cs)
    PROVE  cs[k].aStart \in Nat /\ cs[k].aLines \in Nat /\ cs[k].bStart \in Nat /\ cs[k].bLines \in Nat
<1> DEFINE C == [aStart : Nat, aLines : Nat, bStart : Nat, bLines : Nat]
<1>1. cs[k] \in C
  <2> HIDE DEF C
  <2>1. cs \in Seq(C)
    BY DEF C
  <2> QED
    BY <2>1
<1> QED
  BY <1>1

\* The ends of changes with one more, up to those that were.
LEMMA EndsOf ==
    ASSUME NEW cs \in Seq([aStart : Nat, aLines : Nat, bStart : Nat, bLines : Nat])
    PROVE  /\ Len(cs) \in Nat
           /\ \A k \in 1 .. Len(cs) : /\ cs[k].aStart \in Nat /\ cs[k].aLines \in Nat
                                      /\ cs[k].bStart \in Nat /\ cs[k].bLines \in Nat
           /\ \A k \in 0 .. Len(cs) : EndA(cs, k) \in Nat /\ EndB(cs, k) \in Nat
<1> DEFINE C == [aStart : Nat, aLines : Nat, bStart : Nat, bLines : Nat]
<1>1. Len(cs) \in Nat /\ \A k \in 1 .. Len(cs) : cs[k] \in C
  <2> HIDE DEF C
  <2>1. cs \in Seq(C)
    BY DEF C
  <2> QED
    BY <2>1
<1>2. \A k \in 1 .. Len(cs) : cs[k].aStart \in Nat /\ cs[k].aLines \in Nat /\ cs[k].bStart \in Nat /\ cs[k].bLines \in Nat
  BY <1>1
<1>3. \A k \in 0 .. Len(cs) : k = 0 \/ k \in 1 .. Len(cs)
  BY <1>1
<1> QED
  BY <1>1, <1>2, <1>3 DEF EndA, EndB

\* One change more, up to lines e and d.
Added(x, y, cs, ds, e, d) ==
    /\ ds \in ChangesOf(x, y) /\ Len(ds) = Len(cs) + 1
    /\ EndA(ds, Len(ds)) = e /\ EndB(ds, Len(ds)) = d

\* A change after lines that are joined is one more.
LEMMA ChangeAdded ==
    ASSUME NEW x, NEW y, NEW cs \in ChangesOf(x, y), NEW i \in Nat, NEW j \in Nat, NEW p \in Nat, NEW q \in Nat,
           Joined(x, y, EndA(cs, Len(cs)), EndB(cs, Len(cs)), i, j), i + p <= Len(x), j + q <= Len(y),
           NEW ds, ds = Append(cs, [aStart |-> i, aLines |-> p, bStart |-> j, bLines |-> q])
    PROVE  Added(x, y, cs, ds, i + p, j + q)
<1> DEFINE C == [aStart : Nat, aLines : Nat, bStart : Nat, bLines : Nat]
           c == [aStart |-> i, aLines |-> p, bStart |-> j, bLines |-> q]
           n == Len(cs)
<1>1. cs \in Seq(C) /\ c \in C /\ \A k \in 1 .. n : ChangeAt(x, y, cs, k)
  BY DEF ChangesOf
<1>2. c.aStart = i /\ c.aLines = p /\ c.bStart = j /\ c.bLines = q
  OBVIOUS
<1> HIDE DEF C, c
<1>3. ds = Append(cs, c) /\ n \in Nat
  BY <1>1 DEF c
<1>4. /\ ds \in Seq(C) /\ Len(ds) = n + 1 /\ ds[n + 1] = c
      /\ \A k \in 1 .. n : ds[k] = cs[k]
  BY <1>1, <1>3, AppendProperties
<1> HIDE DEF n
<1>5. \A k \in 0 .. n : EndA(ds, k) = EndA(cs, k) /\ EndB(ds, k) = EndB(cs, k)
  <2>1. \A k \in 0 .. n : k = 0 \/ k \in 1 .. n
    BY <1>3
  <2> QED
    BY <1>4, <2>1 DEF EndA, EndB
<1>6. EndA(ds, n + 1) = i + p /\ EndB(ds, n + 1) = j + q
  BY <1>2, <1>3, <1>4 DEF EndA, EndB
<1>7. ASSUME NEW k \in 1 .. n PROVE ChangeAt(x, y, ds, k)
  <2>1. k \in 0 .. n /\ k - 1 \in 0 .. n
    BY <1>3
  <2> QED
    BY <1>1, <1>4, <1>5, <2>1 DEF ChangeAt, n
<1>8. ChangeAt(x, y, ds, n + 1)
  <2>1. (n + 1) - 1 = n /\ n \in 0 .. n
    BY <1>3
  <2>2. EndA(ds, n) = EndA(cs, n) /\ EndB(ds, n) = EndB(cs, n)
    BY <1>5, <2>1
  <2>3. Joined(x, y, EndA(ds, n), EndB(ds, n), ds[n + 1].aStart, ds[n + 1].bStart)
    BY <1>2, <1>4, <2>2 DEF n
  <2> QED
    BY <1>6, <2>1, <2>3 DEF ChangeAt
<1>9. \A k \in 1 .. Len(ds) : ChangeAt(x, y, ds, k)
  <2>1. \A k \in 1 .. Len(ds) : k \in 1 .. n \/ k = n + 1
    BY <1>3, <1>4
  <2> QED
    BY <1>7, <1>8, <2>1
<1>10. ds \in ChangesOf(x, y)
  BY <1>4, <1>9 DEF ChangesOf, C
<1> QED
  BY <1>4, <1>6, <1>10 DEF n, Added

\* Two sequences with the same first element.
LEMMA FirstOfBoth ==
    ASSUME NEW B, NEW u \in Seq(B), NEW v \in Seq(B), NEW e \in B, NEW f \in B, <<e>> \o u = <<f>> \o v
    PROVE  e = f /\ u = v
<1>1. Len(<<e>> \o u) = Len(u) + 1 /\ Len(<<f>> \o v) = Len(v) + 1 /\ Len(u) \in Nat /\ Len(v) \in Nat
  OBVIOUS
<1>2. Len(u) = Len(v)
  BY <1>1
<1>3. (<<e>> \o u)[1] = e /\ (<<f>> \o v)[1] = f
  OBVIOUS
<1>4. ASSUME NEW k \in 1 .. Len(u) PROVE u[k] = v[k]
  <2>1. (<<e>> \o u)[k + 1] = u[k] /\ (<<f>> \o v)[k + 1] = v[k]
    BY <1>2
  <2> QED
    BY <2>1
<1>5. u = [k \in 1 .. Len(u) |-> u[k]] /\ v = [k \in 1 .. Len(v) |-> v[k]]
  OBVIOUS
<1> QED
  BY <1>2, <1>3, <1>4, <1>5

\* Each turn goes on, up to the end of both texts.
Further(x, y, t, u) == u.i + u.j > t.i + t.j \/ u.i + u.j = Len(x) + Len(y)

\* A turn at a run of changed lines.
LEMMA ChangeToIs ==
    ASSUME NEW x \in Seq(Line), NEW y \in Seq(Line), NEW a \in Marks(x), NEW b \in Marks(y),
           NEW t \in Progress(x, y, a, b), (t.i < Len(x) /\ a[t.i]) \/ (t.j < Len(y) /\ b[t.j]),
           NEW u, u = ChangeTo(t, RunEnd(a, t.i), RunEnd(b, t.j))
    PROVE  u \in Progress(x, y, a, b) /\ Further(x, y, t, u)
<1> DEFINE n == Len(x)
           m == Len(y)
           i == t.i
           j == t.j
           cs == t.cs
           e == RunEnd(a, i)
           d == RunEnd(b, j)
           p == e - i
           q == d - j
<1>1. /\ i \in 0 .. n /\ j \in 0 .. m /\ cs \in ChangesOf(x, y)
      /\ Left(x, a, i, n) = Left(y, b, j, m)
      /\ Joined(x, y, EndA(cs, Len(cs)), EndB(cs, Len(cs)), i, j)
      /\ n \in Nat /\ m \in Nat
  BY DEF Progress
<1>2. e \in i .. n /\ (\A k \in i .. e - 1 : a[k]) /\ (i < n /\ a[i] => e > i)
  <2> HIDE DEF i
  <2> QED
    BY <1>1, RunEndIs
<1>3. d \in j .. m /\ (\A k \in j .. d - 1 : b[k]) /\ (j < m /\ b[j] => d > j)
  <2> HIDE DEF j
  <2> QED
    BY <1>1, RunEndIs
<1>4. (i < n /\ a[i]) \/ (j < m /\ b[j])
  OBVIOUS
<1> DEFINE ds == Append(cs, [aStart |-> i, aLines |-> p, bStart |-> j, bLines |-> q])
<1>5. u = [i |-> e, j |-> d, cs |-> ds]
  BY DEF ChangeTo
<1> HIDE DEF i, j, cs, e, d
<1>6. p \in Nat /\ q \in Nat /\ i \in Nat /\ j \in Nat /\ i + p = e /\ j + q = d /\ e \in Nat /\ d \in Nat /\ i + p <= n /\ j + q <= m
  BY <1>1, <1>2, <1>3
<1> HIDE DEF p, q
<1>7. ds \in ChangesOf(x, y) /\ EndA(ds, Len(ds)) = e /\ EndB(ds, Len(ds)) = d
  <2>1. PICK r : r = ds
    OBVIOUS
  <2>2. /\ r \in ChangesOf(x, y) /\ Len(r) = Len(cs) + 1
        /\ EndA(r, Len(r)) = i + p /\ EndB(r, Len(r)) = j + q
    <3>1. /\ cs \in ChangesOf(x, y) /\ i \in Nat /\ j \in Nat /\ p \in Nat /\ q \in Nat
          /\ Joined(x, y, EndA(cs, Len(cs)), EndB(cs, Len(cs)), i, j) /\ i + p <= Len(x) /\ j + q <= Len(y)
          /\ r = Append(cs, [aStart |-> i, aLines |-> p, bStart |-> j, bLines |-> q])
      BY <1>1, <1>6, <2>1
    <3> HIDE DEF ds
    <3>2. Added(x, y, cs, r, i + p, j + q)
      BY <3>1, ChangeAdded
    <3> QED
      BY <3>2 DEF Added
  <2> QED
    BY <1>6, <2>1, <2>2
<1> HIDE DEF ds
<1>8. Left(x, a, e, n) = Left(x, a, i, n) /\ Left(y, b, d, m) = Left(y, b, j, m)
  <2>1. ASSUME NEW s \in Seq(Line), NEW c \in Marks(s), NEW l \in 0 .. Len(s), NEW h \in l .. Len(s), \A k \in l .. h - 1 : c[k]
        PROVE  Left(s, c, h, Len(s)) = Left(s, c, l, Len(s))
    <3> DEFINE z == Len(s)
    <3>1. z \in Nat /\ z \in h .. Len(s) /\ z \in 0 .. Len(s) /\ h \in 0 .. Len(s)
      OBVIOUS
    <3> HIDE DEF z
    <3>2. Left(s, c, l, z) = Left(s, c, l, h) \o Left(s, c, h, z)
      BY <3>1, LeftSplit
    <3>3. Left(s, c, l, h) = <<>>
      BY <2>1, LeftNone
    <3> DEFINE v == Left(s, c, h, z)
    <3>4. v \in Seq(Line)
      BY <3>1, LeftNext
    <3>5. <<>> \o v = v
      <4> HIDE DEF v
      <4> QED
        BY <3>4, ConcatEmptySeq
    <3> QED
      BY <3>2, <3>3, <3>5 DEF z
  <2> QED
    BY <1>1, <1>2, <1>3, <2>1
<1>9. Joined(x, y, e, d, e, d)
  BY <1>6 DEF Joined
<1>10. e \in 0 .. n /\ d \in 0 .. m /\ (e + d > i + j)
  BY <1>1, <1>2, <1>3, <1>4
<1>11. u.i = e /\ u.j = d /\ u.cs = ds /\ u \in [i : 0 .. n, j : 0 .. m, cs : ChangesOf(x, y)]
  BY <1>5, <1>7, <1>10
<1>12. u \in Progress(x, y, a, b)
  BY <1>1, <1>7, <1>8, <1>9, <1>11 DEF Progress
<1> QED
  BY <1>10, <1>11, <1>12 DEF Further, i, j

\* A turn at two lines that are not marked: they are the same.
LEMMA BothOnIs ==
    ASSUME NEW x \in Seq(Line), NEW y \in Seq(Line), NEW a \in Marks(x), NEW b \in Marks(y),
           NEW t \in Progress(x, y, a, b), ~(t.i < Len(x) /\ a[t.i]), ~(t.j < Len(y) /\ b[t.j]),
           t.i < Len(x) \/ t.j < Len(y),
           NEW u, u = [t EXCEPT !.i = @ + 1, !.j = @ + 1]
    PROVE  u \in Progress(x, y, a, b) /\ Further(x, y, t, u)
<1> DEFINE n == Len(x)
           m == Len(y)
           i == t.i
           j == t.j
           cs == t.cs
           k == i + 1
           l == j + 1
<1>1. /\ i \in 0 .. n /\ j \in 0 .. m /\ cs \in ChangesOf(x, y)
      /\ Left(x, a, i, n) = Left(y, b, j, m)
      /\ Joined(x, y, EndA(cs, Len(cs)), EndB(cs, Len(cs)), i, j)
      /\ n \in Nat /\ m \in Nat
  BY DEF Progress
<1>2. i < n => ~a[i] /\ Left(x, a, i, n) = <<x[k]>> \o Left(x, a, k, n) /\ x[k] \in Line /\ Left(x, a, k, n) \in Seq(Line)
  <2> SUFFICES ASSUME i < n
               PROVE  ~a[i] /\ Left(x, a, i, n) = <<x[k]>> \o Left(x, a, k, n) /\ x[k] \in Line /\ Left(x, a, k, n) \in Seq(Line)
    OBVIOUS
  <2>1. k \in 1 .. Len(x) /\ k \in 0 .. Len(x) /\ n \in k .. Len(x) /\ n \in i .. Len(x)
    BY <1>1
  <2>2. Left(x, a, i, n) = IF a[i] THEN Left(x, a, i + 1, n) ELSE <<x[i + 1]>> \o Left(x, a, i + 1, n)
    <3> HIDE DEF i, n
    <3> QED
      BY <1>1, <2>1, LeftFirst DEF n
  <2> HIDE DEF k, n
  <2>3. Left(x, a, k, n) \in Seq(Line)
    BY <2>1, LeftNext
  <2>4. x[k] \in Line
    BY <2>1
  <2> QED
    BY <2>2, <2>3, <2>4 DEF k, n
<1>3. j < m => ~b[j] /\ Left(y, b, j, m) = <<y[l]>> \o Left(y, b, l, m) /\ y[l] \in Line /\ Left(y, b, l, m) \in Seq(Line)
  <2> SUFFICES ASSUME j < m
               PROVE  ~b[j] /\ Left(y, b, j, m) = <<y[l]>> \o Left(y, b, l, m) /\ y[l] \in Line /\ Left(y, b, l, m) \in Seq(Line)
    OBVIOUS
  <2>1. l \in 1 .. Len(y) /\ l \in 0 .. Len(y) /\ m \in l .. Len(y) /\ m \in j .. Len(y)
    BY <1>1
  <2>2. Left(y, b, j, m) = IF b[j] THEN Left(y, b, j + 1, m) ELSE <<y[j + 1]>> \o Left(y, b, j + 1, m)
    <3> HIDE DEF j, m
    <3> QED
      BY <1>1, <2>1, LeftFirst DEF m
  <2> HIDE DEF l, m
  <2>3. Left(y, b, l, m) \in Seq(Line)
    BY <2>1, LeftNext
  <2>4. y[l] \in Line
    BY <2>1
  <2> QED
    BY <2>2, <2>3, <2>4 DEF l, m
<1>4. Left(x, a, n, n) = <<>> /\ Left(y, b, m, m) = <<>>
  <2>1. n \in 0 .. Len(x) /\ n \in n .. Len(x) /\ m \in 0 .. Len(y) /\ m \in m .. Len(y)
    BY <1>1
  <2> HIDE DEF n, m
  <2> QED
    BY <2>1, LeftNext
<1>5. ASSUME NEW v \in Seq(Line), NEW e \in Line PROVE <<e>> \o v # <<>>
  <2>1. Len(<<e>> \o v) = Len(v) + 1 /\ Len(v) \in Nat
    BY <1>5
  <2>2. Len(<<>>) = 0
    OBVIOUS
  <2> QED
    BY <2>1, <2>2
<1>6. i < n /\ j < m
  <2>1. CASE i = n
    <3>1. j < m /\ Left(y, b, j, m) = <<>>
      BY <1>1, <1>4, <2>1
    <3> DEFINE v == Left(y, b, l, m)
               e == y[l]
    <3>2. v \in Seq(Line) /\ e \in Line /\ <<e>> \o v = <<>>
      BY <1>3, <3>1
    <3> HIDE DEF v, e
    <3> QED
      BY <1>5, <3>2
  <2>2. CASE j = m
    <3>1. i < n /\ Left(x, a, i, n) = <<>>
      BY <1>1, <1>4, <2>2
    <3> DEFINE v == Left(x, a, k, n)
               e == x[k]
    <3>2. v \in Seq(Line) /\ e \in Line /\ <<e>> \o v = <<>>
      BY <1>2, <3>1
    <3> HIDE DEF v, e
    <3> QED
      BY <1>5, <3>2
  <2> QED
    BY <1>1, <2>1, <2>2
<1>7. x[k] = y[l] /\ Left(x, a, k, n) = Left(y, b, l, m)
  <2> DEFINE v == Left(x, a, k, n)
             w == Left(y, b, l, m)
             e == x[k]
             f == y[l]
  <2>1. v \in Seq(Line) /\ w \in Seq(Line) /\ e \in Line /\ f \in Line /\ <<e>> \o v = <<f>> \o w
    BY <1>1, <1>2, <1>3, <1>6
  <2> HIDE DEF v, w, e, f
  <2>2. e = f /\ v = w
    BY <2>1, FirstOfBoth
  <2> QED
    BY <2>2 DEF v, w, e, f
<1>8. k \in 0 .. n /\ l \in 0 .. m /\ k + l > i + j
  BY <1>1, <1>6
<1> DEFINE p == EndA(cs, Len(cs))
           q == EndB(cs, Len(cs))
<1>9. Joined(x, y, p, q, k, l)
  <2>1. p \in Nat /\ q \in Nat
    <3>1. cs \in Seq([aStart : Nat, aLines : Nat, bStart : Nat, bLines : Nat])
      BY <1>1 DEF ChangesOf
    <3> HIDE DEF cs
    <3>2. Len(cs) \in Nat /\ Len(cs) \in 0 .. Len(cs)
      BY <3>1, EndsOf
    <3> QED
      BY <3>1, <3>2, EndsOf
  <2>2. Joined(x, y, p, q, i, j) /\ i \in Nat /\ j \in Nat /\ x[i + 1] = y[j + 1]
    BY <1>1, <1>7
  <2> HIDE DEF p, q, i, j
  <2>3. p <= i /\ i - p = j - q /\ \A h \in 0 .. i - p - 1 : x[p + h + 1] = y[q + h + 1]
    BY <2>2 DEF Joined
  <2>4. ASSUME NEW h \in 0 .. k - p - 1 PROVE x[p + h + 1] = y[q + h + 1]
    <3>0. h \in 0 .. (i + 1) - p - 1 /\ i - p = j - q
      BY <2>3
    <3>1. h \in 0 .. i - p - 1 \/ (p + h = i /\ q + h = j)
      <4>1. i \in Nat /\ j \in Nat /\ p \in Nat /\ q \in Nat
        BY <2>1, <2>2
      <4>2. h = i - p \/ h \in 0 .. i - p - 1
        BY <3>0, <4>1
      <4> QED
        BY <3>0, <4>1, <4>2
    <3>2. CASE h \in 0 .. i - p - 1
      BY <2>3, <3>2
    <3>3. CASE p + h = i /\ q + h = j
      BY <2>2, <3>3
    <3> QED
      BY <3>1, <3>2, <3>3
  <2>5. p <= k /\ k - p = l - q
    BY <2>1, <2>2, <2>3
  <2> HIDE DEF k, l
  <2> QED
    BY <2>4, <2>5 DEF Joined
<1>10. u.i = k /\ u.j = l /\ u.cs = cs /\ u \in [i : 0 .. n, j : 0 .. m, cs : ChangesOf(x, y)]
  <2>1. t \in [i : 0 .. n, j : 0 .. m, cs : ChangesOf(x, y)] /\ k \in 0 .. n /\ l \in 0 .. m /\ u = [t EXCEPT !.i = k, !.j = l]
    BY <1>8 DEF Progress
  <2> HIDE DEF k, l, n, m
  <2> QED
    BY <2>1
<1>11. u \in Progress(x, y, a, b)
  BY <1>7, <1>9, <1>10 DEF Progress
<1> QED
  BY <1>8, <1>10, <1>11 DEF Further

\* A turn of changes.
LEMMA ChangeNextIs ==
    ASSUME NEW x \in Seq(Line), NEW y \in Seq(Line), NEW a \in Marks(x), NEW b \in Marks(y),
           NEW t \in Progress(x, y, a, b)
    PROVE  ChangeNext(a, b, t) \in Progress(x, y, a, b) /\ Further(x, y, t, ChangeNext(a, b, t))
<1>1. t.i \in 0 .. Len(x) /\ t.j \in 0 .. Len(y)
  BY DEF Progress
<1>2. DOMAIN a = 0 .. Len(x) - 1 /\ DOMAIN b = 0 .. Len(y) - 1 /\ Len(x) \in Nat /\ Len(y) \in Nat
  BY CountIs
<1>3. (t.i \in DOMAIN a <=> t.i < Len(x)) /\ (t.j \in DOMAIN b <=> t.j < Len(y))
  BY <1>1, <1>2
<1> DEFINE u == ChangeNext(a, b, t)
<1>4. CASE ~(t.i < Len(x)) /\ ~(t.j < Len(y))
  <2>1. u = t
    BY <1>3, <1>4 DEF ChangeNext
  <2>2. u.i + u.j = Len(x) + Len(y)
    BY <1>1, <1>2, <1>4, <2>1
  <2> QED
    BY <2>1, <2>2 DEF Further
<1>5. CASE (t.i < Len(x) /\ a[t.i]) \/ (t.j < Len(y) /\ b[t.j])
  <2>1. u = ChangeTo(t, RunEnd(a, t.i), RunEnd(b, t.j))
    BY <1>3, <1>5 DEF ChangeNext
  <2> HIDE DEF u
  <2> QED
    BY <1>5, <2>1, ChangeToIs DEF u
<1>6. CASE (t.i < Len(x) \/ t.j < Len(y)) /\ ~(t.i < Len(x) /\ a[t.i]) /\ ~(t.j < Len(y) /\ b[t.j])
  <2>1. u = [t EXCEPT !.i = @ + 1, !.j = @ + 1]
    BY <1>3, <1>6 DEF ChangeNext
  <2> HIDE DEF u
  <2> QED
    BY <1>6, <2>1, BothOnIs DEF u
<1> QED
  BY <1>4, <1>5, <1>6

\* Changes of which one comes after the other, and up to the end of the texts nothing differs.
Parted(x, y, cs) ==
    cs \in ChangesOf(x, y) /\ Joined(x, y, EndA(cs, Len(cs)), EndB(cs, Len(cs)), Len(x), Len(y))

\* When both sides are left with the same lines, the texts are the same between the changes.
THEOREM ChangesAre ==
    ASSUME NEW x \in Seq(Line), NEW y \in Seq(Line), NEW a \in Marks(x), NEW b \in Marks(y),
           Left(x, a, 0, Len(x)) = Left(y, b, 0, Len(y))
    PROVE  Parted(x, y, Changes(a, b))
<1> DEFINE A == Progress(x, y, a, b)
           N == Count(a) + Count(b)
<1>1. N = Len(x) + Len(y) /\ Len(x) \in Nat /\ Len(y) \in Nat /\ N \in Nat
  BY CountIs
<1>2. [i |-> 0, j |-> 0, cs |-> <<>>] \in A
  <2>1. PICK z : z = <<>>
    OBVIOUS
  <2>2. z \in Seq([aStart : Nat, aLines : Nat, bStart : Nat, bLines : Nat]) /\ Len(z) = 0
    BY <2>1, EmptySeq
  <2>3. z \in ChangesOf(x, y)
    BY <2>2 DEF ChangesOf
  <2>4. EndA(z, Len(z)) = 0 /\ EndB(z, Len(z)) = 0
    BY <2>2 DEF EndA, EndB
  <2>5. Joined(x, y, 0, 0, 0, 0)
    BY DEF Joined
  <2> DEFINE t == [i |-> 0, j |-> 0, cs |-> z]
  <2>6. t \in [i : 0 .. Len(x), j : 0 .. Len(y), cs : ChangesOf(x, y)] /\ t.i = 0 /\ t.j = 0 /\ t.cs = z
    BY <1>1, <2>3
  <2> HIDE DEF t
  <2>7. t \in Progress(x, y, a, b)
    BY <2>4, <2>5, <2>6 DEF Progress
  <2> QED
    BY <2>1, <2>7 DEF t
<1>3. \A t \in A : ChangeNext(a, b, t) \in A /\ Further(x, y, t, ChangeNext(a, b, t))
  BY ChangeNextIs
<1>4. \A t \in A : t.i \in 0 .. Len(x) /\ t.j \in 0 .. Len(y)
  BY DEF Progress
<1> HIDE DEF A
<1>5. PICK f : ChangeTurns(a, b, A, f)
  <2>1. \A t \in A, n \in 0 .. (Count(a) + Count(b)) - 1 : ChangeNext(a, b, t) \in A
    BY <1>3
  <2> QED
    BY <1>1, <1>2, <2>1, ChangeLoop
<1>6. /\ Changes(a, b) = f[N].cs
      /\ f \in [0 .. N -> A]
      /\ f[0] = [i |-> 0, j |-> 0, cs |-> <<>>]
      /\ \A n \in 0 .. N - 1 : f[n + 1] = ChangeNext(a, b, f[n])
  BY <1>5 DEF ChangeTurns
<1> HIDE DEF N
<1> DEFINE S == {k \in Nat : k <= N => f[k].i + f[k].j >= k}
<1>7. 0 \in S
  BY <1>6
<1>8. ASSUME NEW k \in Nat, k \in S PROVE k + 1 \in S
  <2> SUFFICES ASSUME k + 1 <= N PROVE f[k + 1].i + f[k + 1].j >= k + 1
    OBVIOUS
  <2> DEFINE t == f[k]
             u == f[k + 1]
  <2>1. t \in A /\ u \in A /\ Further(x, y, t, u)
    <3>1. k \in 0 .. N - 1 /\ k \in 0 .. N /\ k + 1 \in 0 .. N
      BY <1>1
    <3>2. u = ChangeNext(a, b, t)
      BY <1>6, <3>1
    <3>3. t \in A /\ u \in A
      BY <1>6, <3>1
    <3> HIDE DEF t, u
    <3> QED
      BY <1>3, <3>2, <3>3
  <2>2. t.i + t.j >= k
    BY <1>1, <1>8
  <2>3. t.i \in Nat /\ t.j \in Nat /\ u.i \in Nat /\ u.j \in Nat
    <3> HIDE DEF t, u
    <3> QED
      BY <1>1, <1>4, <2>1
  <2>4. u.i + u.j > t.i + t.j \/ u.i + u.j = N
    BY <1>1, <2>1 DEF Further
  <2> HIDE DEF t, u
  <2>5. u.i + u.j >= k + 1
    BY <1>1, <2>2, <2>3, <2>4
  <2> QED
    BY <2>5 DEF u
<1> HIDE DEF S
<1>9. N \in S
  BY <1>1, <1>7, <1>8, NatSetInduction
<1> DEFINE t == f[N]
<1>10. t \in A /\ t.i + t.j >= N
  <2>1. N \in 0 .. N /\ N <= N
    BY <1>1
  <2> QED
    BY <1>6, <1>9, <2>1 DEF S
<1> HIDE DEF t
<1>11. t.i = Len(x) /\ t.j = Len(y)
  BY <1>1, <1>4, <1>10
<1>12. t.cs \in ChangesOf(x, y) /\ Joined(x, y, EndA(t.cs, Len(t.cs)), EndB(t.cs, Len(t.cs)), t.i, t.j)
  BY <1>10 DEF A, Progress
<1> QED
  BY <1>6, <1>11, <1>12 DEF Parted, t

-----------------------------------------------------------------------------
(* The lines of a hunk *)

Markers == {" ", "-", "+"}
HunkLine == [marker : Markers, line : Line]

\* A line more or none.
LEMMA WithoutTyped ==
    ASSUME NEW marker
    PROVE  /\ \A u \in Seq(Line), l \in HunkLine : WithLine(u, l, marker) \in Seq(Line)
           /\ <<>> \in Seq(Line)
<1> DEFINE L == Line
<1>1. \A l \in HunkLine : l.line \in L
  BY DEF HunkLine
<1> HIDE DEF L
<1>2. \A u \in Seq(L), l \in HunkLine : Append(u, l.line) \in Seq(L)
  BY <1>1, AppendProperties
<1>3. \A u \in Seq(L), l \in HunkLine : WithLine(u, l, marker) \in Seq(L)
  BY <1>2 DEF WithLine
<1>4. <<>> \in Seq(L)
  BY EmptySeq
<1> QED
  BY <1>3, <1>4 DEF L

WithoutStep(marker) == [x \in (Seq(Line)) \X (HunkLine) |-> WithLine(x[1], x[2], marker)]

\* Without is such a fold.
LEMMA WithoutIsFolded ==
    ASSUME NEW marker, NEW s \in Seq(HunkLine)
    PROVE  /\ StepOn(WithoutStep(marker), Seq(Line), HunkLine) /\ <<>> \in Seq(Line)
           /\ Without(s, marker) = FoldedBy(WithoutStep(marker), <<>>, s)
           /\ Without(s, marker) \in Seq(Line)
<1> DEFINE A == Seq(Line)
           B == HunkLine
           step == WithoutStep(marker)
           base == <<>>
           F(g) == [t \in SUBSET (DOMAIN s) |->
                        IF t = {} THEN base ELSE WithLine(g[t \ {Max(t)}], s[Max(t)], marker)]
<1>1. StepOn(step, A, B) /\ base \in A
  BY WithoutTyped DEF StepOn, WithoutStep
<1>2. s \in Seq(B)
  OBVIOUS
<1>3. Without(s, marker) = (CHOOSE g : g = F(g))[DOMAIN s]
  BY DEF Without, FoldLeft, MapThenFoldSet
<1>4. \A x \in A, e \in B : step[<<x, e>>] = WithLine(x, e, marker)
  BY DEF WithoutStep
<1> HIDE DEF A, B, base, step
<1>5. PICK h : Folding(h, A, B, step, base, s)
  BY <1>1, <1>2, FoldedByFunction
<1>6. h = F(h)
  <2>1. ASSUME NEW t \in SUBSET (DOMAIN s), t # {}
        PROVE  h[t] = WithLine(h[t \ {Max(t)}], s[Max(t)], marker)
    BY <1>4, <1>5, <2>1 DEF Folding
  <2> QED
    BY <1>5, <2>1 DEF Folding
<1>7. PICK g : g = F(g) /\ Without(s, marker) = g[DOMAIN s]
  <2> HIDE DEF F
  <2> QED
    BY <1>3, <1>6
<1>8. Unfolding(g, A, B, step, base, s)
  BY <1>4, <1>7 DEF Unfolding
<1>9. Without(s, marker) = FoldedBy(step, base, s)
  <2> HIDE DEF F
  <2> QED
    BY <1>1, <1>2, <1>7, <1>8, FoldedByUnfolding
<1>10. FoldedBy(step, base, s) \in A
  BY <1>1, <1>2, FoldedByType
<1> QED
  BY <1>1, <1>9, <1>10 DEF A, B, base, step

\* It starts from nothing.
LEMMA WithoutOfNone ==
    ASSUME NEW marker
    PROVE  Without(<<>>, marker) = <<>>
<1> DEFINE z == <<>>
           A == Seq(Line)
           B == HunkLine
           base == <<>>
           step == WithoutStep(marker)
<1>1. z \in Seq(B)
  OBVIOUS
<1>2. StepOn(step, A, B) /\ base \in A /\ Without(z, marker) = FoldedBy(step, base, z)
  <2> HIDE DEF z
  <2> QED
    BY <1>1, WithoutIsFolded
<1>3. FoldedBy(step, base, <<>>) = base
  <2> HIDE DEF z, A, B, base, step
  <2> QED
    BY <1>2, FoldedByEmpty
<1> QED
  BY <1>2, <1>3

\* With one line more.
LEMMA WithoutAppend ==
    ASSUME NEW marker, NEW s \in Seq(HunkLine), NEW e \in HunkLine
    PROVE  /\ Without(<<>>, marker) = <<>>
           /\ Without(s, marker) \in Seq(Line)
           /\ Without(Append(s, e), marker) = WithLine(Without(s, marker), e, marker)
<1> DEFINE z == <<>>
           base == <<>>
           step == WithoutStep(marker)
           A == Seq(Line)
           B == HunkLine
<1>1. StepOn(step, A, B) /\ base \in A
  <2>1. StepOn(WithoutStep(marker), Seq(Line), HunkLine) /\ <<>> \in Seq(Line)
    BY WithoutIsFolded
  <2> QED
    BY <2>1
<1>2. /\ Without(z, marker) = FoldedBy(step, base, z) /\ Without(s, marker) = FoldedBy(step, base, s)
      /\ Without(Append(s, e), marker) = FoldedBy(step, base, Append(s, e))
  <2>1. z \in Seq(B) /\ Append(s, e) \in Seq(B)
    <3> HIDE DEF B
    <3> QED
      BY EmptySeq, AppendProperties DEF B
  <2> HIDE DEF z
  <2> QED
    BY <2>1, WithoutIsFolded
<1>3. \A x \in A : step[<<x, e>>] = WithLine(x, e, marker)
  BY DEF WithoutStep
<1>4. s \in Seq(B) /\ e \in B
  OBVIOUS
<1> HIDE DEF z, base, step, A, B
<1>5. /\ FoldedBy(step, base, <<>>) = base
      /\ FoldedBy(step, base, s) \in A
      /\ FoldedBy(step, base, Append(s, e)) = step[<<FoldedBy(step, base, s), e>>]
  BY <1>1, <1>4, FoldedByAppend
<1> QED
  BY <1>2, <1>3, <1>5 DEF z, base, A

\* What one part of a hunk after another gives.
LEMMA WithoutConcat ==
    ASSUME NEW marker, NEW s \in Seq(HunkLine), NEW t \in Seq(HunkLine)
    PROVE  Without(s \o t, marker) = Without(s, marker) \o Without(t, marker)
<1> DEFINE B == HunkLine
           W(u) == Without(u, marker)
           S == {u \in Seq(B) : W(s \o u) = W(s) \o W(u)}
<1>1. <<>> \in S
  <2>1. s \o <<>> = s /\ <<>> \in Seq(B)
    BY ConcatEmptySeq, EmptySeq
  <2>2. W(<<>>) = <<>> /\ W(s) \in Seq(Line)
    BY WithoutAppend, WithoutOfNone, WithoutIsFolded
  <2>3. W(s) \o <<>> = W(s)
    <3> HIDE DEF W
    <3> QED
      BY <2>2, ConcatEmptySeq
  <2> QED
    BY <2>1, <2>2, <2>3
<1>2. ASSUME NEW u \in Seq(B), NEW e \in B, u \in S PROVE Append(u, e) \in S
  <2> DEFINE v == s \o u
  <2>1. v \in Seq(B) /\ s \o Append(u, e) = Append(v, e) /\ Append(u, e) \in Seq(B)
    <3> HIDE DEF B
    <3>1. s \in Seq(B)
      BY DEF B
    <3> QED
      BY <3>1, ConcatProperties, ConcatAppend, AppendProperties
  <2>2. W(v) = W(s) \o W(u)
    BY <1>2
  <2> HIDE DEF v
  <2>3. W(Append(v, e)) = WithLine(W(v), e, marker) /\ W(v) \in Seq(Line)
    BY <2>1, WithoutAppend
  <2>4. W(Append(u, e)) = WithLine(W(u), e, marker) /\ W(u) \in Seq(Line)
    BY WithoutAppend
  <2>5. W(s) \in Seq(Line)
    BY WithoutIsFolded
  <2>6. e.line \in Line
    <3> DEFINE L == Line
    <3>1. e.line \in L
      <4>1. e \in [marker : Markers, line : L]
        BY DEF HunkLine
      <4> HIDE DEF L
      <4> QED
        BY <4>1
    <3> QED
      BY <3>1
  <2> DEFINE p == W(s)
             q == W(u)
  <2>7. p \o Append(q, e.line) = Append(p \o q, e.line)
    <3>1. p \in Seq(Line) /\ q \in Seq(Line)
      BY <2>4, <2>5
    <3> HIDE DEF p, q
    <3> QED
      BY <2>6, <3>1, ConcatAppend
  <2>8. WithLine(p \o q, e, marker) = p \o WithLine(q, e, marker)
    <3> HIDE DEF p, q
    <3> QED
      BY <2>7 DEF WithLine
  <2> QED
    BY <2>1, <2>2, <2>3, <2>4, <2>8
<1> HIDE DEF S
<1>3. t \in S
  <2>1. t \in Seq(B)
    OBVIOUS
  <2> HIDE DEF B
  <2> QED
    BY <1>1, <1>2, <2>1, SeqSetInduction
<1> QED
  BY <1>3 DEF S

-----------------------------------------------------------------------------
(* Cuts of a sequence *)

\* The elements of s from p up to q.
Cut(s, p, q) == SubSeq(s, p + 1, q)

\* A cut has the elements of the sequence.
LEMMA CutIs ==
    ASSUME NEW B, NEW s \in Seq(B), NEW p \in 0 .. Len(s), NEW q \in p .. Len(s)
    PROVE  /\ Cut(s, p, q) \in Seq(B) /\ Len(Cut(s, p, q)) = q - p
           /\ \A k \in 1 .. q - p : Cut(s, p, q)[k] = s[p + k]
<1> DEFINE m == p + 1
<1>1. Len(s) \in Nat /\ m \in Nat /\ q \in Nat /\ p \in Nat
  OBVIOUS
<1>2. \A k \in m .. q : s[k] \in B
  <2>1. \A k \in m .. q : k \in 1 .. Len(s)
    BY <1>1
  <2> QED
    BY <2>1
<1> HIDE DEF m
<1>3. SubSeq(s, m, q) \in Seq(B) /\ Len(SubSeq(s, m, q)) = (IF m <= q THEN q - m + 1 ELSE 0)
      /\ \A k \in 1 .. q - m + 1 : SubSeq(s, m, q)[k] = s[m + k - 1]
  BY <1>1, <1>2, SubSeqProperties
<1>4. q - m + 1 = q - p /\ (IF m <= q THEN q - m + 1 ELSE 0) = q - p /\ \A k \in 1 .. q - p : m + k - 1 = p + k
  BY <1>1 DEF m
<1>5. Cut(s, p, q) = SubSeq(s, m, q)
  BY DEF Cut, m
<1> QED
  BY <1>3, <1>4, <1>5

\* Sequences with the same elements.
LEMMA SameSeq ==
    ASSUME NEW B, NEW C, NEW s \in Seq(B), NEW t \in Seq(C), Len(s) = Len(t), \A k \in 1 .. Len(s) : s[k] = t[k]
    PROVE  s = t
<1>1. s = [k \in 1 .. Len(s) |-> s[k]] /\ t = [k \in 1 .. Len(t) |-> t[k]]
  OBVIOUS
<1> QED
  BY <1>1

\* Two sequences with the same n elements after p and i.
Alike(s, t, p, i, n) == \A k \in 0 .. n - 1 : s[p + k + 1] = t[i + k + 1]

\* The same cut of both.
LEMMA CutSame ==
    ASSUME NEW B, NEW s \in Seq(B), NEW t \in Seq(B), NEW n \in Nat, NEW p \in 0 .. Len(s), NEW q \in p .. Len(s),
           NEW i \in 0 .. Len(t), NEW j \in i .. Len(t), q - p = n, j - i = n, Alike(s, t, p, i, n)
    PROVE  Cut(s, p, q) = Cut(t, i, j)
<1> DEFINE u == Cut(s, p, q)
           v == Cut(t, i, j)
<1>1. p \in Nat /\ q \in Nat /\ i \in Nat /\ j \in Nat
  OBVIOUS
<1>2. u \in Seq(B) /\ Len(u) = n /\ \A k \in 1 .. n : u[k] = s[p + k]
  BY CutIs
<1>3. v \in Seq(B) /\ Len(v) = n /\ \A k \in 1 .. n : v[k] = t[i + k]
  BY CutIs
<1>4. ASSUME NEW k \in 1 .. n PROVE s[p + k] = t[i + k]
  <2> DEFINE m == k - 1
  <2>1. m \in 0 .. n - 1 /\ p + m + 1 = p + k /\ i + m + 1 = i + k
    BY <1>1
  <2>2. s[p + m + 1] = t[i + m + 1]
    BY <2>1 DEF Alike
  <2> QED
    BY <2>1, <2>2
<1> HIDE DEF u, v
<1>5. Len(u) = Len(v) /\ \A k \in 1 .. Len(u) : u[k] = v[k]
  BY <1>2, <1>3, <1>4
<1>6. u = v
  BY <1>2, <1>3, <1>5, SameSeq
<1> QED
  BY <1>6 DEF u, v

\* Two cuts that follow each other.
LEMMA CutSplit ==
    ASSUME NEW B, NEW s \in Seq(B), NEW p \in 0 .. Len(s), NEW q \in p .. Len(s), NEW r \in q .. Len(s)
    PROVE  Cut(s, p, r) = Cut(s, p, q) \o Cut(s, q, r)
<1> DEFINE u == Cut(s, p, q)
           v == Cut(s, q, r)
           w == Cut(s, p, r)
           c == u \o v
<1>1. p \in Nat /\ q \in Nat /\ r \in Nat /\ q \in 0 .. Len(s) /\ r \in p .. Len(s)
  OBVIOUS
<1>2. u \in Seq(B) /\ Len(u) = q - p /\ \A k \in 1 .. q - p : u[k] = s[p + k]
  BY <1>1, CutIs
<1>3. v \in Seq(B) /\ Len(v) = r - q /\ \A k \in 1 .. r - q : v[k] = s[q + k]
  BY <1>1, CutIs
<1>4. w \in Seq(B) /\ Len(w) = r - p /\ \A k \in 1 .. r - p : w[k] = s[p + k]
  BY <1>1, CutIs
<1> HIDE DEF u, v, w
<1>5. /\ c \in Seq(B) /\ Len(c) = Len(u) + Len(v)
      /\ \A k \in 1 .. Len(u) + Len(v) : c[k] = IF k <= Len(u) THEN u[k] ELSE v[k - Len(u)]
  BY <1>2, <1>3, ConcatProperties
<1> HIDE DEF c
<1>6. Len(c) = r - p
  BY <1>1, <1>2, <1>3, <1>5
<1>7. ASSUME NEW k \in 1 .. r - p PROVE c[k] = s[p + k]
  <2>1. CASE k <= q - p
    <3>1. k \in 1 .. q - p /\ k \in 1 .. Len(u) + Len(v)
      BY <1>1, <1>2, <1>3, <2>1
    <3> QED
      BY <1>2, <1>5, <2>1, <3>1
  <2>2. CASE ~(k <= q - p)
    <3> DEFINE n == k - (q - p)
    <3>1. n \in 1 .. r - q /\ k \in 1 .. Len(u) + Len(v) /\ q + n = p + k
      BY <1>1, <1>2, <1>3, <2>2
    <3>2. c[k] = v[n]
      BY <1>2, <1>5, <2>2, <3>1
    <3> QED
      BY <1>3, <3>1, <3>2
  <2> QED
    BY <2>1, <2>2
<1>8. w = c
  BY <1>4, <1>5, <1>6, <1>7, SameSeq
<1> QED
  BY <1>8 DEF c, u, v, w

\* One element more, none, and all.
LEMMA CutNext ==
    ASSUME NEW B, NEW s \in Seq(B), NEW p \in 0 .. Len(s), NEW q \in p .. Len(s)
    PROVE  /\ Cut(s, p, p) = <<>>
           /\ q < Len(s) => Cut(s, p, q + 1) = Append(Cut(s, p, q), s[q + 1])
<1>1. p \in Nat /\ q \in Nat /\ Len(s) \in Nat /\ p \in p .. Len(s)
  OBVIOUS
<1>2. Cut(s, p, p) = <<>>
  <2> DEFINE u == Cut(s, p, p)
  <2>1. u \in Seq(B) /\ Len(u) = p - p
    BY <1>1, CutIs
  <2> HIDE DEF u
  <2>2. u = <<>>
    BY <1>1, <2>1
  <2> QED
    BY <2>2 DEF u
<1>3. ASSUME q < Len(s) PROVE Cut(s, p, q + 1) = Append(Cut(s, p, q), s[q + 1])
  <2> DEFINE r == q + 1
             v == Cut(s, q, r)
             u == Cut(s, p, q)
  <2>1. r \in q .. Len(s) /\ q \in 0 .. Len(s) /\ r - q = 1
    BY <1>1, <1>3
  <2>2. Cut(s, p, r) = u \o v
    <3> HIDE DEF r
    <3> QED
      BY <2>1, CutSplit
  <2>3. v \in Seq(B) /\ Len(v) = 1 /\ v[1] = s[q + 1]
    <3>1. v \in Seq(B) /\ Len(v) = r - q /\ \A k \in 1 .. r - q : v[k] = s[q + k]
      <4> HIDE DEF r
      <4> QED
        BY <2>1, CutIs
    <3> HIDE DEF v
    <3> QED
      BY <2>1, <3>1
  <2>4. u \in Seq(B) /\ s[r] \in B
    <3>1. u \in Seq(B)
      BY CutIs
    <3>2. r \in 1 .. Len(s)
      BY <1>1, <1>3
    <3> QED
      BY <3>1, <3>2
  <2> HIDE DEF u, v
  <2>5. v = <<s[q + 1]>>
    BY <2>3
  <2>6. Append(u, s[q + 1]) = u \o <<s[q + 1]>>
    BY <2>4, AppendIsConcat
  <2> QED
    BY <2>2, <2>5, <2>6 DEF u
<1> QED
  BY <1>2, <1>3

-----------------------------------------------------------------------------
(* The parts of a hunk *)

\* A sequence is as long as its last position.
LEMMA LenIs ==
    ASSUME NEW B, NEW s \in Seq(B), NEW k \in Nat, DOMAIN s = 1 .. k
    PROVE  Len(s) = k
<1> DEFINE n == Len(s)
<1>1. n \in Nat /\ 1 .. n = 1 .. k
  BY LenProperties
<1> HIDE DEF n
<1>2. \A i \in Nat : i \in 1 .. n <=> i \in 1 .. k
  BY <1>1
<1>3. CASE n < k
  BY <1>1, <1>2, <1>3
<1>4. CASE k < n
  BY <1>1, <1>2, <1>4
<1> QED
  BY <1>1, <1>3, <1>4 DEF n

\* Lines that are tagged: with the other marker they are all there, with their own none.
LEMMA TaggedIs ==
    ASSUME NEW m \in Markers, NEW s \in Seq(Line), NEW lo \in 0 .. Len(s), NEW hi \in lo .. Len(s), NEW marker
    PROVE  /\ Tagged(m, s, lo, hi) \in Seq(HunkLine)
           /\ Without(Tagged(m, s, lo, hi), marker) = IF m = marker THEN <<>> ELSE Cut(s, lo, hi)
<1> DEFINE T(k) == [n \in 1 .. k |-> [marker |-> m, line |-> s[lo + n]]]
           W(u) == Without(u, marker)
           P(k) == T(k) \in Seq(HunkLine) /\ W(T(k)) = IF m = marker THEN <<>> ELSE Cut(s, lo, lo + k)
           S == {k \in Nat : lo + k <= Len(s) => P(k)}
<1>1. lo \in Nat /\ hi \in Nat /\ Len(s) \in Nat
  OBVIOUS
<1>2. Tagged(m, s, lo, hi) = T(hi - lo)
  <2>1. AtLeast0(hi - lo) = hi - lo
    BY <1>1 DEF AtLeast0
  <2> QED
    BY <2>1 DEF Tagged
<1>3. 0 \in S
  <2>1. T(0) = <<>>
    OBVIOUS
  <2>2. <<>> \in Seq(HunkLine) /\ W(<<>>) = <<>>
    BY EmptySeq, WithoutOfNone
  <2>3. Cut(s, lo, lo + 0) = <<>>
    <3>1. lo + 0 = lo /\ lo \in lo .. Len(s)
      BY <1>1
    <3> QED
      BY <3>1, CutNext
  <2> HIDE DEF T, W
  <2> QED
    BY <2>1, <2>2, <2>3
<1>4. ASSUME NEW k \in Nat, k \in S PROVE k + 1 \in S
  <2> HIDE DEF P
  <2> SUFFICES ASSUME lo + (k + 1) <= Len(s) PROVE P(k + 1)
    OBVIOUS
  <2> DEFINE l == [marker |-> m, line |-> s[lo + (k + 1)]]
             q == lo + k
  <2>1. q \in lo .. Len(s) /\ q < Len(s) /\ q + 1 = lo + (k + 1) /\ q + 1 \in 1 .. Len(s)
    BY <1>1
  <2>2. T(k) \in Seq(HunkLine) /\ W(T(k)) = IF m = marker THEN <<>> ELSE Cut(s, lo, q)
    <3>1. P(k)
      BY <1>1, <1>4, <2>1
    <3> HIDE DEF T, W
    <3> QED
      BY <3>1 DEF P
  <2>3. l \in HunkLine /\ l.marker = m /\ l.line = s[q + 1]
    <3>1. s[q + 1] \in Line
      BY <2>1
    <3> HIDE DEF q
    <3> QED
      BY <2>1, <3>1 DEF HunkLine
  <2>4. T(k + 1) = Append(T(k), l)
    <3> DEFINE u == T(k)
               v == T(k + 1)
    <3>0. DOMAIN u = 1 .. k /\ DOMAIN v = 1 .. k + 1
      OBVIOUS
    <3>1. u \in Seq(HunkLine) /\ Len(u) = k
      <4>1. u \in Seq(HunkLine)
        BY <2>2
      <4> HIDE DEF u
      <4> QED
        BY <3>0, <4>1, LenIs
    <3>2. \A n \in 1 .. k : u[n] = v[n]
      OBVIOUS
    <3>3. v[k + 1] = l
      OBVIOUS
    <3>4. v = [n \in 1 .. k + 1 |-> v[n]]
      OBVIOUS
    <3> HIDE DEF u, v, l
    <3> DEFINE w == Append(u, l)
    <3>5. w \in Seq(HunkLine) /\ Len(w) = k + 1 /\ w[k + 1] = l /\ \A n \in 1 .. k : w[n] = u[n]
      BY <2>3, <3>1, AppendProperties
    <3> HIDE DEF w
    <3>6. \A n \in 1 .. k + 1 : v[n] = w[n]
      <4>1. \A n \in 1 .. k + 1 : n = k + 1 \/ n \in 1 .. k
        OBVIOUS
      <4> QED
        BY <3>2, <3>3, <3>5, <4>1
    <3>7. v = w
      <4>1. w = [n \in 1 .. k + 1 |-> w[n]]
        BY <3>5
      <4> QED
        BY <3>4, <3>6, <4>1
    <3> QED
      BY <3>7 DEF u, v, w
  <2> DEFINE u == T(k)
  <2>5. T(k + 1) = Append(u, l) /\ u \in Seq(HunkLine) /\ W(u) = IF m = marker THEN <<>> ELSE Cut(s, lo, q)
    BY <2>2, <2>4
  <2> HIDE DEF l, u, q, T
  <2>6. W(Append(u, l)) = WithLine(W(u), l, marker) /\ Append(u, l) \in Seq(HunkLine)
    BY <2>3, <2>5, WithoutAppend, AppendProperties
  <2>7. Cut(s, lo, q + 1) = Append(Cut(s, lo, q), s[q + 1])
    BY <2>1, CutNext
  <2>8. WithLine(W(u), l, marker) = IF m = marker THEN <<>> ELSE Cut(s, lo, q + 1)
    <3> HIDE DEF W
    <3> QED
      BY <2>3, <2>5, <2>7 DEF WithLine
  <2> HIDE DEF W
  <2> QED
    BY <2>1, <2>5, <2>6, <2>8 DEF P
<1> HIDE DEF S, P
<1>5. hi - lo \in S /\ lo + (hi - lo) = hi
  <2>1. hi - lo \in Nat
    BY <1>1
  <2> QED
    BY <1>1, <1>3, <1>4, <2>1, NatSetInduction
<1> HIDE DEF T, W
<1>6. hi <= Len(s)
  BY <1>1
<1> QED
  BY <1>2, <1>5, <1>6 DEF S, P, W

\* The changes of a hunk that begins with lines p and q.
FromA(cs, p, k) == IF k = 1 THEN p ELSE EndA(cs, k - 1)
FromB(cs, q, k) == IF k = 1 THEN q ELSE EndB(cs, k - 1)

PartAt(x, y, cs, p, q, k) ==
    /\ Joined(x, y, FromA(cs, p, k), FromB(cs, q, k), cs[k].aStart, cs[k].bStart)
    /\ EndA(cs, k) <= Len(x) /\ EndB(cs, k) <= Len(y)

Group(x, y, cs, p, q) ==
    /\ cs \in Seq([aStart : Nat, aLines : Nat, bStart : Nat, bLines : Nat])
    /\ p \in 0 .. Len(x) /\ q \in 0 .. Len(y)
    /\ \A k \in 1 .. Len(cs) : PartAt(x, y, cs, p, q, k)

\* The lines that a part has of both texts.
Gives(lines, u, v) ==
    /\ lines \in Seq(HunkLine)
    /\ Without(lines, "+") = u
    /\ Without(lines, "-") = v

\* One part after another.
LEMMA GivesBoth ==
    ASSUME NEW s, NEW t, NEW u, NEW v, NEW w, NEW z, Gives(s, u, v), Gives(t, w, z)
    PROVE  Gives(s \o t, u \o w, v \o z)
<1>1. s \in Seq(HunkLine) /\ t \in Seq(HunkLine)
  BY DEF Gives
<1> DEFINE H == HunkLine
<1>2. s \o t \in Seq(HunkLine)
  <2>1. s \in Seq(H) /\ t \in Seq(H)
    BY <1>1
  <2> HIDE DEF H
  <2>2. s \o t \in Seq(H)
    BY <2>1, ConcatProperties
  <2> QED
    BY <2>2 DEF H
<1>3. Without(s \o t, "+") = Without(s, "+") \o Without(t, "+") /\ Without(s \o t, "-") = Without(s, "-") \o Without(t, "-")
  BY <1>1, WithoutConcat
<1> QED
  BY <1>2, <1>3 DEF Gives

\* What lines give that are in both texts, or in one.
LEMMA TaggedGives ==
    ASSUME NEW s \in Seq(Line), NEW lo \in 0 .. Len(s), NEW hi \in lo .. Len(s)
    PROVE  /\ Gives(Tagged(" ", s, lo, hi), Cut(s, lo, hi), Cut(s, lo, hi))
           /\ Gives(Tagged("-", s, lo, hi), Cut(s, lo, hi), <<>>)
           /\ Gives(Tagged("+", s, lo, hi), <<>>, Cut(s, lo, hi))
<1>1. " " \in Markers /\ "-" \in Markers /\ "+" \in Markers /\ " " # "-" /\ " " # "+" /\ "-" # "+"
  BY DEF Markers
<1>2. ASSUME NEW m \in Markers, NEW marker
      PROVE  /\ Tagged(m, s, lo, hi) \in Seq(HunkLine)
             /\ m = marker => Without(Tagged(m, s, lo, hi), marker) = <<>>
             /\ m # marker => Without(Tagged(m, s, lo, hi), marker) = Cut(s, lo, hi)
  BY TaggedIs
<1>3. Gives(Tagged(" ", s, lo, hi), Cut(s, lo, hi), Cut(s, lo, hi))
  BY <1>1, <1>2, Zenon DEF Gives
<1>4. Gives(Tagged("-", s, lo, hi), Cut(s, lo, hi), <<>>)
  BY <1>1, <1>2, Zenon DEF Gives
<1>5. Gives(Tagged("+", s, lo, hi), <<>>, Cut(s, lo, hi))
  BY <1>1, <1>2, Zenon DEF Gives
<1> QED
  BY <1>3, <1>4, <1>5

\* The lines of Part, from lines d and e on.
Parts(x, y, c, d) == (Tagged(" ", x, d, c.aStart)
    \o Tagged("-", x, c.aStart, c.aStart + c.aLines))
    \o Tagged("+", y, c.bStart, c.bStart + c.bLines)

\* A part of a hunk gives the lines of both texts up to the end of its change.
LEMMA PartsGive ==
    ASSUME NEW x \in Seq(Line), NEW y \in Seq(Line), NEW c, NEW d \in Nat, NEW e \in Nat,
           c.aStart \in Nat, c.aLines \in Nat, c.bStart \in Nat, c.bLines \in Nat,
           Joined(x, y, d, e, c.aStart, c.bStart),
           c.aStart + c.aLines <= Len(x), c.bStart + c.bLines <= Len(y)
    PROVE  Gives(Parts(x, y, c, d), Cut(x, d, c.aStart + c.aLines), Cut(y, e, c.bStart + c.bLines))
<1> DEFINE i == c.aStart
           p == i + c.aLines
           j == c.bStart
           q == j + c.bLines
<1>1. Len(x) \in Nat /\ Len(y) \in Nat /\ i \in Nat /\ p \in Nat /\ j \in Nat /\ q \in Nat /\ d \in Nat /\ e \in Nat
  OBVIOUS
<1>2. d <= i /\ i - d = j - e /\ \A k \in 0 .. i - d - 1 : x[d + k + 1] = y[e + k + 1]
  BY DEF Joined
<1>3. i <= p /\ p <= Len(x) /\ j <= q /\ q <= Len(y)
  BY <1>1
<1> DEFINE s == Tagged(" ", x, d, i)
           t == Tagged("-", x, i, p)
           u == Tagged("+", y, j, q)
<1>0. Parts(x, y, c, d) = (s \o t) \o u
  BY Zenon DEF Parts
<1> HIDE DEF i, j, p, q
<1>4. /\ d \in 0 .. Len(x) /\ i \in d .. Len(x) /\ i \in 0 .. Len(x) /\ p \in i .. Len(x)
      /\ e \in 0 .. Len(y) /\ j \in e .. Len(y) /\ j \in 0 .. Len(y) /\ q \in j .. Len(y)
  BY <1>1, <1>2, <1>3
<1>5. Cut(x, d, i) = Cut(y, e, j)
  <2> DEFINE n == i - d
  <2>1. n \in Nat /\ i - d = n /\ j - e = n
    BY <1>1, <1>2
  <2>2. Alike(x, y, d, e, n)
    BY <1>2 DEF Alike
  <2> HIDE DEF n, s, t, u
  <2> QED
    BY <1>4, <2>1, <2>2, CutSame
<1>6. Gives(s, Cut(x, d, i), Cut(x, d, i)) /\ Gives(t, Cut(x, i, p), <<>>) /\ Gives(u, <<>>, Cut(y, j, q))
  BY <1>4, TaggedGives, Zenon
<1> HIDE DEF s, t, u
<1>7. Gives(s \o t, Cut(x, d, i) \o Cut(x, i, p), Cut(y, e, j) \o <<>>)
  BY <1>5, <1>6, GivesBoth
<1>8. Gives((s \o t) \o u, (Cut(x, d, i) \o Cut(x, i, p)) \o <<>>, (Cut(y, e, j) \o <<>>) \o Cut(y, j, q))
  BY <1>6, <1>7, GivesBoth
<1>9. Cut(x, d, p) = Cut(x, d, i) \o Cut(x, i, p) /\ Cut(y, e, q) = Cut(y, e, j) \o Cut(y, j, q)
  BY <1>4, CutSplit
<1>10. Cut(x, d, p) \in Seq(Line) /\ Cut(y, e, j) \in Seq(Line)
  <2>1. p \in d .. Len(x)
    BY <1>1, <1>2, <1>3
  <2> QED
    BY <1>4, <2>1, CutIs
<1> DEFINE v == Cut(x, d, p)
           w == Cut(y, e, j)
<1>11. v \o <<>> = v /\ w \o <<>> = w
  <2> HIDE DEF v, w
  <2>1. v \in Seq(Line) /\ w \in Seq(Line)
    BY <1>10 DEF v, w
  <2> QED
    BY <2>1, ConcatEmptySeq
<1>12. Gives((s \o t) \o u, Cut(x, d, p), Cut(y, e, q))
  BY <1>8, <1>9, <1>11
<1> QED
  BY <1>0, <1>12 DEF p, q, i, j

\* The lines of a part, after those of the parts before it.
LEMMA PartIs ==
    ASSUME NEW x \in Seq(Line), NEW y \in Seq(Line), NEW cs, NEW p, NEW q, Group(x, y, cs, p, q), NEW k \in 1 .. Len(cs)
    PROVE  /\ FromA(cs, p, k) \in 0 .. Len(x) /\ EndA(cs, k) \in FromA(cs, p, k) .. Len(x)
           /\ FromB(cs, q, k) \in 0 .. Len(y) /\ EndB(cs, k) \in FromB(cs, q, k) .. Len(y)
           /\ Gives(Part(x, y, cs, p, k), Cut(x, FromA(cs, p, k), EndA(cs, k)), Cut(y, FromB(cs, q, k), EndB(cs, k)))
<1> DEFINE c == cs[k]
           d == FromA(cs, p, k)
           e == FromB(cs, q, k)
           n == Len(cs)
           C == Seq([aStart : Nat, aLines : Nat, bStart : Nat, bLines : Nat])
<1>1. /\ cs \in C /\ p \in 0 .. Len(x) /\ q \in 0 .. Len(y) /\ \A l \in 1 .. n : PartAt(x, y, cs, p, q, l)
  BY DEF Group
<1>2. n \in Nat /\ Len(x) \in Nat /\ Len(y) \in Nat
  <2> HIDE DEF n
  <2>1. Len(cs) \in Nat
    BY <1>1, EndsOf
  <2> QED
    BY <2>1 DEF n
<1>3. c.aStart \in Nat /\ c.aLines \in Nat /\ c.bStart \in Nat /\ c.bLines \in Nat
  <2> HIDE DEF n
  <2> QED
    BY <1>1, FieldsOf
<1>4. \A l \in 1 .. n : EndA(cs, l) \in Nat /\ EndB(cs, l) \in Nat /\ EndA(cs, l) <= Len(x) /\ EndB(cs, l) <= Len(y)
  <2>1. \A l \in 1 .. n : l \in 0 .. n
    BY <1>2
  <2>2. \A l \in 1 .. n : EndA(cs, l) \in Nat /\ EndB(cs, l) \in Nat
    BY <1>1, <2>1, EndsOf
  <2> QED
    BY <1>1, <2>2 DEF PartAt
<1>5. d \in 0 .. Len(x) /\ e \in 0 .. Len(y)
  <2>1. k = 1 \/ k - 1 \in 1 .. n
    BY <1>2
  <2> QED
    <3>1. CASE k = 1
      BY <1>1, <3>1 DEF FromA, FromB
    <3>2. CASE k # 1
      <4>1. d = EndA(cs, k - 1) /\ e = EndB(cs, k - 1) /\ k - 1 \in 1 .. n
        BY <2>1, <3>2 DEF FromA, FromB
      <4> QED
        BY <1>2, <1>4, <4>1
    <3> QED
      BY <3>1, <3>2
<1>6. EndA(cs, k) = c.aStart + c.aLines /\ EndB(cs, k) = c.bStart + c.bLines
  <2>1. k # 0
    BY <1>2
  <2> QED
    BY <2>1 DEF EndA, EndB
<1>7. Joined(x, y, d, e, c.aStart, c.bStart)
  BY <1>1 DEF PartAt
<1>8. Part(x, y, cs, p, k) = Parts(x, y, c, d)
  <2>1. k # 1 => k - 1 # 0
    BY <1>2
  <2>2. d = IF k = 1 THEN p ELSE cs[k - 1].aStart + cs[k - 1].aLines
    BY <2>1 DEF FromA, EndA
  <2> HIDE DEF d
  <2>3. Part(x, y, cs, p, k) = Parts(x, y, c, d)
    BY <2>2, Zenon DEF Part, Parts
  <2> QED
    BY <2>3
<1> HIDE DEF c, d, e, n, C
<1>9. EndA(cs, k) \in d .. Len(x) /\ EndB(cs, k) \in e .. Len(y)
  <2>1. d <= c.aStart /\ c.aStart - d = c.bStart - e
    BY <1>7 DEF Joined
  <2>2. EndA(cs, k) <= Len(x) /\ EndB(cs, k) <= Len(y)
    BY <1>4 DEF n
  <2> QED
    <3> DEFINE i == c.aStart
               j == c.bStart
               v == c.aLines
               w == c.bLines
               X == Len(x)
               Y == Len(y)
    <3>1. /\ i \in Nat /\ j \in Nat /\ v \in Nat /\ w \in Nat /\ d \in 0 .. X /\ e \in 0 .. Y /\ X \in Nat /\ Y \in Nat
          /\ d <= i /\ i - d = j - e /\ i + v <= X /\ j + w <= Y
      BY <1>2, <1>3, <1>5, <1>6, <2>1, <2>2
    <3> HIDE DEF i, j, v, w, X, Y
    <3>2. i + v \in d .. X /\ j + w \in e .. Y
      BY <3>1
    <3> QED
      BY <1>6, <3>2 DEF i, j, v, w, X, Y
<1>10. Gives(Parts(x, y, c, d), Cut(x, d, c.aStart + c.aLines), Cut(y, e, c.bStart + c.bLines))
  <2>1. c.aStart + c.aLines <= Len(x) /\ c.bStart + c.bLines <= Len(y) /\ d \in Nat /\ e \in Nat
    BY <1>2, <1>3, <1>5, <1>6, <1>9
  <2> QED
    BY <1>3, <1>7, <2>1, PartsGive
<1> QED
  BY <1>5, <1>6, <1>8, <1>9, <1>10 DEF d, e

\* The lines of all the parts.
LEMMA AllPartsGive ==
    ASSUME NEW x \in Seq(Line), NEW y \in Seq(Line), NEW cs, NEW p, NEW q, Group(x, y, cs, p, q), Len(cs) > 0
    PROVE  /\ EndA(cs, Len(cs)) \in p .. Len(x) /\ EndB(cs, Len(cs)) \in q .. Len(y)
           /\ Gives(FlattenSeq([k \in DOMAIN cs |-> Part(x, y, cs, p, k)]),
                    Cut(x, p, EndA(cs, Len(cs))), Cut(y, q, EndB(cs, Len(cs))))
<1> DEFINE N == Len(cs)
           P(k) == Part(x, y, cs, p, k)
           F(k) == [l \in 1 .. k |-> P(l)]
           a(k) == FromA(cs, p, k)
           b(k) == FromB(cs, q, k)
           Good(k) == /\ a(k + 1) \in p .. Len(x) /\ b(k + 1) \in q .. Len(y)
                      /\ F(k) \in Seq(Seq(HunkLine))
                      /\ Gives(FlattenSeq(F(k)), Cut(x, p, a(k + 1)), Cut(y, q, b(k + 1)))
           S == {k \in Nat : k <= N => Good(k)}
<1>1. N \in Nat /\ DOMAIN cs = 1 .. N /\ p \in 0 .. Len(x) /\ q \in 0 .. Len(y)
  <2>1. cs \in Seq([aStart : Nat, aLines : Nat, bStart : Nat, bLines : Nat]) /\ p \in 0 .. Len(x) /\ q \in 0 .. Len(y)
    BY DEF Group
  <2> QED
    BY <2>1, LenProperties
<1>2. 0 \in S
  <2>1. F(0) = <<>>
    OBVIOUS
  <2>2. PICK z : z = <<>>
    OBVIOUS
  <2>3. z \in Seq(Seq(HunkLine)) /\ z \in Seq(HunkLine) /\ FlattenSeq(z) = z
    <3> DEFINE H == HunkLine
    <3> HIDE DEF H
    <3>1. z \in Seq(Seq(H)) /\ z \in Seq(H)
      BY <2>2, EmptySeq
    <3>2. FlattenSeq(<<>>) = <<>>
      BY <2>2, <3>1, FlattenAppend
    <3> QED
      BY <2>2, <3>1, <3>2 DEF H
  <2>4. Without(z, "+") = <<>> /\ Without(z, "-") = <<>>
    BY <2>2, WithoutOfNone, Zenon
  <2>5. a(1) = p /\ b(1) = q /\ 0 + 1 = 1
    BY DEF FromA, FromB
  <2>6. Cut(x, p, p) = <<>> /\ Cut(y, q, q) = <<>>
    <3>1. p \in p .. Len(x) /\ q \in q .. Len(y)
      BY <1>1
    <3> QED
      BY <1>1, <3>1, CutNext
  <2>7. Gives(z, Cut(x, p, p), Cut(y, q, q))
    BY <2>2, <2>3, <2>4, <2>6, Zenon DEF Gives
  <2>8. Good(0)
    <3>1. p \in p .. Len(x) /\ q \in q .. Len(y)
      BY <1>1
    <3> HIDE DEF F, a, b
    <3> QED
      BY <2>1, <2>2, <2>3, <2>5, <2>7, <3>1
  <2> HIDE DEF Good
  <2> QED
    BY <2>8
<1>3. ASSUME NEW k \in Nat, k \in S PROVE k + 1 \in S
  <2> HIDE DEF Good
  <2> SUFFICES ASSUME k + 1 <= N PROVE Good(k + 1)
    OBVIOUS
  <2> DEFINE l == k + 1
             i == a(l)
             j == b(l)
             m == EndA(cs, l)
             n == EndB(cs, l)
             f == F(k)
             c == P(l)
  <2>1. l \in 1 .. Len(cs) /\ l \in Nat /\ l # 0 /\ l + 1 # 1 /\ (l + 1) - 1 = l
    BY <1>1
  <2>2. Good(k)
    BY <1>1, <1>3
  <2>3. /\ i \in p .. Len(x) /\ j \in q .. Len(y) /\ f \in Seq(Seq(HunkLine))
        /\ Gives(FlattenSeq(f), Cut(x, p, i), Cut(y, q, j))
    BY <2>2 DEF Good
  <2>4. a(l + 1) = m /\ b(l + 1) = n
    <3> HIDE DEF l
    <3> QED
      BY <2>1 DEF FromA, FromB
  <2>5. F(l) = Append(f, c)
    <3> DEFINE v == F(l)
    <3>0. DOMAIN f = 1 .. k /\ DOMAIN v = 1 .. k + 1 /\ v = [h \in 1 .. k + 1 |-> v[h]] /\ v[k + 1] = c /\ \A h \in 1 .. k : v[h] = f[h]
      OBVIOUS
    <3> DEFINE w == Append(f, c)
               H == Seq(HunkLine)
    <3>1. c \in H
      <4> HIDE DEF l
      <4>1. Gives(c, Cut(x, i, m), Cut(y, j, n))
        BY <2>1, PartIs
      <4> QED
        BY <4>1 DEF Gives
    <3>2. f \in Seq(H)
      BY <2>3
    <3> HIDE DEF f, c, v, H
    <3>3. Len(f) = k
      BY <3>0, <3>2, LenIs
    <3>4. w \in Seq(H) /\ Len(w) = k + 1 /\ w[k + 1] = c /\ \A h \in 1 .. k : w[h] = f[h]
      BY <3>1, <3>2, <3>3, AppendProperties
    <3> HIDE DEF w
    <3>5. \A h \in 1 .. k + 1 : v[h] = w[h]
      <4>1. \A h \in 1 .. k + 1 : h = k + 1 \/ h \in 1 .. k
        OBVIOUS
      <4> QED
        BY <3>0, <3>4, <4>1
    <3>6. w = [h \in 1 .. k + 1 |-> w[h]]
      BY <3>4
    <3>7. v = w
      BY <3>0, <3>5, <3>6
    <3> QED
      BY <3>7 DEF v, w
  <2>6. /\ i \in 0 .. Len(x) /\ m \in i .. Len(x) /\ j \in 0 .. Len(y) /\ n \in j .. Len(y)
        /\ Gives(c, Cut(x, i, m), Cut(y, j, n))
    <3> HIDE DEF l
    <3> QED
      BY <2>1, PartIs
  <2> HIDE DEF i, j, m, n, f, c, l, P, F, a, b
  <2>7. c \in Seq(HunkLine)
    BY <2>6 DEF Gives
  <2>8. FlattenSeq(Append(f, c)) = FlattenSeq(f) \o c /\ Append(f, c) \in Seq(Seq(HunkLine))
    <3> DEFINE H == HunkLine
               G == Seq(H)
    <3>1. f \in Seq(G) /\ c \in G
      BY <2>3, <2>7
    <3>2. Append(f, c) \in Seq(G)
      <4> HIDE DEF G
      <4> QED
        BY <3>1, AppendProperties
    <3> HIDE DEF H
    <3> QED
      BY <3>1, <3>2, FlattenAppend DEF H
  <2>9. Gives(FlattenSeq(f) \o c, Cut(x, p, i) \o Cut(x, i, m), Cut(y, q, j) \o Cut(y, j, n))
    BY <2>3, <2>6, GivesBoth
  <2>10. Cut(x, p, m) = Cut(x, p, i) \o Cut(x, i, m) /\ Cut(y, q, n) = Cut(y, q, j) \o Cut(y, j, n)
    BY <1>1, <2>3, <2>6, CutSplit
  <2>11. m \in p .. Len(x) /\ n \in q .. Len(y)
    BY <1>1, <2>3, <2>6
  <2>12. Good(l)
    BY <2>4, <2>5, <2>8, <2>9, <2>10, <2>11 DEF Good
  <2> QED
    BY <2>12 DEF l
<1> HIDE DEF Good, S
<1>4. N \in S /\ N <= N
  BY <1>1, <1>2, <1>3, NatSetInduction
<1>5. Good(N)
  BY <1>4 DEF S
<1>6. a(N + 1) = EndA(cs, N) /\ b(N + 1) = EndB(cs, N)
  <2>1. N + 1 # 1 /\ (N + 1) - 1 = N
    BY <1>1
  <2> HIDE DEF N
  <2> QED
    BY <2>1 DEF FromA, FromB
<1>7. F(N) = [k \in DOMAIN cs |-> Part(x, y, cs, p, k)]
  BY <1>1
<1> HIDE DEF F, a, b
<1>8. a(N + 1) \in p .. Len(x) /\ b(N + 1) \in q .. Len(y)
      /\ Gives(FlattenSeq(F(N)), Cut(x, p, a(N + 1)), Cut(y, q, b(N + 1)))
  BY <1>5 DEF Good
<1> QED
  BY <1>6, <1>7, <1>8

\* A hunk is the lines p up to e of one text, and q up to f of the other.
HunkFits(x, y, base, h, p, e, q, f) ==
    /\ h.a = base + p /\ h.aLines = e - p
    /\ h.b = base + q /\ h.bLines = f - q
    /\ h = [a |-> h.a, aLines |-> h.aLines, b |-> h.b, bLines |-> h.bLines, lines |-> h.lines]
    /\ Gives(h.lines, Cut(x, p, e), Cut(y, q, f))

\* The hunk of changes of one group.
LEMMA HunkOfIs ==
    ASSUME NEW x \in Seq(Line), NEW y \in Seq(Line), NEW cs, NEW base, NEW p, NEW q, Group(x, y, cs, p, q), Len(cs) > 0,
           NEW e \in EndA(cs, Len(cs)) .. Len(x), NEW f \in EndB(cs, Len(cs)) .. Len(y),
           Joined(x, y, EndA(cs, Len(cs)), EndB(cs, Len(cs)), e, f),
           p = AtLeast0(cs[1].aStart - contextLines), q = cs[1].bStart - (cs[1].aStart - p),
           e = Least(Len(x), EndA(cs, Len(cs)) + contextLines), f = EndB(cs, Len(cs)) + (e - EndA(cs, Len(cs)))
    PROVE  HunkFits(x, y, base, HunkOf(x, y, cs, base), p, e, q, f)
<1> DEFINE n == Len(cs)
           i == EndA(cs, n)
           j == EndB(cs, n)
           lines == FlattenSeq([k \in DOMAIN cs |-> Part(x, y, cs, p, k)])
           rest == Tagged(" ", x, i, e)
           h == HunkOf(x, y, cs, base)
<1>1. n \in Nat /\ n # 0 /\ cs \in Seq([aStart : Nat, aLines : Nat, bStart : Nat, bLines : Nat])
      /\ p \in 0 .. Len(x) /\ q \in 0 .. Len(y) /\ Len(x) \in Nat /\ Len(y) \in Nat
  <2>1. cs \in Seq([aStart : Nat, aLines : Nat, bStart : Nat, bLines : Nat]) /\ p \in 0 .. Len(x) /\ q \in 0 .. Len(y)
    BY DEF Group
  <2> QED
    BY <2>1, LenProperties
<1>2. Head(cs) = cs[1] /\ Last(cs) = cs[n]
  BY DEF Head, Last
<1>3. i = cs[n].aStart + cs[n].aLines /\ j = cs[n].bStart + cs[n].bLines
  <2> HIDE DEF n
  <2> QED
    BY <1>1 DEF EndA, EndB
<1>4. i \in p .. Len(x) /\ j \in q .. Len(y) /\ Gives(lines, Cut(x, p, i), Cut(y, q, j))
  BY AllPartsGive
<1>5. h.a = base + p /\ h.aLines = e - p /\ h.b = base + q /\ h.bLines = f - q /\ h.lines = lines \o rest
      /\ h = [a |-> h.a, aLines |-> h.aLines, b |-> h.b, bLines |-> h.bLines, lines |-> h.lines]
  <2> DEFINE aEnd == cs[n].aStart + cs[n].aLines
             aLo == AtLeast0(cs[1].aStart - contextLines)
             aHi == Least(Len(x), aEnd + contextLines)
             bLo == cs[1].bStart - (cs[1].aStart - aLo)
             bHi == cs[n].bStart + cs[n].bLines + (aHi - aEnd)
             more == Tagged(" ", x, aEnd, aHi)
             all == FlattenSeq([k \in DOMAIN cs |-> Part(x, y, cs, aLo, k)])
  <2>1. h = [a |-> base + aLo, aLines |-> aHi - aLo, b |-> base + bLo, bLines |-> bHi - bLo, lines |-> all \o more]
    BY <1>2, Zenon DEF HunkOf
  <2>2. aEnd = i /\ aLo = p
    BY <1>3, Zenon
  <2>3. aHi = e /\ bLo = q
    <3> HIDE DEF aLo, aEnd, more
    <3> QED
      BY <2>2
  <2>4. bHi = f
    <3> HIDE DEF aEnd, aHi, more
    <3> QED
      BY <1>3, <2>2, <2>3
  <2> HIDE DEF aLo, aHi, bLo, bHi, aEnd
  <2>5. all = lines /\ more = rest
    BY <2>2, <2>3, Zenon
  <2> HIDE DEF all, more, lines, rest, h
  <2> QED
    BY <2>1, <2>2, <2>3, <2>4, <2>5
<1> HIDE DEF i, j, lines, n
<1>6. Gives(rest, Cut(x, i, e), Cut(x, i, e))
  <2>1. i \in 0 .. Len(x) /\ e \in i .. Len(x)
    BY <1>1, <1>4 DEF i, n
  <2> QED
    BY <2>1, TaggedGives, Zenon
<1> HIDE DEF rest
<1>7. Cut(x, i, e) = Cut(y, j, f)
  <2> DEFINE m == e - i
  <2>1. i <= e /\ e - i = f - j /\ \A k \in 0 .. e - i - 1 : x[i + k + 1] = y[j + k + 1]
    BY DEF Joined, i, j, n
  <2>2. e \in i .. Len(x) /\ f \in j .. Len(y)
    BY DEF i, j, n
  <2>3. m \in Nat /\ e - i = m /\ f - j = m /\ i \in 0 .. Len(x) /\ j \in 0 .. Len(y)
    <3>1. e - i = f - j /\ i \in Nat /\ e \in Nat /\ i <= e /\ j \in Nat /\ f \in Nat /\ p \in Nat /\ q \in Nat
      <4>1. e - i = f - j
        BY <2>1
      <4>2. p \in Nat /\ q \in Nat
        BY <1>1
      <4>3. i \in Nat /\ j \in Nat
        BY <1>4, <4>2
      <4>4. e \in Nat /\ i <= e /\ f \in Nat
        BY <2>2, <4>3
      <4> QED
        BY <4>1, <4>2, <4>3, <4>4
    <3>2. i <= Len(x) /\ j <= Len(y)
      BY <1>1, <1>4
    <3> QED
      BY <3>1, <3>2
  <2>4. Alike(x, y, i, j, m)
    BY <2>1 DEF Alike
  <2> HIDE DEF m
  <2> QED
    BY <2>2, <2>3, <2>4, CutSame
<1>8. Gives(lines \o rest, Cut(x, p, i) \o Cut(x, i, e), Cut(y, q, j) \o Cut(y, j, f))
  BY <1>4, <1>6, <1>7, GivesBoth
<1>9. Cut(x, p, e) = Cut(x, p, i) \o Cut(x, i, e) /\ Cut(y, q, f) = Cut(y, q, j) \o Cut(y, j, f)
  <2>1. e \in i .. Len(x) /\ f \in j .. Len(y)
    BY DEF i, j, n
  <2> QED
    BY <1>1, <1>4, <2>1, CutSplit
<1> HIDE DEF h
<1>10. HunkFits(x, y, base, h, p, e, q, f)
  BY <1>5, <1>8, <1>9 DEF HunkFits
<1> QED
  BY <1>10 DEF h

-----------------------------------------------------------------------------
(* The groups of changes *)

\* Between two lines of a stretch that is the same.
LEMMA JoinedWithin ==
    ASSUME NEW x, NEW y, NEW i \in Nat, NEW j \in Nat, NEW k \in Nat, NEW l \in Nat, Joined(x, y, i, j, k, l),
           NEW m \in i .. k, NEW n \in m .. k
    PROVE  Joined(x, y, m, j + (m - i), n, j + (n - i))
<1> DEFINE q == j + (m - i)
<1>1. \A h \in 0 .. k - i - 1 : x[i + h + 1] = y[j + h + 1]
  BY DEF Joined
<1>2. ASSUME NEW h \in 0 .. n - m - 1 PROVE x[m + h + 1] = y[q + h + 1]
  <2> DEFINE o == h + (m - i)
  <2>1. o \in 0 .. k - i - 1 /\ i + o + 1 = m + h + 1 /\ j + o + 1 = q + h + 1
    OBVIOUS
  <2> HIDE DEF o, q
  <2>2. x[i + o + 1] = y[j + o + 1]
    BY <1>1, <2>1
  <2> QED
    BY <2>1, <2>2
<1>3. m <= n /\ n - m = (j + (n - i)) - q
  OBVIOUS
<1> HIDE DEF q
<1>4. Joined(x, y, m, q, n, j + (n - i))
  BY <1>2, <1>3 DEF Joined
<1> QED
  BY <1>4 DEF q

\* ds is the group of the changes from g to l, which come after lines p and q.
GroupFrom(x, y, cs, ds, g, l, p, q) ==
    /\ Group(x, y, ds, p, q) /\ Len(ds) > 0 /\ ds[1] = cs[g]
    /\ EndA(ds, Len(ds)) = EndA(cs, l) /\ EndB(ds, Len(ds)) = EndB(cs, l)

\* The changes from g to l make a group, when lines p and q are joined to the first of them.
LEMMA GroupIs ==
    ASSUME NEW x \in Seq(Line), NEW y \in Seq(Line), NEW cs \in ChangesOf(x, y), NEW g \in 1 .. Len(cs), NEW l \in g .. Len(cs),
           NEW p \in 0 .. Len(x), NEW q \in 0 .. Len(y), Joined(x, y, p, q, cs[g].aStart, cs[g].bStart),
           NEW ds, ds = SubSeq(cs, g, l)
    PROVE  GroupFrom(x, y, cs, ds, g, l, p, q)
<1> DEFINE C == [aStart : Nat, aLines : Nat, bStart : Nat, bLines : Nat]
           N == Len(cs)
           i == g - 1
           n == l - i
<1>1. cs \in Seq(C) /\ N \in Nat /\ \A k \in 1 .. N : ChangeAt(x, y, cs, k)
  BY LenProperties DEF ChangesOf
<1>2. i \in 0 .. N /\ l \in i .. N /\ n \in Nat /\ n > 0 /\ i + 1 = g /\ i + n = l /\ i \in Nat /\ l \in Nat /\ l <= N
  BY <1>1
<1>3. ds = Cut(cs, i, l)
  BY <1>2 DEF Cut
<1>4. ds \in Seq(C) /\ Len(ds) = n /\ \A k \in 1 .. n : ds[k] = cs[i + k]
  <2> HIDE DEF C, i
  <2>1. /\ Cut(cs, i, l) \in Seq(C) /\ Len(Cut(cs, i, l)) = l - i
        /\ \A k \in 1 .. l - i : Cut(cs, i, l)[k] = cs[i + k]
    BY <1>1, <1>2, CutIs
  <2> QED
    BY <1>3, <2>1
<1> HIDE DEF i, n, N
<1>5. \A k \in 1 .. n : EndA(ds, k) = EndA(cs, i + k) /\ EndB(ds, k) = EndB(cs, i + k)
  <2>1. ASSUME NEW k \in 1 .. n PROVE k # 0 /\ i + k # 0
    <3>1. k \in Nat /\ k > 0 /\ i \in Nat
      BY <1>2
    <3> QED
      BY <3>1
  <2> QED
    BY <1>4, <2>1 DEF EndA, EndB
<1>6. ASSUME NEW k \in 1 .. n PROVE PartAt(x, y, ds, p, q, k)
  <2>1. ds[k] = cs[i + k] /\ i + k \in 1 .. N
    <3>1. k \in Nat /\ k > 0 /\ k <= n /\ n \in Nat /\ i \in Nat /\ N \in Nat /\ i + n <= N
      BY <1>1, <1>2
    <3>2. i + k \in 1 .. N
      BY <3>1
    <3>3. ds[k] = cs[i + k]
      BY <1>4
    <3> QED
      BY <3>2, <3>3
  <2>2. ChangeAt(x, y, cs, i + k)
    BY <1>1, <2>1
  <2>3. EndA(ds, k) <= Len(x) /\ EndB(ds, k) <= Len(y)
    BY <1>5, <2>2 DEF ChangeAt
  <2>4. CASE k = 1
    <3>1. ds[k] = cs[g]
      BY <1>2, <1>4, <2>4
    <3>2. FromA(ds, p, k) = p /\ FromB(ds, q, k) = q
      BY <2>4 DEF FromA, FromB
    <3> QED
      BY <2>3, <3>1, <3>2 DEF PartAt
  <2>5. CASE k # 1
    <3>1. k - 1 \in 1 .. n /\ i + (k - 1) = (i + k) - 1
      BY <1>1, <1>2, <2>5
    <3>2. FromA(ds, p, k) = EndA(cs, (i + k) - 1) /\ FromB(ds, q, k) = EndB(cs, (i + k) - 1)
      BY <1>5, <2>5, <3>1 DEF FromA, FromB
    <3>3. Joined(x, y, EndA(cs, (i + k) - 1), EndB(cs, (i + k) - 1), cs[i + k].aStart, cs[i + k].bStart)
      BY <2>2 DEF ChangeAt
    <3> QED
      BY <2>1, <2>3, <3>2, <3>3 DEF PartAt
  <2> QED
    BY <2>4, <2>5
<1>7. Group(x, y, ds, p, q)
  BY <1>4, <1>6 DEF Group, C
<1>8. ds[1] = cs[g] /\ EndA(ds, n) = EndA(cs, l) /\ EndB(ds, n) = EndB(cs, l)
  <2>1. 1 \in 1 .. n /\ n \in 1 .. n
    BY <1>2
  <2> QED
    BY <1>2, <1>4, <1>5, <2>1
<1> QED
  BY <1>2, <1>4, <1>7, <1>8 DEF GroupFrom

\* The changes of a hunk are near each other, and the next one is not.
LEMMA GroupEndIs ==
    ASSUME NEW x, NEW y, NEW cs \in ChangesOf(x, y), NEW g \in 1 .. Len(cs)
    PROVE  /\ GroupEnd(cs, g) \in g .. Len(cs)
           /\ GroupEnd(cs, g) < Len(cs) =>
                  cs[GroupEnd(cs, g) + 1].aStart - EndA(cs, GroupEnd(cs, g)) > 2 * contextLines
<1> DEFINE N == Len(cs)
           near(n) == cs[n].aStart - (cs[n - 1].aStart + cs[n - 1].aLines) <= 2 * contextLines
           S == {l \in g .. N : \A n \in g + 1 .. l : near(n)}
           l == Largest(S)
<1>1. cs \in Seq([aStart : Nat, aLines : Nat, bStart : Nat, bLines : Nat])
  BY DEF ChangesOf
<1>2. N \in Nat /\ g \in Nat
  BY <1>1, LenProperties
<1> HIDE DEF near
<1>3. g \in S /\ S \in SUBSET (g .. N)
  <2>1. g \in g .. N
    BY <1>2
  <2>2. \A n \in g + 1 .. g : near(n)
    BY <1>2
  <2> QED
    BY <2>1, <2>2
<1>4. l \in S /\ \A k \in S : k <= l
  <2>1. S # {} /\ g \in Int /\ N \in Int
    BY <1>2, <1>3
  <2> HIDE DEF S, N
  <2> QED
    BY <1>3, <2>1, LargestIs
<1>5. GroupEnd(cs, g) = l
  BY DEF GroupEnd, near
<1> HIDE DEF l
<1>6. l \in g .. N /\ \A n \in g + 1 .. l : near(n)
  BY <1>4
<1>7. ASSUME l < N PROVE cs[l + 1].aStart - EndA(cs, l) > 2 * contextLines
  <2> DEFINE m == l + 1
  <2>1. m \in g .. N /\ ~(m <= l) /\ m \in Nat /\ l # 0 /\ m - 1 = l /\ m \in 1 .. N /\ l \in 1 .. N /\ l \in Nat
    BY <1>2, <1>6, <1>7
  <2>2. m \notin S
    BY <1>4, <2>1
  <2>3. \A n \in g + 1 .. m : n \in g + 1 .. l \/ n = m
    BY <1>2, <2>1
  <2>4. ~near(m)
    <3> HIDE DEF m
    <3> QED
      BY <1>6, <2>1, <2>2, <2>3
  <2>5. ~(cs[m].aStart - EndA(cs, l) <= 2 * contextLines)
    BY <2>1, <2>4 DEF near, EndA
  <2>6. cs[m].aStart \in Nat /\ EndA(cs, l) \in Nat /\ contextLines \in Nat
    <3>1. cs[m].aStart \in Nat
      <4> HIDE DEF m
      <4> QED
        BY <1>1, <2>1, FieldsOf
    <3>2. cs[l].aStart \in Nat /\ cs[l].aLines \in Nat
      BY <1>1, <2>1, FieldsOf
    <3>3. EndA(cs, l) \in Nat
      BY <2>1, <3>2 DEF EndA
    <3> QED
      BY <3>1, <3>3, DiffAssumption
  <2> DEFINE v == cs[m].aStart
             w == EndA(cs, l)
  <2>7. v - w > 2 * contextLines
    <3>1. v \in Nat /\ w \in Nat /\ contextLines \in Nat /\ ~(v - w <= 2 * contextLines)
      BY <2>5, <2>6
    <3> HIDE DEF v, w
    <3> QED
      BY <3>1
  <2> QED
    BY <2>7
<1> QED
  BY <1>5, <1>6, <1>7

-----------------------------------------------------------------------------
(* The hunks *)

\* Where the k-th of the changes starts, or the texts end.
StartA(x, cs, k) == IF k = Len(cs) + 1 THEN Len(x) ELSE cs[k].aStart
StartB(y, cs, k) == IF k = Len(cs) + 1 THEN Len(y) ELSE cs[k].bStart

\* Between two changes, before the first and after the last the texts are the same.
LEMMA Stretch ==
    ASSUME NEW x \in Seq(Line), NEW y \in Seq(Line), NEW cs, Parted(x, y, cs), NEW k \in 1 .. Len(cs) + 1
    PROVE  /\ Joined(x, y, EndA(cs, k - 1), EndB(cs, k - 1), StartA(x, cs, k), StartB(y, cs, k))
           /\ EndA(cs, k - 1) \in Nat /\ EndB(cs, k - 1) \in Nat
           /\ StartA(x, cs, k) \in EndA(cs, k - 1) .. Len(x) /\ StartB(y, cs, k) \in EndB(cs, k - 1) .. Len(y)
<1> DEFINE N == Len(cs)
           i == EndA(cs, k - 1)
           j == EndB(cs, k - 1)
           m == StartA(x, cs, k)
           n == StartB(y, cs, k)
<1>1. /\ cs \in Seq([aStart : Nat, aLines : Nat, bStart : Nat, bLines : Nat]) /\ Len(x) \in Nat /\ Len(y) \in Nat
      /\ \A l \in 1 .. N : ChangeAt(x, y, cs, l)
      /\ Joined(x, y, EndA(cs, N), EndB(cs, N), Len(x), Len(y))
  BY DEF Parted, ChangesOf
<1>2. N \in Nat
  <2> HIDE DEF N
  <2>1. Len(cs) \in Nat
    BY <1>1, EndsOf
  <2> QED
    BY <2>1 DEF N
<1>3. i \in Nat /\ j \in Nat
  <2> DEFINE l == k - 1
  <2>1. l \in 0 .. Len(cs)
    BY <1>2
  <2> HIDE DEF l
  <2>2. EndA(cs, l) \in Nat /\ EndB(cs, l) \in Nat
    BY <1>1, <2>1, EndsOf
  <2> QED
    BY <2>2 DEF l
<1>4. CASE k = N + 1
  <2>1. m = Len(x) /\ n = Len(y) /\ k - 1 = N
    BY <1>2, <1>4 DEF StartA, StartB
  <2>2. Joined(x, y, i, j, m, n)
    BY <1>1, <2>1
  <2> HIDE DEF i, j, m, n
  <2>3. i <= m /\ m - i = n - j
    BY <2>2 DEF Joined
  <2> QED
    BY <1>1, <1>3, <2>1, <2>2, <2>3 DEF i, j, m, n
<1>5. CASE k # N + 1
  <2>1. k \in 1 .. N /\ m = cs[k].aStart /\ n = cs[k].bStart
    BY <1>2, <1>5 DEF StartA, StartB
  <2>2. Joined(x, y, i, j, m, n) /\ EndA(cs, k) <= Len(x) /\ EndB(cs, k) <= Len(y)
    BY <1>1, <2>1 DEF ChangeAt
  <2>3. cs[k].aStart \in Nat /\ cs[k].aLines \in Nat /\ cs[k].bStart \in Nat /\ cs[k].bLines \in Nat
    <3> HIDE DEF m, n
    <3> QED
      BY <1>1, <2>1, FieldsOf
  <2>4. EndA(cs, k) = m + cs[k].aLines /\ EndB(cs, k) = n + cs[k].bLines
    BY <1>2, <2>1 DEF EndA, EndB
  <2> DEFINE u == cs[k].aLines
             w == cs[k].bLines
  <2>5. m \in Nat /\ n \in Nat /\ u \in Nat /\ w \in Nat /\ m + u <= Len(x) /\ n + w <= Len(y)
    BY <2>1, <2>2, <2>3, <2>4
  <2> HIDE DEF i, j, m, n, u, w
  <2>6. i <= m /\ m - i = n - j
    BY <2>2 DEF Joined
  <2>7. m \in i .. Len(x) /\ n \in j .. Len(y)
    BY <1>1, <1>3, <2>5, <2>6
  <2> QED
    BY <1>3, <2>2, <2>7 DEF i, j, m, n
<1> QED
  BY <1>4, <1>5

\* Where the first k of the hunks end.
OutA(hs, base, k) == IF k = 0 THEN 0 ELSE hs[k].a - base + hs[k].aLines
OutB(hs, base, k) == IF k = 0 THEN 0 ELSE hs[k].b - base + hs[k].bLines

HunkRecords == [a : Int, aLines : Int, b : Int, bLines : Int, lines : Seq(HunkLine)]

\* The k-th hunk comes after lines that are the same in both texts.
HunkAt(x, y, base, hs, k) ==
    \E p \in 0 .. Len(x), q \in 0 .. Len(y) : \E e \in p .. Len(x), f \in q .. Len(y) :
        /\ HunkFits(x, y, base, hs[k], p, e, q, f)
        /\ Joined(x, y, OutA(hs, base, k - 1), OutB(hs, base, k - 1), p, q)

Hunked(x, y, base, hs) ==
    hs \in Seq(HunkRecords) /\ \A k \in 1 .. Len(hs) : HunkAt(x, y, base, hs, k)

\* One hunk more, up to lines e and f.
Extended(x, y, base, hs, new, e, f) ==
    /\ Hunked(x, y, base, new) /\ Len(new) = Len(hs) + 1
    /\ OutA(new, base, Len(new)) = e /\ OutB(new, base, Len(new)) = f

\* A hunk after lines that are joined is one more.
LEMMA HunkAdded ==
    ASSUME NEW x \in Seq(Line), NEW y \in Seq(Line), NEW base \in Nat, NEW hs, Hunked(x, y, base, hs),
           NEW p \in 0 .. Len(x), NEW q \in 0 .. Len(y), NEW e \in p .. Len(x), NEW f \in q .. Len(y),
           NEW h, HunkFits(x, y, base, h, p, e, q, f),
           Joined(x, y, OutA(hs, base, Len(hs)), OutB(hs, base, Len(hs)), p, q),
           NEW new, new = Append(hs, h)
    PROVE  Extended(x, y, base, hs, new, e, f)
<1> DEFINE n == Len(hs)
<1>1. hs \in Seq(HunkRecords) /\ \A k \in 1 .. n : HunkAt(x, y, base, hs, k)
  BY DEF Hunked
<1>2. p \in Nat /\ q \in Nat /\ e \in Nat /\ f \in Nat
  OBVIOUS
<1>3. h \in HunkRecords
  <2>1. h.a = base + p /\ h.aLines = e - p /\ h.b = base + q /\ h.bLines = f - q /\ h.lines \in Seq(HunkLine)
        /\ h = [a |-> h.a, aLines |-> h.aLines, b |-> h.b, bLines |-> h.bLines, lines |-> h.lines]
    BY DEF HunkFits, Gives
  <2> DEFINE a == h.a
             l == h.aLines
             b == h.b
             m == h.bLines
             s == h.lines
  <2>2. a \in Int /\ l \in Int /\ b \in Int /\ m \in Int
    BY <1>2, <2>1
  <2>3. h = [a |-> a, aLines |-> l, b |-> b, bLines |-> m, lines |-> s] /\ s \in Seq(HunkLine)
    BY <2>1
  <2> HIDE DEF a, l, b, m, s
  <2> QED
    BY <2>2, <2>3 DEF HunkRecords
<1> DEFINE H == HunkRecords
<1>4. new \in Seq(H) /\ Len(new) = n + 1 /\ new[n + 1] = h /\ n \in Nat /\ \A k \in 1 .. n : new[k] = hs[k]
  <2>1. hs \in Seq(H) /\ h \in H
    BY <1>1, <1>3
  <2> HIDE DEF H
  <2> QED
    BY <2>1, AppendProperties, LenProperties
<1> HIDE DEF n, H
<1>5. \A k \in 0 .. n : OutA(new, base, k) = OutA(hs, base, k) /\ OutB(new, base, k) = OutB(hs, base, k)
  <2>1. \A k \in 0 .. n : k = 0 \/ k \in 1 .. n
    BY <1>4
  <2> QED
    BY <1>4, <2>1 DEF OutA, OutB
<1>6. ASSUME NEW k \in 1 .. n PROVE HunkAt(x, y, base, new, k)
  <2>1. k - 1 \in 0 .. n
    BY <1>4
  <2>2. new[k] = hs[k] /\ OutA(new, base, k - 1) = OutA(hs, base, k - 1) /\ OutB(new, base, k - 1) = OutB(hs, base, k - 1)
    BY <1>4, <1>5, <2>1
  <2>3. HunkAt(x, y, base, hs, k)
    BY <1>1 DEF n
  <2> QED
    BY <2>2, <2>3 DEF HunkAt
<1>7. HunkAt(x, y, base, new, n + 1)
  <2>1. (n + 1) - 1 = n /\ n \in 0 .. n
    BY <1>4
  <2>2. Joined(x, y, OutA(new, base, n), OutB(new, base, n), p, q)
    BY <1>5, <2>1 DEF n
  <2> QED
    BY <1>4, <2>1, <2>2 DEF HunkAt
<1>8. \A k \in 1 .. Len(new) : HunkAt(x, y, base, new, k)
  <2>1. \A k \in 1 .. Len(new) : k \in 1 .. n \/ k = n + 1
    BY <1>4
  <2> QED
    BY <1>6, <1>7, <2>1
<1>9. OutA(new, base, n + 1) = e /\ OutB(new, base, n + 1) = f
  <2>1. h.a = base + p /\ h.aLines = e - p /\ h.b = base + q /\ h.bLines = f - q
    BY DEF HunkFits
  <2>2. OutA(new, base, n + 1) = base + p - base + (e - p) /\ OutB(new, base, n + 1) = base + q - base + (f - q)
    BY <1>4, <2>1 DEF OutA, OutB
  <2> QED
    BY <1>2, <2>2
<1>10. Hunked(x, y, base, new)
  BY <1>4, <1>8 DEF Hunked, H
<1> QED
  BY <1>4, <1>9, <1>10 DEF Extended, n

\* The turns of appendHunks: between the last hunk and the next group nothing differs, and
\* there is room for the context of both.
Grouping(x, y, cs, base) ==
    {t \in [group : 1 .. Len(cs) + 1, out : Seq(HunkRecords)] :
        /\ Hunked(x, y, base, t.out)
        /\ OutA(t.out, base, Len(t.out)) \in Nat /\ OutB(t.out, base, Len(t.out)) \in Nat
        /\ Joined(x, y, OutA(t.out, base, Len(t.out)), OutB(t.out, base, Len(t.out)), StartA(x, cs, t.group), StartB(y, cs, t.group))
        /\ \/ OutA(t.out, base, Len(t.out)) = 0
           \/ t.group = Len(cs) + 1
           \/ OutA(t.out, base, Len(t.out)) + contextLines <= StartA(x, cs, t.group)}

\* How far a hunk goes, from the changes of its group up to the next group.
LEMMA ContextBefore ==
    ASSUME NEW o \in Nat, NEW s \in Nat, o <= s, o = 0 \/ o + contextLines <= s
    PROVE  AtLeast0(s - contextLines) \in o .. s
<1>1. contextLines \in Nat
  BY DiffAssumption
<1> QED
  BY <1>1 DEF AtLeast0

\* A hunk goes on for some lines after the last change, and not up to the next group.
LEMMA ContextAfter ==
    ASSUME NEW n \in Nat, NEW i \in Nat, NEW s \in i .. n, s = n \/ s - i > 2 * contextLines
    PROVE  /\ Least(n, i + contextLines) \in i .. s
           /\ s = n \/ Least(n, i + contextLines) + contextLines <= s
<1>1. contextLines \in Nat
  BY DiffAssumption
<1> QED
  BY <1>1 DEF Least

\* A turn of appendHunks.
LEMMA HunkNextIs ==
    ASSUME NEW x \in Seq(Line), NEW y \in Seq(Line), NEW base \in Nat, NEW cs, Parted(x, y, cs),
           NEW t \in Grouping(x, y, cs, base), t.group <= Len(cs)
    PROVE  /\ HunkNext(x, y, cs, base, t) \in Grouping(x, y, cs, base)
           /\ HunkNext(x, y, cs, base, t).group > t.group
<1> DEFINE N == Len(cs)
           g == t.group
           hs == t.out
           a == OutA(hs, base, Len(hs))
           b == OutB(hs, base, Len(hs))
           s == StartA(x, cs, g)
           r == StartB(y, cs, g)
           l == GroupEnd(cs, g)
           i == EndA(cs, l)
           j == EndB(cs, l)
           m == l + 1
           v == StartA(x, cs, m)
           w == StartB(y, cs, m)
           p == AtLeast0(s - contextLines)
           q == r - (s - p)
           e == Least(Len(x), i + contextLines)
           f == j + (e - i)
           ds == SubSeq(cs, g, l)
           h == HunkOf(x, y, ds, base)
           new == Append(hs, h)
<1>1. /\ g \in 1 .. N + 1 /\ Hunked(x, y, base, hs) /\ a \in Nat /\ b \in Nat /\ Joined(x, y, a, b, s, r)
      /\ a = 0 \/ g = N + 1 \/ a + contextLines <= s
  BY DEF Grouping
<1>2. cs \in ChangesOf(x, y) /\ N \in Nat /\ Len(x) \in Nat /\ Len(y) \in Nat
  <2>1. cs \in ChangesOf(x, y)
    BY DEF Parted
  <2> QED
    BY <2>1, LenProperties DEF ChangesOf
<1>3. g \in 1 .. N /\ g # N + 1
  BY <1>1, <1>2
<1>4. l \in g .. N /\ (l < N => cs[l + 1].aStart - EndA(cs, l) > 2 * contextLines)
  <2> HIDE DEF g
  <2> QED
    BY <1>2, <1>3, GroupEndIs
<1>5. HunkNext(x, y, cs, base, t) = [group |-> m, out |-> new]
  <2>1. ~(t.group > Len(cs))
    BY <1>2, <1>3
  <2> QED
    BY <2>1, Zenon DEF HunkNext, HunkTo
<1>6. s = cs[g].aStart /\ r = cs[g].bStart
  <2> HIDE DEF g
  <2> QED
    BY <1>3 DEF StartA, StartB
<1> HIDE DEF g, hs, l, N
<1>7. m \in 1 .. N + 1 /\ l \in Nat /\ m - 1 = l /\ l \in 1 .. N
  BY <1>2, <1>3, <1>4
<1>8. s \in Nat /\ r \in Nat /\ s <= Len(x) /\ r <= Len(y)
  <2>1. /\ EndA(cs, g - 1) \in Nat /\ EndB(cs, g - 1) \in Nat
        /\ s \in EndA(cs, g - 1) .. Len(x) /\ r \in EndB(cs, g - 1) .. Len(y)
    <3>1. g \in 1 .. Len(cs) + 1
      BY <1>1 DEF N
    <3> QED
      BY <3>1, Stretch
  <2> HIDE DEF s, r
  <2> QED
    BY <1>2, <2>1
<1>9. Joined(x, y, i, j, v, w) /\ i \in Nat /\ j \in Nat /\ v \in i .. Len(x) /\ w \in j .. Len(y)
  <2>1. m \in 1 .. Len(cs) + 1
    BY <1>7 DEF N
  <2> HIDE DEF m
  <2>2. /\ Joined(x, y, EndA(cs, m - 1), EndB(cs, m - 1), StartA(x, cs, m), StartB(y, cs, m))
        /\ EndA(cs, m - 1) \in Nat /\ EndB(cs, m - 1) \in Nat
        /\ StartA(x, cs, m) \in EndA(cs, m - 1) .. Len(x) /\ StartB(y, cs, m) \in EndB(cs, m - 1) .. Len(y)
    BY <2>1, Stretch
  <2> QED
    BY <1>7, <2>2
<1>10. v = Len(x) \/ v - i > 2 * contextLines
  <2>1. CASE l = N
    BY <1>2, <2>1 DEF StartA, N
  <2>2. CASE l < N
    <3>1. m # N + 1
      BY <1>2, <1>7, <2>2
    <3> QED
      BY <1>4, <2>2, <3>1 DEF StartA, N
  <2> QED
    BY <1>2, <1>4, <2>1, <2>2
<1>11. a <= s /\ s - a = r - b
  <2> HIDE DEF a, b, s, r
  <2> QED
    BY <1>1 DEF Joined
<1> HIDE DEF a, b, s, r, i, j, v, w, m
<1>12. p \in a .. s
  BY <1>1, <1>3, <1>8, <1>11, ContextBefore
<1>13. e \in i .. v /\ (v = Len(x) \/ e + contextLines <= v)
  BY <1>2, <1>9, <1>10, ContextAfter
<1> HIDE DEF p, e
<1>14. v - i = w - j
  BY <1>9 DEF Joined
<1>15. /\ p \in 0 .. Len(x) /\ q \in 0 .. Len(y) /\ e \in i .. Len(x) /\ f \in j .. Len(y) /\ e \in Nat /\ f \in Nat
       /\ p \in Nat /\ q \in Nat
  <2>1. p \in Nat /\ p <= s /\ a <= p
    BY <1>1, <1>8, <1>12
  <2>2. e \in Nat /\ i <= e /\ e <= v /\ v \in Nat /\ w \in Nat /\ v <= Len(x) /\ w <= Len(y)
    BY <1>2, <1>9, <1>13
  <2> QED
    BY <1>1, <1>2, <1>8, <1>9, <1>11, <1>14, <2>1, <2>2
<1>16. b + (p - a) = q /\ b + (s - a) = r
  BY <1>1, <1>8, <1>11, <1>15
<1>17. Joined(x, y, a, b, p, q) /\ Joined(x, y, p, q, s, r)
  <2>1. a \in a .. s /\ p \in a .. s /\ s \in p .. s /\ b + (a - a) = b
    BY <1>1, <1>8, <1>11, <1>12, <1>15
  <2>2. Joined(x, y, a, b + (a - a), p, b + (p - a))
    BY <1>1, <1>8, <1>12, <2>1, JoinedWithin
  <2>3. Joined(x, y, p, b + (p - a), s, b + (s - a))
    BY <1>1, <1>8, <1>12, <2>1, JoinedWithin
  <2> QED
    BY <1>16, <2>1, <2>2, <2>3
<1>18. Joined(x, y, i, j, e, f) /\ Joined(x, y, e, f, v, w)
  <2>1. v \in Nat /\ w \in Nat
    BY <1>2, <1>9
  <2>2. i \in i .. v /\ e \in i .. v /\ v \in e .. v /\ j + (i - i) = j /\ j + (v - i) = w
    BY <1>9, <1>13, <1>14, <1>15, <2>1
  <2>3. Joined(x, y, i, j + (i - i), e, j + (e - i))
    BY <1>9, <1>13, <2>1, <2>2, JoinedWithin
  <2>4. Joined(x, y, e, j + (e - i), v, j + (v - i))
    BY <1>9, <1>13, <2>1, <2>2, JoinedWithin
  <2> QED
    BY <2>2, <2>3, <2>4
<1> HIDE DEF q, f
<1>19. /\ Group(x, y, ds, p, q) /\ Len(ds) > 0 /\ ds[1] = cs[g]
       /\ EndA(ds, Len(ds)) = i /\ EndB(ds, Len(ds)) = j
  <2>1. PICK d : d = ds
    OBVIOUS
  <2>2. d = SubSeq(cs, g, l) /\ g \in 1 .. Len(cs) /\ l \in g .. Len(cs) /\ Joined(x, y, p, q, cs[g].aStart, cs[g].bStart)
    BY <1>3, <1>4, <1>6, <1>17, <2>1 DEF N
  <2>3. /\ Group(x, y, d, p, q) /\ Len(d) > 0 /\ d[1] = cs[g]
        /\ EndA(d, Len(d)) = EndA(cs, l) /\ EndB(d, Len(d)) = EndB(cs, l)
    <3>1. GroupFrom(x, y, cs, d, g, l, p, q)
      BY <1>2, <1>15, <2>1, <2>2, GroupIs
    <3> QED
      BY <3>1 DEF GroupFrom
  <2> QED
    BY <2>1, <2>3 DEF i, j
<1> HIDE DEF ds
<1>20. HunkFits(x, y, base, h, p, e, q, f)
  <2>1. p = AtLeast0(ds[1].aStart - contextLines) /\ q = ds[1].bStart - (ds[1].aStart - p)
    BY <1>6, <1>19 DEF p, q
  <2>2. e = Least(Len(x), EndA(ds, Len(ds)) + contextLines) /\ f = EndB(ds, Len(ds)) + (e - EndA(ds, Len(ds)))
    BY <1>19 DEF e, f
  <2>3. e \in EndA(ds, Len(ds)) .. Len(x) /\ f \in EndB(ds, Len(ds)) .. Len(y) /\ Joined(x, y, EndA(ds, Len(ds)), EndB(ds, Len(ds)), e, f)
    BY <1>15, <1>18, <1>19
  <2> QED
    BY <1>19, <2>1, <2>2, <2>3, HunkOfIs
<1> HIDE DEF h
<1>21. e \in p .. Len(x) /\ f \in q .. Len(y)
  <2>1. i \in p .. Len(x) /\ j \in q .. Len(y)
    BY <1>19, AllPartsGive
  <2> QED
    BY <1>15, <2>1
<1>22. Extended(x, y, base, hs, new, e, f)
  <2>1. Joined(x, y, OutA(hs, base, Len(hs)), OutB(hs, base, Len(hs)), p, q)
    BY <1>17 DEF a, b
  <2> QED
    BY <1>1, <1>15, <1>20, <1>21, <2>1, HunkAdded
<1> HIDE DEF new
<1>23. Hunked(x, y, base, new) /\ OutA(new, base, Len(new)) = e /\ OutB(new, base, Len(new)) = f /\ new \in Seq(HunkRecords)
  BY <1>22 DEF Extended, Hunked
<1> DEFINE u == [group |-> m, out |-> new]
<1>24. u.group = m /\ u.out = new /\ u \in [group : 1 .. Len(cs) + 1, out : Seq(HunkRecords)]
  BY <1>7, <1>23 DEF N
<1>25. e = 0 \/ m = Len(cs) + 1 \/ e + contextLines <= v
  <2>1. v = Len(x) /\ m # N + 1 => e + contextLines <= v
    <3> SUFFICES ASSUME v = Len(x), m # N + 1 PROVE e + contextLines <= v
      OBVIOUS
    <3>1. l < N /\ v - i > 2 * contextLines
      <4>1. l < N
        BY <1>2, <1>7 DEF m
      <4>2. v = cs[l + 1].aStart
        BY DEF v, m, StartA, N
      <4> QED
        BY <1>4, <4>1, <4>2 DEF i
    <3>2. contextLines \in Nat
      BY DiffAssumption
    <3>3. e <= i + contextLines
      <4>1. e = Least(Len(x), i + contextLines) /\ i + contextLines \in Nat
        BY <1>9, <3>2 DEF e
      <4> QED
        BY <1>2, <4>1 DEF Least
    <3> QED
      BY <1>9, <1>15, <3>1, <3>2, <3>3
  <2> QED
    BY <1>13, <2>1 DEF N
<1>26. u \in Grouping(x, y, cs, base)
  <2>1. Joined(x, y, e, f, StartA(x, cs, m), StartB(y, cs, m))
    BY <1>18 DEF v, w
  <2> HIDE DEF u
  <2> QED
    BY <1>15, <1>23, <1>24, <1>25, <2>1 DEF Grouping, v
<1>27. m > g
  <2>1. g <= l /\ g \in Nat
    BY <1>3, <1>4
  <2> QED
    BY <1>7, <2>1 DEF m
<1>28. HunkNext(x, y, cs, base, t) = u
  BY <1>5
<1> QED
  BY <1>24, <1>26, <1>27, <1>28 DEF g

\* Hunks that come one after the other, with nothing that differs between them or at the end.
Patched(x, y, base, hs) ==
    /\ Hunked(x, y, base, hs)
    /\ Joined(x, y, OutA(hs, base, Len(hs)), OutB(hs, base, Len(hs)), Len(x), Len(y))

\* A turn of appendHunks, which does nothing after the last group.
LEMMA HunkTurnIs ==
    ASSUME NEW x \in Seq(Line), NEW y \in Seq(Line), NEW base \in Nat, NEW cs, Parted(x, y, cs),
           NEW t \in Grouping(x, y, cs, base)
    PROVE  /\ HunkNext(x, y, cs, base, t) \in Grouping(x, y, cs, base)
           /\ t.group <= Len(cs) => HunkNext(x, y, cs, base, t).group > t.group
           /\ t.group > Len(cs) => HunkNext(x, y, cs, base, t) = t
<1>1. Len(cs) \in Nat
  BY LenProperties DEF Parted, ChangesOf
<1>2. t.group \in Nat
  BY DEF Grouping
<1>3. CASE t.group > Len(cs)
  <2>1. HunkNext(x, y, cs, base, t) = t
    BY <1>3 DEF HunkNext
  <2> QED
    BY <1>1, <1>2, <1>3, <2>1
<1>4. CASE t.group <= Len(cs)
  <2>1. /\ HunkNext(x, y, cs, base, t) \in Grouping(x, y, cs, base)
        /\ HunkNext(x, y, cs, base, t).group > t.group
    BY <1>4, HunkNextIs
  <2> QED
    BY <1>1, <1>2, <1>4, <2>1
<1> QED
  BY <1>1, <1>2, <1>3, <1>4

\* Before the first group there is no hunk.
LEMMA GroupingStarts ==
    ASSUME NEW x \in Seq(Line), NEW y \in Seq(Line), NEW base \in Nat, NEW cs, Parted(x, y, cs)
    PROVE  [group |-> 1, out |-> <<>>] \in Grouping(x, y, cs, base)
<1>1. Len(cs) \in Nat
  BY LenProperties DEF Parted, ChangesOf
<1>2. PICK z : z = <<>>
  OBVIOUS
<1>3. z \in Seq(HunkRecords) /\ Len(z) = 0
  BY <1>2, EmptySeq
<1>4. Hunked(x, y, base, z)
  BY <1>3 DEF Hunked
<1>5. OutA(z, base, Len(z)) = 0 /\ OutB(z, base, Len(z)) = 0
  BY <1>3 DEF OutA, OutB
<1>6. Joined(x, y, 0, 0, StartA(x, cs, 1), StartB(y, cs, 1))
  <2> DEFINE k == 1
  <2>1. k \in 1 .. Len(cs) + 1 /\ k - 1 = 0
    BY <1>1
  <2>2. EndA(cs, 0) = 0 /\ EndB(cs, 0) = 0
    BY DEF EndA, EndB
  <2> HIDE DEF k
  <2>3. Joined(x, y, EndA(cs, k - 1), EndB(cs, k - 1), StartA(x, cs, k), StartB(y, cs, k))
    BY <2>1, Stretch
  <2>4. Joined(x, y, 0, 0, StartA(x, cs, k), StartB(y, cs, k))
    BY <2>1, <2>2, <2>3
  <2> QED
    BY <2>4 DEF k
<1> DEFINE t == [group |-> 1, out |-> z]
<1>7. t \in [group : 1 .. Len(cs) + 1, out : Seq(HunkRecords)] /\ t.group = 1 /\ t.out = z
  BY <1>1, <1>3
<1> HIDE DEF t
<1>8. t \in Grouping(x, y, cs, base)
  BY <1>4, <1>5, <1>6, <1>7 DEF Grouping
<1> QED
  BY <1>2, <1>8 DEF t

\* Changes that are parted make hunks with nothing that differs between them.
THEOREM HunksAre ==
    ASSUME NEW x \in Seq(Line), NEW y \in Seq(Line), NEW base \in Nat, NEW cs, Parted(x, y, cs)
    PROVE  Patched(x, y, base, Hunks(x, y, cs, base))
<1> DEFINE A == Grouping(x, y, cs, base)
           N == Len(cs)
<1>1. N \in Nat
  BY LenProperties DEF Parted, ChangesOf
<1>2. [group |-> 1, out |-> <<>>] \in A
  BY GroupingStarts
<1>3. \A t \in A : /\ HunkNext(x, y, cs, base, t) \in A
                   /\ t.group <= N => HunkNext(x, y, cs, base, t).group > t.group
                   /\ t.group > N => HunkNext(x, y, cs, base, t) = t
  BY HunkTurnIs
<1>4. \A t \in A : t.group \in 1 .. N + 1
  BY DEF Grouping
<1> HIDE DEF A
<1>5. PICK f : HunkTurns(x, y, cs, base, A, f)
  <2>1. \A t \in A, n \in 0 .. Len(cs) - 1 : HunkNext(x, y, cs, base, t) \in A
    BY <1>3
  <2> QED
    BY <1>1, <1>2, <2>1, HunkLoop
<1>6. /\ Hunks(x, y, cs, base) = f[N].out
      /\ f \in [0 .. N -> A]
      /\ f[0] = [group |-> 1, out |-> <<>>]
      /\ \A n \in 0 .. N - 1 : f[n + 1] = HunkNext(x, y, cs, base, f[n])
  BY <1>5 DEF HunkTurns
<1> HIDE DEF N
<1> DEFINE S == {k \in Nat : k <= N => f[k].group >= k + 1}
<1>7. 0 \in S
  BY <1>6
<1>8. ASSUME NEW k \in Nat, k \in S PROVE k + 1 \in S
  <2> SUFFICES ASSUME k + 1 <= N PROVE f[k + 1].group >= k + 2
    OBVIOUS
  <2> DEFINE t == f[k]
             u == f[k + 1]
  <2>1. t \in A /\ u \in A /\ u = HunkNext(x, y, cs, base, t)
    <3>1. k \in 0 .. N - 1 /\ k \in 0 .. N /\ k + 1 \in 0 .. N
      BY <1>1
    <3> QED
      BY <1>6, <3>1
  <2>2. t.group >= k + 1
    BY <1>1, <1>8
  <2> HIDE DEF t, u
  <2>3. t.group \in 1 .. N + 1 /\ u.group \in 1 .. N + 1
    BY <1>4, <2>1
  <2>4. (t.group <= N => u.group > t.group) /\ (t.group > N => u = t)
    BY <1>3, <2>1
  <2>5. u.group >= k + 2
    BY <1>1, <2>2, <2>3, <2>4
  <2> QED
    BY <2>5 DEF u
<1> HIDE DEF S
<1>9. N \in S
  BY <1>1, <1>7, <1>8, NatSetInduction
<1> DEFINE t == f[N]
<1>10. t \in A /\ t.group >= N + 1
  <2>1. N \in 0 .. N /\ N <= N
    BY <1>1
  <2> QED
    BY <1>6, <1>9, <2>1 DEF S
<1> HIDE DEF t
<1>11. t.group = N + 1
  BY <1>1, <1>4, <1>10
<1>12. /\ Hunked(x, y, base, t.out)
       /\ Joined(x, y, OutA(t.out, base, Len(t.out)), OutB(t.out, base, Len(t.out)), StartA(x, cs, t.group), StartB(y, cs, t.group))
  BY <1>10 DEF A, Grouping
<1>13. StartA(x, cs, t.group) = Len(x) /\ StartB(y, cs, t.group) = Len(y)
  BY <1>11 DEF StartA, StartB, N
<1> QED
  BY <1>6, <1>12, <1>13 DEF Patched, t

\* The hunks of two sequences of lines, however little work was allowed.
THEOREM DiffLinesIs ==
    ASSUME NEW x \in Seq(Line), NEW y \in Seq(Line), NEW base \in Nat, NEW work \in Nat
    PROVE  Patched(x, y, base, DiffLines(x, y, base, work))
<1> DEFINE c == NewContext(x, y, work)
           r == [aLo |-> 0, aHi |-> Len(x), bLo |-> 0, bHi |-> Len(y)]
           d == Region(c, r)
           a == SlideRuns(x, d.aChanged)
           b == SlideRuns(y, d.bChanged)
<1>1. Len(x) \in Nat /\ Len(y) \in Nat
  OBVIOUS
<1>2. r \in RegionsOf(x, y) /\ r.aLo = 0 /\ r.bLo = 0 /\ r.aHi = Len(x) /\ r.bHi = Len(y)
  BY <1>1 DEF RegionsOf
<1>3. c \in ContextsOf(x, y) /\ (\A k \in 0 .. Len(x) - 1 : ~c.aChanged[k]) /\ (\A k \in 0 .. Len(y) - 1 : ~c.bChanged[k])
  BY NewContextIs
<1>4. DiffLines(x, y, base, work) = Hunks(x, y, Changes(a, b), base)
  BY DEF DiffLines, HunksOf
<1> HIDE DEF c, r
<1>5. Fresh(c, r)
  BY <1>2, <1>3 DEF Fresh, Clean
<1>6. d \in ContextsOf(x, y) /\ Agreed(x, y, r, d)
  BY <1>2, <1>3, <1>5, RegionIsSolved DEF Solved
<1> HIDE DEF d
<1>7. d.aChanged \in Marks(x) /\ d.bChanged \in Marks(y)
  BY <1>6, ContextIs
<1>8. Left(x, d.aChanged, 0, Len(x)) = Left(y, d.bChanged, 0, Len(y))
  BY <1>2, <1>6 DEF Agreed
<1>9. a \in Marks(x) /\ Left(x, a, 0, Len(x)) = Left(x, d.aChanged, 0, Len(x))
  BY <1>7, SlideRunsIs
<1>10. b \in Marks(y) /\ Left(y, b, 0, Len(y)) = Left(y, d.bChanged, 0, Len(y))
  BY <1>7, SlideRunsIs
<1> HIDE DEF a, b
<1>11. Parted(x, y, Changes(a, b))
  BY <1>8, <1>9, <1>10, ChangesAre
<1> QED
  BY <1>4, <1>11, HunksAre

-----------------------------------------------------------------------------
(* The lines of a text *)

\* No line is empty: it has a byte or the newline at its end.
Filled == {l \in Line : Len(l) > 0}

\* Some lines are none, or end with one.
LEMMA LastLine ==
    ASSUME NEW B, NEW s \in Seq(B)
    PROVE  s = <<>> \/ \E f \in Seq(B), l \in B : s = Append(f, l)
<1> DEFINE S == {u \in Seq(B) : u = <<>> \/ \E f \in Seq(B), l \in B : u = Append(f, l)}
<1>1. <<>> \in S
  BY EmptySeq
<1>2. \A u \in Seq(B), e \in B : u \in S => Append(u, e) \in S
  BY AppendProperties
<1>3. Seq(B) \subseteq S
  <2> HIDE DEF S
  <2> QED
    BY <1>1, <1>2, SeqSetInduction
<1> QED
  BY <1>3

\* A byte after some lines: it starts a line when the last one has ended, and goes on with it if not.
LEMMA WithByteAfter ==
    ASSUME NEW f \in Seq(Filled), NEW l \in Filled, NEW e \in STRING
    PROVE  /\ WithByte(<<>>, e) = Append(<<>>, <<e>>)
           /\ WithByte(Append(f, l), e) =
                  IF l[Len(l)] = NL THEN Append(Append(f, l), <<e>>) ELSE Append(f, Append(l, e))
<1> DEFINE s == Append(f, l)
           B == Filled
<1>1. f \in Seq(B) /\ l \in B
  OBVIOUS
<1> HIDE DEF B
<1>2. /\ s \in Seq(B) /\ Len(s) = Len(f) + 1 /\ s[Len(f) + 1] = l /\ Len(f) \in Nat
      /\ \A k \in 1 .. Len(f) : s[k] = f[k]
  BY <1>1, AppendProperties, LenProperties
<1>3. Last(s) = l
  BY <1>2 DEF Last
<1>4. Front(s) = f
  <2> DEFINE n == Len(f)
             g == SubSeq(s, 1, n)
  <2>1. n \in 0 .. Len(s) /\ 0 \in 0 .. Len(s) /\ n \in 0 .. Len(s) /\ 0 + 1 = 1 /\ n - 0 = n
    BY <1>2
  <2>2. /\ Cut(s, 0, n) \in Seq(B) /\ Len(Cut(s, 0, n)) = n - 0
        /\ \A k \in 1 .. n - 0 : Cut(s, 0, n)[k] = s[0 + k]
    <3> DEFINE z == 0
    <3>1. z \in 0 .. Len(s) /\ n \in z .. Len(s)
      BY <2>1
    <3> HIDE DEF z, s, n
    <3>2. /\ Cut(s, z, n) \in Seq(B) /\ Len(Cut(s, z, n)) = n - z
          /\ \A k \in 1 .. n - z : Cut(s, z, n)[k] = s[z + k]
      BY <1>2, <3>1, CutIs
    <3> QED
      BY <3>2 DEF z
  <2>3. g = Cut(s, 0, n)
    BY <2>1 DEF Cut
  <2>4. g \in Seq(B) /\ Len(g) = n /\ \A k \in 1 .. n : g[k] = f[k]
    <3> HIDE DEF g, s, n
    <3>1. \A k \in 1 .. n : g[k] = s[0 + k] /\ 0 + k = k
      BY <2>1, <2>2, <2>3
    <3> QED
      BY <1>2, <2>1, <2>2, <2>3, <3>1 DEF n
  <2>5. g = f
    <3> HIDE DEF g
    <3> QED
      BY <1>1, <2>4, SameSeq
  <2>6. Front(s) = SubSeq(s, 1, Len(s) - 1)
    BY DEF Front
  <2>7. Len(s) - 1 = n
    <3> HIDE DEF s
    <3> QED
      BY <1>2
  <2> QED
    BY <2>5, <2>6, <2>7
<1>5. s # <<>>
  BY <1>2, EmptySeq
<1>6. Last(l) = l[Len(l)]
  BY DEF Last
<1> HIDE DEF s
<1>7. WithByte(s, e) = IF l[Len(l)] = NL THEN Append(s, <<e>>) ELSE Append(f, Append(l, e))
  BY <1>3, <1>4, <1>5, <1>6 DEF WithByte
<1>8. WithByte(<<>>, e) = Append(<<>>, <<e>>)
  BY DEF WithByte
<1> QED
  BY <1>7, <1>8 DEF s

\* A sequence of one element.
LEMMA OneElement ==
    ASSUME NEW B, NEW e \in B
    PROVE  <<e>> \in Seq(B) /\ Len(<<e>>) = 1 /\ <<e>>[1] = e
  OBVIOUS

\* A line with one byte more, and one of a byte.
LEMMA FilledIs ==
    ASSUME NEW l \in Filled, NEW e \in STRING
    PROVE  /\ Append(l, e) \in Filled /\ <<e>> \in Filled
           /\ Append(l, e)[Len(Append(l, e))] = e /\ <<e>>[Len(<<e>>)] = e
<1>1. l \in Line /\ Len(l) \in Nat
  BY LenProperties DEF Filled, Line
<1>2. Append(l, e) \in Line /\ Len(Append(l, e)) = Len(l) + 1 /\ Append(l, e)[Len(l) + 1] = e
  BY <1>1, AppendProperties DEF Line
<1>3. PICK o : o = <<e>>
  OBVIOUS
<1>4. o \in Line /\ Len(o) = 1 /\ o[1] = e
  BY <1>3, OneElement DEF Line
<1>5. PICK m : m = Append(l, e)
  OBVIOUS
<1>6. m \in Line /\ Len(m) = Len(l) + 1 /\ m[Len(l) + 1] = e
  BY <1>2, <1>5
<1>7. m \in Filled /\ o \in Filled
  BY <1>1, <1>4, <1>6 DEF Filled
<1> QED
  BY <1>3, <1>4, <1>5, <1>6, <1>7

\* A byte makes lines of lines.
LEMMA WithByteTyped ==
    /\ \A u \in Seq(Filled), e \in STRING : WithByte(u, e) \in Seq(Filled)
    /\ <<>> \in Seq(Filled)
<1>1. ASSUME NEW u \in Seq(Filled), NEW e \in STRING PROVE WithByte(u, e) \in Seq(Filled)
  <2> DEFINE B == Filled
             none == <<>>
             one == <<e>>
  <2>1. u \in Seq(B) /\ none \in Seq(B)
    BY EmptySeq
  <2>2. u = none \/ \E f \in Seq(B), l \in B : u = Append(f, l)
    <3> HIDE DEF B
    <3> QED
      BY <2>1, LastLine
  <2>3. CASE u = none
    <3>1. WithByte(u, e) = Append(none, one) /\ one \in B
      <4>1. PICK l : l = one
        OBVIOUS
      <4>2. l \in Line /\ Len(l) > 0
        <5>1. l \in Line /\ Len(l) = 1
          BY <4>1, OneElement DEF Line
        <5> HIDE DEF B, none, one
        <5> QED
          BY <5>1
      <4>3. l \in Filled
        BY <4>2 DEF Filled
      <4>4. WithByte(none, e) = Append(none, one)
        BY DEF WithByte
      <4> QED
        BY <2>3, <4>1, <4>3, <4>4
    <3> HIDE DEF B, none, one
    <3> QED
      BY <2>1, <3>1, AppendProperties DEF B
  <2>4. CASE \E f \in Seq(B), l \in B : u = Append(f, l)
    <3>1. PICK f \in Seq(B), l \in B : u = Append(f, l)
      BY <2>4
    <3>2. WithByte(u, e) = IF l[Len(l)] = NL THEN Append(u, one) ELSE Append(f, Append(l, e))
      BY <3>1, WithByteAfter
    <3>3. one \in B /\ Append(l, e) \in B
      BY FilledIs
    <3> HIDE DEF B, one
    <3>4. Append(u, one) \in Seq(B) /\ Append(f, Append(l, e)) \in Seq(B)
      BY <2>1, <3>1, <3>3, AppendProperties
    <3>5. WithByte(u, e) \in Seq(B)
      BY <3>2, <3>4
    <3> QED
      BY <3>5 DEF B
  <2> QED
    BY <2>2, <2>3, <2>4
<1> QED
  BY <1>1, EmptySeq

LinesStep == [x \in (Seq(Filled)) \X (STRING) |-> WithByte(x[1], x[2])]

\* LinesOf is such a fold.
LEMMA LinesOfIsFolded ==
    ASSUME NEW s \in Seq(STRING)
    PROVE  /\ StepOn(LinesStep, Seq(Filled), STRING) /\ <<>> \in Seq(Filled)
           /\ LinesOf(s) = FoldedBy(LinesStep, <<>>, s)
           /\ LinesOf(s) \in Seq(Filled)
<1> DEFINE A == Seq(Filled)
           B == STRING
           step == LinesStep
           base == <<>>
           F(g) == [t \in SUBSET (DOMAIN s) |->
                        IF t = {} THEN base ELSE WithByte(g[t \ {Max(t)}], s[Max(t)])]
<1>1. StepOn(step, A, B) /\ base \in A
  BY WithByteTyped DEF StepOn, LinesStep
<1>2. s \in Seq(B)
  OBVIOUS
<1>3. LinesOf(s) = (CHOOSE g : g = F(g))[DOMAIN s]
  BY DEF LinesOf, FoldLeft, MapThenFoldSet
<1>4. \A x \in A, e \in B : step[<<x, e>>] = WithByte(x, e)
  BY DEF LinesStep
<1> HIDE DEF A, B, base, step
<1>5. PICK h : Folding(h, A, B, step, base, s)
  BY <1>1, <1>2, FoldedByFunction
<1>6. h = F(h)
  <2>1. ASSUME NEW t \in SUBSET (DOMAIN s), t # {}
        PROVE  h[t] = WithByte(h[t \ {Max(t)}], s[Max(t)])
    BY <1>4, <1>5, <2>1 DEF Folding
  <2> QED
    BY <1>5, <2>1 DEF Folding
<1>7. PICK g : g = F(g) /\ LinesOf(s) = g[DOMAIN s]
  <2> HIDE DEF F
  <2> QED
    BY <1>3, <1>6
<1>8. Unfolding(g, A, B, step, base, s)
  BY <1>4, <1>7 DEF Unfolding
<1>9. LinesOf(s) = FoldedBy(step, base, s)
  <2> HIDE DEF F
  <2> QED
    BY <1>1, <1>2, <1>7, <1>8, FoldedByUnfolding
<1>10. FoldedBy(step, base, s) \in A
  BY <1>1, <1>2, FoldedByType
<1> QED
  BY <1>1, <1>9, <1>10 DEF A, B, base, step

\* It starts from nothing.
LEMMA LinesOfOfNone ==
    LinesOf(<<>>) = <<>>
<1> DEFINE z == <<>>
           A == Seq(Filled)
           B == STRING
           base == <<>>
           step == LinesStep
<1>1. z \in Seq(B)
  OBVIOUS
<1>2. StepOn(step, A, B) /\ base \in A /\ LinesOf(z) = FoldedBy(step, base, z)
  <2> HIDE DEF z
  <2> QED
    BY <1>1, LinesOfIsFolded
<1>3. FoldedBy(step, base, <<>>) = base
  <2> HIDE DEF z, A, B, base, step
  <2> QED
    BY <1>2, FoldedByEmpty
<1> QED
  BY <1>2, <1>3

\* With one byte more.
LEMMA LinesOfAppend ==
    ASSUME NEW s \in Seq(STRING), NEW e \in STRING
    PROVE  /\ LinesOf(<<>>) = <<>>
           /\ LinesOf(s) \in Seq(Filled)
           /\ LinesOf(Append(s, e)) = WithByte(LinesOf(s), e)
<1> DEFINE z == <<>>
           base == <<>>
           step == LinesStep
           A == Seq(Filled)
           B == STRING
<1>1. StepOn(step, A, B) /\ base \in A
  <2>1. StepOn(LinesStep, Seq(Filled), STRING) /\ <<>> \in Seq(Filled)
    BY LinesOfIsFolded
  <2> QED
    BY <2>1
<1>2. /\ LinesOf(z) = FoldedBy(step, base, z) /\ LinesOf(s) = FoldedBy(step, base, s)
      /\ LinesOf(Append(s, e)) = FoldedBy(step, base, Append(s, e))
  <2>1. z \in Seq(B) /\ Append(s, e) \in Seq(B)
    <3> HIDE DEF B
    <3> QED
      BY EmptySeq, AppendProperties DEF B
  <2> HIDE DEF z
  <2> QED
    BY <2>1, LinesOfIsFolded
<1>3. \A x \in A : step[<<x, e>>] = WithByte(x, e)
  BY DEF LinesStep
<1>4. s \in Seq(B) /\ e \in B
  OBVIOUS
<1> HIDE DEF z, base, step, A, B
<1>5. /\ FoldedBy(step, base, <<>>) = base
      /\ FoldedBy(step, base, s) \in A
      /\ FoldedBy(step, base, Append(s, e)) = step[<<FoldedBy(step, base, s), e>>]
  BY <1>1, <1>4, FoldedByAppend
<1> QED
  BY <1>2, <1>3, <1>5 DEF z, base, A

\* Lines that are not empty are lines.
LEMMA FilledLines ==
    ASSUME NEW s \in Seq(Filled)
    PROVE  s \in Seq(Line)
<1>1. Filled \subseteq Line
  BY DEF Filled
<1> QED
  BY <1>1

\* One byte more of the lines is one byte more of the text.
LEMMA FlattenWithByte ==
    ASSUME NEW u \in Seq(Filled), NEW e \in STRING
    PROVE  FlattenSeq(WithByte(u, e)) = Append(FlattenSeq(u), e)
<1> DEFINE C == STRING
           none == <<>>
           one == <<e>>
           F(s) == FlattenSeq(s)
<1>1. e \in C /\ one \in Seq(C)
  BY OneElement
<1>2. u = none \/ \E f \in Seq(Filled), l \in Filled : u = Append(f, l)
  BY LastLine
<1>3. /\ WithByte(none, e) = Append(none, one)
      /\ \A f \in Seq(Filled), l \in Filled :
             WithByte(Append(f, l), e) = IF l[Len(l)] = NL THEN Append(Append(f, l), one) ELSE Append(f, Append(l, e))
  <2>1. ASSUME NEW f \in Seq(Filled), NEW l \in Filled
        PROVE  WithByte(Append(f, l), e) = IF l[Len(l)] = NL THEN Append(Append(f, l), one) ELSE Append(f, Append(l, e))
    BY WithByteAfter
  <2>2. WithByte(none, e) = Append(none, one)
    BY DEF WithByte
  <2> QED
    BY <2>1, <2>2
<1>4. \A s \in Seq(Filled) : s \in Seq(Seq(C))
  BY FilledLines DEF Line
<1>5. none \in Seq(Seq(C)) /\ F(none) = none /\ none \in Seq(C)
  <2>1. F(none) = none
    <3>1. PICK z : z = none
      OBVIOUS
    <3>2. z \in Seq(Seq(C)) /\ z \in Seq(C)
      BY <3>1
    <3> QED
      BY <3>1, <3>2, FlattenAppend
  <2> QED
    BY <2>1
<1>6. \A s \in Seq(Seq(C)), c \in Seq(C) : F(s) \in Seq(C) /\ F(Append(s, c)) = F(s) \o c
  BY FlattenAppend
<1>7. \A l \in Filled : l \in Seq(C) /\ Append(l, e) \in Seq(C)
  BY FilledIs DEF Filled, Line
<1> HIDE DEF F, C, none
<1>8. \A s \in Seq(C) : Append(s, e) = s \o one
  BY <1>1, AppendIsConcat DEF one
<1> HIDE DEF one
<1>9. CASE u = none
  BY <1>1, <1>3, <1>5, <1>6, <1>8, <1>9 DEF F
<1>10. CASE \E f \in Seq(Filled), l \in Filled : u = Append(f, l)
  <2>1. PICK f \in Seq(Filled), l \in Filled : u = Append(f, l)
    BY <1>10
  <2>2. f \in Seq(Seq(C)) /\ l \in Seq(C) /\ u \in Seq(Seq(C)) /\ Append(l, e) \in Seq(C)
    BY <1>4, <1>7, <2>1
  <2>3. WithByte(u, e) = IF l[Len(l)] = NL THEN Append(u, one) ELSE Append(f, Append(l, e))
    BY <1>3, <2>1
  <2>4. F(u) \in Seq(C) /\ F(Append(u, one)) = F(u) \o one /\ F(f) \in Seq(C)
        /\ F(u) = F(f) \o l /\ F(Append(f, Append(l, e))) = F(f) \o Append(l, e)
    BY <1>1, <1>6, <2>1, <2>2
  <2>5. F(f) \o Append(l, e) = Append(F(f) \o l, e)
    <3>1. PICK g : g = F(f)
      OBVIOUS
    <3>2. g \in Seq(C) /\ l \in Seq(C) /\ e \in C
      BY <1>1, <2>2, <2>4, <3>1
    <3>3. g \o Append(l, e) = Append(g \o l, e)
      <4>1. PICK v, w, D : v = l /\ w = e /\ D = C
        OBVIOUS
      <4>2. g \in Seq(D) /\ v \in Seq(D) /\ w \in D
        BY <3>2, <4>1
      <4>3. g \o Append(v, w) = Append(g \o v, w)
        BY <4>2, ConcatAppend
      <4> QED
        BY <4>1, <4>3
    <3> QED
      BY <3>1, <3>3
  <2>6. F(WithByte(u, e)) = Append(F(u), e)
    <3>1. CASE l[Len(l)] = NL
      BY <1>8, <2>3, <2>4, <3>1
    <3>2. CASE l[Len(l)] # NL
      BY <2>3, <2>4, <2>5, <3>2
    <3> QED
      BY <3>1, <3>2
  <2> QED
    BY <2>6 DEF F
<1> QED
  BY <1>2, <1>9, <1>10

\* The last of the lines of a text that is not empty ends as the text does.
EndsAs(lines, d) == \E f \in Seq(Filled), l \in Filled : lines = Append(f, l) /\ l[Len(l)] = d[Len(d)]

\* With one byte more the last line ends with it.
LEMMA WithByteEnds ==
    ASSUME NEW u \in Seq(Filled), NEW d \in Seq(STRING), NEW e \in STRING
    PROVE  EndsAs(WithByte(u, e), Append(d, e))
<1> DEFINE none == <<>>
           one == <<e>>
           r == Append(d, e)
<1>1. r[Len(r)] = e
  <2> DEFINE B == STRING
  <2>1. d \in Seq(B) /\ e \in B
    OBVIOUS
  <2> HIDE DEF B
  <2>2. Len(r) = Len(d) + 1 /\ r[Len(d) + 1] = e
    BY <2>1, AppendProperties
  <2> HIDE DEF r
  <2> QED
    BY <2>2
<1> HIDE DEF r
<1>2. u = none \/ \E f \in Seq(Filled), l \in Filled : u = Append(f, l)
  BY LastLine
<1>3. CASE u = none
  <2>1. WithByte(none, e) = Append(none, one)
    BY DEF WithByte
  <2>2. PICK z : z = one
    OBVIOUS
  <2>3. none \in Seq(Filled)
    BY EmptySeq
  <2>4. PICK l \in Filled : l = one
    <3>1. z \in Line /\ Len(z) = 1
      BY <2>2, OneElement DEF Line
    <3>2. Len(z) > 0
      <4> HIDE DEF none, one
      <4> QED
        BY <3>1
    <3>3. z \in Filled
      BY <3>1, <3>2 DEF Filled
    <3> QED
      BY <2>2, <3>3
  <2>5. l[Len(l)] = e
    BY <2>4, OneElement
  <2> QED
    BY <1>1, <1>3, <2>1, <2>3, <2>4, <2>5 DEF EndsAs, r
<1>4. CASE \E f \in Seq(Filled), l \in Filled : u = Append(f, l)
  <2>1. PICK f \in Seq(Filled), l \in Filled : u = Append(f, l)
    BY <1>4
  <2>2. WithByte(u, e) = IF l[Len(l)] = NL THEN Append(u, one) ELSE Append(f, Append(l, e))
    BY <2>1, WithByteAfter
  <2>3. PICK m, o : m = Append(l, e) /\ o = one
    OBVIOUS
  <2>4. m \in Filled /\ o \in Filled /\ m[Len(m)] = e /\ o[Len(o)] = e
    BY <2>3, FilledIs
  <2> HIDE DEF one, none
  <2>5. CASE l[Len(l)] = NL
    BY <1>1, <2>2, <2>3, <2>4, <2>5 DEF EndsAs, r
  <2>6. CASE l[Len(l)] # NL
    BY <1>1, <2>2, <2>3, <2>4, <2>6 DEF EndsAs, r
  <2> QED
    BY <2>5, <2>6
<1> QED
  BY <1>2, <1>3, <1>4

\* The lines of a text, one after the other, are the text.
LEMMA LinesAre ==
    ASSUME NEW d \in Seq(STRING)
    PROVE  /\ LinesOf(d) \in Seq(Filled)
           /\ FlattenSeq(LinesOf(d)) = d
           /\ d = <<>> \/ EndsAs(LinesOf(d), d)
<1> DEFINE B == STRING
           none == <<>>
           P(u) == FlattenSeq(LinesOf(u)) = u /\ (u = none \/ EndsAs(LinesOf(u), u))
           S == {u \in Seq(B) : P(u)}
<1>1. \A u \in Seq(B) : LinesOf(u) \in Seq(Filled)
  BY LinesOfIsFolded
<1>2. none \in S
  <2>1. LinesOf(none) = none
    BY LinesOfOfNone
  <2>2. FlattenSeq(none) = none
    <3>1. PICK z : z = none
      OBVIOUS
    <3>2. z \in Seq(Seq(B)) /\ z \in Seq(B)
      BY <3>1
    <3> QED
      BY <3>1, <3>2, FlattenAppend
  <2>3. none \in Seq(B)
    BY EmptySeq
  <2> QED
    BY <2>1, <2>2, <2>3
<1>3. ASSUME NEW u \in Seq(B), NEW e \in B, u \in S PROVE Append(u, e) \in S
  <2> DEFINE r == Append(u, e)
  <2>1. LinesOf(r) = WithByte(LinesOf(u), e)
    BY LinesOfAppend
  <2>2. FlattenSeq(WithByte(LinesOf(u), e)) = Append(FlattenSeq(LinesOf(u)), e)
    BY <1>1, FlattenWithByte
  <2>3. EndsAs(WithByte(LinesOf(u), e), r)
    BY <1>1, WithByteEnds
  <2>4. FlattenSeq(LinesOf(u)) = u
    BY <1>3
  <2>5. r \in Seq(B)
    BY AppendProperties
  <2> HIDE DEF B
  <2> QED
    BY <2>1, <2>2, <2>3, <2>4, <2>5
<1>4. none \in Seq(B) /\ d \in Seq(B)
  BY EmptySeq
<1>5. Seq(B) \subseteq S
  <2> HIDE DEF B, P, none, S
  <2>1. \A u \in Seq(B), e \in B : u \in S => Append(u, e) \in S
    BY <1>3
  <2>2. <<>> \in S
    BY <1>2 DEF none
  <2> QED
    BY <2>1, <2>2, SeqSetInduction
<1>6. P(d)
  <2> HIDE DEF P
  <2> QED
    BY <1>4, <1>5
<1> QED
  BY <1>1, <1>6

\* A byte after two sequences of lines goes to the second.
LEMMA WithByteConcat ==
    ASSUME NEW u \in Seq(Filled), NEW f \in Seq(Filled), NEW l \in Filled, NEW e \in STRING
    PROVE  WithByte(u \o Append(f, l), e) = u \o WithByte(Append(f, l), e)
<1> DEFINE B == Filled
           one == <<e>>
           v == Append(f, l)
           m == Append(l, e)
           g == u \o f
<1>1. one \in B /\ m \in B /\ u \in Seq(B) /\ f \in Seq(B) /\ l \in B
  BY FilledIs
<1>2. WithByte(v, e) = IF l[Len(l)] = NL THEN Append(v, one) ELSE Append(f, m)
  BY WithByteAfter
<1> HIDE DEF B, one, m, g
<1>3. g \in Seq(B) /\ v \in Seq(B)
  BY <1>1, ConcatProperties, AppendProperties DEF g
<1>4. WithByte(Append(g, l), e) = IF l[Len(l)] = NL THEN Append(Append(g, l), one) ELSE Append(g, m)
  BY <1>3, WithByteAfter DEF B, one, m
<1>5. \A w \in Seq(B), n \in B : u \o Append(w, n) = Append(u \o w, n)
  BY <1>1, ConcatAppend
<1>6. u \o v = Append(g, l) /\ u \o Append(f, m) = Append(g, m) /\ u \o Append(v, one) = Append(u \o v, one)
  BY <1>1, <1>3, <1>5 DEF g
<1> HIDE DEF v
<1>7. WithByte(u \o v, e) = u \o WithByte(v, e)
  <2>1. CASE l[Len(l)] = NL
    BY <1>2, <1>4, <1>6, <2>1
  <2>2. CASE l[Len(l)] # NL
    BY <1>2, <1>4, <1>6, <2>2
  <2> QED
    BY <2>1, <2>2
<1> QED
  BY <1>7 DEF v

\* A text that is empty or ends with a newline.
Broken(d) == d = <<>> \/ d[Len(d)] = NL

\* After such a text a byte starts a line.
LEMMA WithByteStarts ==
    ASSUME NEW d \in Seq(STRING), Broken(d), NEW e \in STRING
    PROVE  WithByte(LinesOf(d), e) = Append(LinesOf(d), <<e>>)
<1> DEFINE one == <<e>>
           none == <<>>
<1>1. CASE d = none
  <2>1. LinesOf(none) = none /\ WithByte(none, e) = Append(none, one)
    BY LinesOfOfNone DEF WithByte
  <2> HIDE DEF none, one
  <2> QED
    BY <1>1, <2>1 DEF one
<1>2. CASE d # none
  <2>1. EndsAs(LinesOf(d), d) /\ d[Len(d)] = NL
    BY <1>2, LinesAre DEF Broken
  <2>2. PICK f \in Seq(Filled), l \in Filled : LinesOf(d) = Append(f, l) /\ l[Len(l)] = NL
    BY <2>1 DEF EndsAs
  <2> QED
    BY <2>2, WithByteAfter
<1> QED
  BY <1>1, <1>2

\* The lines of one text after another, when the first ends with a line.
THEOREM LinesConcat ==
    ASSUME NEW d \in Seq(STRING), NEW r \in Seq(STRING), Broken(d) \/ r = <<>>
    PROVE  LinesOf(d \o r) = LinesOf(d) \o LinesOf(r)
<1> DEFINE B == STRING
           none == <<>>
           S == {u \in Seq(B) : LinesOf(d \o u) = LinesOf(d) \o LinesOf(u)}
           L == Seq(Filled)
<1>1. /\ LinesOf(none) = none /\ none \in Seq(B) /\ d \o none = d /\ none \in L
      /\ \A u \in Seq(B) : LinesOf(u) \in L /\ (u = none \/ EndsAs(LinesOf(u), u))
  <2>1. LinesOf(none) = none /\ none \in Seq(B) /\ none \in L
    BY LinesOfOfNone, EmptySeq
  <2>2. d \o none = d
    BY ConcatEmptySeq
  <2>3. \A u \in Seq(B) : LinesOf(u) \in L /\ (u = none \/ EndsAs(LinesOf(u), u))
    BY LinesAre
  <2> QED
    BY <2>1, <2>2, <2>3
<1>2. LinesOf(d) \o none = LinesOf(d)
  <2> DEFINE F == Filled
  <2>1. LinesOf(d) \in Seq(F)
    BY <1>1
  <2> HIDE DEF F
  <2> QED
    BY <2>1, ConcatEmptySeq
<1>3. none \in S
  <2> HIDE DEF none, B
  <2> QED
    BY <1>1, <1>2
<1>4. CASE Broken(d)
  <2>1. ASSUME NEW u \in Seq(B), NEW e \in B, u \in S PROVE Append(u, e) \in S
    <3> DEFINE w == d \o u
               one == <<e>>
    <3>1. w \in Seq(B) /\ d \o Append(u, e) = Append(w, e) /\ Append(u, e) \in Seq(B)
      <4> DEFINE C == STRING
      <4>1. d \in Seq(C) /\ u \in Seq(C) /\ e \in C
        OBVIOUS
      <4> HIDE DEF C
      <4>2. w \in Seq(C) /\ d \o Append(u, e) = Append(w, e) /\ Append(u, e) \in Seq(C)
        <5>1. PICK D, v, c : D = C /\ v = u /\ c = e
          OBVIOUS
        <5>2. d \in Seq(D) /\ v \in Seq(D) /\ c \in D
          BY <4>1, <5>1
        <5>3. d \o v \in Seq(D) /\ d \o Append(v, c) = Append(d \o v, c) /\ Append(v, c) \in Seq(D)
          BY <5>2, ConcatProperties, ConcatAppend, AppendProperties
        <5> QED
          BY <5>1, <5>3
      <4> QED
        BY <4>2 DEF C
    <3>2. LinesOf(w) = LinesOf(d) \o LinesOf(u)
      BY <2>1
    <3> HIDE DEF w
    <3>3. LinesOf(Append(w, e)) = WithByte(LinesOf(w), e) /\ LinesOf(Append(u, e)) = WithByte(LinesOf(u), e)
      BY <3>1, LinesOfAppend
    <3>4. WithByte(LinesOf(d) \o LinesOf(u), e) = LinesOf(d) \o WithByte(LinesOf(u), e)
      <4>1. CASE u = none
        <5>1. WithByte(LinesOf(d), e) = Append(LinesOf(d), one)
          BY <1>4, WithByteStarts
        <5>2. WithByte(none, e) = Append(none, one)
          BY DEF WithByte
        <5>3. LinesOf(d) \o Append(none, one) = Append(LinesOf(d) \o none, one)
          <6> DEFINE F == Filled
          <6>1. PICK l : l = one
            OBVIOUS
          <6>2. l \in Line /\ Len(l) = 1
            BY <6>1, OneElement DEF Line
          <6>3. Len(l) > 0
            <7> HIDE DEF none, one, w, L
            <7> QED
              BY <6>2
          <6>4. l \in F
            BY <6>2, <6>3 DEF Filled
          <6>5. LinesOf(d) \in Seq(F) /\ none \in Seq(F)
            BY <1>1
          <6> HIDE DEF F, none, one
          <6>6. LinesOf(d) \o Append(none, l) = Append(LinesOf(d) \o none, l)
            BY <6>4, <6>5, ConcatAppend
          <6> QED
            BY <6>1, <6>6
        <5> HIDE DEF none, one, B, L
        <5> QED
          BY <1>1, <1>2, <4>1, <5>1, <5>2, <5>3
      <4>2. CASE EndsAs(LinesOf(u), u)
        <5>1. PICK f \in Seq(Filled), l \in Filled : LinesOf(u) = Append(f, l)
          BY <4>2 DEF EndsAs
        <5>2. LinesOf(d) \in Seq(Filled)
          BY <1>1
        <5>3. WithByte(LinesOf(d) \o Append(f, l), e) = LinesOf(d) \o WithByte(Append(f, l), e)
          BY <5>2, WithByteConcat
        <5> QED
          BY <5>1, <5>3, Zenon
      <4> QED
        BY <1>1, <4>1, <4>2
    <3> HIDE DEF B
    <3>5. LinesOf(d \o Append(u, e)) = LinesOf(d) \o LinesOf(Append(u, e))
      BY <3>1, <3>2, <3>3, <3>4
    <3> QED
      BY <3>1, <3>5
  <2> HIDE DEF B, S
  <2>2. \A u \in Seq(B), e \in B : u \in S => Append(u, e) \in S
    BY <2>1
  <2>3. <<>> \in S
    BY <1>3
  <2>4. Seq(B) \subseteq S
    BY <2>2, <2>3, SeqSetInduction
  <2>5. r \in S
    BY <2>4 DEF B
  <2> QED
    BY <2>5 DEF S
<1>5. CASE r = none
  <2>1. r \in S
    BY <1>3, <1>5
  <2> HIDE DEF B, L, none
  <2> QED
    BY <2>1
<1> QED
  BY <1>4, <1>5

-----------------------------------------------------------------------------
(* The window *)

\* Where a line starts, up to byte p, and where one ends among the last n bytes.
LineStarts(a, p) == {l \in 0 .. p : l = 0 \/ a[l] = NL}
LineStops(a, n) == {h \in Len(a) - n .. Len(a) : h = Len(a) \/ (h > Len(a) - n /\ a[h] = NL)}

\* The start of a line is one.
LEMMA LineStartIs ==
    ASSUME NEW a, NEW i \in Nat
    PROVE  LineStart(a, i) \in LineStarts(a, i)
<1> DEFINE z == 0
           S == LineStarts(a, i)
<1>1. S \in SUBSET (z .. i) /\ z \in S /\ z \in Int /\ i \in Int
  BY DEF LineStarts
<1>2. LineStart(a, i) = Largest(S)
  BY DEF LineStart, LineStarts
<1> HIDE DEF S, z
<1>3. S # {}
  BY <1>1
<1> QED
  BY <1>1, <1>2, <1>3, LargestIs DEF S

\* The start of the line before is one of a line.
LEMMA LineBeforeIs ==
    ASSUME NEW a, NEW p \in Nat, NEW l \in LineStarts(a, p)
    PROVE  LineBefore(a, l) \in LineStarts(a, p)
<1>1. l \in 0 .. p
  BY DEF LineStarts
<1>2. CASE l = 0
  BY <1>2 DEF LineBefore
<1>3. CASE l # 0
  <2> DEFINE m == l - 1
  <2>1. m \in Nat /\ \A k \in 0 .. m : k \in 0 .. p
    BY <1>1, <1>3
  <2>2. LineBefore(a, l) = LineStart(a, m)
    BY <1>3 DEF LineBefore
  <2> HIDE DEF m
  <2>3. LineStart(a, m) \in LineStarts(a, m)
    BY <2>1, LineStartIs
  <2> QED
    BY <2>1, <2>2, <2>3 DEF LineStarts
<1> QED
  BY <1>2, <1>3

\* However many lines back.
LEMMA BeforeIs ==
    ASSUME NEW a, NEW p \in Nat, NEW l \in LineStarts(a, p), NEW n \in Nat
    PROVE  Before(a, l, n) \in LineStarts(a, p)
<1> DEFINE A == LineStarts(a, p)
<1>1. \A t \in A : LineBefore(a, t) \in A
  BY LineBeforeIs
<1>2. l \in A
  OBVIOUS
<1> HIDE DEF A
<1>3. PICK f : BeforeTurns(a, l, n, A, f)
  <2>1. \A t \in A, k \in 0 .. n - 1 : LineBefore(a, t) \in A
    BY <1>1
  <2> QED
    BY <1>2, <2>1, BeforeLoop
<1>4. Before(a, l, n) = f[n] /\ f \in [0 .. n -> A]
  BY <1>3 DEF BeforeTurns
<1>5. n \in 0 .. n
  OBVIOUS
<1> QED
  BY <1>4, <1>5 DEF A

\* The end of the line after is one of a line.
LEMMA LineAfterIs ==
    ASSUME NEW a, Len(a) \in Nat, NEW n \in 0 .. Len(a), NEW h \in LineStops(a, n)
    PROVE  LineAfter(a, h) \in LineStops(a, n)
<1>1. h \in Len(a) - n .. Len(a) /\ h \in Nat
  BY DEF LineStops
<1>2. CASE h = Len(a)
  BY <1>2 DEF LineAfter
<1>3. CASE h # Len(a)
  <2> DEFINE S == {i \in h + 1 .. Len(a) : a[i] = NL \/ i = Len(a)}
             lo == h + 1
             hi == Len(a)
  <2>1. S \in SUBSET (lo .. hi) /\ lo \in Int /\ hi \in Int /\ hi \in S
    BY <1>1, <1>3
  <2>2. LineAfter(a, h) = Smallest(S)
    BY <1>3 DEF LineAfter
  <2>3. Smallest(S) \in S
    <3> HIDE DEF S, lo, hi
    <3>1. S # {}
      BY <2>1
    <3> QED
      BY <2>1, <3>1, SmallestIs
  <2> DEFINE e == Smallest(S)
  <2>4. e \in h + 1 .. Len(a) /\ (a[e] = NL \/ e = Len(a))
    BY <2>3
  <2> HIDE DEF e
  <2>5. e \in Len(a) - n .. Len(a) /\ e > Len(a) - n
    BY <1>1, <2>4
  <2>6. e \in LineStops(a, n)
    BY <2>4, <2>5 DEF LineStops
  <2> QED
    BY <2>2, <2>6 DEF e
<1> QED
  BY <1>2, <1>3

\* However many lines on.
LEMMA AfterIs ==
    ASSUME NEW a, Len(a) \in Nat, NEW n \in 0 .. Len(a), NEW h \in LineStops(a, n), NEW m \in Nat
    PROVE  After(a, h, m) \in LineStops(a, n)
<1> DEFINE A == LineStops(a, n)
<1>1. \A t \in A : LineAfter(a, t) \in A
  BY LineAfterIs
<1>2. h \in A
  OBVIOUS
<1> HIDE DEF A
<1>3. PICK f : AfterTurns(a, h, m, A, f)
  <2>1. \A t \in A, k \in 0 .. m - 1 : LineAfter(a, t) \in A
    BY <1>1
  <2> QED
    BY <1>2, <2>1, AfterLoop
<1>4. After(a, h, m) = f[m] /\ f \in [0 .. m -> A]
  BY <1>3 DEF AfterTurns
<1>5. m \in 0 .. m
  OBVIOUS
<1> QED
  BY <1>4, <1>5 DEF A

\* What two texts share at their beginning.
LEMMA PrefixIs ==
    ASSUME NEW a, NEW b, NEW most \in Nat
    PROVE  /\ PrefixLen(a, b, most) \in 0 .. most
           /\ \A i \in 1 .. PrefixLen(a, b, most) : a[i] = b[i]
<1> DEFINE z == 0
           S == {p \in 0 .. most : \A i \in 1 .. p : a[i] = b[i]}
<1>1. S \in SUBSET (z .. most) /\ z \in S /\ z \in Int /\ most \in Int
  OBVIOUS
<1>2. PrefixLen(a, b, most) = Largest(S)
  BY DEF PrefixLen
<1>3. Largest(S) \in S
  <2> HIDE DEF S, z
  <2>1. S # {}
    BY <1>1
  <2> QED
    BY <1>1, <2>1, LargestIs
<1> HIDE DEF PrefixLen
<1> QED
  BY <1>2, <1>3

\* What two texts share at their end.
LEMMA SuffixIs ==
    ASSUME NEW a, NEW b, NEW most \in Nat
    PROVE  /\ SuffixLen(a, b, most) \in 0 .. most
           /\ \A i \in 0 .. SuffixLen(a, b, most) - 1 : a[Len(a) - i] = b[Len(b) - i]
<1> DEFINE z == 0
           S == {s \in 0 .. most : \A i \in 0 .. s - 1 : a[Len(a) - i] = b[Len(b) - i]}
<1>1. S \in SUBSET (z .. most) /\ z \in S /\ z \in Int /\ most \in Int
  OBVIOUS
<1>2. SuffixLen(a, b, most) = Largest(S)
  BY DEF SuffixLen
<1>3. Largest(S) \in S
  <2> HIDE DEF S, z
  <2>1. S # {}
    BY <1>1
  <2> QED
    BY <1>1, <2>1, LargestIs
<1> QED
  BY <1>2, <1>3

\* The window ends with a line, among the bytes that are shared.
LEMMA WindowEndIs ==
    ASSUME NEW a, Len(a) \in Nat, NEW n \in 0 .. Len(a)
    PROVE  WindowEnd(a, n) \in LineStops(a, n)
<1> DEFINE S == {i \in Len(a) - n + 1 .. Len(a) : a[i] = NL}
           lo == Len(a) - n + 1
           hi == Len(a)
<1>1. S \in SUBSET (lo .. hi) /\ lo \in Int /\ hi \in Int
  OBVIOUS
<1>2. WindowEnd(a, n) = IF S = {} THEN Len(a) ELSE After(a, Smallest(S), windowSlack)
  BY DEF WindowEnd
<1>3. Len(a) \in LineStops(a, n)
  BY DEF LineStops
<1>4. ASSUME S # {} PROVE After(a, Smallest(S), windowSlack) \in LineStops(a, n)
  <2>1. Smallest(S) \in S
    <3> HIDE DEF S, lo, hi
    <3> QED
      BY <1>1, <1>4, SmallestIs
  <2> DEFINE e == Smallest(S)
  <2>2. e \in Len(a) - n + 1 .. Len(a) /\ a[e] = NL
    BY <2>1
  <2> HIDE DEF e
  <2>3. e \in LineStops(a, n)
    BY <2>2 DEF LineStops
  <2>4. windowSlack \in Nat
    BY DiffAssumption
  <2>5. After(a, e, windowSlack) \in LineStops(a, n)
    BY <2>3, <2>4, AfterIs
  <2> QED
    BY <2>5 DEF e
<1> HIDE DEF S
<1> QED
  BY <1>2, <1>3, <1>4

\* Before and after the window the texts are the same, and it starts and ends with a line in both.
WindowFits(a, b, w) ==
    /\ w.lo \in 0 .. Len(a) /\ w.aHi \in w.lo .. Len(a) /\ w.bHi \in w.lo .. Len(b)
    /\ Len(a) - w.aHi = Len(b) - w.bHi
    /\ Alike(a, b, 0, 0, w.lo) /\ Alike(a, b, w.aHi, w.bHi, Len(a) - w.aHi)
    /\ w.lo = 0 \/ (a[w.lo] = NL /\ b[w.lo] = NL)
    /\ w.aHi = Len(a) \/ (w.aHi > 0 /\ w.bHi > 0 /\ a[w.aHi] = NL /\ b[w.bHi] = NL)

\* The start of the window is one of a line, in what the texts share.
LEMMA WindowStartIs ==
    ASSUME NEW a, NEW b, Len(a) \in Nat, Len(b) \in Nat
    PROVE  /\ WindowStart(a, b) \in 0 .. Least(Len(a), Len(b))
           /\ WindowStart(a, b) = 0 \/ a[WindowStart(a, b)] = NL
           /\ \A i \in 1 .. WindowStart(a, b) : a[i] = b[i]
<1> DEFINE most == Least(Len(a), Len(b))
           p == PrefixLen(a, b, most)
           s == LineStart(a, p)
           lo == Before(a, s, windowSlack)
<1>1. most \in Nat /\ windowSlack \in Nat
  BY DiffAssumption DEF Least
<1> HIDE DEF most
<1>2. p \in 0 .. most /\ \A i \in 1 .. p : a[i] = b[i]
  BY <1>1, PrefixIs
<1> HIDE DEF p
<1>3. p \in Nat
  BY <1>1, <1>2
<1>4. s \in LineStarts(a, p)
  BY <1>3, LineStartIs
<1> HIDE DEF s
<1>5. lo \in LineStarts(a, p)
  BY <1>1, <1>3, <1>4, BeforeIs
<1>6. WindowStart(a, b) = lo
  BY DEF WindowStart, lo, s, p, most
<1> HIDE DEF lo
<1>7. lo \in 0 .. p /\ (lo = 0 \/ a[lo] = NL)
  BY <1>5 DEF LineStarts
<1>8. lo \in 0 .. most /\ \A i \in 1 .. lo : i \in 1 .. p
  BY <1>1, <1>2, <1>7
<1> QED
  BY <1>2, <1>6, <1>7, <1>8 DEF most

\* unifiedWindow gives such a window.
THEOREM WindowIs ==
    ASSUME NEW a, NEW b, Len(a) \in Nat, Len(b) \in Nat
    PROVE  WindowFits(a, b, Window(a, b))
<1> DEFINE N == Len(a)
           M == Len(b)
           w == Window(a, b)
           lo == WindowStart(a, b)
           most == Least(N, M) - lo
           n == SuffixLen(a, b, most)
           e == WindowEnd(a, n)
           f == e - (N - M)
<1>1. lo \in 0 .. Least(N, M) /\ (lo = 0 \/ a[lo] = NL) /\ \A i \in 1 .. lo : a[i] = b[i]
  BY WindowStartIs
<1>2. w.lo = lo /\ w.aHi = e /\ w.bHi = f
  BY DEF Window, WindowAfter, Bounds
<1> HIDE DEF w, lo
<1>3. most \in Nat /\ lo \in Nat /\ lo <= N /\ lo <= M /\ lo + most <= N /\ lo + most <= M /\ N \in Nat /\ M \in Nat
  BY <1>1 DEF Least
<1> HIDE DEF most
<1>4. n \in 0 .. most /\ \A i \in 0 .. n - 1 : a[N - i] = b[M - i]
  BY <1>3, SuffixIs
<1> HIDE DEF n
<1>5. n \in 0 .. N /\ n \in Nat /\ n <= most
  BY <1>3, <1>4
<1>6. e \in LineStops(a, n)
  BY <1>3, <1>5, WindowEndIs
<1>7. e \in N - n .. N /\ (e = N \/ (e > N - n /\ a[e] = NL))
  BY <1>6 DEF LineStops
<1> HIDE DEF N, M, e
<1>8. e \in lo .. N /\ f \in lo .. M /\ N - e = M - f /\ f \in Nat /\ e \in Nat
  BY <1>3, <1>5, <1>7
<1>9. Alike(a, b, 0, 0, lo)
  <2>1. ASSUME NEW k \in 0 .. lo - 1 PROVE a[0 + k + 1] = b[0 + k + 1]
    <3>1. 0 + k + 1 \in 1 .. lo
      BY <1>3
    <3> QED
      BY <1>1, <3>1
  <2> QED
    BY <2>1 DEF Alike
<1>10. \A i \in 0 .. n - 1 : a[N - i] = b[M - i]
  BY <1>4
<1>11. Alike(a, b, e, f, N - e)
  <2>1. ASSUME NEW k \in 0 .. (N - e) - 1 PROVE a[e + k + 1] = b[f + k + 1]
    <3> DEFINE i == N - (e + k + 1)
    <3>1. i \in 0 .. n - 1 /\ N - i = e + k + 1 /\ M - i = f + k + 1
      BY <1>3, <1>5, <1>7, <1>8
    <3> HIDE DEF i
    <3>2. a[N - i] = b[M - i]
      BY <1>10, <3>1
    <3> QED
      BY <3>1, <3>2
  <2> QED
    BY <2>1 DEF Alike
<1>12. lo = 0 \/ (a[lo] = NL /\ b[lo] = NL)
  <2>1. lo # 0 => lo \in 1 .. lo
    BY <1>3
  <2> QED
    BY <1>1, <2>1
<1>13. e = N \/ (e > 0 /\ f > 0 /\ a[e] = NL /\ b[f] = NL)
  <2> SUFFICES ASSUME e # N PROVE e > 0 /\ f > 0 /\ a[e] = NL /\ b[f] = NL
    OBVIOUS
  <2> DEFINE i == N - e
  <2>1. i \in 0 .. n - 1 /\ N - i = e /\ M - i = f /\ e > 0 /\ f > 0
    BY <1>3, <1>5, <1>7, <1>8
  <2> HIDE DEF i
  <2>2. a[N - i] = b[M - i]
    BY <1>10, <2>1
  <2>3. a[e] = NL
    BY <1>7
  <2> QED
    BY <2>1, <2>2, <2>3
<1>14. lo \in 0 .. N
  BY <1>3
<1> HIDE DEF f
<1> QED
  BY <1>2, <1>8, <1>9, <1>11, <1>12, <1>13, <1>14 DEF WindowFits, N, M, w

-----------------------------------------------------------------------------
(* The lines of the texts around the window *)

\* All of a sequence.
LEMMA CutAll ==
    ASSUME NEW B, NEW s \in Seq(B)
    PROVE  Cut(s, 0, Len(s)) = s
<1> DEFINE z == 0
           n == Len(s)
           c == Cut(s, z, n)
<1>1. n \in Nat /\ z \in 0 .. Len(s) /\ n \in z .. Len(s)
  BY LenProperties
<1>2. n - z = n /\ \A k \in 1 .. n : z + k = k
  BY <1>1
<1> HIDE DEF z
<1>3. c \in Seq(B) /\ Len(c) = n - z /\ \A k \in 1 .. n - z : c[k] = s[z + k]
  BY <1>1, CutIs
<1> HIDE DEF c
<1>4. Len(c) = Len(s) /\ \A k \in 1 .. Len(c) : c[k] = s[k]
  BY <1>2, <1>3
<1>5. c = s
  BY <1>3, <1>4, SameSeq
<1> QED
  BY <1>5 DEF c, z

\* L is p, x and s, one after the other.
Three(L, p, x, s) ==
    /\ Len(p) \in Nat /\ Len(x) \in Nat /\ Len(s) \in Nat
    /\ Len(L) = Len(p) + Len(x) + Len(s)
    /\ \A k \in 1 .. Len(p) : L[k] = p[k]
    /\ \A k \in 1 .. Len(x) : L[Len(p) + k] = x[k]
    /\ \A k \in 1 .. Len(s) : L[Len(p) + Len(x) + k] = s[k]

\* One after the other, they are.
LEMMA ThreeIs ==
    ASSUME NEW B, NEW p \in Seq(B), NEW x \in Seq(B), NEW s \in Seq(B)
    PROVE  Three((p \o x) \o s, p, x, s)
<1> DEFINE u == p \o x
           L == u \o s
<1>1. Len(p) \in Nat /\ Len(x) \in Nat /\ Len(s) \in Nat
  BY LenProperties
<1>2. /\ u \in Seq(B) /\ Len(u) = Len(p) + Len(x)
      /\ \A k \in 1 .. Len(p) + Len(x) : u[k] = IF k <= Len(p) THEN p[k] ELSE x[k - Len(p)]
  BY ConcatProperties
<1> HIDE DEF u
<1>3. /\ Len(L) = Len(u) + Len(s)
      /\ \A k \in 1 .. Len(u) + Len(s) : L[k] = IF k <= Len(u) THEN u[k] ELSE s[k - Len(u)]
  <2>1. u \in Seq(B)
    BY <1>2
  <2> QED
    BY <2>1, ConcatProperties
<1> HIDE DEF L
<1> DEFINE i == Len(p)
           j == Len(x)
           h == Len(s)
<1>4. /\ i \in Nat /\ j \in Nat /\ h \in Nat
      /\ Len(u) = i + j
      /\ \A k \in 1 .. i + j : u[k] = IF k <= i THEN p[k] ELSE x[k - i]
      /\ Len(L) = i + j + h
      /\ \A k \in 1 .. i + j + h : L[k] = IF k <= i + j THEN u[k] ELSE s[k - (i + j)]
  BY <1>1, <1>2, <1>3
<1> HIDE DEF i, j, h
<1>5. ASSUME NEW k \in 1 .. i PROVE L[k] = p[k]
  <2>1. k \in 1 .. i + j /\ k \in 1 .. i + j + h /\ k <= i /\ k <= i + j
    BY <1>4
  <2> QED
    BY <1>4, <2>1
<1>6. ASSUME NEW k \in 1 .. j PROVE L[i + k] = x[k]
  <2> DEFINE m == i + k
  <2>1. m \in 1 .. i + j /\ m \in 1 .. i + j + h /\ ~(m <= i) /\ m <= i + j /\ m - i = k
    BY <1>4
  <2> HIDE DEF m
  <2>2. L[m] = x[k]
    BY <1>4, <2>1
  <2> QED
    BY <2>2 DEF m
<1>7. ASSUME NEW k \in 1 .. h PROVE L[i + j + k] = s[k]
  <2> DEFINE m == i + j + k
  <2>1. m \in 1 .. i + j + h /\ ~(m <= i + j) /\ m - (i + j) = k
    BY <1>4
  <2> HIDE DEF m
  <2>2. L[m] = s[k]
    BY <1>4, <2>1
  <2> QED
    BY <2>2 DEF m
<1> QED
  BY <1>4, <1>5, <1>6, <1>7 DEF Three, i, j, h, L, u

\* A text that is cut where lines end has the lines of its parts.
LEMMA LinesInThree ==
    ASSUME NEW d \in Seq(STRING), NEW lo \in 0 .. Len(d), NEW hi \in lo .. Len(d),
           lo = 0 \/ d[lo] = NL, hi = Len(d) \/ (hi > 0 /\ d[hi] = NL)
    PROVE  LinesOf(d) = (LinesOf(Cut(d, 0, lo)) \o LinesOf(Cut(d, lo, hi))) \o LinesOf(Cut(d, hi, Len(d)))
<1> DEFINE B == STRING
           n == Len(d)
           z == 0
           u == Cut(d, z, lo)
           v == Cut(d, lo, hi)
           w == Cut(d, hi, n)
           t == Cut(d, z, hi)
<1>1. d \in Seq(B) /\ n \in Nat /\ lo \in Nat /\ hi \in Nat /\ lo <= hi /\ hi <= n
  BY LenProperties
<1>2. z \in 0 .. n /\ lo \in z .. n /\ hi \in z .. n /\ n \in hi .. n /\ hi \in 0 .. n /\ lo - z = lo /\ hi - z = hi
  BY <1>1
<1>3. lo > 0 => lo \in 1 .. lo /\ z + lo = lo
  BY <1>1
<1>4. hi > 0 => hi \in 1 .. hi /\ z + hi = hi
  BY <1>1
<1> HIDE DEF z, B, n
<1>5. /\ u \in Seq(B) /\ Len(u) = lo /\ \A k \in 1 .. lo : u[k] = d[z + k]
      /\ t \in Seq(B) /\ Len(t) = hi /\ \A k \in 1 .. hi : t[k] = d[z + k]
      /\ v \in Seq(B) /\ w \in Seq(B) /\ Len(w) = n - hi
  <2>1. lo \in 0 .. Len(d) /\ lo \in z .. Len(d) /\ hi \in lo .. Len(d) /\ hi \in z .. Len(d) /\ z \in 0 .. Len(d)
        /\ hi \in 0 .. Len(d) /\ n \in hi .. Len(d)
    BY <1>1, <1>2 DEF n
  <2>2. u \in Seq(B) /\ Len(u) = lo - z /\ \A k \in 1 .. lo - z : u[k] = d[z + k]
    BY <1>1, <2>1, CutIs
  <2>3. t \in Seq(B) /\ Len(t) = hi - z /\ \A k \in 1 .. hi - z : t[k] = d[z + k]
    BY <1>1, <2>1, CutIs
  <2>4. v \in Seq(B) /\ w \in Seq(B) /\ Len(w) = n - hi
    BY <1>1, <2>1, CutIs
  <2> QED
    BY <1>2, <2>2, <2>3, <2>4
<1>6. t = u \o v /\ d = t \o w
  <2>1. z \in 0 .. Len(d) /\ lo \in z .. Len(d) /\ hi \in lo .. Len(d) /\ hi \in z .. Len(d) /\ n \in hi .. Len(d)
    BY <1>1, <1>2 DEF n
  <2>2. t = u \o v
    BY <1>1, <2>1, CutSplit
  <2>3. Cut(d, z, n) = t \o w
    BY <1>1, <2>1, CutSplit
  <2>4. Cut(d, z, n) = d
    BY <1>1, CutAll DEF z, n
  <2> QED
    BY <2>2, <2>3, <2>4
<1>7. Broken(u)
  <2>1. CASE lo = 0
    <3>1. u = <<>>
      BY <1>5, <2>1, EmptySeq
    <3> QED
      BY <3>1 DEF Broken
  <2>2. CASE lo # 0
    <3>1. u[lo] = d[lo]
      BY <1>1, <1>3, <1>5, <2>2
    <3> QED
      BY <1>5, <2>2, <3>1 DEF Broken
  <2> QED
    BY <2>1, <2>2
<1>8. Broken(t) \/ w = <<>>
  <2>1. CASE hi = n
    <3>1. Len(w) = 0
      BY <1>1, <1>5, <2>1
    <3> QED
      BY <1>5, <3>1, EmptySeq
  <2>2. CASE hi # n
    <3>1. hi > 0 /\ d[hi] = NL
      BY <2>2 DEF n
    <3>2. t[hi] = d[hi]
      BY <1>4, <1>5, <3>1
    <3> QED
      BY <1>5, <3>1, <3>2 DEF Broken
  <2> QED
    BY <2>1, <2>2
<1> HIDE DEF u, v, w, t
<1>9. LinesOf(u \o v) = LinesOf(u) \o LinesOf(v)
  BY <1>5, <1>7, LinesConcat DEF B
<1>10. LinesOf(t \o w) = LinesOf(t) \o LinesOf(w)
  BY <1>5, <1>8, LinesConcat DEF B
<1>11. LinesOf(d) = (LinesOf(u) \o LinesOf(v)) \o LinesOf(w)
  BY <1>6, <1>9, <1>10
<1> QED
  BY <1>11 DEF u, v, w, z, n

-----------------------------------------------------------------------------
(* The hunks in the texts *)

\* What is joined and what is joined to that.
LEMMA JoinedOn ==
    ASSUME NEW x, NEW y, NEW p \in Int, NEW q \in Int, NEW i \in Int, NEW j \in Int, NEW k \in Int, NEW l \in Int,
           Joined(x, y, p, q, i, j), Joined(x, y, i, j, k, l)
    PROVE  Joined(x, y, p, q, k, l)
<1>1. /\ p <= i /\ i - p = j - q /\ i <= k /\ k - i = l - j
      /\ \A n \in 0 .. i - p - 1 : x[p + n + 1] = y[q + n + 1]
      /\ \A n \in 0 .. k - i - 1 : x[i + n + 1] = y[j + n + 1]
  BY DEF Joined
<1>2. ASSUME NEW n \in 0 .. k - p - 1 PROVE x[p + n + 1] = y[q + n + 1]
  <2>1. CASE n <= i - p - 1
    <3>1. n \in 0 .. i - p - 1
      BY <2>1
    <3> QED
      BY <1>1, <3>1
  <2>2. CASE ~(n <= i - p - 1)
    <3> DEFINE m == n - (i - p)
    <3>1. m \in 0 .. k - i - 1 /\ i + m + 1 = p + n + 1 /\ j + m + 1 = q + n + 1
      BY <1>1, <2>2
    <3> HIDE DEF m
    <3>2. x[i + m + 1] = y[j + m + 1]
      BY <1>1, <3>1
    <3> QED
      BY <3>1, <3>2
  <2> QED
    BY <2>1, <2>2
<1>3. p <= k /\ k - p = l - q
  BY <1>1
<1> QED
  BY <1>2, <1>3 DEF Joined

\* Lines of a window that are joined are joined in the texts.
LEMMA JoinedInside ==
    ASSUME NEW L, NEW M, NEW p, NEW x, NEW y, NEW s, Three(L, p, x, s), Three(M, p, y, s),
           NEW i \in Nat, NEW j \in Nat, NEW k \in Nat, NEW l \in Nat, k <= Len(x), l <= Len(y), Joined(x, y, i, j, k, l)
    PROVE  Joined(L, M, Len(p) + i, Len(p) + j, Len(p) + k, Len(p) + l)
<1> DEFINE b == Len(p)
<1>1. /\ b \in Nat /\ Len(x) \in Nat /\ Len(y) \in Nat
      /\ \A n \in 1 .. Len(x) : L[b + n] = x[n]
      /\ \A n \in 1 .. Len(y) : M[b + n] = y[n]
  BY DEF Three
<1>2. i <= k /\ k - i = l - j /\ \A n \in 0 .. k - i - 1 : x[i + n + 1] = y[j + n + 1]
  BY DEF Joined
<1> HIDE DEF b
<1>3. ASSUME NEW n \in 0 .. (b + k) - (b + i) - 1 PROVE L[(b + i) + n + 1] = M[(b + j) + n + 1]
  <2> DEFINE g == i + n + 1
             h == j + n + 1
  <2>1. n \in 0 .. k - i - 1 /\ g \in 1 .. Len(x) /\ h \in 1 .. Len(y) /\ (b + i) + n + 1 = b + g /\ (b + j) + n + 1 = b + h
    BY <1>1, <1>2
  <2>2. x[g] = y[h]
    BY <1>2, <2>1
  <2> HIDE DEF g, h
  <2> QED
    BY <1>1, <2>1, <2>2
<1>4. b + i <= b + k /\ (b + k) - (b + i) = (b + l) - (b + j)
  BY <1>1, <1>2
<1>5. Joined(L, M, b + i, b + j, b + k, b + l)
  BY <1>3, <1>4 DEF Joined
<1> QED
  BY <1>5 DEF b

\* What comes before the window is joined, and what comes after it.
LEMMA JoinedOutside ==
    ASSUME NEW L, NEW M, NEW p, NEW x, NEW y, NEW s, Three(L, p, x, s), Three(M, p, y, s)
    PROVE  /\ Joined(L, M, 0, 0, Len(p), Len(p))
           /\ Joined(L, M, Len(p) + Len(x), Len(p) + Len(y), Len(L), Len(M))
<1> DEFINE b == Len(p)
           i == Len(x)
           j == Len(y)
           h == Len(s)
<1>1. /\ b \in Nat /\ i \in Nat /\ j \in Nat /\ h \in Nat /\ Len(L) = b + i + h /\ Len(M) = b + j + h
  BY DEF Three
<1> HIDE DEF b, i, j, h
<1>11. b \in Nat /\ i \in Nat /\ j \in Nat /\ h \in Nat
  BY <1>1
<1>2. ASSUME NEW n \in 0 .. b - 0 - 1 PROVE L[0 + n + 1] = M[0 + n + 1]
  <2> DEFINE m == 0 + n + 1
  <2>1. m \in 1 .. b
    BY <1>1
  <2> HIDE DEF m
  <2>2. L[m] = p[m] /\ M[m] = p[m]
    <3>1. \A k \in 1 .. Len(p) : L[k] = p[k]
      BY DEF Three
    <3>2. \A k \in 1 .. Len(p) : M[k] = p[k]
      BY DEF Three
    <3> QED
      BY <2>1, <3>1, <3>2 DEF b
  <2>3. L[m] = M[m]
    BY <2>2
  <2> QED
    BY <2>3 DEF m
<1>3. Joined(L, M, 0, 0, b, b)
  <2>1. 0 <= b /\ b - 0 = b - 0
    BY <1>11
  <2> QED
    BY <1>2, <2>1 DEF Joined
<1>4. ASSUME NEW n \in 0 .. (b + i + h) - (b + i) - 1 PROVE L[(b + i) + n + 1] = M[(b + j) + n + 1]
  <2> DEFINE m == n + 1
  <2>1. m \in 1 .. h /\ (b + i) + n + 1 = b + i + m /\ (b + j) + n + 1 = b + j + m
    BY <1>11
  <2> HIDE DEF m
  <2>2. \A k \in 1 .. Len(s) : L[Len(p) + Len(x) + k] = s[k]
    BY DEF Three
  <2>3. \A k \in 1 .. Len(s) : M[Len(p) + Len(y) + k] = s[k]
    BY DEF Three
  <2>4. L[b + i + m] = s[m] /\ M[b + j + m] = s[m]
    BY <2>1, <2>2, <2>3 DEF b, i, j, h
  <2> QED
    BY <2>1, <2>4
<1>5. Joined(L, M, b + i, b + j, b + i + h, b + j + h)
  <2>1. b + i <= b + i + h /\ (b + i + h) - (b + i) = (b + j + h) - (b + j)
    BY <1>11
  <2> QED
    BY <1>4, <2>1 DEF Joined
<1> QED
  BY <1>1, <1>3, <1>5 DEF b, i, j

\* What is joined is the same.
LEMMA JoinedSame ==
    ASSUME NEW B, NEW x \in Seq(B), NEW y \in Seq(B), NEW p \in Nat, NEW q \in Nat, NEW i \in Nat, NEW j \in Nat,
           i <= Len(x), j <= Len(y), Joined(x, y, p, q, i, j)
    PROVE  Cut(x, p, i) = Cut(y, q, j)
<1>1. p <= i /\ i - p = j - q /\ \A k \in 0 .. i - p - 1 : x[p + k + 1] = y[q + k + 1]
  BY DEF Joined
<1> DEFINE n == i - p
<1>2. n \in Nat /\ p \in 0 .. Len(x) /\ i \in p .. Len(x) /\ q \in 0 .. Len(y) /\ j \in q .. Len(y) /\ j - q = n
  BY <1>1, LenProperties
<1>3. Alike(x, y, p, q, n)
  BY <1>1 DEF Alike
<1>4. i - p = n
  OBVIOUS
<1> HIDE DEF n
<1> QED
  BY <1>2, <1>3, <1>4, CutSame

\* A cut of the window is one of the text.
LEMMA CutInside ==
    ASSUME NEW B, NEW L \in Seq(B), NEW p, NEW x \in Seq(B), NEW s, Three(L, p, x, s), NEW i \in 0 .. Len(x), NEW k \in i .. Len(x)
    PROVE  Cut(L, Len(p) + i, Len(p) + k) = Cut(x, i, k)
<1> DEFINE b == Len(p)
           m == b + i
           l == b + k
           n == k - i
<1>1. /\ b \in Nat /\ Len(x) \in Nat /\ Len(s) \in Nat /\ Len(L) = b + Len(x) + Len(s)
      /\ \A h \in 1 .. Len(x) : L[b + h] = x[h]
  BY DEF Three
<1> HIDE DEF b
<1>2. n \in Nat /\ m \in 0 .. Len(L) /\ l \in m .. Len(L) /\ l - m = n /\ k - i = n
  BY <1>1
<1>3. ASSUME NEW h \in 0 .. n - 1 PROVE L[m + h + 1] = x[i + h + 1]
  <2> DEFINE g == i + h + 1
  <2>1. g \in 1 .. Len(x) /\ m + h + 1 = b + g
    BY <1>1
  <2> HIDE DEF g
  <2>2. L[m + h + 1] = x[g]
    BY <1>1, <2>1
  <2> QED
    BY <2>2 DEF g
<1> HIDE DEF n, m, l
<1>4. Alike(L, x, m, i, n)
  BY <1>3 DEF Alike
<1>5. Cut(L, m, l) = Cut(x, i, k)
  BY <1>2, <1>4, CutSame
<1> QED
  BY <1>5 DEF m, l, b

\* Where the hunk after the k-th starts, or the window ends.
StopA(x, base, hs, k) == IF k = Len(hs) THEN Len(x) ELSE hs[k + 1].a - base
StopB(y, base, hs, k) == IF k = Len(hs) THEN Len(y) ELSE hs[k + 1].b - base

\* Hunks have a place in the window.
LEMMA HunkIn ==
    ASSUME NEW x \in Seq(Line), NEW y \in Seq(Line), NEW base \in Nat, NEW hs, Hunked(x, y, base, hs), NEW k \in 1 .. Len(hs)
    PROVE  \E p \in 0 .. Len(x), q \in 0 .. Len(y) : \E e \in p .. Len(x), f \in q .. Len(y) :
               /\ HunkFits(x, y, base, hs[k], p, e, q, f)
               /\ Joined(x, y, OutA(hs, base, k - 1), OutB(hs, base, k - 1), p, q)
  BY DEF Hunked, HunkAt

\* Where a hunk ends.
LEMMA OutIs ==
    ASSUME NEW x \in Seq(Line), NEW y \in Seq(Line), NEW base \in Nat, NEW hs, Hunked(x, y, base, hs), NEW k \in 0 .. Len(hs)
    PROVE  /\ OutA(hs, base, k) \in 0 .. Len(x) /\ OutB(hs, base, k) \in 0 .. Len(y)
           /\ k # 0 => /\ hs[k].a + hs[k].aLines = base + OutA(hs, base, k)
                       /\ hs[k].b + hs[k].bLines = base + OutB(hs, base, k)
<1>1. Len(x) \in Nat /\ Len(y) \in Nat /\ Len(hs) \in Nat
  BY LenProperties DEF Hunked
<1>2. CASE k = 0
  BY <1>1, <1>2 DEF OutA, OutB
<1>3. CASE k # 0
  <2>1. k \in 1 .. Len(hs)
    BY <1>1, <1>3
  <2>2. PICK p \in 0 .. Len(x), q \in 0 .. Len(y) : \E e \in p .. Len(x), f \in q .. Len(y) : HunkFits(x, y, base, hs[k], p, e, q, f)
    BY <2>1, HunkIn
  <2>3. PICK e \in p .. Len(x), f \in q .. Len(y) : HunkFits(x, y, base, hs[k], p, e, q, f)
    BY <2>2
  <2>4. OutA(hs, base, k) = hs[k].a - base + hs[k].aLines /\ OutB(hs, base, k) = hs[k].b - base + hs[k].bLines
    BY <1>3 DEF OutA, OutB
  <2>5. hs[k].a = base + p /\ hs[k].aLines = e - p /\ hs[k].b = base + q /\ hs[k].bLines = f - q
    BY <2>3 DEF HunkFits
  <2>6. OutA(hs, base, k) = e /\ OutB(hs, base, k) = f
    BY <1>1, <2>4, <2>5
  <2>7. hs[k].a + hs[k].aLines = base + e /\ hs[k].b + hs[k].bLines = base + f /\ e \in 0 .. Len(x) /\ f \in 0 .. Len(y)
    BY <1>1, <2>5
  <2> QED
    BY <2>6, <2>7
<1> QED
  BY <1>2, <1>3

\* Between two hunks, before the first and after the last the lines of the window are the same.
LEMMA BetweenHunks ==
    ASSUME NEW x \in Seq(Line), NEW y \in Seq(Line), NEW base \in Nat, NEW hs, Patched(x, y, base, hs), NEW k \in 0 .. Len(hs)
    PROVE  /\ StopA(x, base, hs, k) \in 0 .. Len(x) /\ StopB(y, base, hs, k) \in 0 .. Len(y)
           /\ Joined(x, y, OutA(hs, base, k), OutB(hs, base, k), StopA(x, base, hs, k), StopB(y, base, hs, k))
           /\ k # Len(hs) => /\ hs[k + 1].a = base + StopA(x, base, hs, k)
                              /\ hs[k + 1].b = base + StopB(y, base, hs, k)
<1>1. Len(x) \in Nat /\ Len(y) \in Nat /\ Len(hs) \in Nat
  BY LenProperties DEF Patched, Hunked
<1>2. CASE k = Len(hs)
  BY <1>1, <1>2 DEF StopA, StopB, Patched
<1>3. CASE k # Len(hs)
  <2> DEFINE m == k + 1
  <2>1. m \in 1 .. Len(hs) /\ m - 1 = k
    BY <1>1, <1>3
  <2> HIDE DEF m
  <2>2. Hunked(x, y, base, hs)
    BY DEF Patched
  <2>3. PICK p \in 0 .. Len(x), q \in 0 .. Len(y) : \E e \in p .. Len(x), f \in q .. Len(y) :
               /\ HunkFits(x, y, base, hs[m], p, e, q, f)
               /\ Joined(x, y, OutA(hs, base, m - 1), OutB(hs, base, m - 1), p, q)
    BY <2>1, <2>2, HunkIn
  <2>4. PICK e \in p .. Len(x), f \in q .. Len(y) :
               /\ HunkFits(x, y, base, hs[m], p, e, q, f)
               /\ Joined(x, y, OutA(hs, base, m - 1), OutB(hs, base, m - 1), p, q)
    BY <2>3
  <2>5. hs[m].a = base + p /\ hs[m].b = base + q
    BY <2>4 DEF HunkFits
  <2>6. hs[m].a - base = p /\ hs[m].b - base = q
    BY <1>1, <2>5
  <2>7. StopA(x, base, hs, k) = p /\ StopB(y, base, hs, k) = q
    BY <1>3, <2>6 DEF StopA, StopB, m
  <2>8. Joined(x, y, OutA(hs, base, k), OutB(hs, base, k), p, q)
    BY <2>1, <2>4
  <2> QED
    BY <2>5, <2>7, <2>8 DEF m
<1> QED
  BY <1>2, <1>3

\* Two texts of which the lines are those of a window with the same lines around it.
Around(L, M, p, x, y, s) ==
    /\ L \in Seq(Line) /\ M \in Seq(Line) /\ p \in Seq(Line) /\ x \in Seq(Line) /\ y \in Seq(Line)
    /\ Three(L, p, x, s) /\ Three(M, p, y, s)

\* Where a hunk ends and where the next one starts, in the texts.
BehindA(hs, k) == IF k = 0 THEN 0 ELSE hs[k].a + hs[k].aLines
BehindB(hs, k) == IF k = 0 THEN 0 ELSE hs[k].b + hs[k].bLines
AheadA(L, hs, k) == IF k = Len(hs) THEN Len(L) ELSE hs[k + 1].a
AheadB(M, hs, k) == IF k = Len(hs) THEN Len(M) ELSE hs[k + 1].b

\* What lies between the hunks is the same in both texts.
LEMMA GapSame ==
    ASSUME NEW L, NEW M, NEW p, NEW x, NEW y, NEW s, Around(L, M, p, x, y, s),
           NEW hs, Patched(x, y, Len(p), hs), NEW k \in 0 .. Len(hs)
    PROVE  Cut(L, BehindA(hs, k), AheadA(L, hs, k)) = Cut(M, BehindB(hs, k), AheadB(M, hs, k))
<1> DEFINE b == Len(p)
           i == OutA(hs, b, k)
           j == OutB(hs, b, k)
           m == StopA(x, b, hs, k)
           n == StopB(y, b, hs, k)
           u == BehindA(hs, k)
           v == BehindB(hs, k)
           g == AheadA(L, hs, k)
           h == AheadB(M, hs, k)
<1>1. /\ L \in Seq(Line) /\ M \in Seq(Line) /\ p \in Seq(Line) /\ x \in Seq(Line) /\ y \in Seq(Line)
      /\ Three(L, p, x, s) /\ Three(M, p, y, s)
  BY DEF Around
<1>2. /\ b \in Nat /\ Len(x) \in Nat /\ Len(y) \in Nat /\ Len(s) \in Nat
      /\ Len(L) = b + Len(x) + Len(s) /\ Len(M) = b + Len(y) + Len(s)
  BY <1>1 DEF Three
<1>3. /\ i \in 0 .. Len(x) /\ j \in 0 .. Len(y)
      /\ k # 0 => hs[k].a + hs[k].aLines = b + i /\ hs[k].b + hs[k].bLines = b + j
  <2>1. x \in Seq(Line) /\ y \in Seq(Line) /\ b \in Nat /\ Hunked(x, y, b, hs)
    BY <1>1, <1>2 DEF Patched
  <2> HIDE DEF b
  <2> QED
    BY <2>1, OutIs
<1>4. /\ m \in 0 .. Len(x) /\ n \in 0 .. Len(y) /\ Joined(x, y, i, j, m, n)
      /\ k # Len(hs) => hs[k + 1].a = b + m /\ hs[k + 1].b = b + n
  BY <1>1, <1>2, BetweenHunks
<1>5. k = 0 => i = 0 /\ j = 0
  BY DEF OutA, OutB
<1>6. k = Len(hs) => m = Len(x) /\ n = Len(y)
  BY DEF StopA, StopB
<1> HIDE DEF i, j, m, n
<1>7. Joined(L, M, b + i, b + j, b + m, b + n)
  <2>1. i \in Nat /\ j \in Nat /\ m \in Nat /\ n \in Nat /\ m <= Len(x) /\ n <= Len(y)
    BY <1>2, <1>3, <1>4
  <2>2. Joined(L, M, Len(p) + i, Len(p) + j, Len(p) + m, Len(p) + n)
    BY <1>1, <1>4, <2>1, JoinedInside
  <2> QED
    BY <2>2
<1>8. Joined(L, M, 0, 0, b, b) /\ Joined(L, M, b + Len(x), b + Len(y), Len(L), Len(M))
  BY <1>1, JoinedOutside
<1> DEFINE bi == b + i
           bj == b + j
           bm == b + m
           bn == b + n
<1>9. bi \in Nat /\ bj \in Nat /\ bm \in Nat /\ bn \in Nat /\ Len(L) \in Nat /\ Len(M) \in Nat /\ bm <= Len(L) /\ bn <= Len(M)
  BY <1>2, <1>3, <1>4
<1>10. u \in Nat /\ v \in Nat /\ Joined(L, M, u, v, bm, bn)
  <2>1. CASE k = 0
    <3>1. u = 0 /\ v = 0
      BY <2>1 DEF BehindA, BehindB
    <3>2. bi = b /\ bj = b
      BY <1>2, <1>5, <2>1
    <3> DEFINE z == 0
    <3>3. z \in Int /\ bi \in Int /\ bj \in Int /\ bm \in Int /\ bn \in Int
      BY <1>9
    <3>4. Joined(L, M, z, z, bi, bj) /\ Joined(L, M, bi, bj, bm, bn)
      BY <1>7, <1>8, <3>2
    <3> HIDE DEF z, bi, bj, bm, bn
    <3>5. Joined(L, M, z, z, bm, bn)
      BY <3>3, <3>4, JoinedOn
    <3> QED
      BY <3>1, <3>5 DEF z
  <2>2. CASE k # 0
    <3>1. u = bi /\ v = bj
      BY <1>3, <2>2 DEF BehindA, BehindB
    <3> QED
      BY <1>7, <1>9, <3>1
  <2> QED
    BY <2>1, <2>2
<1>11. g \in Nat /\ h \in Nat /\ g <= Len(L) /\ h <= Len(M) /\ Joined(L, M, u, v, g, h)
  <2>1. CASE k = Len(hs)
    <3>1. g = Len(L) /\ h = Len(M)
      BY <2>1 DEF AheadA, AheadB
    <3>2. Joined(L, M, bm, bn, Len(L), Len(M))
      BY <1>6, <1>8, <2>1
    <3>3. Len(L) \in Int /\ Len(M) \in Int /\ u \in Int /\ v \in Int /\ bm \in Int /\ bn \in Int
      BY <1>9, <1>10
    <3> HIDE DEF u, v, bm, bn, g, h
    <3>4. Joined(L, M, u, v, Len(L), Len(M))
      BY <1>10, <3>2, <3>3, JoinedOn
    <3> QED
      BY <1>9, <3>1, <3>4
  <2>2. CASE k # Len(hs)
    <3>1. g = bm /\ h = bn
      BY <1>4, <2>2 DEF AheadA, AheadB
    <3> HIDE DEF u, v, bm, bn, g, h
    <3> QED
      BY <1>9, <1>10, <3>1
  <2> QED
    BY <2>1, <2>2
<1> HIDE DEF u, v, g, h
<1>12. Cut(L, u, g) = Cut(M, v, h)
  <2> DEFINE B == Line
  <2>1. L \in Seq(B) /\ M \in Seq(B)
    BY <1>1
  <2> HIDE DEF B
  <2> QED
    BY <1>10, <1>11, <2>1, JoinedSame
<1> QED
  BY <1>12 DEF u, v, g, h

\* A hunk has the lines of both texts in its place.
LEMMA HunkGives ==
    ASSUME NEW L, NEW M, NEW p, NEW x, NEW y, NEW s, Around(L, M, p, x, y, s),
           NEW hs, Patched(x, y, Len(p), hs), NEW k \in 1 .. Len(hs)
    PROVE  Gives(hs[k].lines, Cut(L, hs[k].a, hs[k].a + hs[k].aLines), Cut(M, hs[k].b, hs[k].b + hs[k].bLines))
<1> DEFINE b == Len(p)
           d == hs[k]
<1>1. /\ L \in Seq(Line) /\ M \in Seq(Line) /\ p \in Seq(Line) /\ x \in Seq(Line) /\ y \in Seq(Line)
      /\ Three(L, p, x, s) /\ Three(M, p, y, s)
  BY DEF Around
<1>2. b \in Nat /\ Len(x) \in Nat /\ Len(y) \in Nat
  BY <1>1 DEF Three
<1>3. Hunked(x, y, b, hs)
  BY DEF Patched
<1>4. PICK i \in 0 .. Len(x), j \in 0 .. Len(y) : \E e \in i .. Len(x), f \in j .. Len(y) : HunkFits(x, y, b, d, i, e, j, f)
  BY <1>1, <1>2, <1>3, HunkIn
<1>5. PICK e \in i .. Len(x), f \in j .. Len(y) : HunkFits(x, y, b, d, i, e, j, f)
  BY <1>4
<1>6. d.a = b + i /\ d.aLines = e - i /\ d.b = b + j /\ d.bLines = f - j /\ Gives(d.lines, Cut(x, i, e), Cut(y, j, f))
  BY <1>5 DEF HunkFits
<1>7. d.a + d.aLines = b + e /\ d.b + d.bLines = b + f
  BY <1>2, <1>6
<1>8. Cut(L, b + i, b + e) = Cut(x, i, e) /\ Cut(M, b + j, b + f) = Cut(y, j, f)
  <2> DEFINE B == Line
  <2>1. L \in Seq(B) /\ M \in Seq(B) /\ x \in Seq(B) /\ y \in Seq(B)
    BY <1>1
  <2> HIDE DEF B
  <2>2. Cut(L, Len(p) + i, Len(p) + e) = Cut(x, i, e)
    BY <1>1, <2>1, CutInside
  <2>3. Cut(M, Len(p) + j, Len(p) + f) = Cut(y, j, f)
    BY <1>1, <2>1, CutInside
  <2> QED
    BY <2>2, <2>3
<1> HIDE DEF b, d
<1>9. Gives(d.lines, Cut(L, d.a, d.a + d.aLines), Cut(M, d.b, d.b + d.bLines))
  BY <1>6, <1>7, <1>8
<1> QED
  BY <1>9 DEF d

\* With no hunk the texts are the same.
LEMMA NoHunk ==
    ASSUME NEW L, NEW M, NEW p, NEW x, NEW y, NEW s, Around(L, M, p, x, y, s), Patched(x, y, Len(p), <<>>)
    PROVE  L = M
<1> DEFINE z == <<>>
           n == 0
<1>1. Len(z) = 0
  OBVIOUS
<1>2. Patched(x, y, Len(p), z) /\ n = Len(z) /\ n \in 0 .. Len(z)
  BY <1>1
<1> HIDE DEF z, n
<1>3. Cut(L, BehindA(z, n), AheadA(L, z, n)) = Cut(M, BehindB(z, n), AheadB(M, z, n))
  BY <1>2, GapSame
<1>4. BehindA(z, n) = 0 /\ BehindB(z, n) = 0 /\ AheadA(L, z, n) = Len(L) /\ AheadB(M, z, n) = Len(M)
  BY <1>2 DEF BehindA, BehindB, AheadA, AheadB, n
<1>5. Cut(L, 0, Len(L)) = Cut(M, 0, Len(M))
  BY <1>3, <1>4
<1> DEFINE B == Line
<1>6. L \in Seq(B) /\ M \in Seq(B)
  BY DEF Around
<1> HIDE DEF B
<1> QED
  BY <1>5, <1>6, CutAll

-----------------------------------------------------------------------------
(* Texts *)

\* Hunks that are made of the lines of two texts around which the lines are the same.
HunksFor(a, b, hs) ==
    \E p, x, y, s : Around(LinesOf(a), LinesOf(b), p, x, y, s) /\ Patched(x, y, Len(p), hs)

\* The lines of a text are lines.
LEMMA LinesTyped ==
    ASSUME NEW d \in Seq(STRING)
    PROVE  LinesOf(d) \in Seq(Line)
  BY LinesAre, FilledLines

\* UnifiedDiff of two texts that differ.
LEMMA DiffIs ==
    ASSUME NEW a \in Seq(STRING), NEW b \in Seq(STRING), a # b, NEW work \in Nat
    PROVE  HunksFor(a, b, UnifiedDiff(a, b, work))
<1> DEFINE w == Window(a, b)
           lo == w.lo
           e == w.aHi
           f == w.bHi
           z == 0
           B == STRING
           before == Cut(a, z, lo)
           after == Cut(a, e, Len(a))
           p == LinesOf(before)
           x == LinesOf(Cut(a, lo, e))
           y == LinesOf(Cut(b, lo, f))
           s == LinesOf(after)
           hs == UnifiedDiff(a, b, work)
<1>1. Len(a) \in Nat /\ Len(b) \in Nat /\ a \in Seq(B) /\ b \in Seq(B)
  BY LenProperties
<1>2. WindowFits(a, b, w)
  BY <1>1, WindowIs
<1>3. hs = DiffLines(LinesOf(SubSeq(a, lo + 1, e)), LinesOf(SubSeq(b, lo + 1, f)), Len(LinesOf(SubSeq(a, 1, lo))), work)
  BY DEF UnifiedDiff, DiffWindow
<1>4. 1 = z + 1
  OBVIOUS
<1>5. hs = DiffLines(x, y, Len(p), work)
  <2> HIDE DEF z, hs, w
  <2> QED
    BY <1>3, <1>4 DEF Cut
<1> HIDE DEF w, hs
<1>6. /\ lo \in 0 .. Len(a) /\ e \in lo .. Len(a) /\ f \in lo .. Len(b) /\ Len(a) - e = Len(b) - f
      /\ Alike(a, b, 0, 0, lo) /\ Alike(a, b, e, f, Len(a) - e)
      /\ lo = 0 \/ (a[lo] = NL /\ b[lo] = NL)
      /\ e = Len(a) \/ (e > 0 /\ f > 0 /\ a[e] = NL /\ b[f] = NL)
  BY <1>2 DEF WindowFits
<1> HIDE DEF lo, e, f
<1>7. /\ lo \in Nat /\ e \in Nat /\ f \in Nat /\ lo \in 0 .. Len(b) /\ e \in 0 .. Len(a) /\ f \in 0 .. Len(b)
      /\ z \in 0 .. Len(a) /\ z \in 0 .. Len(b) /\ lo \in z .. Len(a) /\ lo \in z .. Len(b)
      /\ Len(a) \in e .. Len(a) /\ Len(b) \in f .. Len(b) /\ lo - z = lo /\ Len(a) - e \in Nat /\ (e = Len(a) => f = Len(b))
  BY <1>1, <1>6
<1>8. Cut(a, z, lo) = Cut(b, z, lo)
  <2>1. Alike(a, b, z, z, lo)
    BY <1>6
  <2> HIDE DEF B, z
  <2> QED
    BY <1>1, <1>7, <2>1, CutSame
<1>9. Cut(a, e, Len(a)) = Cut(b, f, Len(b))
  <2> DEFINE n == Len(a) - e
             i == Len(a)
             j == Len(b)
  <2>1. n \in Nat /\ i - e = n /\ j - f = n /\ i \in e .. Len(a) /\ j \in f .. Len(b) /\ Alike(a, b, e, f, n)
    BY <1>6, <1>7
  <2> HIDE DEF B, n
  <2>2. Cut(a, e, i) = Cut(b, f, j)
    <3> HIDE DEF i, j
    <3> QED
      BY <1>1, <1>7, <2>1, CutSame
  <2> QED
    BY <2>2
<1>10. /\ before \in Seq(B) /\ after \in Seq(B) /\ Cut(a, lo, e) \in Seq(B) /\ Cut(b, lo, f) \in Seq(B)
  <2> HIDE DEF B, z
  <2>1. before \in Seq(B)
    BY <1>1, <1>7, CutIs
  <2>2. after \in Seq(B)
    BY <1>1, <1>7, CutIs
  <2>3. Cut(a, lo, e) \in Seq(B)
    BY <1>1, <1>6, CutIs
  <2>4. Cut(b, lo, f) \in Seq(B)
    BY <1>1, <1>6, <1>7, CutIs
  <2> QED
    BY <2>1, <2>2, <2>3, <2>4
<1>11. p \in Seq(Line) /\ x \in Seq(Line) /\ y \in Seq(Line) /\ s \in Seq(Line) /\ LinesOf(a) \in Seq(Line) /\ LinesOf(b) \in Seq(Line)
  <2> HIDE DEF before, after
  <2> QED
    BY <1>1, <1>10, LinesTyped
<1>12. LinesOf(a) = (p \o x) \o s
  <2>1. LinesOf(a) = (LinesOf(Cut(a, 0, lo)) \o LinesOf(Cut(a, lo, e))) \o LinesOf(Cut(a, e, Len(a)))
    BY <1>6, LinesInThree
  <2> QED
    BY <2>1
<1>13. LinesOf(b) = (p \o y) \o s
  <2>1. f = Len(b) \/ (f > 0 /\ b[f] = NL)
    BY <1>6, <1>7
  <2>2. LinesOf(b) = (LinesOf(Cut(b, 0, lo)) \o LinesOf(Cut(b, lo, f))) \o LinesOf(Cut(b, f, Len(b)))
    BY <1>6, <1>7, <2>1, LinesInThree
  <2> QED
    BY <1>8, <1>9, <2>2
<1> HIDE DEF p, x, y, s, B
<1>14. Three(LinesOf(a), p, x, s) /\ Three(LinesOf(b), p, y, s)
  <2>1. PICK C : C = Line
    OBVIOUS
  <2>2. p \in Seq(C) /\ x \in Seq(C) /\ y \in Seq(C) /\ s \in Seq(C)
    BY <1>11, <2>1
  <2>3. Three((p \o x) \o s, p, x, s) /\ Three((p \o y) \o s, p, y, s)
    BY <2>2, ThreeIs
  <2> QED
    BY <1>12, <1>13, <2>3
<1>15. Around(LinesOf(a), LinesOf(b), p, x, y, s)
  BY <1>11, <1>14 DEF Around
<1>16. Patched(x, y, Len(p), hs)
  <2>1. Len(p) \in Nat
    BY <1>14 DEF Three
  <2> QED
    BY <1>5, <1>11, <2>1, DiffLinesIs
<1> QED
  BY <1>15, <1>16 DEF HunksFor, hs

\* A diff is empty only of a text and itself.
LEMMA NoDiff ==
    ASSUME NEW a \in Seq(STRING), NEW b \in Seq(STRING), HunksFor(a, b, <<>>)
    PROVE  a = b
<1>1. PICK p, x, y, s : Around(LinesOf(a), LinesOf(b), p, x, y, s) /\ Patched(x, y, Len(p), <<>>)
  BY DEF HunksFor
<1>2. LinesOf(a) = LinesOf(b)
  BY <1>1, NoHunk
<1>3. FlattenSeq(LinesOf(a)) = a /\ FlattenSeq(LinesOf(b)) = b
  BY LinesAre
<1> QED
  BY <1>2, <1>3

\* The diff of a text and itself.
LEMMA SameDiff ==
    ASSUME NEW a \in Seq(STRING), NEW work \in Nat
    PROVE  UnifiedDiff(a, a, work) = <<>>
  BY DEF UnifiedDiff

-----------------------------------------------------------------------------
(* The theorem *)

\* DiffIsPatch, of a call and its result.
GapIn(hs, text, n, start, size) ==
    SubSeq(LinesOf(text), IF n = 0 THEN 1 ELSE hs[n][start] + hs[n][size] + 1,
           IF n = Len(hs) THEN Len(LinesOf(text)) ELSE hs[n + 1][start])

PatchOf(of, hs) ==
    /\ hs = <<>> <=> of.a = of.b
    /\ \A n \in DOMAIN hs :
           /\ Without(hs[n].lines, "+") = SubSeq(LinesOf(of.a), hs[n].a + 1, hs[n].a + hs[n].aLines)
           /\ Without(hs[n].lines, "-") = SubSeq(LinesOf(of.b), hs[n].b + 1, hs[n].b + hs[n].bLines)
    /\ \A n \in 0 .. Len(hs) : GapIn(hs, of.a, n, "a", "aLines") = GapIn(hs, of.b, n, "b", "bLines")

\* The gap after a hunk starts where the hunk ends.
LEMMA GapIs ==
    ASSUME NEW hs, NEW d, NEW e, NEW n \in 0 .. Len(hs), Len(hs) \in Nat,
           n # 0 => hs[n].a + hs[n].aLines \in Int /\ hs[n].b + hs[n].bLines \in Int
    PROVE  /\ GapIn(hs, d, n, "a", "aLines") = Cut(LinesOf(d), BehindA(hs, n), AheadA(LinesOf(d), hs, n))
           /\ GapIn(hs, e, n, "b", "bLines") = Cut(LinesOf(e), BehindB(hs, n), AheadB(LinesOf(e), hs, n))
<1>1. 0 + 1 = 1
  OBVIOUS
<1> QED
  BY <1>1 DEF GapIn, Cut, BehindA, BehindB, AheadA, AheadB

\* UnifiedDiff gives a patch.
LEMMA UnifiedDiffIsPatch ==
    ASSUME NEW of \in [a : Seq(STRING), b : Seq(STRING), work : Nat]
    PROVE  PatchOf(of, UnifiedDiff(of.a, of.b, of.work))
<1> DEFINE a == of.a
           b == of.b
           hs == UnifiedDiff(a, b, of.work)
           none == <<>>
<1>1. a \in Seq(STRING) /\ b \in Seq(STRING) /\ of.work \in Nat
  OBVIOUS
<1> HIDE DEF hs, a, b
<1>2. ASSUME HunksFor(a, b, hs), hs = <<>> <=> a = b PROVE PatchOf(of, hs)
  <2>1. PICK p, x, y, s : Around(LinesOf(a), LinesOf(b), p, x, y, s) /\ Patched(x, y, Len(p), hs)
    BY <1>2 DEF HunksFor
  <2>2. x \in Seq(Line) /\ y \in Seq(Line) /\ Len(p) \in Nat /\ Hunked(x, y, Len(p), hs)
    BY <2>1 DEF Around, Three, Patched
  <2>3. DOMAIN hs = 1 .. Len(hs) /\ Len(hs) \in Nat
    BY <2>2, LenProperties DEF Hunked
  <2>4. ASSUME NEW n \in DOMAIN hs
        PROVE  Gives(hs[n].lines, Cut(LinesOf(a), hs[n].a, hs[n].a + hs[n].aLines),
                     Cut(LinesOf(b), hs[n].b, hs[n].b + hs[n].bLines))
    <3>1. n \in 1 .. Len(hs)
      BY <2>3
    <3> QED
      BY <2>1, <3>1, HunkGives
  <2>5. ASSUME NEW n \in 0 .. Len(hs)
        PROVE  GapIn(hs, a, n, "a", "aLines") = GapIn(hs, b, n, "b", "bLines")
    <3>1. n # 0 => hs[n].a + hs[n].aLines \in Int /\ hs[n].b + hs[n].bLines \in Int
      <4> DEFINE m == Len(p)
      <4>1. m \in Nat /\ Hunked(x, y, m, hs)
        BY <2>2
      <4> HIDE DEF m
      <4>2. /\ OutA(hs, m, n) \in 0 .. Len(x) /\ OutB(hs, m, n) \in 0 .. Len(y)
            /\ n # 0 => /\ hs[n].a + hs[n].aLines = m + OutA(hs, m, n)
                        /\ hs[n].b + hs[n].bLines = m + OutB(hs, m, n)
        BY <2>2, <4>1, OutIs
      <4> QED
        BY <4>1, <4>2
    <3>2. Cut(LinesOf(a), BehindA(hs, n), AheadA(LinesOf(a), hs, n)) = Cut(LinesOf(b), BehindB(hs, n), AheadB(LinesOf(b), hs, n))
      BY <2>1, GapSame
    <3>3. GapIn(hs, a, n, "a", "aLines") = Cut(LinesOf(a), BehindA(hs, n), AheadA(LinesOf(a), hs, n))
      BY <2>3, <3>1, GapIs
    <3>4. GapIn(hs, b, n, "b", "bLines") = Cut(LinesOf(b), BehindB(hs, n), AheadB(LinesOf(b), hs, n))
      BY <2>3, <3>1, GapIs
    <3> QED
      BY <3>2, <3>3, <3>4
  <2>6. ASSUME NEW n \in DOMAIN hs
        PROVE  /\ Without(hs[n].lines, "+") = SubSeq(LinesOf(a), hs[n].a + 1, hs[n].a + hs[n].aLines)
               /\ Without(hs[n].lines, "-") = SubSeq(LinesOf(b), hs[n].b + 1, hs[n].b + hs[n].bLines)
    BY <2>4, Zenon DEF Gives, Cut
  <2> QED
    BY <1>2, <2>5, <2>6, Zenon DEF PatchOf, a, b
<1>3. CASE a = b
  <2>1. hs = none
    BY <1>1, <1>3, SameDiff DEF hs
  <2>2. DOMAIN none = {} /\ Len(none) = 0
    OBVIOUS
  <2>3. LinesOf(a) = LinesOf(b)
    BY <1>3
  <2>4. \A n \in 0 .. Len(none) : GapIn(none, a, n, "a", "aLines") = GapIn(none, b, n, "b", "bLines")
    BY <1>3, <2>2 DEF GapIn
  <2> HIDE DEF none
  <2>5. PatchOf(of, none)
    <3>1. none = <<>> <=> of.a = of.b
      BY <1>3 DEF none, a, b
    <3>2. \A n \in DOMAIN none :
           /\ Without(none[n].lines, "+") = SubSeq(LinesOf(of.a), none[n].a + 1, none[n].a + none[n].aLines)
           /\ Without(none[n].lines, "-") = SubSeq(LinesOf(of.b), none[n].b + 1, none[n].b + none[n].bLines)
      BY <2>2, Zenon
    <3> QED
      BY <2>4, <3>1, <3>2, Zenon DEF PatchOf, a, b
  <2> QED
    BY <2>1, <2>5 DEF hs, a, b
<1>4. CASE a # b
  <2>1. HunksFor(a, b, hs)
    BY <1>1, <1>4, DiffIs DEF hs
  <2>2. hs # <<>>
    BY <1>1, <1>4, <2>1, NoDiff
  <2> QED
    BY <1>2, <1>4, <2>1, <2>2 DEF hs, a, b
<1> QED
  BY <1>3, <1>4

\* A diff of one of the inputs is a patch.
DiffInv == (in.alg = "diff" => in.of \in DiffInputs) /\ DiffIsPatch

\* At first there is no diff.
LEMMA DiffInits ==
    ASSUME AllInit
    PROVE  DiffInv
<1>1. out = <<>>
  BY DEF AllInit, Init, DiffInit
<1>2. DiffIsPatch
  BY <1>1 DEF DiffIsPatch, Done
<1>3. in.alg = "diff" => in.of \in DiffInputs
  BY DEF AllInit, Init, DiffInit, Calls
<1> QED
  BY <1>2, <1>3 DEF DiffInv

\* Computing one gives a patch.
LEMMA DiffNext ==
    ASSUME DiffInv, [AllNext]_vars
    PROVE  DiffInv'
<1>1. DiffIsPatch <=> (in.alg = "diff" /\ out # <<>> => PatchOf(in.of, Head(out)))
  BY DEF DiffIsPatch, Done, result, PatchOf, Gap, GapIn
<1>2. DiffIsPatch' <=> (in'.alg = "diff" /\ out' # <<>> => PatchOf(in'.of, Head(out')))
  BY DEF DiffIsPatch, Done, result, PatchOf, Gap, GapIn
<1>3. (in.alg = "diff" => in.of \in DiffInputs) /\ DiffIsPatch
  BY DEF DiffInv
<1>4. CASE UNCHANGED vars
  BY <1>1, <1>2, <1>3, <1>4 DEF DiffInv, vars
<1>5. CASE Next
  <2>1. in' = in /\ in.alg # "diff"
    BY <1>5 DEF Next, ComputeDelay, ComputeRetryAfter, ComputeEvents, ComputeNumber, ComputeUsage, ComputeHeaders,
                ComputeMessages, Call
  <2> QED
    BY <1>2, <2>1 DEF DiffInv
<1>6. CASE ComputeDiff
  <2>1. in' = in /\ in.alg = "diff" /\ out' = <<UnifiedDiff(in.of.a, in.of.b, in.of.work)>>
    BY <1>6 DEF ComputeDiff, Call
  <2>2. in.of \in [a : Seq(STRING), b : Seq(STRING), work : Nat]
    BY <1>3, <2>1, DiffInputsAssumption
  <2>3. PatchOf(in.of, UnifiedDiff(in.of.a, in.of.b, in.of.work))
    BY <2>2, UnifiedDiffIsPatch
  <2>4. Head(out') = UnifiedDiff(in.of.a, in.of.b, in.of.work)
    BY <2>1
  <2> QED
    BY <1>2, <1>3, <2>1, <2>3, <2>4 DEF DiffInv
<1> QED
  BY <1>4, <1>5, <1>6 DEF AllNext

\* However little work was allowed, wherever the window was cut and however runs of
\* changes were slid, the hunks of two texts are a patch of one that gives the other.
THEOREM DiffsArePatches == AllSpec => []DiffIsPatch
<1>1. AllInit => DiffInv
  BY DiffInits
<1>2. DiffInv /\ [AllNext]_vars => DiffInv'
  BY DiffNext
<1>3. DiffInv => DiffIsPatch
  BY DEF DiffInv
<1> QED
  BY <1>1, <1>2, <1>3, PTL DEF AllSpec
=============================================================================
