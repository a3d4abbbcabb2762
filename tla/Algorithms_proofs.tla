-------------------------- MODULE Algorithms_proofs --------------------------
(***************************************************************************)
(* What the functions of Algorithms compute of every input.                *)
(***************************************************************************)
EXTENDS Algorithms, Induction, SequenceTheorems, FiniteSetTheorems

-----------------------------------------------------------------------------
(* Powers of two, least and greatest *)

\* The powers of two up to that of n.
Powers(n, g) ==
    /\ g \in [0 .. n -> Nat \ {0}]
    /\ g[0] = 1
    /\ \A k \in 1 .. n : g[k] = 2 * g[k - 1]

\* The recursion of Pow2 defines it.
LEMMA Pow2Step ==
    /\ Pow2[0] = 1
    /\ \A n \in Nat : Pow2[n] \in Nat \ {0} /\ Pow2[n + 1] = 2 * Pow2[n]
<1>1. \A n \in Nat : \E g : Powers(n, g)
  <2> DEFINE S == {n \in Nat : \E g : Powers(n, g)}
  <2>1. 0 \in S
    <3>1. Powers(0, [k \in 0 .. 0 |-> 1])
      BY DEF Powers
    <3> QED
      BY <3>1
  <2>2. ASSUME NEW n \in Nat, n \in S PROVE n + 1 \in S
    <3>1. PICK g : Powers(n, g)
      BY <2>2
    <3> DEFINE h == [k \in 0 .. n + 1 |-> IF k = n + 1 THEN 2 * g[n] ELSE g[k]]
    <3>2. g[n] \in Nat \ {0}
      BY <3>1 DEF Powers
    <3>3. h \in [0 .. n + 1 -> Nat \ {0}]
      <4>1. ASSUME NEW k \in 0 .. n + 1 PROVE h[k] \in Nat \ {0}
        BY <3>1, <3>2 DEF Powers
      <4> QED
        BY <4>1
    <3>4. h[0] = 1
      BY <3>1 DEF Powers
    <3>5. ASSUME NEW k \in 1 .. n + 1 PROVE h[k] = 2 * h[k - 1]
      BY <3>1 DEF Powers
    <3>6. Powers(n + 1, h)
      BY <3>3, <3>4, <3>5 DEF Powers
    <3> QED
      BY <3>6
  <2> HIDE DEF S
  <2>3. \A n \in Nat : n \in S
    BY <2>1, <2>2, NatSetInduction
  <2> QED
    BY <2>3 DEF S
<1> DEFINE G(n) == CHOOSE g : Powers(n, g)
           h == [n \in Nat |-> G(n)[n]]
<1>2. \A n \in Nat : Powers(n, G(n))
  BY <1>1
<1> HIDE DEF G
<1>3. \A n \in Nat : h[n] \in Nat \ {0}
  BY <1>2 DEF Powers
<1>4. ASSUME NEW n \in Nat PROVE G(n + 1)[n] = G(n)[n]
  <2> DEFINE S == {k \in Nat : k <= n => G(n + 1)[k] = G(n)[k]}
  <2>1. 0 \in S
    <3>1. G(n)[0] = 1 /\ G(n + 1)[0] = 1
      BY <1>2 DEF Powers
    <3> QED
      BY <3>1
  <2>2. ASSUME NEW k \in Nat, k \in S PROVE k + 1 \in S
    <3> SUFFICES ASSUME k + 1 <= n PROVE G(n + 1)[k + 1] = G(n)[k + 1]
      OBVIOUS
    <3>1. k + 1 \in 1 .. n /\ k + 1 \in 1 .. n + 1
      OBVIOUS
    <3>2. /\ G(n)[k + 1] = 2 * G(n)[(k + 1) - 1]
          /\ G(n + 1)[k + 1] = 2 * G(n + 1)[(k + 1) - 1]
      BY <1>2, <3>1 DEF Powers
    <3> QED
      BY <2>2, <3>2
  <2> HIDE DEF S
  <2>3. n \in S
    BY <2>1, <2>2, NatSetInduction
  <2> QED
    BY <2>3 DEF S
<1>5. h[0] = 1
  BY <1>2 DEF Powers
<1>6. ASSUME NEW n \in Nat PROVE h[n + 1] = 2 * h[n]
  <2>1. n + 1 \in 1 .. n + 1 /\ (n + 1) - 1 = n
    OBVIOUS
  <2>2. G(n + 1)[n + 1] = 2 * G(n + 1)[n]
    BY <1>2, <2>1 DEF Powers
  <2> QED
    BY <1>4, <2>2
<1> HIDE DEF h
<1>7. h = [n \in Nat |-> IF n = 0 THEN 1 ELSE 2 * h[n - 1]]
  <2>1. ASSUME NEW n \in Nat PROVE h[n] = IF n = 0 THEN 1 ELSE 2 * h[n - 1]
    <3>1. CASE n = 0
      BY <1>5, <3>1
    <3>2. CASE n # 0
      <4>1. n - 1 \in Nat /\ (n - 1) + 1 = n
        BY <3>2
      <4> QED
        BY <1>6, <3>2, <4>1
    <3> QED
      BY <3>1, <3>2
  <2>2. h = [n \in Nat |-> h[n]]
    BY DEF h
  <2> QED
    BY <2>1, <2>2
<1>8. Pow2 = [n \in Nat |-> IF n = 0 THEN 1 ELSE 2 * Pow2[n - 1]]
  BY <1>7 DEF Pow2
<1>9. Pow2[0] = 1 /\ \A n \in Nat : Pow2[n + 1] = 2 * Pow2[n]
  <2>1. Pow2[0] = 1
    BY <1>8
  <2>2. ASSUME NEW n \in Nat PROVE Pow2[n + 1] = 2 * Pow2[n]
    <3> DEFINE m == n + 1
    <3>1. m \in Nat /\ m # 0 /\ m - 1 = n
      OBVIOUS
    <3> HIDE DEF m
    <3>2. Pow2[m] = 2 * Pow2[m - 1]
      BY <1>8, <3>1
    <3> QED
      BY <3>1, <3>2 DEF m
  <2> QED
    BY <2>1, <2>2
<1>10. \A n \in Nat : Pow2[n] \in Nat \ {0}
  <2> DEFINE S == {n \in Nat : Pow2[n] \in Nat \ {0}}
  <2>1. 0 \in S /\ \A n \in Nat : n \in S => n + 1 \in S
    BY <1>9
  <2> HIDE DEF S
  <2>2. \A n \in Nat : n \in S
    BY <2>1, NatSetInduction
  <2> QED
    BY <2>2 DEF S
<1> QED
  BY <1>9, <1>10

\* The integers of a width are half of a power of two on each side of 0.
LEMMA WordsIs ==
    ASSUME NEW w \in Nat \ {0}
    PROVE  \E h \in Nat \ {0} : /\ Pow2[w] = 2 * h
                                /\ MinInt(w) = -h /\ MaxInt(w) = h - 1
<1> DEFINE v == w - 1
<1>1. v \in Nat /\ w = v + 1
  OBVIOUS
<1> HIDE DEF v
<1>2. Pow2[v] \in Nat \ {0} /\ Pow2[w] = 2 * Pow2[v]
  BY <1>1, Pow2Step
<1> QED
  BY <1>1, <1>2 DEF MinInt, MaxInt, v

\* Nothing is lost of a number that fits.
LEMMA WrappedIs ==
    ASSUME NEW w \in Nat \ {0}, NEW n \in MinInt(w) .. MaxInt(w)
    PROVE  Wrapped(n, w) = n
<1>1. PICK h \in Nat \ {0} : Pow2[w] = 2 * h /\ MinInt(w) = -h /\ MaxInt(w) = h - 1
  BY WordsIs
<1>2. n \in Int /\ n + h \in Nat /\ n + h < 2 * h
  BY <1>1
<1>3. (n + h) % (2 * h) = n + h
  BY <1>2
<1> QED
  BY <1>1, <1>2, <1>3 DEF Wrapped

\* The least and the greatest of two numbers.
LEMMA Two ==
    ASSUME NEW x \in Int, NEW y \in Int
    PROVE  /\ Min({x, y}) = IF x <= y THEN x ELSE y
           /\ Max({x, y}) = IF x >= y THEN x ELSE y
  BY DEF Min, Max

\* A number, or 0 when that is more.
LEMMA NotNegative ==
    ASSUME NEW x \in Int
    PROVE  Max({x, 0}) = IF x >= 0 THEN x ELSE 0
<1> DEFINE z == 0
<1>1. z \in Int
  OBVIOUS
<1> HIDE DEF z
<1>2. Max({x, z}) = IF x >= z THEN x ELSE z
  BY <1>1, Two
<1> QED
  BY <1>2 DEF z

\* The elements of a sequence with one more.
LEMMA RangeAppend ==
    ASSUME NEW B, NEW s \in Seq(B), NEW e \in B
    PROVE  Range(Append(s, e)) = Range(s) \cup {e}
<1> DEFINE u == Append(s, e)
           n == Len(s)
<1>1. /\ DOMAIN s = 1 .. n /\ DOMAIN u = 1 .. n + 1 /\ n \in Nat
      /\ u[n + 1] = e /\ \A i \in 1 .. n : u[i] = s[i]
  OBVIOUS
<1>2. Range(u) = {u[i] : i \in 1 .. n + 1} /\ Range(s) = {s[i] : i \in 1 .. n}
  BY <1>1 DEF Range
<1> HIDE DEF u, n
<1>3. ASSUME NEW x \in Range(u) PROVE x \in Range(s) \cup {e}
  <2>1. PICK i \in 1 .. n + 1 : x = u[i]
    BY <1>2
  <2>2. i \in 1 .. n \/ i = n + 1
    BY <1>1
  <2> QED
    BY <1>1, <1>2, <2>1, <2>2
<1>4. ASSUME NEW x \in Range(s) \cup {e} PROVE x \in Range(u)
  <2>1. CASE x = e
    <3>1. n + 1 \in 1 .. n + 1
      BY <1>1
    <3> QED
      BY <1>1, <1>2, <2>1, <3>1
  <2>2. CASE x \in Range(s)
    <3>1. PICK i \in 1 .. n : x = s[i]
      BY <1>2, <2>2
    <3>2. i \in 1 .. n + 1
      BY <1>1
    <3> QED
      BY <1>1, <1>2, <3>1, <3>2
  <2> QED
    BY <2>1, <2>2
<1> QED
  BY <1>3, <1>4 DEF u

-----------------------------------------------------------------------------
(* Delay *)

Policy == [BaseDelay : Int, MaxDelay : Int, percent : 75 .. 125]

\* One turn of the loop of Delay.
Twice(p, d) == IF d > p.MaxDelay \div 2 THEN p.MaxDelay ELSE 2 * d

doubling(p) == [x \in Int \X Nat |-> Twice(p, x[1])]

\* The loop of Delay is a fold.
LEMMA BackoffIsFolded ==
    ASSUME NEW p \in Policy, NEW k \in Nat
    PROVE  /\ StepOn(doubling(p), Int, Nat)
           /\ Min({p.BaseDelay, p.MaxDelay}) \in Int
           /\ Backoff(p, k) = FoldedBy(doubling(p), Min({p.BaseDelay, p.MaxDelay}), [n \in 1 .. k |-> n])
<1> DEFINE A == Int
           B == Nat
           base == Min({p.BaseDelay, p.MaxDelay})
           s == [n \in 1 .. k |-> n]
           step == doubling(p)
           F(g) == [t \in SUBSET (DOMAIN s) |->
                        IF t = {} THEN base ELSE Twice(p, g[t \ {Max(t)}])]
<1>1. StepOn(step, A, B) /\ base \in A
  <2>1. p.BaseDelay \in Int /\ p.MaxDelay \in Int
    BY DEF Policy
  <2>2. base \in Int
    BY <2>1, Two
  <2>3. \A d \in Int : Twice(p, d) \in Int
    BY <2>1 DEF Twice
  <2> QED
    BY <2>2, <2>3 DEF StepOn, doubling
<1>2. s \in Seq(B)
  OBVIOUS
<1>3. Backoff(p, k) = (CHOOSE g : g = F(g))[DOMAIN s]
  BY DEF Backoff, FoldLeft, MapThenFoldSet, Twice
<1>4. \A d \in A, n \in B : step[<<d, n>>] = Twice(p, d)
  BY DEF doubling
<1> HIDE DEF A, B, base, step, s
<1>5. PICK h : Folding(h, A, B, step, base, s)
  BY <1>1, <1>2, FoldedByFunction
<1>6. h = F(h)
  <2>1. ASSUME NEW t \in SUBSET (DOMAIN s), t # {}
        PROVE  h[t] = Twice(p, h[t \ {Max(t)}])
    BY <1>4, <1>5, <2>1 DEF Folding
  <2> QED
    BY <1>5, <2>1 DEF Folding
<1>7. PICK g : g = F(g) /\ Backoff(p, k) = g[DOMAIN s]
  <2> HIDE DEF F
  <2> QED
    BY <1>3, <1>6
<1>8. Unfolding(g, A, B, step, base, s)
  BY <1>4, <1>7 DEF Unfolding
<1>9. Backoff(p, k) = FoldedBy(step, base, s)
  <2> HIDE DEF F
  <2> QED
    BY <1>1, <1>2, <1>7, <1>8, FoldedByUnfolding
<1> QED
  BY <1>1, <1>9 DEF A, B, base, step, s

\* The loop of Delay, a turn at a time.
LEMMA BackoffStep ==
    ASSUME NEW p \in Policy, NEW k \in Nat
    PROVE  /\ Backoff(p, 0) = Min({p.BaseDelay, p.MaxDelay})
           /\ Backoff(p, k + 1) = Twice(p, Backoff(p, k))
<1> DEFINE A == Int
           B == Nat
           step == doubling(p)
           base == Min({p.BaseDelay, p.MaxDelay})
           S(n) == [i \in 1 .. n |-> i]
           s == S(k)
           m == k + 1
<1>1. /\ StepOn(step, A, B) /\ base \in A
      /\ Backoff(p, k) = FoldedBy(step, base, s)
  BY BackoffIsFolded
<1>2. Backoff(p, m) = FoldedBy(step, base, S(m))
  <2>1. m \in Nat
    OBVIOUS
  <2> HIDE DEF m
  <2> QED
    BY <2>1, BackoffIsFolded
<1>3. Backoff(p, 0) = FoldedBy(step, base, <<>>)
  <2>1. [i \in 1 .. 0 |-> i] = <<>>
    OBVIOUS
  <2>2. Backoff(p, 0) = FoldedBy(step, base, [i \in 1 .. 0 |-> i])
    BY BackoffIsFolded
  <2> QED
    BY <2>1, <2>2
<1>4. s \in Seq(B) /\ m \in B /\ Len(s) = k
  OBVIOUS
<1>5. S(m) = Append(s, m)
  <2> DEFINE u == S(m)
             v == Append(s, m)
  <2>1. u \in Seq(Nat) /\ Len(u) = k + 1 /\ \A i \in 1 .. k + 1 : u[i] = i
    OBVIOUS
  <2>2. v \in Seq(Nat) /\ Len(v) = k + 1 /\ v[k + 1] = k + 1 /\ \A i \in 1 .. k : v[i] = i
    BY <1>4
  <2> HIDE DEF u, v
  <2>3. \A i \in 1 .. Len(u) : u[i] = v[i]
    BY <2>1, <2>2
  <2>4. u = v
    BY <2>1, <2>2, <2>3, SeqEqual
  <2> QED
    BY <2>4 DEF u, v
<1>6. \A d \in A, n \in B : step[<<d, n>>] = Twice(p, d)
  BY DEF doubling
<1> HIDE DEF A, B, step, base, s, S, m
<1>7. /\ FoldedBy(step, base, <<>>) = base
      /\ FoldedBy(step, base, s) \in A
      /\ FoldedBy(step, base, Append(s, m)) = step[<<FoldedBy(step, base, s), m>>]
  BY <1>1, <1>4, FoldedByAppend
<1>8. Backoff(p, m) = Twice(p, Backoff(p, k))
  BY <1>1, <1>2, <1>4, <1>5, <1>6, <1>7
<1> QED
  BY <1>3, <1>7, <1>8 DEF base, m

\* The loop of Delay gives the exponential delay, or the limit when that is more.
LEMMA BackoffIsExact ==
    ASSUME NEW p \in Policy, p.BaseDelay > 0, p.MaxDelay > 0, NEW k \in Nat
    PROVE  Backoff(p, k) = Min({p.MaxDelay, p.BaseDelay * Pow2[k]})
<1> DEFINE base == p.BaseDelay
           most == p.MaxDelay
           S == {n \in Nat : Backoff(p, n) = Min({most, base * Pow2[n]})}
<1>1. base \in Nat \ {0} /\ most \in Nat \ {0}
  BY DEF Policy
<1>2. 0 \in S
  <2>1. base * Pow2[0] = base
    BY <1>1, Pow2Step
  <2>2. Backoff(p, 0) = Min({base, most})
    BY BackoffStep
  <2>3. {base, most} = {most, base}
    OBVIOUS
  <2> QED
    BY <2>1, <2>2, <2>3
<1>3. ASSUME NEW n \in Nat, n \in S PROVE n + 1 \in S
  <2> DEFINE x == base * Pow2[n]
             y == base * Pow2[n + 1]
             d == Backoff(p, n)
  <2>1. x \in Nat /\ y = 2 * x
    <3>1. Pow2[n] \in Nat /\ Pow2[n + 1] = 2 * Pow2[n]
      BY Pow2Step
    <3> QED
      BY <1>1, <3>1
  <2>2. d = IF most <= x THEN most ELSE x
    <3>1. Min({most, x}) = IF most <= x THEN most ELSE x
      BY <1>1, <2>1, Two
    <3> QED
      BY <1>3, <3>1
  <2>3. Backoff(p, n + 1) = IF d > most \div 2 THEN most ELSE 2 * d
    BY BackoffStep DEF Twice
  <2>4. Min({most, y}) = IF most <= y THEN most ELSE y
    <3>1. y \in Int
      BY <2>1
    <3> HIDE DEF y
    <3> QED
      BY <1>1, <3>1, Two
  <2> HIDE DEF x, y, d, base, most
  <2>5. (IF d > most \div 2 THEN most ELSE 2 * d) = IF most <= y THEN most ELSE y
    BY <1>1, <2>1, <2>2
  <2> QED
    BY <2>3, <2>4, <2>5 DEF base, most, y
<1> HIDE DEF S
<1>4. k \in S
  BY <1>2, <1>3, NatSetInduction
<1> QED
  BY <1>4 DEF S

\* Jitter is that share of the delay, rounded down once.
LEMMA JitterIs ==
    ASSUME NEW d \in Nat, NEW percent \in Nat
    PROVE  Jitter(d, percent) = (d * percent) \div 100
<1> DEFINE q == d \div 100
           r == d % 100
<1>1. q \in Nat /\ r \in Nat /\ d = 100 * q + r
  OBVIOUS
<1> HIDE DEF q, r
<1>2. d * percent = 100 * (q * percent) + r * percent
  BY <1>1
<1> DEFINE a == q * percent
           b == r * percent
<1>3. a \in Nat /\ b \in Nat
  BY <1>1
<1>4. d * percent = 100 * a + b
  BY <1>2
<1> HIDE DEF a, b
<1>5. (100 * a + b) \div 100 = a + b \div 100
  BY <1>3
<1> QED
  BY <1>4, <1>5 DEF Jitter, a, b, q, r

\* A share of at least three quarters, and of no more than all up to 100 per cent.
LEMMA JitterBounds ==
    ASSUME NEW d \in Nat, NEW percent \in 75 .. 125
    PROVE  LET j == Jitter(d, percent)
           IN  /\ j \in Nat
               /\ 4 * (j + 1) >= 3 * d
               /\ percent <= 100 => j <= d
<1> DEFINE x == d * percent
<1>1. Jitter(d, percent) = x \div 100
  BY JitterIs
<1>2. x \in Nat /\ x >= d * 75
  OBVIOUS
<1>3. percent <= 100 => x <= d * 100
  OBVIOUS
<1> HIDE DEF x
<1>4. x \div 100 \in Nat /\ 4 * (x \div 100 + 1) >= 3 * d
  BY <1>2
<1>5. percent <= 100 => x \div 100 <= d
  BY <1>2, <1>3
<1> QED
  BY <1>1, <1>4, <1>5

\* What DelayInBounds says of one call.
LEMMA DelayBounds ==
    ASSUME NEW p \in Policy, NEW k \in Nat
    PROVE  LET exact == Min({p.MaxDelay, Max({p.BaseDelay, 0}) * Pow2[k]})
               d == Delay(p, k)
           IN  /\ d \in 0 .. Max({p.MaxDelay, 0})
               /\ p.percent <= 100 => d <= Max({exact, 0})
               /\ 4 * (d + 2) >= 3 * exact
<1> DEFINE base == Max({p.BaseDelay, 0})
           exact == Min({p.MaxDelay, base * Pow2[k]})
           d == Delay(p, k)
           most == p.MaxDelay
<1>1. p.BaseDelay \in Int /\ most \in Int /\ p.percent \in 75 .. 125
  BY DEF Policy
<1>2. base = IF p.BaseDelay >= 0 THEN p.BaseDelay ELSE 0
  BY <1>1, NotNegative
<1>3. base * Pow2[k] \in Nat /\ (base = 0 => base * Pow2[k] = 0)
  BY <1>1, <1>2, Pow2Step
<1>4. exact = IF most <= base * Pow2[k] THEN most ELSE base * Pow2[k]
  <2> DEFINE x == base * Pow2[k]
  <2>1. x \in Int
    BY <1>3
  <2> HIDE DEF x
  <2>2. Min({most, x}) = IF most <= x THEN most ELSE x
    BY <1>1, <2>1, Two
  <2> QED
    BY <2>2 DEF x
<1>5. exact \in Int
  BY <1>1, <1>3, <1>4
<1>6. Max({most, 0}) = (IF most >= 0 THEN most ELSE 0) /\ Max({exact, 0}) = IF exact >= 0 THEN exact ELSE 0
  <2> HIDE DEF exact
  <2> QED
    BY <1>1, <1>5, NotNegative
<1>7. CASE p.BaseDelay <= 0 \/ most <= 0
  <2>1. d = 0
    BY <1>7 DEF Delay
  <2>2. exact <= 0
    BY <1>1, <1>2, <1>3, <1>4, <1>7
  <2> HIDE DEF d, exact, most
  <2>3. d \in 0 .. Max({most, 0}) /\ d <= Max({exact, 0}) /\ 4 * (d + 2) >= 3 * exact
    BY <1>1, <1>5, <1>6, <2>1, <2>2
  <2> QED
    BY <2>3 DEF d, exact, most
<1>8. CASE p.BaseDelay > 0 /\ most > 0
  <2> DEFINE j == Jitter(exact, p.percent)
  <2>1. Backoff(p, k) = exact
    <3>1. base = p.BaseDelay
      BY <1>1, <1>2, <1>8
    <3> QED
      BY <1>8, <3>1, BackoffIsExact
  <2>2. exact \in Nat /\ exact <= most
    BY <1>1, <1>3, <1>4, <1>8
  <2>3. j \in Nat /\ 4 * (j + 1) >= 3 * exact /\ (p.percent <= 100 => j <= exact)
    <3> HIDE DEF exact
    <3> QED
      BY <1>1, <2>2, JitterBounds
  <2>4. d = Min({most, j})
    <3> HIDE DEF exact
    <3> QED
      BY <1>1, <1>8, <2>1 DEF Delay
  <2> HIDE DEF j, exact
  <2>5. d = IF most <= j THEN most ELSE j
    BY <1>1, <2>3, <2>4, Two
  <2> HIDE DEF d, most
  <2>6. d \in 0 .. Max({most, 0}) /\ (p.percent <= 100 => d <= Max({exact, 0})) /\ 4 * (d + 2) >= 3 * exact
    BY <1>1, <1>5, <1>6, <1>8, <2>2, <2>3, <2>5
  <2> QED
    BY <2>6 DEF d, exact, most
<1> QED
  BY <1>1, <1>7, <1>8

-----------------------------------------------------------------------------
(* RetryAfter *)

Byte == 0 .. Other

\* What retryAfter has made of the bytes it has read.
Reading == [n : Int, over : BOOLEAN]

NothingRead == [n |-> 0, over |-> FALSE]

Read(value) == FoldLeft(More, NothingRead, value)

\* The fields of a reading with another for one of them.
LEMMA ReadingIs ==
    ASSUME NEW s \in Reading, NEW x
    PROVE  /\ [s EXCEPT !.n = x] = [n |-> x, over |-> s.over]
           /\ [s EXCEPT !.over = x] = [n |-> s.n, over |-> x]
  BY DEF Reading

\* The parts of what More makes of a byte.
LEMMA MoreIs ==
    ASSUME NEW s \in Reading, NEW b \in Byte
    PROVE  /\ More(s, b) \in Reading
           /\ s.over \/ s.n < 0 => More(s, b) = s
           /\ ~s.over /\ s.n >= 0 /\ b = Other => More(s, b).n = -1 /\ ~More(s, b).over
           /\ ~s.over /\ s.n >= 0 /\ b # Other /\ s.n > maxRetryAfter => More(s, b).over
           /\ ~s.over /\ s.n >= 0 /\ b # Other /\ s.n <= maxRetryAfter
                => More(s, b).n = Wrapped(s.n * 10 + b, secondsWidth) /\ ~More(s, b).over
<1> DEFINE w == Wrapped(s.n * 10 + b, secondsWidth)
<1>1. /\ s = [n |-> s.n, over |-> s.over] /\ s.n \in Int /\ s.over \in BOOLEAN
      /\ b \in Int /\ maxRetryAfter \in Int
  BY TransportAssumption DEF Reading, Byte, Other
<1>2. w \in Int
  <2>1. secondsWidth \in Nat \ {0}
    BY TransportAssumption
  <2>2. PICK h \in Nat \ {0} : Pow2[secondsWidth] = 2 * h /\ MinInt(secondsWidth) = -h
    BY <2>1, WordsIs
  <2>3. s.n * 10 + b - (-h) \in Int
    BY <1>1
  <2> DEFINE x == s.n * 10 + b - (-h)
             y == 2 * h
  <2>4. x \in Int /\ y \in Nat \ {0}
    BY <2>3
  <2> HIDE DEF x, y
  <2>5. x % y \in Int
    BY <2>4
  <2>6. w = (x % y) - h
    BY <1>1, <2>2, <2>5 DEF Wrapped, x, y
  <2> QED
    BY <2>5, <2>6
<1>3. /\ [s EXCEPT !.n = -1] = [n |-> -1, over |-> s.over]
      /\ [s EXCEPT !.over = TRUE] = [n |-> s.n, over |-> TRUE]
  <2> DEFINE y == -1
             z == TRUE
  <2> HIDE DEF y, z
  <2>1. [s EXCEPT !.n = y] = [n |-> y, over |-> s.over] /\ [s EXCEPT !.over = z] = [n |-> s.n, over |-> z]
    BY ReadingIs
  <2> QED
    BY <2>1 DEF y, z
<1>4. [s EXCEPT !.n = Wrapped(@ * 10 + b, secondsWidth)] = [n |-> w, over |-> s.over]
  <2>1. [s EXCEPT !.n = Wrapped(@ * 10 + b, secondsWidth)] = [s EXCEPT !.n = w]
    OBVIOUS
  <2> HIDE DEF w
  <2>2. [s EXCEPT !.n = w] = [n |-> w, over |-> s.over]
    BY ReadingIs
  <2> QED
    BY <2>1, <2>2
<1> HIDE DEF w
<1>5. CASE s.over \/ s.n < 0
  <2>1. More(s, b) = s
    <3>1. ~Reads(s)
      BY <1>1, <1>5 DEF Reads
    <3> QED
      BY <3>1 DEF More
  <2> QED
    BY <1>1, <1>5, <2>1
<1>6. CASE ~s.over /\ s.n >= 0 /\ b = Other
  <2>1. More(s, b) = [n |-> -1, over |-> s.over]
    BY <1>3, <1>6 DEF More, Reads
  <2> QED
    BY <1>1, <1>6, <2>1 DEF Reading
<1>7. CASE ~s.over /\ s.n >= 0 /\ b # Other /\ s.n > maxRetryAfter
  <2>1. More(s, b) = [n |-> s.n, over |-> TRUE]
    BY <1>3, <1>7 DEF More, Reads
  <2> QED
    BY <1>1, <1>7, <2>1 DEF Reading
<1>8. CASE ~s.over /\ s.n >= 0 /\ b # Other /\ s.n <= maxRetryAfter
  <2>1. Reads(s)
    BY <1>1, <1>8 DEF Reads
  <2>2. ~(b # Other /\ s.n > maxRetryAfter) /\ b # Other
    BY <1>1, <1>8
  <2>3. More(s, b) = [s EXCEPT !.n = Wrapped(@ * 10 + b, secondsWidth)]
    BY <2>1, <2>2 DEF More
  <2>4. More(s, b) = [n |-> w, over |-> s.over]
    BY <1>4, <2>3
  <2> QED
    BY <1>1, <1>2, <1>8, <2>4 DEF Reading, w
<1> QED
  BY <1>1, <1>5, <1>6, <1>7, <1>8

reading == [x \in Reading \X Byte |-> More(x[1], x[2])]

\* Reading is a fold.
LEMMA ReadIsFolded ==
    ASSUME NEW s \in Seq(Byte)
    PROVE  /\ StepOn(reading, Reading, Byte) /\ NothingRead \in Reading
           /\ Read(s) = FoldedBy(reading, NothingRead, s)
<1> DEFINE A == Reading
           B == Byte
           base == NothingRead
           step == reading
           F(g) == [t \in SUBSET (DOMAIN s) |->
                        IF t = {} THEN base ELSE More(g[t \ {Max(t)}], s[Max(t)])]
<1>1. StepOn(step, A, B) /\ base \in A
  BY MoreIs DEF StepOn, reading, Reading, NothingRead
<1>2. s \in Seq(B)
  OBVIOUS
<1>3. Read(s) = (CHOOSE g : g = F(g))[DOMAIN s]
  BY DEF Read, FoldLeft, MapThenFoldSet
<1>4. \A x \in A, b \in B : step[<<x, b>>] = More(x, b)
  BY DEF reading
<1> HIDE DEF A, B, base, step
<1>5. PICK h : Folding(h, A, B, step, base, s)
  BY <1>1, <1>2, FoldedByFunction
<1>6. h = F(h)
  <2>1. ASSUME NEW t \in SUBSET (DOMAIN s), t # {}
        PROVE  h[t] = More(h[t \ {Max(t)}], s[Max(t)])
    BY <1>4, <1>5, <2>1 DEF Folding
  <2> QED
    BY <1>5, <2>1 DEF Folding
<1>7. PICK g : g = F(g) /\ Read(s) = g[DOMAIN s]
  <2> HIDE DEF F
  <2> QED
    BY <1>3, <1>6
<1>8. Unfolding(g, A, B, step, base, s)
  BY <1>4, <1>7 DEF Unfolding
<1>9. Read(s) = FoldedBy(step, base, s)
  <2> HIDE DEF F
  <2> QED
    BY <1>1, <1>2, <1>7, <1>8, FoldedByUnfolding
<1> QED
  BY <1>1, <1>9 DEF A, B, base, step

\* Reading, a byte at a time.
LEMMA ReadAppend ==
    ASSUME NEW s \in Seq(Byte), NEW b \in Byte
    PROVE  /\ Read(<<>>) = NothingRead
           /\ Read(s) \in Reading
           /\ Read(Append(s, b)) = More(Read(s), b)
<1> DEFINE z == <<>>
           base == NothingRead
           step == reading
           A == Reading
           B == Byte
<1>1. StepOn(step, A, B) /\ base \in A /\ s \in Seq(B) /\ b \in B
  BY ReadIsFolded
<1>2. /\ Read(z) = FoldedBy(step, base, z) /\ Read(s) = FoldedBy(step, base, s)
      /\ Read(Append(s, b)) = FoldedBy(step, base, Append(s, b))
  <2>1. z \in Seq(Byte) /\ Append(s, b) \in Seq(Byte)
    BY EmptySeq
  <2> HIDE DEF z
  <2> QED
    BY <2>1, ReadIsFolded
<1>3. \A x \in A : step[<<x, b>>] = More(x, b)
  BY DEF reading
<1> HIDE DEF z, base, step, A, B
<1>4. /\ FoldedBy(step, base, <<>>) = base
      /\ FoldedBy(step, base, s) \in A
      /\ FoldedBy(step, base, Append(s, b)) = step[<<FoldedBy(step, base, s), b>>]
  BY <1>1, FoldedByAppend
<1> QED
  BY <1>2, <1>3, <1>4 DEF z, base, A

\* One digit more of a number.
Decimal(n, d) == n * 10 + d

decimal == [x \in Nat \X Byte |-> Decimal(x[1], x[2])]

\* The number that digits stand for is a fold.
LEMMA NumberIsFolded ==
    ASSUME NEW s \in Seq(Byte)
    PROVE  StepOn(decimal, Nat, Byte) /\ Number(s) = FoldedBy(decimal, 0, s)
<1> DEFINE A == Nat
           B == Byte
           base == 0
           step == decimal
           F(g) == [t \in SUBSET (DOMAIN s) |->
                        IF t = {} THEN base ELSE Decimal(g[t \ {Max(t)}], s[Max(t)])]
<1>1. StepOn(step, A, B) /\ base \in A
  <2>1. \A n \in Nat, d \in Byte : Decimal(n, d) \in Nat
    BY DEF Decimal, Byte, Other
  <2> QED
    BY <2>1 DEF StepOn, decimal
<1>2. s \in Seq(B)
  OBVIOUS
<1>3. Number(s) = (CHOOSE g : g = F(g))[DOMAIN s]
  BY DEF Number, FoldLeft, MapThenFoldSet, Decimal
<1>4. \A x \in A, b \in B : step[<<x, b>>] = Decimal(x, b)
  BY DEF decimal
<1> HIDE DEF A, B, base, step
<1>5. PICK h : Folding(h, A, B, step, base, s)
  BY <1>1, <1>2, FoldedByFunction
<1>6. h = F(h)
  <2>1. ASSUME NEW t \in SUBSET (DOMAIN s), t # {}
        PROVE  h[t] = Decimal(h[t \ {Max(t)}], s[Max(t)])
    BY <1>4, <1>5, <2>1 DEF Folding
  <2> QED
    BY <1>5, <2>1 DEF Folding
<1>7. PICK g : g = F(g) /\ Number(s) = g[DOMAIN s]
  <2> HIDE DEF F
  <2> QED
    BY <1>3, <1>6
<1>8. Unfolding(g, A, B, step, base, s)
  BY <1>4, <1>7 DEF Unfolding
<1>9. Number(s) = FoldedBy(step, base, s)
  <2> HIDE DEF F
  <2> QED
    BY <1>1, <1>2, <1>7, <1>8, FoldedByUnfolding
<1> QED
  BY <1>1, <1>9 DEF A, B, base, step

\* The number that digits stand for, a digit at a time.
LEMMA NumberAppend ==
    ASSUME NEW s \in Seq(Byte), NEW b \in Byte
    PROVE  /\ Number(<<>>) = 0
           /\ Number(s) \in Nat
           /\ Number(Append(s, b)) = Number(s) * 10 + b
<1> DEFINE z == <<>>
           base == 0
           step == decimal
           A == Nat
           B == Byte
<1>1. StepOn(step, A, B) /\ base \in A /\ s \in Seq(B) /\ b \in B
  BY NumberIsFolded
<1>2. /\ Number(z) = FoldedBy(step, base, z) /\ Number(s) = FoldedBy(step, base, s)
      /\ Number(Append(s, b)) = FoldedBy(step, base, Append(s, b))
  <2>1. z \in Seq(Byte) /\ Append(s, b) \in Seq(Byte)
    BY EmptySeq
  <2> HIDE DEF z
  <2> QED
    BY <2>1, NumberIsFolded
<1>3. \A x \in A : step[<<x, b>>] = Decimal(x, b)
  BY DEF decimal
<1> HIDE DEF z, base, step, A, B
<1>4. /\ FoldedBy(step, base, <<>>) = base
      /\ FoldedBy(step, base, s) \in A
      /\ FoldedBy(step, base, Append(s, b)) = step[<<FoldedBy(step, base, s), b>>]
  BY <1>1, FoldedByAppend
<1> QED
  BY <1>2, <1>3, <1>4 DEF z, base, A, Decimal

\* What is read of bytes is their number, no number, or a number over the limit.
ReadOf(r, s) ==
    /\ ~r.over /\ r.n >= 0 =>
           Other \notin Range(s) /\ r.n = Number(s) /\ r.n <= 10 * maxRetryAfter + 9
    /\ ~r.over /\ r.n < 0 => Other \in Range(s)
    /\ r.over /\ Other \notin Range(s) => Number(s) > maxRetryAfter
ReadSoFar(s) == Read(s) \in Reading /\ ReadOf(Read(s), s)

\* That stays so with every byte: no product leaves the integers.
LEMMA ReadSoFarAppend ==
    ASSUME NEW s \in Seq(Byte), NEW b \in Byte, ReadSoFar(s)
    PROVE  ReadSoFar(Append(s, b))
<1> DEFINE r == Read(s)
           u == Append(s, b)
           q == More(r, b)
           N == Number(s)
           m == maxRetryAfter
<1>1. r \in Reading /\ r.n \in Int /\ r.over \in BOOLEAN
  BY DEF ReadSoFar, Reading
<1>2. Read(u) = q /\ N \in Nat /\ Number(u) = N * 10 + b
  BY ReadAppend, NumberAppend
<1>3. Range(u) = Range(s) \cup {b}
  BY RangeAppend
<1>4. /\ m \in Nat \ {0} /\ b \in Nat /\ (b # Other => b <= 9)
  BY TransportAssumption DEF Byte, Other
<1>5. /\ ~r.over /\ r.n >= 0 => Other \notin Range(s) /\ r.n = N /\ r.n <= 10 * m + 9
      /\ ~r.over /\ r.n < 0 => Other \in Range(s)
      /\ r.over /\ Other \notin Range(s) => N > m
  BY DEF ReadSoFar, ReadOf
<1>6. /\ q \in Reading /\ q.n \in Int
      /\ r.over \/ r.n < 0 => q = r
      /\ ~r.over /\ r.n >= 0 /\ b = Other => q.n = -1 /\ ~q.over
      /\ ~r.over /\ r.n >= 0 /\ b # Other /\ r.n > m => q.over
      /\ ~r.over /\ r.n >= 0 /\ b # Other /\ r.n <= m
           => q.n = Wrapped(r.n * 10 + b, secondsWidth) /\ ~q.over
  <2> HIDE DEF r
  <2>1. q \in Reading
    BY <1>1, MoreIs
  <2> QED
    BY <1>1, <2>1, MoreIs DEF Reading
<1>7. ASSUME r.n >= 0, b # Other, r.n <= m
      PROVE  Wrapped(r.n * 10 + b, secondsWidth) = r.n * 10 + b
  <2> DEFINE x == r.n * 10 + b
             w == secondsWidth
  <2>1. w \in Nat \ {0} /\ 10 * m + 9 <= MaxInt(w)
    BY TransportAssumption
  <2>2. PICK h \in Nat \ {0} : MinInt(w) = -h /\ MaxInt(w) = h - 1
    BY <2>1, WordsIs
  <2>3. x \in MinInt(w) .. MaxInt(w)
    BY <1>1, <1>4, <1>7, <2>1, <2>2
  <2> HIDE DEF x, w
  <2>4. Wrapped(x, w) = x
    BY <2>1, <2>3, WrappedIs
  <2> QED
    BY <2>4 DEF x, w
<1> HIDE DEF r, q, N, m
<1>8. CASE r.over \/ r.n < 0
  <2>1. q = r
    BY <1>6, <1>8
  <2>2. r.over /\ Other \notin Range(u) => Number(u) > m
    BY <1>2, <1>3, <1>4, <1>5
  <2>3. ~r.over => r.n < 0 /\ Other \in Range(u)
    BY <1>3, <1>5, <1>8
  <2>4. ~(~r.over /\ r.n >= 0)
    BY <1>1, <1>8
  <2> HIDE DEF u
  <2>5. ReadOf(q, u)
    BY <2>1, <2>2, <2>3, <2>4 DEF ReadOf, m
  <2> QED
    BY <1>2, <1>6, <2>5 DEF ReadSoFar, u
<1>9. CASE ~r.over /\ r.n >= 0 /\ b = Other
  <2>1. q.n = -1 /\ ~q.over /\ Other \in Range(u)
    BY <1>3, <1>6, <1>9
  <2> HIDE DEF u
  <2>2. ReadOf(q, u)
    BY <2>1 DEF ReadOf
  <2> QED
    BY <1>2, <1>6, <2>2 DEF ReadSoFar, u
<1>10. CASE ~r.over /\ r.n >= 0 /\ b # Other /\ r.n > m
  <2>1. q.over /\ Number(u) > m
    BY <1>2, <1>4, <1>5, <1>6, <1>10
  <2> HIDE DEF u
  <2>2. ReadOf(q, u)
    BY <2>1 DEF ReadOf, m
  <2> QED
    BY <1>2, <1>6, <2>2 DEF ReadSoFar, u
<1>11. CASE ~r.over /\ r.n >= 0 /\ b # Other /\ r.n <= m
  <2>1. q.n = r.n * 10 + b /\ ~q.over
    BY <1>6, <1>7, <1>11
  <2>2. Other \notin Range(u) /\ q.n = Number(u) /\ q.n <= 10 * m + 9 /\ q.n >= 0
    BY <1>1, <1>2, <1>3, <1>4, <1>5, <1>11, <2>1
  <2> HIDE DEF u
  <2>3. /\ ~q.over /\ q.n >= 0 =>
               Other \notin Range(u) /\ q.n = Number(u) /\ q.n <= 10 * maxRetryAfter + 9
    BY <2>2 DEF m
  <2>4. ~(~q.over /\ q.n < 0)
    BY <1>6, <2>2
  <2>5. ReadOf(q, u)
    BY <2>1, <2>3, <2>4 DEF ReadOf
  <2> QED
    BY <1>2, <1>6, <2>5 DEF ReadSoFar, u
<1> QED
  BY <1>1, <1>4, <1>8, <1>9, <1>10, <1>11 DEF u

\* It is so of every value.
LEMMA ReadSoFarAll ==
    ASSUME NEW s \in Seq(Byte)
    PROVE  ReadSoFar(s)
<1> DEFINE S == {v \in Seq(Byte) : ReadSoFar(v)}
<1>1. <<>> \in S
  <2> DEFINE z == <<>>
  <2>1. z \in Seq(Byte) /\ Range(z) = {}
    BY EmptySeq DEF Range
  <2>2. Read(z) = NothingRead /\ Number(z) = 0
    <3>1. 0 \in Byte
      BY DEF Byte, Other
    <3>2. z \in Seq(Byte)
      BY <2>1
    <3> QED
      BY <3>1, <3>2, ReadAppend, NumberAppend
  <2>3. maxRetryAfter \in Nat
    BY TransportAssumption
  <2> HIDE DEF z
  <2>4. ReadSoFar(z)
    BY <2>1, <2>2, <2>3 DEF ReadSoFar, ReadOf, NothingRead, Reading
  <2> QED
    BY <2>1, <2>4 DEF z
<1>2. \A v \in Seq(Byte), b \in Byte : v \in S => Append(v, b) \in S
  BY ReadSoFarAppend
<1> HIDE DEF S
<1>3. s \in S
  BY <1>1, <1>2, SeqSetInduction
<1> QED
  BY <1>3 DEF S

\* What RetryAfterInBounds says of one call.
LEMMA RetryAfterBounds ==
    ASSUME NEW s \in Seq(Byte)
    PROVE  /\ RetryAfter(s) \in 0 .. maxRetryAfter
           /\ Other \notin Range(s) => RetryAfter(s) = Min({maxRetryAfter, Number(s)})
<1> DEFINE r == Read(s)
           N == Number(s)
           m == maxRetryAfter
<1>1. /\ r.n \in Int /\ r.over \in BOOLEAN /\ m \in Nat
      /\ ~r.over /\ r.n >= 0 => r.n = N
      /\ ~r.over /\ r.n < 0 => Other \in Range(s)
      /\ r.over /\ Other \notin Range(s) => N > m
  BY ReadSoFarAll, TransportAssumption DEF ReadSoFar, ReadOf, Reading
<1>2. N \in Nat
  <2>1. 0 \in Byte
    BY DEF Byte, Other
  <2> QED
    BY <2>1, NumberAppend
<1>3. RetryAfter(s) = CASE r.over -> m
                        [] ~r.over /\ r.n < 0 -> 0
                        [] OTHER -> Min({r.n, m})
  BY DEF RetryAfter, Read, NothingRead
<1> HIDE DEF r, N, m
<1>4. Min({m, N}) = (IF m <= N THEN m ELSE N) /\ Min({r.n, m}) = IF r.n <= m THEN r.n ELSE m
  BY <1>1, <1>2, Two
<1>5. CASE r.over
  BY <1>1, <1>2, <1>3, <1>4, <1>5 DEF N, m
<1>6. CASE ~r.over /\ r.n < 0
  BY <1>1, <1>2, <1>3, <1>4, <1>6 DEF N, m
<1>7. CASE ~r.over /\ r.n >= 0
  <2>1. RetryAfter(s) = IF r.n <= m THEN r.n ELSE m
    BY <1>3, <1>4, <1>7, <1>1
  <2> QED
    BY <1>1, <1>2, <1>4, <1>7, <2>1 DEF N, m
<1> QED
  BY <1>1, <1>5, <1>6, <1>7

-----------------------------------------------------------------------------
(* ParseScaled *)

Scales == {1, 1000, 60000, 3600000, 1000000, 1024, 1048576}

\* The units of a kind.
Known(kind) == {""} \cup DOMAIN Multiplier(kind)

\* The units of a table, and what they stand for.
LEMMA TableIs ==
    ASSUME NEW a, NEW b, NEW c, NEW d
    PROVE  LET times == [ms |-> a, s |-> b, m |-> c, h |-> d]
               bytes == [k |-> a, m |-> b]
           IN  /\ DOMAIN times = {"ms", "s", "m", "h"}
               /\ times["ms"] = a /\ times["s"] = b /\ times["m"] = c /\ times["h"] = d
               /\ DOMAIN bytes = {"k", "m"}
               /\ bytes["k"] = a /\ bytes["m"] = b
  OBVIOUS

\* What a unit stands for is what one of the units does.
LEMMA OneOf ==
    ASSUME NEW M, NEW S, NEW e \in S, NEW unit, unit \in {""} \cup DOMAIN M
    PROVE  /\ DOMAIN M = {"k", "m"} /\ M["k"] \in S /\ M["m"] \in S
                => (IF unit # "" THEN M[unit] ELSE e) \in S
           /\ DOMAIN M = {"ms", "s", "m", "h"}
                /\ M["ms"] \in S /\ M["s"] \in S /\ M["m"] \in S /\ M["h"] \in S
                => (IF unit # "" THEN M[unit] ELSE e) \in S
  OBVIOUS

\* The scale of a number is one of seven.
LEMMA ScaleIs ==
    ASSUME NEW kind, NEW unit \in Known(kind)
    PROVE  Scale(kind, unit) \in Scales
<1> DEFINE M == Multiplier(kind)
           S == Scales
<1>1. unit \in {""} \cup DOMAIN M
  BY DEF Known
<1>2. CASE kind = "duration"
  <2> DEFINE e == 1000
  <2>1. M = [ms |-> 1, s |-> 1000, m |-> 60000, h |-> 3600000]
    BY SMT, <1>2 DEF Multiplier
  <2>2. M["ms"] = 1 /\ M["s"] = 1000 /\ M["m"] = 60000 /\ M["h"] = 3600000
    BY SMT, <2>1, TableIs
  <2>3. DOMAIN M = {"ms", "s", "m", "h"}
    BY SMT, <2>1, TableIs
  <2>4. M["ms"] \in S /\ M["s"] \in S /\ M["m"] \in S /\ M["h"] \in S /\ e \in S
    BY SMT, <2>2 DEF Scales
  <2> HIDE DEF M, S, e
  <2>5. (IF unit # "" THEN M[unit] ELSE e) \in S
    BY <1>1, <2>3, <2>4, OneOf
  <2>6. Scale(kind, unit) = IF unit # "" THEN M[unit] ELSE e
    BY SMT, <1>2 DEF Scale, M, e
  <2> QED
    BY <2>5, <2>6 DEF S
<1>3. CASE kind = "tokens"
  <2> DEFINE e == 1
  <2>1. M = [k |-> 1000, m |-> 1000000] /\ kind # "duration"
    BY SMT, <1>3 DEF Multiplier
  <2>2. M["k"] = 1000 /\ M["m"] = 1000000
    BY SMT, <2>1, TableIs
  <2>3. DOMAIN M = {"k", "m"}
    BY SMT, <2>1, TableIs
  <2>4. M["k"] \in S /\ M["m"] \in S /\ e \in S
    BY SMT, <2>2 DEF Scales
  <2> HIDE DEF M, S, e
  <2>5. (IF unit # "" THEN M[unit] ELSE e) \in S
    BY <1>1, <2>3, <2>4, OneOf
  <2>6. Scale(kind, unit) = IF unit # "" THEN M[unit] ELSE e
    BY SMT, <2>1 DEF Scale, M, e
  <2> QED
    BY <2>5, <2>6 DEF S
<1>4. CASE kind \notin {"duration", "tokens"}
  <2> DEFINE e == 1
  <2>1. M = [k |-> 1024, m |-> 1048576] /\ kind # "duration"
    BY SMT, <1>4 DEF Multiplier
  <2>2. M["k"] = 1024 /\ M["m"] = 1048576
    BY SMT, <2>1, TableIs
  <2>3. DOMAIN M = {"k", "m"}
    BY SMT, <2>1, TableIs
  <2>4. M["k"] \in S /\ M["m"] \in S /\ e \in S
    BY SMT, <2>2 DEF Scales
  <2> HIDE DEF M, S, e
  <2>5. (IF unit # "" THEN M[unit] ELSE e) \in S
    BY <1>1, <2>3, <2>4, OneOf
  <2>6. Scale(kind, unit) = IF unit # "" THEN M[unit] ELSE e
    BY SMT, <2>1 DEF Scale, M, e
  <2> QED
    BY <2>5, <2>6 DEF S
<1> QED
  BY <1>2, <1>3, <1>4

\* The number in front of the unit fits when the product does: the bounds that
\* are compared with are the quotients, rounded towards zero.
LEMMA FitsIs ==
    ASSUME NEW c \in Scales, NEW n \in Int
    PROVE  /\ (n \in Int64 /\ Fits(n, c)) <=> n * c \in Int64
           /\ n * c \in Int
<1>1. PICK h \in Nat \ {0} : MinInt(numberWidth) = -h /\ MaxInt(numberWidth) = h - 1
  BY WordsIs, ProvidersAssumption
<1>2. /\ Int64 = -h .. h - 1
      /\ -(-h) = h
  BY <1>1 DEF Int64
<1>3. Fits(n, c) <=> n \in -(h \div c) .. (h - 1) \div c
  BY <1>1, <1>2 DEF Fits
<1>4. CASE c = 1
  BY SMT, <1>2, <1>3, <1>4
<1>5. CASE c = 1000
  BY SMT, <1>2, <1>3, <1>5
<1>6. CASE c = 60000
  BY SMT, <1>2, <1>3, <1>6
<1>7. CASE c = 3600000
  BY SMT, <1>2, <1>3, <1>7
<1>8. CASE c = 1000000
  BY SMT, <1>2, <1>3, <1>8
<1>9. CASE c = 1024
  BY SMT, <1>2, <1>3, <1>9
<1>10. CASE c = 1048576
  BY SMT, <1>2, <1>3, <1>10
<1> QED
  BY SMT, <1>4, <1>5, <1>6, <1>7, <1>8, <1>9, <1>10 DEF Scales

\* What ScaledIsExact says of one call.
LEMMA ScaledBounds ==
    ASSUME NEW kind, NEW unit, NEW n \in Int
    PROVE  /\ ParseScaled(kind, n, unit).ok = (unit \in Known(kind) /\ n * Scale(kind, unit) \in Int64)
           /\ ParseScaled(kind, n, unit).ok => ParseScaled(kind, n, unit).n = n * Scale(kind, unit)
<1> DEFINE known == unit \in Known(kind)
           c == Scale(kind, unit)
           scaled == ParseScaled(kind, n, unit)
<1>1. known <=> ~(unit # "" /\ unit \notin DOMAIN Multiplier(kind))
  BY Zenon DEF Known
<1>2. CASE ~known
  <2>1. scaled = [ok |-> FALSE, n |-> 0]
    BY <1>1, <1>2 DEF ParseScaled, Refused
  <2>2. scaled.ok = FALSE
    BY <2>1
  <2> HIDE DEF scaled
  <2> QED
    BY <1>2, <2>2 DEF scaled
<1>3. CASE known /\ n * c \notin Int64
  <2>1. c \in Scales
    BY <1>3, ScaleIs
  <2>2. ~(n \in Int64 /\ Fits(n, c))
    BY <1>3, <2>1, FitsIs
  <2>3. scaled = [ok |-> FALSE, n |-> 0]
    BY <2>2 DEF ParseScaled, Refused
  <2>4. scaled.ok = FALSE
    BY <2>3
  <2> HIDE DEF scaled
  <2> QED
    BY <1>3, <2>4 DEF scaled
<1>4. CASE known /\ n * c \in Int64
  <2>1. c \in Scales
    BY <1>4, ScaleIs
  <2>2. n \in Int64 /\ Fits(n, c) /\ n * c \in Int
    BY <1>4, <2>1, FitsIs
  <2> DEFINE x == n * c
             w == numberWidth
  <2>3. x \in MinInt(w) .. MaxInt(w) /\ w \in Nat \ {0}
    BY <1>4, ProvidersAssumption DEF Int64
  <2>4. Wrapped(x, w) = x
    <3> HIDE DEF x, w
    <3> QED
      BY <2>3, WrappedIs
  <2>5. scaled = [ok |-> TRUE, n |-> Wrapped(x, w)]
    BY <1>1, <1>4, <2>2 DEF ParseScaled
  <2> HIDE DEF x
  <2>6. scaled.ok = TRUE /\ scaled.n = x
    BY <2>4, <2>5
  <2> HIDE DEF scaled
  <2> QED
    BY <1>4, <2>6 DEF scaled, x
<1> QED
  BY <1>2, <1>3, <1>4

-----------------------------------------------------------------------------
(* Sums *)

plus == [x \in Int \X Int |-> x[1] + x[2]]

\* The sum of a sequence of numbers.
Total(v) == FoldedBy(plus, 0, v)

\* A sum, a number at a time.
LEMMA TotalAppend ==
    ASSUME NEW v \in Seq(Int), NEW x \in Int
    PROVE  /\ Total(<<>>) = 0
           /\ Total(v) \in Int
           /\ Total(Append(v, x)) = Total(v) + x
<1> DEFINE A == Int
           base == 0
<1>1. StepOn(plus, A, A) /\ base \in A /\ v \in Seq(A) /\ x \in A
  BY DEF StepOn, plus
<1>2. \A a \in A : plus[<<a, x>>] = a + x
  BY DEF plus
<1> HIDE DEF A, base
<1>3. /\ FoldedBy(plus, base, <<>>) = base
      /\ FoldedBy(plus, base, v) \in A
      /\ FoldedBy(plus, base, Append(v, x)) = plus[<<FoldedBy(plus, base, v), x>>]
  BY <1>1, FoldedByAppend
<1> QED
  BY <1>2, <1>3 DEF A, base, Total

\* A sequence of numbers and one more.
LEMMA OneMore ==
    ASSUME NEW s \in Seq(Int), NEW x \in Int
    PROVE  /\ Append(s, x) \in Seq(Int) /\ Len(Append(s, x)) = Len(s) + 1
           /\ \A n \in 1 .. Len(s) : Append(s, x)[n] = s[n]
           /\ Append(s, x)[Len(s) + 1] = x
BY AppendProperties

\* Another number in place of one.
Without(v, i) == [n \in DOMAIN v |-> IF n = i THEN 0 ELSE v[n]]

\* Whichever number is taken out of a sum, the rest is the sum of the others.
LEMMA TotalWithout ==
    ASSUME NEW v \in Seq(Int), NEW i \in DOMAIN v
    PROVE  /\ Without(v, i) \in Seq(Int)
           /\ Total(v) = v[i] + Total(Without(v, i))
<1> DEFINE Good(w) == \A j \in DOMAIN w : Without(w, j) \in Seq(Int) /\ Total(w) = w[j] + Total(Without(w, j))
           S == {w \in Seq(Int) : Good(w)}
<1>1. <<>> \in S
  <2> DEFINE z == <<>>
  <2>1. z \in Seq(Int) /\ DOMAIN z = {}
    BY EmptySeq
  <2> HIDE DEF z
  <2> QED
    BY <2>1 DEF z
<1>2. ASSUME NEW w \in Seq(Int), NEW x \in Int, w \in S PROVE Append(w, x) \in S
  <2> DEFINE u == Append(w, x)
             N == Len(w)
  <2>1. /\ u \in Seq(Int) /\ N \in Nat /\ DOMAIN u = 1 .. N + 1 /\ DOMAIN w = 1 .. N
        /\ u[N + 1] = x /\ \A j \in 1 .. N : u[j] = w[j] /\ w[j] \in Int
    OBVIOUS
  <2>2. Total(u) = Total(w) + x /\ Total(w) \in Int
    BY TotalAppend
  <2> HIDE DEF u
  <2>3. ASSUME NEW j \in 1 .. N + 1 PROVE Without(u, j) \in Seq(Int) /\ Total(u) = u[j] + Total(Without(u, j))
    <3> DEFINE a == Without(u, j)
    <3>1. /\ DOMAIN a = 1 .. N + 1
          /\ \A n \in 1 .. N + 1 : a[n] = IF n = j THEN 0 ELSE u[n]
      BY <2>1 DEF Without
    <3>2. a \in Seq(Int) /\ Len(a) = N + 1
      <4>1. \A n \in 1 .. N + 1 : a[n] \in Int
        <5> HIDE DEF a
        <5>1. \A n \in 1 .. N + 1 : u[n] \in Int
          BY <2>1
        <5> QED
          BY <3>1, <5>1
      <4>2. a = [n \in 1 .. N + 1 |-> a[n]]
        BY <2>1 DEF Without
      <4> HIDE DEF a
      <4>3. a \in Seq(Int)
        BY <2>1, <4>1, <4>2
      <4> QED
        BY <2>1, <3>1, <4>3
    <3> HIDE DEF a
    <3>3. CASE j = N + 1
      <4> DEFINE b == Append(w, 0)
      <4>1. b \in Seq(Int) /\ Len(b) = N + 1 /\ \A n \in 1 .. N + 1 : b[n] = IF n = N + 1 THEN 0 ELSE w[n]
        OBVIOUS
      <4>2. Total(b) = Total(w) + 0
        BY TotalAppend
      <4> HIDE DEF b
      <4>3. \A n \in 1 .. Len(a) : a[n] = b[n]
        BY <2>1, <3>1, <3>2, <3>3, <4>1
      <4>4. a = b
        BY <3>2, <4>1, <4>3, SeqEqual
      <4> QED
        BY <2>1, <2>2, <3>2, <3>3, <4>2, <4>4 DEF a
    <3>4. CASE j \in 1 .. N
      <4> DEFINE o == Without(w, j)
                 b == Append(o, x)
      <4>1. o \in Seq(Int) /\ Total(w) = w[j] + Total(o)
        BY <1>2, <2>1, <3>4
      <4>2. DOMAIN o = 1 .. N /\ \A n \in 1 .. N : o[n] = IF n = j THEN 0 ELSE w[n]
        BY <2>1 DEF Without
      <4> HIDE DEF o
      <4>3. Len(o) = N
        BY <2>1, <4>1, <4>2
      <4>4. b \in Seq(Int) /\ Len(b) = N + 1 /\ \A n \in 1 .. N + 1 : b[n] = IF n = N + 1 THEN x ELSE o[n]
        <5>1. N \in Nat /\ o \in Seq(Int) /\ x \in Int /\ Len(o) = N
          BY <2>1, <4>1, <4>3
        <5> HIDE DEF N
        <5>2. b \in Seq(Int) /\ Len(b) = N + 1 /\ (\A n \in 1 .. N : b[n] = o[n]) /\ b[N + 1] = x
          <6>1. /\ b \in Seq(Int) /\ Len(b) = Len(o) + 1
                /\ (\A n \in 1 .. Len(o) : b[n] = o[n]) /\ b[Len(o) + 1] = x
            BY ZenonT(20), <5>1, OneMore
          <6> HIDE DEF b
          <6> QED
            BY <5>1, <6>1
        <5> HIDE DEF b
        <5>3. \A n \in 1 .. N + 1 : n \in 1 .. N \/ n = N + 1
          BY <5>1
        <5> QED
          BY <5>1, <5>2, <5>3
      <4>5. Total(b) = Total(o) + x /\ Total(o) \in Int
        BY <4>1, TotalAppend
      <4> HIDE DEF b
      <4>6. \A n \in 1 .. Len(a) : a[n] = b[n]
        <5> HIDE DEF N
        <5>1. ASSUME NEW n \in 1 .. N PROVE a[n] = b[n]
          <6>1. n \in 1 .. N + 1 /\ n # N + 1
            BY <2>1
          <6>2. a[n] = IF n = j THEN 0 ELSE w[n]
            BY <2>1, <3>1, <6>1
          <6>3. b[n] = IF n = j THEN 0 ELSE w[n]
            BY <4>2, <4>4, <6>1
          <6> QED
            BY <6>2, <6>3
        <5>2. a[N + 1] = x /\ b[N + 1] = x
          <6>1. N + 1 \in 1 .. N + 1 /\ j # N + 1
            BY <2>1, <3>4
          <6> QED
            BY <2>1, <3>1, <4>4, <6>1
        <5>3. \A n \in 1 .. N + 1 : n \in 1 .. N \/ n = N + 1
          BY <2>1
        <5>4. \A n \in 1 .. N + 1 : a[n] = b[n]
          BY Zenon, <5>1, <5>2, <5>3
        <5> QED
          BY Zenon, <3>2, <5>4
      <4>7. a = b
        BY <3>2, <4>4, <4>6, SeqEqual
      <4>8. w[j] \in Int /\ u[j] = w[j]
        BY <2>1, <3>4
      <4> QED
        <5>1. Total(u) = u[j] + Total(b)
          BY <2>2, <4>1, <4>5, <4>8
        <5> QED
          BY <3>2, <4>7, <5>1 DEF a
    <3> QED
      BY <2>1, <3>3, <3>4
  <2> QED
    BY <2>1, <2>3 DEF u
<1> HIDE DEF S
<1>3. v \in S
  BY <1>1, <1>2, SeqSetInduction
<1> QED
  BY <1>3 DEF S

\* The numbers at the places t, and 0 elsewhere.
Only(v, t) == [n \in DOMAIN v |-> IF n \in t THEN v[n] ELSE 0]

\* What Only is of a sequence of numbers.
LEMMA OnlyIs ==
    ASSUME NEW v \in Seq(Int), NEW t \in SUBSET DOMAIN v
    PROVE  /\ Only(v, t) \in Seq(Int)
           /\ t = {} => Total(Only(v, t)) = 0
           /\ \A i \in t : Total(Only(v, t)) = v[i] + Total(Only(v, t \ {i}))
<1>1. Only(v, t) \in Seq(Int) /\ DOMAIN Only(v, t) = DOMAIN v
  <2> DEFINE f == [n \in 1 .. Len(v) |-> IF n \in t THEN v[n] ELSE 0]
  <2>1. Only(v, t) = f
    BY DEF Only
  <2>2. \A n \in 1 .. Len(v) : v[n] \in Int
    OBVIOUS
  <2>3. f \in Seq(Int)
    BY <2>2
  <2> QED
    BY <2>1, <2>3 DEF Only
<1>2. ASSUME t = {} PROVE Total(Only(v, t)) = 0
  <2> DEFINE Zeros(w) == [n \in DOMAIN w |-> 0]
             S == {w \in Seq(Int) : Zeros(w) \in Seq(Int) /\ Total(Zeros(w)) = 0}
  <2>1. <<>> \in S
    <3> DEFINE z == <<>>
    <3>1. z \in Seq(Int) /\ Zeros(z) = z /\ 0 \in Int
      BY EmptySeq
    <3>2. Total(<<>>) = 0
      BY <3>1, TotalAppend
    <3> HIDE DEF z
    <3> QED
      BY <3>1, <3>2 DEF z
  <2>2. ASSUME NEW w \in Seq(Int), NEW x \in Int, w \in S PROVE Append(w, x) \in S
    <3> DEFINE o == Zeros(w)
               u == Append(w, x)
    <3>1. o \in Seq(Int) /\ Total(o) = 0
      BY <2>2
    <3>2. Zeros(u) = Append(o, 0) /\ u \in Seq(Int)
      OBVIOUS
    <3> HIDE DEF o
    <3> DEFINE y == 0
    <3>3. y \in Int /\ Append(o, y) \in Seq(Int)
      BY <3>1
    <3> HIDE DEF y
    <3>4. Total(Append(o, y)) = Total(o) + y
      BY <3>1, <3>3, TotalAppend
    <3>5. Total(Append(o, 0)) = 0
      BY <3>1, <3>4 DEF y
    <3> QED
      BY <3>2, <3>3, <3>5 DEF y
  <2>3. Only(v, t) = Zeros(v)
    BY <1>2 DEF Only
  <2> HIDE DEF S
  <2>4. v \in S
    BY <2>1, <2>2, SeqSetInduction
  <2> QED
    BY <2>3, <2>4 DEF S
<1>3. ASSUME NEW i \in t PROVE Total(Only(v, t)) = v[i] + Total(Only(v, t \ {i}))
  <2>1. i \in DOMAIN Only(v, t) /\ Only(v, t)[i] = v[i]
    BY DEF Only
  <2>2. Without(Only(v, t), i) = Only(v, t \ {i})
    BY DEF Only, Without
  <2> DEFINE o == Only(v, t)
  <2> HIDE DEF o
  <2>3. Total(o) = o[i] + Total(Without(o, i))
    BY <1>1, <2>1, TotalWithout DEF o
  <2> QED
    BY <2>1, <2>2, <2>3 DEF o
<1> QED
  BY <1>1, <1>2, <1>3

\* Adding up the members of a set, one chosen at a time.
AddingUp(g, v, T) ==
    \A t \in SUBSET T : g[t] = IF t = {} THEN 0
                               ELSE v[CHOOSE x \in t : TRUE] + g[t \ {CHOOSE x \in t : TRUE}]

\* Whichever is chosen each time, their sum comes of it.
LEMMA SumIs ==
    ASSUME NEW v \in Seq(Int), NEW T \in SUBSET DOMAIN v
    PROVE  /\ AddingUp([t \in SUBSET T |-> Total(Only(v, t))], v, T)
           /\ \A g : AddingUp(g, v, T) => g[T] = Total(Only(v, T))
<1>1. AddingUp([t \in SUBSET T |-> Total(Only(v, t))], v, T)
  <2> DEFINE h == [t \in SUBSET T |-> Total(Only(v, t))]
  <2>1. ASSUME NEW t \in SUBSET T, t # {}
        PROVE  h[t] = v[CHOOSE x \in t : TRUE] + h[t \ {CHOOSE x \in t : TRUE}]
    <3>1. PICK i : i = (CHOOSE x \in t : TRUE) /\ i \in t
      BY <2>1
    <3>2. t \in SUBSET DOMAIN v /\ t \ {i} \in SUBSET T
      OBVIOUS
    <3>3. Total(Only(v, t)) = v[i] + Total(Only(v, t \ {i}))
      BY <3>1, <3>2, OnlyIs
    <3> QED
      BY <3>1, <3>2, <3>3
  <2>2. h[{}] = 0
    BY OnlyIs
  <2> QED
    BY <2>1, <2>2 DEF AddingUp
<1>2. ASSUME NEW g, AddingUp(g, v, T) PROVE g[T] = Total(Only(v, T))
  <2>1. IsFiniteSet(T)
    <3>1. DOMAIN v = 1 .. Len(v) /\ Len(v) \in Int /\ 1 \in Int
      OBVIOUS
    <3>2. IsFiniteSet(DOMAIN v)
      BY <3>1, FS_Interval
    <3> QED
      BY <3>2, FS_Subset
  <2> DEFINE S == {k \in Nat : \A t \in SUBSET T : Cardinality(t) = k => g[t] = Total(Only(v, t))}
  <2>2. \A t \in SUBSET T : IsFiniteSet(t) /\ t \in SUBSET DOMAIN v
    BY <2>1, FS_Subset
  <2>3. 0 \in S
    <3>1. ASSUME NEW t \in SUBSET T, Cardinality(t) = 0 PROVE g[t] = Total(Only(v, t))
      <4>1. t = {}
        BY <2>2, <3>1, FS_EmptySet
      <4>2. Total(Only(v, t)) = 0
        BY <2>2, <4>1, OnlyIs
      <4> QED
        BY <1>2, <4>1, <4>2 DEF AddingUp
    <3> QED
      BY <3>1
  <2>4. ASSUME NEW k \in Nat, k \in S PROVE k + 1 \in S
    <3>1. ASSUME NEW t \in SUBSET T, Cardinality(t) = k + 1 PROVE g[t] = Total(Only(v, t))
      <4>1. t # {}
        BY <3>1, FS_EmptySet
      <4>2. PICK i : i = (CHOOSE x \in t : TRUE) /\ i \in t
        BY <4>1
      <4>3. Cardinality(t \ {i}) = k /\ t \ {i} \in SUBSET T
        <5>1. IsFiniteSet(t)
          BY <2>2
        <5>2. Cardinality(t \ {i}) = Cardinality(t) - 1
          BY <4>2, <5>1, FS_RemoveElement
        <5> QED
          BY <3>1, <5>2
      <4>4. g[t \ {i}] = Total(Only(v, t \ {i}))
        BY <2>4, <4>3
      <4>5. g[t] = v[i] + g[t \ {i}]
        BY <1>2, <4>1, <4>2 DEF AddingUp
      <4>6. Total(Only(v, t)) = v[i] + Total(Only(v, t \ {i}))
        BY <2>2, <4>2, OnlyIs
      <4> QED
        BY <4>4, <4>5, <4>6
    <3> QED
      BY <3>1
  <2> HIDE DEF S
  <2>5. \A k \in Nat : k \in S
    BY <2>3, <2>4, NatSetInduction
  <2>6. Cardinality(T) \in Nat
    BY <2>1, FS_CardinalityType
  <2> QED
    BY <2>5, <2>6 DEF S
<1> QED
  BY <1>1, <1>2

-----------------------------------------------------------------------------
(* The accounting of a stream *)

Fields == Counts \cup {"cost"}

UsageOf(s) == FoldLeft(Add, NewStreamUsage, s)

adding == [x \in Usage \X Usage |-> Add(x[1], x[2])]

\* The fields of a usage.
LEMMA UsageFields ==
    ASSUME NEW u \in Usage
    PROVE  /\ \A c \in Fields : u[c] \in Int
           /\ u.input \in Int /\ u.output \in Int /\ u.cached \in Int /\ u.cost \in Int
           /\ u.fast \in {"unknown", "yes", "no"}
  BY DEF Usage, Fields, Counts

\* A sum is a number.
LEMMA Sum2Is ==
    ASSUME NEW x \in Int, NEW y \in Int
    PROVE  /\ Sum2(x, y) \in Int
           /\ Sum2(x, y) = IF y < 0 THEN x ELSE (IF x >= 0 THEN x ELSE 0) + y
<1>1. Max({x, 0}) = IF x >= 0 THEN x ELSE 0
  BY NotNegative
<1> QED
  BY <1>1 DEF Sum2

\* The fields of what Add makes of two usages.
LEMMA AddIs ==
    ASSUME NEW u \in Usage, NEW e \in Usage
    PROVE  /\ Add(u, e) \in Usage
           /\ \A c \in Counts : Add(u, e)[c] = Sum2(u[c], e[c])
           /\ Add(u, e).fast = IF e.fast = "unknown" THEN u.fast ELSE e.fast
           /\ Add(u, e).cost = IF Unpriced(u) \/ Unpriced(e) THEN -1 ELSE Sum2(u.cost, e.cost)
<1> DEFINE cost == IF Unpriced(u) \/ Unpriced(e) THEN -1 ELSE Sum2(u.cost, e.cost)
           fast == IF e.fast = "unknown" THEN u.fast ELSE e.fast
           names == {"input", "output", "cached", "cost", "fast"}
           a == Add(u, e)
<1>1. DOMAIN u = names
  BY DEF Usage
<1>2. /\ a = [c \in names |-> a[c]]
      /\ \A c \in Counts : a[c] = Sum2(u[c], e[c])
      /\ a["fast"] = fast
      /\ a["cost"] = cost
  <2> DEFINE G(c) == CASE c \in Counts -> Sum2(u[c], e[c])
                       [] c = "fast" -> fast
                       [] c = "cost" -> cost
  <2>1. a = [c \in names |-> G(c)]
    BY <1>1 DEF Add
  <2>2. "fast" \notin Counts /\ "cost" \notin Counts /\ Counts \subseteq names
    BY DEF Counts
  <2> HIDE DEF cost, fast, a
  <2>3. a = [c \in names |-> a[c]]
    <3> HIDE DEF G, names
    <3> QED
      BY <2>1
  <2>4. \A c \in Counts : a[c] = Sum2(u[c], e[c])
    BY <2>1, <2>2
  <2>5. a["fast"] = fast /\ a["cost"] = cost
    BY <2>1, <2>2
  <2> QED
    BY <2>3, <2>4, <2>5
<1>3. cost \in Int
  <2>1. u.cost \in Int /\ e.cost \in Int
    BY UsageFields
  <2>2. Sum2(u.cost, e.cost) \in Int
    BY <2>1, Sum2Is
  <2>3. -1 \in Int
    OBVIOUS
  <2> QED
    BY Zenon, <2>2, <2>3
<1>4. fast \in {"unknown", "yes", "no"}
  BY UsageFields
<1>5. \A c \in Counts : Sum2(u[c], e[c]) \in Int
  <2>1. \A c \in Counts : u[c] \in Int /\ e[c] \in Int
    BY UsageFields DEF Fields
  <2> QED
    BY <2>1, Sum2Is
<1> HIDE DEF a, cost, fast
<1>6. a \in Usage
  <2>1. a["input"] \in Int /\ a["output"] \in Int /\ a["cached"] \in Int
    BY <1>2, <1>5 DEF Counts
  <2> QED
    BY <1>2, <1>3, <1>4, <2>1 DEF Usage
<1> QED
  BY <1>2, <1>6 DEF a, cost, fast

\* Accounting is a fold.
LEMMA UsageIsFolded ==
    ASSUME NEW s \in Seq(Usage)
    PROVE  /\ StepOn(adding, Usage, Usage) /\ NewStreamUsage \in Usage
           /\ UsageOf(s) = FoldedBy(adding, NewStreamUsage, s)
<1> DEFINE A == Usage
           B == Usage
           base == NewStreamUsage
           step == adding
           F(g) == [t \in SUBSET (DOMAIN s) |->
                        IF t = {} THEN base ELSE Add(g[t \ {Max(t)}], s[Max(t)])]
<1>1. StepOn(step, A, B) /\ base \in A
  <2>1. base \in A
    <3> DEFINE m == -1
               f == "unknown"
    <3>1. m \in Int /\ f \in {"unknown", "yes", "no"}
      <4>1. m \in Int
        OBVIOUS
      <4>2. f \in {"unknown", "yes", "no"}
        OBVIOUS
      <4> QED
        BY <4>1, <4>2
    <3>2. base = [input |-> m, output |-> m, cached |-> m, cost |-> m, fast |-> f]
      BY DEF NewStreamUsage
    <3> HIDE DEF m, f, base
    <3> QED
      BY <3>1, <3>2 DEF Usage
  <2>2. StepOn(step, A, B)
    BY AddIs DEF StepOn, adding
  <2> QED
    BY <2>1, <2>2
<1>2. s \in Seq(B)
  OBVIOUS
<1>3. UsageOf(s) = (CHOOSE g : g = F(g))[DOMAIN s]
  BY DEF UsageOf, FoldLeft, MapThenFoldSet
<1>4. \A x \in A, b \in B : step[<<x, b>>] = Add(x, b)
  BY DEF adding
<1> HIDE DEF A, B, base, step
<1>5. PICK h : Folding(h, A, B, step, base, s)
  BY <1>1, <1>2, FoldedByFunction
<1>6. h = F(h)
  <2>1. ASSUME NEW t \in SUBSET (DOMAIN s), t # {}
        PROVE  h[t] = Add(h[t \ {Max(t)}], s[Max(t)])
    BY <1>4, <1>5, <2>1 DEF Folding
  <2> QED
    BY <1>5, <2>1 DEF Folding
<1>7. PICK g : g = F(g) /\ UsageOf(s) = g[DOMAIN s]
  <2> HIDE DEF F
  <2> QED
    BY <1>3, <1>6
<1>8. Unfolding(g, A, B, step, base, s)
  BY <1>4, <1>7 DEF Unfolding
<1>9. UsageOf(s) = FoldedBy(step, base, s)
  <2> HIDE DEF F
  <2> QED
    BY <1>1, <1>2, <1>7, <1>8, FoldedByUnfolding
<1> QED
  BY <1>1, <1>9 DEF A, B, base, step

\* Accounting, a report at a time.
LEMMA UsageAppend ==
    ASSUME NEW s \in Seq(Usage), NEW e \in Usage
    PROVE  /\ UsageOf(<<>>) = NewStreamUsage
           /\ UsageOf(s) \in Usage
           /\ UsageOf(Append(s, e)) = Add(UsageOf(s), e)
<1> DEFINE z == <<>>
           base == NewStreamUsage
           step == adding
<1>1. StepOn(step, Usage, Usage) /\ base \in Usage
  BY UsageIsFolded
<1>2. /\ UsageOf(z) = FoldedBy(step, base, z) /\ UsageOf(s) = FoldedBy(step, base, s)
      /\ UsageOf(Append(s, e)) = FoldedBy(step, base, Append(s, e))
  <2>1. z \in Seq(Usage) /\ Append(s, e) \in Seq(Usage)
    BY EmptySeq
  <2> HIDE DEF z
  <2> QED
    BY <2>1, UsageIsFolded
<1>3. \A x \in Usage : step[<<x, e>>] = Add(x, e)
  BY DEF adding
<1> HIDE DEF z, base, step
<1>4. /\ FoldedBy(step, base, <<>>) = base
      /\ FoldedBy(step, base, s) \in Usage
      /\ FoldedBy(step, base, Append(s, e)) = step[<<FoldedBy(step, base, s), e>>]
  BY <1>1, FoldedByAppend
<1> QED
  BY <1>2, <1>3, <1>4 DEF z, base

\* What the reports say of a field, and which of them do.
Column(s, c) == [n \in DOMAIN s |-> s[n][c]]
Reporting(s, c) == {n \in DOMAIN s : s[n][c] >= 0}
Reported(s, c) == Total(Only(Column(s, c), Reporting(s, c)))
SumOf(s, c) == IF Reporting(s, c) = {} THEN -1 ELSE Reported(s, c)

\* The sum of a field as the library's fold over a set has it.
LEMMA ReportedIs ==
    ASSUME NEW s \in Seq(Usage), NEW c \in Fields
    PROVE  MapThenSumSet(LAMBDA n : s[n][c], Reporting(s, c)) = Reported(s, c)
<1> DEFINE v == Column(s, c)
           T == Reporting(s, c)
           F(g) == [t \in SUBSET T |->
                        IF t = {} THEN 0
                        ELSE s[CHOOSE x \in t : TRUE][c] + g[t \ {CHOOSE x \in t : TRUE}]]
           h == [t \in SUBSET T |-> Total(Only(v, t))]
<1>1. v \in Seq(Int) /\ DOMAIN v = DOMAIN s /\ T \in SUBSET DOMAIN v
  <2>1. \A n \in 1 .. Len(s) : s[n][c] \in Int
    <3>1. \A n \in 1 .. Len(s) : s[n] \in Usage
      OBVIOUS
    <3> QED
      BY <3>1, UsageFields
  <2>2. v = [n \in 1 .. Len(s) |-> s[n][c]]
    BY DEF Column
  <2> HIDE DEF v
  <2>3. v \in Seq(Int)
    BY <2>1, <2>2
  <2> QED
    BY <2>3 DEF Reporting, v, Column
<1>2. MapThenSumSet(LAMBDA n : s[n][c], T) = (CHOOSE g : g = F(g))[T]
  BY DEF MapThenSumSet, MapThenFoldSet
<1>3. \A n \in T : v[n] = s[n][c]
  BY DEF Column, Reporting
<1>4. AddingUp(h, v, T)
  <2> HIDE DEF v, T
  <2> QED
    BY <1>1, SumIs
<1> HIDE DEF v, T
<1>5. h = F(h)
  <2>1. ASSUME NEW t \in SUBSET T, t # {}
        PROVE  h[t] = s[CHOOSE x \in t : TRUE][c] + h[t \ {CHOOSE x \in t : TRUE}]
    <3>1. PICK i : i = (CHOOSE x \in t : TRUE) /\ i \in t
      BY <2>1
    <3>2. h[t] = v[i] + h[t \ {i}]
      BY <1>4, <2>1, <3>1 DEF AddingUp
    <3> QED
      BY <1>3, <3>1, <3>2
  <2>2. h[{}] = 0
    BY <1>4 DEF AddingUp
  <2> QED
    BY <2>1, <2>2
<1>6. PICK g : g = F(g) /\ MapThenSumSet(LAMBDA n : s[n][c], T) = g[T]
  <2> HIDE DEF F
  <2> QED
    BY <1>2, <1>5
<1>7. AddingUp(g, v, T)
  <2>1. ASSUME NEW t \in SUBSET T, t # {}
        PROVE  g[t] = v[CHOOSE x \in t : TRUE] + g[t \ {CHOOSE x \in t : TRUE}]
    <3>1. PICK i : i = (CHOOSE x \in t : TRUE) /\ i \in t
      BY <2>1
    <3>2. g[t] = s[i][c] + g[t \ {i}]
      BY <1>6, <2>1, <3>1
    <3> QED
      BY <1>3, <3>1, <3>2
  <2>2. g[{}] = 0
    BY <1>6
  <2> QED
    BY <2>1, <2>2 DEF AddingUp
<1>8. g[T] = Total(Only(v, T))
  BY <1>1, <1>7, SumIs
<1> QED
  BY <1>6, <1>8 DEF v, T, Reported

\* Numbers at the places up to N are a sequence.
LEMMA NumbersAreSeq ==
    ASSUME NEW N \in Nat, NEW f, f = [n \in 1 .. N |-> f[n]], \A n \in 1 .. N : f[n] \in Int
    PROVE  f \in Seq(Int) /\ Len(f) = N
<1>1. f \in [1 .. N -> Int]
  OBVIOUS
<1> QED
  BY <1>1

\* The sum of a field, a report at a time.
LEMMA ReportedAppend ==
    ASSUME NEW s \in Seq(Usage), NEW e \in Usage, NEW c \in Fields
    PROVE  /\ Reporting(<<>>, c) = {} /\ Reported(<<>>, c) = 0
           /\ Reported(s, c) \in Int
           /\ Reported(Append(s, e), c) = Reported(s, c) + (IF e[c] >= 0 THEN e[c] ELSE 0)
           /\ Reporting(Append(s, e), c) = {} <=> Reporting(s, c) = {} /\ e[c] < 0
<1> DEFINE u == Append(s, e)
           N == Len(s)
           x == IF e[c] >= 0 THEN e[c] ELSE 0
           o == Only(Column(s, c), Reporting(s, c))
           p == Only(Column(u, c), Reporting(u, c))
<1>1. /\ N \in Nat /\ DOMAIN s = 1 .. N /\ DOMAIN u = 1 .. N + 1 /\ u[N + 1] = e
      /\ \A n \in 1 .. N : u[n] = s[n] /\ s[n] \in Usage
  OBVIOUS
<1>2. e[c] \in Int /\ x \in Int /\ \A n \in 1 .. N : s[n][c] \in Int
  BY <1>1, UsageFields
<1>3. /\ DOMAIN o = 1 .. N
      /\ \A n \in 1 .. N : o[n] = IF s[n][c] >= 0 THEN s[n][c] ELSE 0
  BY <1>1 DEF Only, Column, Reporting
<1>4. /\ DOMAIN p = 1 .. N + 1
      /\ \A n \in 1 .. N + 1 : p[n] = IF u[n][c] >= 0 THEN u[n][c] ELSE 0
  BY <1>1 DEF Only, Column, Reporting
<1>5. o = [n \in 1 .. N |-> o[n]] /\ p = [n \in 1 .. N + 1 |-> p[n]]
  BY <1>1 DEF Only, Column
<1> HIDE DEF u, x, o, p
<1>6. /\ \A n \in 1 .. N : o[n] \in Int /\ p[n] = o[n]
      /\ p[N + 1] = x
  <2> HIDE DEF N
  <2>1. ASSUME NEW n \in 1 .. N PROVE o[n] \in Int /\ p[n] = o[n]
    <3>1. n \in 1 .. N + 1 /\ u[n] = s[n]
      BY <1>1
    <3>2. s[n][c] \in Int
      BY <1>2
    <3> DEFINE y == s[n][c]
    <3> HIDE DEF y
    <3>3. o[n] = (IF y >= 0 THEN y ELSE 0) /\ p[n] = (IF y >= 0 THEN y ELSE 0)
      BY <1>3, <1>4, <3>1 DEF y
    <3> QED
      BY <3>2, <3>3 DEF y
  <2>2. p[N + 1] = x
    <3>1. N + 1 \in 1 .. N + 1
      BY <1>1
    <3> QED
      BY <1>1, <1>4, <3>1 DEF x
  <2> QED
    BY <2>1, <2>2
<1>7. o \in Seq(Int) /\ Len(o) = N
  <2>1. N \in Nat /\ o = [n \in 1 .. N |-> o[n]] /\ \A n \in 1 .. N : o[n] \in Int
    BY <1>1, <1>5, <1>6
  <2> HIDE DEF N
  <2> QED
    BY <2>1, NumbersAreSeq
<1>8. p = Append(o, x)
  <2> DEFINE b == Append(o, x)
  <2> HIDE DEF N
  <2>1. b \in Seq(Int) /\ Len(b) = N + 1 /\ b[N + 1] = x /\ \A n \in 1 .. N : b[n] = o[n]
    BY <1>1, <1>2, <1>7, AppendProperties
  <2>2. \A n \in 1 .. N + 1 : n \in 1 .. N \/ n = N + 1
    BY <1>1
  <2> HIDE DEF b
  <2>3. \A n \in 1 .. N + 1 : p[n] = b[n]
    BY Zenon, <1>6, <2>1, <2>2
  <2>4. \A n \in 1 .. N + 1 : p[n] \in Int
    BY Zenon, <1>2, <1>6, <2>2
  <2> DEFINE M == N + 1
  <2>5. M \in Nat /\ p = [n \in 1 .. M |-> p[n]] /\ \A n \in 1 .. M : p[n] \in Int
    BY <1>1, <1>5, <2>4
  <2>6. p \in Seq(Int) /\ Len(p) = M
    <3> HIDE DEF M
    <3> QED
      BY <2>5, NumbersAreSeq
  <2>7. p = b
    BY <2>1, <2>3, <2>6, SeqEqual
  <2> QED
    BY <2>7 DEF b
<1>9. Reported(s, c) \in Int /\ Reported(u, c) = Reported(s, c) + x
  <2>1. Total(o) \in Int /\ Total(Append(o, x)) = Total(o) + x
    BY <1>2, <1>7, TotalAppend
  <2> QED
    BY <1>8, <2>1 DEF Reported, o, p
<1>10. Reporting(<<>>, c) = {} /\ Reported(<<>>, c) = 0
  <2> DEFINE z == <<>>
  <2>1. Reporting(z, c) = {} /\ Only(Column(z, c), Reporting(z, c)) = z
    BY DEF Reporting, Only, Column
  <2> HIDE DEF z
  <2>2. Total(<<>>) = 0
    BY <1>2, <1>7, TotalAppend
  <2> QED
    BY <2>1, <2>2 DEF Reported, z
<1>11. Reporting(u, c) = {} <=> Reporting(s, c) = {} /\ e[c] < 0
  <2> HIDE DEF N
  <2>1. ASSUME NEW n \in Reporting(s, c) PROVE n \in Reporting(u, c)
    <3>1. n \in 1 .. N + 1 /\ n \in 1 .. N
      BY <1>1 DEF Reporting
    <3> QED
      BY <1>1, <3>1 DEF Reporting
  <2>2. e[c] >= 0 => N + 1 \in Reporting(u, c)
    <3>1. N + 1 \in 1 .. N + 1
      BY <1>1
    <3> QED
      BY <1>1, <3>1 DEF Reporting
  <2>3. ASSUME NEW n \in Reporting(u, c) PROVE n \in Reporting(s, c) \/ e[c] >= 0
    <3>1. n \in 1 .. N \/ n = N + 1
      BY <1>1 DEF Reporting
    <3> QED
      BY <1>1, <3>1 DEF Reporting
  <2>4. e[c] < 0 <=> ~(e[c] >= 0)
    BY <1>2
  <2> QED
    BY <2>1, <2>2, <2>3, <2>4
<1> QED
  BY <1>9, <1>10, <1>11 DEF u, x

\* The last report that says whether it was fast.
Knowing(s) == {n \in DOMAIN s : s[n].fast # "unknown"}
FastOf(s) == IF Knowing(s) = {} THEN "unknown" ELSE s[Max(Knowing(s))].fast

\* It is the next one, if that one says so.
LEMMA FastAppend ==
    ASSUME NEW s \in Seq(Usage), NEW e \in Usage
    PROVE  FastOf(Append(s, e)) = IF e.fast = "unknown" THEN FastOf(s) ELSE e.fast
<1> DEFINE u == Append(s, e)
           N == Len(s)
<1>1. /\ N \in Nat /\ DOMAIN s = 1 .. N /\ DOMAIN u = 1 .. N + 1 /\ u[N + 1] = e
      /\ \A n \in 1 .. N : u[n] = s[n]
      /\ \A n \in 1 .. N + 1 : n \in 1 .. N \/ n = N + 1
      /\ N + 1 \in 1 .. N + 1 /\ \A n \in 1 .. N : n \in 1 .. N + 1
  OBVIOUS
<1> HIDE DEF u, N
<1>2. CASE e.fast = "unknown"
  <2>1. Knowing(u) = Knowing(s)
    BY <1>1, <1>2 DEF Knowing
  <2>2. CASE Knowing(s) = {}
    BY <1>2, <2>1, <2>2 DEF FastOf, u
  <2>3. CASE Knowing(s) # {}
    <3>1. Max(Knowing(s)) \in Knowing(s)
      <4>1. Knowing(s) \in SUBSET (1 .. N)
        BY <1>1 DEF Knowing
      <4> QED
        BY <1>1, <2>3, <4>1, MaxOfSegment
    <3>2. u[Max(Knowing(s))] = s[Max(Knowing(s))]
      BY <1>1, <3>1 DEF Knowing
    <3> QED
      BY <1>2, <2>1, <2>3, <3>2 DEF FastOf, u
  <2> QED
    BY <2>2, <2>3
<1>3. CASE e.fast # "unknown"
  <2>1. N + 1 \in Knowing(u) /\ Knowing(u) \in SUBSET (1 .. N + 1)
    BY <1>1, <1>3 DEF Knowing
  <2> DEFINE M == N + 1
  <2>2. M \in Nat
    BY <1>1
  <2>3. Max(Knowing(u)) \in 1 .. M /\ Max(Knowing(u)) >= M
    <3> HIDE DEF M
    <3> QED
      BY <2>1, <2>2, MaxOfSegment DEF M
  <2>4. Max(Knowing(u)) = M
    BY <2>2, <2>3
  <2> QED
    BY <1>1, <1>3, <2>1, <2>4 DEF FastOf, u
<1> QED
  BY <1>2, <1>3

\* What has been accounted for is the sum of it.
CostOf(s) == IF \E n \in DOMAIN s : Unpriced(s[n]) THEN -1 ELSE SumOf(s, "cost")

Accounted(s) ==
    /\ \A c \in Fields : Reported(s, c) >= 0
    /\ \A c \in Counts : UsageOf(s)[c] = SumOf(s, c)
    /\ UsageOf(s).cost = CostOf(s)
    /\ UsageOf(s).fast = FastOf(s)

\* A report more adds to a sum.
LEMMA SumOfAppend ==
    ASSUME NEW s \in Seq(Usage), NEW e \in Usage, NEW c \in Fields, Reported(s, c) >= 0
    PROVE  /\ SumOf(Append(s, e), c) = Sum2(SumOf(s, c), e[c])
           /\ SumOf(s, c) \in Int
           /\ SumOf(s, c) >= 0 <=> Reporting(s, c) # {}
           /\ Reported(Append(s, e), c) >= 0
<1> DEFINE u == Append(s, e)
           x == e[c]
           S == SumOf(s, c)
           R == Reported(s, c)
<1>1. x \in Int
  BY UsageFields
<1>2. /\ R \in Int /\ R >= 0
      /\ Reported(u, c) = R + (IF x >= 0 THEN x ELSE 0)
      /\ Reporting(u, c) = {} <=> Reporting(s, c) = {} /\ x < 0
  BY ReportedAppend
<1>3. Reporting(s, c) = {} => R = 0
  <2>1. SUFFICES ASSUME Reporting(s, c) = {} PROVE R = 0
    OBVIOUS
  <2>2. Column(s, c) \in Seq(Int)
    <3> DEFINE N == Len(s)
               v == Column(s, c)
    <3>1. N \in Nat /\ v = [n \in 1 .. N |-> s[n][c]] /\ \A n \in 1 .. N : s[n] \in Usage
      BY DEF Column
    <3>2. \A n \in 1 .. N : s[n][c] \in Int
      BY <3>1, UsageFields
    <3> HIDE DEF N, v
    <3>3. v = [n \in 1 .. N |-> v[n]] /\ \A n \in 1 .. N : v[n] \in Int
      BY <3>1, <3>2
    <3>4. v \in Seq(Int)
      BY <3>1, <3>3, NumbersAreSeq
    <3> QED
      BY <3>4 DEF v
  <2>3. Reporting(s, c) \in SUBSET DOMAIN Column(s, c)
    BY <2>1
  <2> QED
    BY <2>1, <2>2, <2>3, OnlyIs DEF Reported
<1>4. S = (IF Reporting(s, c) = {} THEN -1 ELSE R) /\ SumOf(u, c) = IF Reporting(u, c) = {} THEN -1 ELSE Reported(u, c)
  BY DEF SumOf
<1> HIDE DEF u, x, S, R
<1>5. S \in Int /\ (S >= 0 <=> Reporting(s, c) # {})
  BY <1>2, <1>4
<1>6. Sum2(S, x) = IF x < 0 THEN S ELSE (IF S >= 0 THEN S ELSE 0) + x
  BY <1>1, <1>5, Sum2Is
<1>7. SumOf(u, c) = Sum2(S, x)
  <2>1. CASE x < 0
    BY <1>1, <1>2, <1>4, <1>6, <2>1
  <2>2. CASE x >= 0 /\ Reporting(s, c) = {}
    BY <1>1, <1>2, <1>3, <1>4, <1>6, <2>2
  <2>3. CASE x >= 0 /\ Reporting(s, c) # {}
    BY <1>1, <1>2, <1>4, <1>6, <2>3
  <2> QED
    BY <1>1, <2>1, <2>2, <2>3
<1> QED
  BY <1>1, <1>2, <1>5, <1>7 DEF u, x, S

\* That stays so with every report.
LEMMA AccountedAppend ==
    ASSUME NEW s \in Seq(Usage), NEW e \in Usage, Accounted(s)
    PROVE  Accounted(Append(s, e))
<1> DEFINE u == Append(s, e)
           a == UsageOf(s)
<1>1. a \in Usage /\ UsageOf(u) = Add(a, e)
  BY UsageAppend
<1>2. /\ \A c \in Counts : a[c] = SumOf(s, c)
      /\ a.cost = CostOf(s) /\ a.fast = FastOf(s)
      /\ \A c \in Fields : Reported(s, c) >= 0
  BY DEF Accounted
<1>3. \A c \in Fields : /\ SumOf(u, c) = Sum2(SumOf(s, c), e[c]) /\ SumOf(s, c) \in Int
                        /\ SumOf(s, c) >= 0 <=> Reporting(s, c) # {}
                        /\ Reported(u, c) >= 0
  BY <1>2, SumOfAppend
<1>4. DOMAIN s \subseteq DOMAIN u /\ \A n \in DOMAIN s : u[n] = s[n]
  OBVIOUS
<1>5. Len(s) + 1 \in DOMAIN u /\ u[Len(s) + 1] = e /\ \A n \in DOMAIN u : n \in DOMAIN s \/ n = Len(s) + 1
  OBVIOUS
<1> HIDE DEF u, a
<1>6. \A c \in Counts : UsageOf(u)[c] = SumOf(u, c)
  <2>1. \A c \in Counts : Add(a, e)[c] = Sum2(a[c], e[c])
    BY <1>1, AddIs
  <2> QED
    BY <1>1, <1>2, <1>3, <2>1 DEF Fields
<1>7. UsageOf(u).fast = FastOf(u)
  <2>1. Add(a, e).fast = IF e.fast = "unknown" THEN a.fast ELSE e.fast
    BY <1>1, AddIs
  <2>2. FastOf(u) = IF e.fast = "unknown" THEN FastOf(s) ELSE e.fast
    BY FastAppend DEF u
  <2> QED
    BY <1>1, <1>2, <2>1, <2>2
<1>8. (\E n \in DOMAIN u : Unpriced(u[n])) <=> (\E n \in DOMAIN s : Unpriced(s[n])) \/ Unpriced(e)
  BY Zenon, <1>4, <1>5
<1>9. (\E n \in DOMAIN s : Unpriced(s[n])) <=> Unpriced(a)
  <2>1. /\ a.input = SumOf(s, "input") /\ a.output = SumOf(s, "output")
        /\ SumOf(s, "input") >= 0 <=> Reporting(s, "input") # {}
        /\ SumOf(s, "output") >= 0 <=> Reporting(s, "output") # {}
        /\ SumOf(s, "cost") \in Int
        /\ SumOf(s, "cost") >= 0 <=> Reporting(s, "cost") # {}
    BY <1>2, <1>3 DEF Fields, Counts
  <2>2. \A n \in DOMAIN s : s[n].cost \in Int
    <3>1. \A n \in DOMAIN s : s[n] \in Usage
      OBVIOUS
    <3> QED
      BY <3>1, UsageFields
  <2>3. ASSUME NEW n \in DOMAIN s, Unpriced(s[n]) PROVE Unpriced(a)
    <3>1. s[n].input >= 0 \/ s[n].output >= 0
      BY <2>3 DEF Unpriced
    <3>2. Reporting(s, "input") # {} \/ Reporting(s, "output") # {}
      BY <3>1 DEF Reporting
    <3>3. a.input >= 0 \/ a.output >= 0
      BY <2>1, <3>2
    <3>4. CostOf(s) = -1
      BY <2>3 DEF CostOf
    <3>5. a.cost < 0
      BY <1>2, <3>4
    <3> QED
      BY <3>3, <3>5 DEF Unpriced
  <2>4. ASSUME ~\E n \in DOMAIN s : Unpriced(s[n]) PROVE ~Unpriced(a)
    <3>1. a.cost = SumOf(s, "cost")
      BY <1>2, <2>4 DEF CostOf
    <3>2. SUFFICES ASSUME a.cost < 0, a.input >= 0 \/ a.output >= 0 PROVE FALSE
      BY DEF Unpriced
    <3>3. ~(SumOf(s, "cost") >= 0)
      BY <2>1, <3>1, <3>2
    <3>4. Reporting(s, "cost") = {} /\ (Reporting(s, "input") # {} \/ Reporting(s, "output") # {})
      BY <2>1, <3>2, <3>3
    <3>5. PICK n \in DOMAIN s : s[n].input >= 0 \/ s[n].output >= 0
      BY <3>4 DEF Reporting
    <3>6. ~(s[n].cost >= 0)
      BY <3>4 DEF Reporting
    <3>7. s[n].cost < 0
      BY <2>2, <3>6
    <3> QED
      BY <2>4, <3>5, <3>7 DEF Unpriced
  <2> QED
    BY <2>3, <2>4
<1>10. UsageOf(u).cost = CostOf(u)
  <2>1. Add(a, e).cost = IF Unpriced(a) \/ Unpriced(e) THEN -1 ELSE Sum2(a.cost, e.cost)
    BY <1>1, AddIs
  <2>2. SumOf(u, "cost") = Sum2(SumOf(s, "cost"), e.cost)
    BY <1>3 DEF Fields
  <2>3. CostOf(u) = IF Unpriced(a) \/ Unpriced(e) THEN -1 ELSE SumOf(u, "cost")
    BY <1>8, <1>9 DEF CostOf
  <2>4. ~Unpriced(a) => a.cost = SumOf(s, "cost")
    BY <1>2, <1>9 DEF CostOf
  <2> QED
    BY Zenon, <1>1, <2>1, <2>2, <2>3, <2>4
<1> QED
  BY <1>3, <1>6, <1>7, <1>10 DEF Accounted, u

\* It is so of every stream.
LEMMA AccountedAll ==
    ASSUME NEW s \in Seq(Usage)
    PROVE  Accounted(s)
<1> DEFINE S == {v \in Seq(Usage) : Accounted(v)}
<1>1. <<>> \in S
  <2> DEFINE z == <<>>
  <2>1. z \in Seq(Usage) /\ DOMAIN z = {}
    BY EmptySeq
  <2>2. NewStreamUsage \in Usage
    BY UsageIsFolded
  <2>3. UsageOf(z) = NewStreamUsage
    BY <2>1, <2>2, UsageAppend
  <2>4. \A c \in Fields : Reporting(z, c) = {} /\ Reported(z, c) = 0
    BY <2>1, <2>2, ReportedAppend
  <2> HIDE DEF z
  <2>5. \A c \in Fields : SumOf(z, c) = -1
    BY <2>4 DEF SumOf
  <2>6. /\ \A c \in Counts : UsageOf(z)[c] = -1
        /\ UsageOf(z).cost = -1 /\ UsageOf(z).fast = "unknown"
    BY <2>3 DEF NewStreamUsage, Counts
  <2>7. CostOf(z) = -1 /\ FastOf(z) = "unknown"
    BY <2>1, <2>5 DEF CostOf, FastOf, Knowing, Fields
  <2>8. \A c \in Fields : Reported(z, c) >= 0
    BY <2>4
  <2>9. Accounted(z)
    BY <2>5, <2>6, <2>7, <2>8 DEF Accounted, Fields
  <2> QED
    BY <2>1, <2>9 DEF z
<1>2. \A v \in Seq(Usage), e \in Usage : v \in S => Append(v, e) \in S
  BY AccountedAppend
<1> HIDE DEF S
<1>3. s \in S
  BY <1>1, <1>2, SeqSetInduction
<1> QED
  BY <1>3 DEF S

-----------------------------------------------------------------------------
(* Headers *)

Name == STRING
HeaderValue == STRING \cup {"", "v"}

\* What headersFromMap has made of the members it has seen.
Headers == UNION {[D -> Seq(HeaderValue)] : D \in SUBSET Name}

Taking(headers, member) == WithMember(headers, member, TRUE)

taking == [x \in Headers \X Member |-> Taking(x[1], x[2])]

HeadersOf(s) == headersFromMap(s, TRUE)

\* Headers with other values under a name.
LEMMA HeadersWith ==
    ASSUME NEW h \in Headers, NEW n \in Name, NEW v \in Seq(HeaderValue)
    PROVE  /\ With(h, n, v) \in Headers
           /\ DOMAIN With(h, n, v) = DOMAIN h \cup {n}
           /\ \A k \in DOMAIN h \cup {n} : With(h, n, v)[k] = IF k = n THEN v ELSE h[k]
<1> DEFINE o == With(h, n, v)
           D == DOMAIN h
<1>1. D \in SUBSET Name /\ h \in [D -> Seq(HeaderValue)]
  BY DEF Headers
<1>2. /\ o = [k \in D \cup {n} |-> o[k]]
      /\ \A k \in D \cup {n} : o[k] = IF k = n THEN v ELSE h[k]
  BY DEF With
<1>3. o \in [D \cup {n} -> Seq(HeaderValue)]
  <2> HIDE DEF o, D
  <2> QED
    BY <1>1, <1>2
<1>4. D \cup {n} \in SUBSET Name
  BY <1>1
<1> HIDE DEF o, D
<1>5. o \in Headers
  BY <1>3, <1>4 DEF Headers
<1>6. DOMAIN o = D \cup {n}
  BY <1>3
<1> QED
  BY <1>2, <1>5, <1>6 DEF o, D

\* No headers yet.
LEMMA NoHeaders == <<>> \in Headers /\ DOMAIN <<>> = {}
<1> DEFINE z == <<>>
<1>1. z \in Seq(HeaderValue) /\ Len(z) = 0
  BY EmptySeq
<1>2. DOMAIN z = {} /\ z = [k \in {} |-> z[k]]
  OBVIOUS
<1> HIDE DEF z
<1>3. z \in [{} -> Seq(HeaderValue)]
  BY <1>2
<1> QED
  BY <1>2, <1>3 DEF z, Headers

\* What goes under a name when a member is taken, if anything does.
Taken(headers, member) ==
    IF member.value = "" THEN <<"">>
    ELSE Append(Values(headers, member.name), resolveHeaderValue(member.value))

Sends(member) == member.value \notin {"bad", "$UNSET"}

\* A member changes only what is under its name.
LEMMA TakingIs ==
    ASSUME NEW h \in Headers, NEW m \in Member
    PROVE  /\ Taking(h, m) \in Headers
           /\ ~Sends(m) => Taking(h, m) = h
           /\ Sends(m) => /\ Taken(h, m) \in Seq(HeaderValue)
                          /\ DOMAIN Taking(h, m) = DOMAIN h \cup {m.name}
                          /\ \A k \in DOMAIN h \cup {m.name} :
                                Taking(h, m)[k] = IF k = m.name THEN Taken(h, m) ELSE h[k]
<1>1. m.name \in Name /\ m.value \in Name
  BY DEF Member, Name
<1>2. Taken(h, m) \in Seq(HeaderValue)
  <2>1. CASE m.value = ""
    <3> DEFINE e == ""
    <3>1. e \in HeaderValue
      BY DEF HeaderValue
    <3>2. Taken(h, m) = <<e>>
      BY <2>1 DEF Taken
    <3> HIDE DEF e
    <3>3. <<e>> \in Seq(HeaderValue)
      BY <3>1
    <3> QED
      BY <3>2, <3>3
  <2>2. CASE m.value # ""
    <3>1. Values(h, m.name) \in Seq(HeaderValue)
      <4>1. CASE m.name \in DOMAIN h
        BY <4>1 DEF Values, Headers
      <4>2. CASE m.name \notin DOMAIN h
        <5>1. <<>> \in Seq(HeaderValue)
          BY EmptySeq
        <5> QED
          BY <4>2, <5>1 DEF Values
      <4> QED
        BY <4>1, <4>2
    <3>2. resolveHeaderValue(m.value) \in HeaderValue
      BY <1>1 DEF resolveHeaderValue, HeaderValue, Name
    <3> QED
      BY <2>2, <3>1, <3>2, AppendProperties DEF Taken
  <2> QED
    BY <2>1, <2>2
<1>3. ~Sends(m) => Taking(h, m) = h
  BY DEF Taking, WithMember, Sends
<1>4. Sends(m) => Taking(h, m) = With(h, m.name, Taken(h, m))
  <2>1. Taking(h, m) = CASE m.value \in {"bad", "$UNSET"} \/ (m.value = "" /\ ~TRUE) -> h
                         [] m.value = "" /\ TRUE -> With(h, m.name, <<"">>)
                         [] OTHER -> With(h, m.name, Append(Values(h, m.name), resolveHeaderValue(m.value)))
    BY DEF Taking, WithMember
  <2> QED
    BY <2>1 DEF Taken, Sends
<1>5. /\ With(h, m.name, Taken(h, m)) \in Headers
      /\ DOMAIN With(h, m.name, Taken(h, m)) = DOMAIN h \cup {m.name}
      /\ \A k \in DOMAIN h \cup {m.name} :
            With(h, m.name, Taken(h, m))[k] = IF k = m.name THEN Taken(h, m) ELSE h[k]
  <2>1. PICK n, v : n = m.name /\ v = Taken(h, m)
    OBVIOUS
  <2>2. n \in Name /\ v \in Seq(HeaderValue)
    BY <1>1, <1>2, <2>1
  <2>3. With(h, n, v) \in Headers
    BY <2>2, HeadersWith
  <2>4. DOMAIN With(h, n, v) = DOMAIN h \cup {n}
    BY <2>2, HeadersWith
  <2>5. \A k \in DOMAIN h \cup {n} : With(h, n, v)[k] = IF k = n THEN v ELSE h[k]
    BY DEF With
  <2> QED
    BY <2>1, <2>3, <2>4, <2>5
<1> QED
  BY <1>2, <1>3, <1>4, <1>5

\* Making headers of members is a fold.
LEMMA HeadersAreFolded ==
    ASSUME NEW s \in Seq(Member)
    PROVE  /\ StepOn(taking, Headers, Member) /\ <<>> \in Headers
           /\ HeadersOf(s) = FoldedBy(taking, <<>>, s)
<1> DEFINE A == Headers
           B == Member
           base == <<>>
           step == taking
           F(g) == [t \in SUBSET (DOMAIN s) |->
                        IF t = {} THEN base ELSE Taking(g[t \ {Max(t)}], s[Max(t)])]
<1>1. StepOn(step, A, B) /\ base \in A
  <2>1. base \in A
    BY NoHeaders
  <2>2. StepOn(step, A, B)
    BY TakingIs DEF StepOn, taking
  <2> QED
    BY <2>1, <2>2
<1>2. s \in Seq(B)
  OBVIOUS
<1>3. HeadersOf(s) = (CHOOSE g : g = F(g))[DOMAIN s]
  BY DEF HeadersOf, headersFromMap, FoldLeft, MapThenFoldSet, Taking
<1>4. \A x \in A, b \in B : step[<<x, b>>] = Taking(x, b)
  BY DEF taking
<1> HIDE DEF A, B, base, step
<1>5. PICK h : Folding(h, A, B, step, base, s)
  BY <1>1, <1>2, FoldedByFunction
<1>6. h = F(h)
  <2>1. ASSUME NEW t \in SUBSET (DOMAIN s), t # {}
        PROVE  h[t] = Taking(h[t \ {Max(t)}], s[Max(t)])
    BY <1>4, <1>5, <2>1 DEF Folding
  <2> QED
    BY <1>5, <2>1 DEF Folding
<1>7. PICK g : g = F(g) /\ HeadersOf(s) = g[DOMAIN s]
  <2> HIDE DEF F
  <2> QED
    BY <1>3, <1>6
<1>8. Unfolding(g, A, B, step, base, s)
  BY <1>4, <1>7 DEF Unfolding
<1>9. HeadersOf(s) = FoldedBy(step, base, s)
  <2> HIDE DEF F
  <2> QED
    BY <1>1, <1>2, <1>7, <1>8, FoldedByUnfolding
<1> QED
  BY <1>1, <1>9 DEF A, B, base, step

\* Making headers, a member at a time.
LEMMA HeadersAppend ==
    ASSUME NEW s \in Seq(Member), NEW m \in Member
    PROVE  /\ HeadersOf(<<>>) = <<>>
           /\ HeadersOf(s) \in Headers
           /\ HeadersOf(Append(s, m)) = Taking(HeadersOf(s), m)
<1> DEFINE z == <<>>
           step == taking
<1>1. StepOn(step, Headers, Member) /\ z \in Headers
  BY HeadersAreFolded
<1>2. /\ HeadersOf(z) = FoldedBy(step, z, z) /\ HeadersOf(s) = FoldedBy(step, z, s)
      /\ HeadersOf(Append(s, m)) = FoldedBy(step, z, Append(s, m))
  <2>1. z \in Seq(Member) /\ Append(s, m) \in Seq(Member)
    BY EmptySeq
  <2>2. \A t \in Seq(Member) : HeadersOf(t) = FoldedBy(step, z, t)
    BY HeadersAreFolded
  <2> HIDE DEF z
  <2> QED
    BY <2>1, <2>2
<1>3. \A x \in Headers : step[<<x, m>>] = Taking(x, m)
  BY DEF taking
<1> HIDE DEF z, step
<1>4. /\ FoldedBy(step, z, <<>>) = z
      /\ FoldedBy(step, z, s) \in Headers
      /\ FoldedBy(step, z, Append(s, m)) = step[<<FoldedBy(step, z, s), m>>]
  BY <1>1, FoldedByAppend
<1> QED
  BY <1>2, <1>3, <1>4 DEF z

\* What a member more sends.
LEMMA SentAppend ==
    ASSUME NEW s \in Seq(Member), NEW m \in Member, NEW name
    PROVE  /\ Sent(<<>>, name) = {}
           /\ Sent(Append(s, m), name) =
                Sent(s, name) \cup (IF Sends(m) /\ m.name = name THEN {resolveHeaderValue(m.value)} ELSE {})
<1>1. Range(Append(s, m)) = Range(s) \cup {m}
  BY RangeAppend
<1>2. Sent(<<>>, name) = {}
  <2> DEFINE z == <<>>
  <2>1. Range(z) = {}
    BY EmptySeq DEF Range
  <2> HIDE DEF z
  <2>2. Sent(z, name) = {}
    BY <2>1 DEF Sent
  <2> QED
    BY <2>2 DEF z
<1> QED
  BY <1>1, <1>2 DEF Sent, Sends

\* What is under a name is what the members sent, but for what an empty value replaced;
\* then the first value is empty, and stays the first.
SentSoFar(s, h, name) ==
    /\ name \in DOMAIN h <=> Sent(s, name) # {}
    /\ name \in DOMAIN h =>
         /\ h[name] \in Seq(HeaderValue) /\ h[name] # <<>>
         /\ Head(h[name]) = "" <=> "" \in Sent(s, name)
         /\ "" \notin Sent(s, name) => Range(h[name]) = Sent(s, name)

\* The first element of a sequence with one more.
LEMMA HeadAppend ==
    ASSUME NEW B, NEW v \in Seq(B), NEW x \in B
    PROVE  /\ Append(v, x) # <<>>
           /\ Head(Append(v, x)) = IF v = <<>> THEN x ELSE Head(v)
<1>1. CASE v = <<>>
  BY <1>1
<1>2. CASE v # <<>>
  BY <1>2
<1> QED
  BY <1>1, <1>2

\* That stays so with every member.
LEMMA SentSoFarAppend ==
    ASSUME NEW s \in Seq(Member), NEW m \in Member, NEW name,
           SentSoFar(s, HeadersOf(s), name)
    PROVE  SentSoFar(Append(s, m), HeadersOf(Append(s, m)), name)
<1> DEFINE h == HeadersOf(s)
           u == Append(s, m)
           k == HeadersOf(u)
           r == resolveHeaderValue(m.value)
<1>1. h \in Headers /\ k = Taking(h, m)
  BY HeadersAppend
<1>2. Sent(u, name) = Sent(s, name) \cup (IF Sends(m) /\ m.name = name THEN {r} ELSE {})
  BY SentAppend
<1>3. SentSoFar(s, h, name)
  OBVIOUS
<1> HIDE DEF h, u, k, r
<1>4. CASE ~Sends(m) \/ m.name # name
  <2>1. Sent(u, name) = Sent(s, name)
    BY <1>2, <1>4
  <2>2. name \in DOMAIN k <=> name \in DOMAIN h
    <3>1. CASE ~Sends(m)
      BY <1>1, <3>1, TakingIs
    <3>2. CASE Sends(m)
      <4>1. DOMAIN k = DOMAIN h \cup {m.name}
        BY <1>1, <3>2, TakingIs
      <4> QED
        BY <1>4, <3>2, <4>1
    <3> QED
      BY <3>1, <3>2
  <2>3. name \in DOMAIN h => k[name] = h[name]
    BY <1>1, <1>4, TakingIs
  <2>4. SentSoFar(u, k, name)
    BY <1>3, <2>1, <2>2, <2>3 DEF SentSoFar
  <2> QED
    BY <2>4 DEF u, k
<1>5. CASE Sends(m) /\ m.name = name
  <2> DEFINE v == Taken(h, m)
  <2>1. v \in Seq(HeaderValue) /\ name \in DOMAIN k /\ k[name] = v
    BY <1>1, <1>5, TakingIs
  <2>2. Sent(u, name) = Sent(s, name) \cup {r}
    BY <1>2, <1>5
  <2>3. CASE m.value = ""
    <3> DEFINE e == ""
    <3>1. v = <<e>> /\ r = e
      BY <2>3 DEF Taken, r, resolveHeaderValue
    <3> HIDE DEF v, e
    <3>2. v # <<>> /\ Head(v) = e /\ e \in Sent(u, name)
      BY <2>2, <3>1
    <3>3. SentSoFar(u, k, name)
      BY <2>1, <3>2 DEF SentSoFar, e
    <3> QED
      BY <3>3 DEF u, k
  <2>4. CASE m.value # ""
    <3> DEFINE o == Values(h, name)
    <3>1. r # "" /\ r \in HeaderValue
      <4>1. m.value \in STRING
        BY DEF Member
      <4>2. r = m.value \/ r = "v"
        BY DEF r, resolveHeaderValue
      <4>3. r # ""
        BY <2>4 DEF r, resolveHeaderValue
      <4> QED
        BY <4>1, <4>2, <4>3 DEF HeaderValue
    <3>2. v = Append(o, r)
      BY <1>5, <2>4 DEF Taken, r
    <3>3. o \in Seq(HeaderValue) /\ (o = <<>> <=> name \notin DOMAIN h)
      <4>1. CASE name \in DOMAIN h
        BY <1>3, <4>1 DEF SentSoFar, Values
      <4>2. CASE name \notin DOMAIN h
        <5>1. <<>> \in Seq(HeaderValue)
          BY EmptySeq
        <5> QED
          BY <4>2, <5>1 DEF Values
      <4> QED
        BY <4>1, <4>2
    <3>4. name \in DOMAIN h => o = h[name]
      BY DEF Values
    <3> HIDE DEF v, o
    <3>5. v # <<>> /\ Head(v) = (IF o = <<>> THEN r ELSE Head(o)) /\ Range(v) = Range(o) \cup {r}
      <4>1. r \in HeaderValue /\ o \in Seq(HeaderValue)
        BY <3>1, <3>3
      <4>2. v # <<>> /\ Head(v) = IF o = <<>> THEN r ELSE Head(o)
        BY <3>2, <4>1, HeadAppend
      <4>3. Range(v) = Range(o) \cup {r}
        BY <3>2, <4>1, RangeAppend
      <4> QED
        BY <4>2, <4>3
    <3>6. Head(v) = "" <=> "" \in Sent(u, name)
      <4>1. CASE name \in DOMAIN h
        BY <1>3, <2>2, <3>1, <3>3, <3>4, <3>5, <4>1 DEF SentSoFar
      <4>2. CASE name \notin DOMAIN h
        BY <1>3, <2>2, <3>1, <3>3, <3>5, <4>2 DEF SentSoFar
      <4> QED
        BY <4>1, <4>2
    <3>7. "" \notin Sent(u, name) => Range(v) = Sent(u, name)
      <4>1. CASE name \in DOMAIN h
        BY <1>3, <2>2, <3>4, <3>5, <4>1 DEF SentSoFar
      <4>2. CASE name \notin DOMAIN h
        <5> DEFINE z == <<>>
        <5>1. Range(z) = {}
          BY EmptySeq DEF Range
        <5> HIDE DEF z
        <5>2. Range(o) = {}
          BY <3>3, <4>2, <5>1 DEF z
        <5> QED
          BY <1>3, <2>2, <3>5, <4>2, <5>2 DEF SentSoFar
      <4> QED
        BY <4>1, <4>2
    <3>8. SentSoFar(u, k, name)
      BY <2>1, <2>2, <3>5, <3>6, <3>7 DEF SentSoFar
    <3> QED
      BY <3>8 DEF u, k
  <2> QED
    BY <2>3, <2>4
<1> QED
  BY <1>4, <1>5

\* It is so of every object.
LEMMA SentSoFarAll ==
    ASSUME NEW s \in Seq(Member), NEW name
    PROVE  /\ HeadersOf(s) \in Headers
           /\ SentSoFar(s, HeadersOf(s), name)
<1> DEFINE S == {v \in Seq(Member) : HeadersOf(v) \in Headers /\ SentSoFar(v, HeadersOf(v), name)}
<1>1. <<>> \in S
  <2> DEFINE z == <<>>
  <2>1. z \in Seq(Member)
    BY EmptySeq
  <2>2. HeadersOf(z) = z /\ DOMAIN z = {} /\ z \in Headers
    <3>1. /\ FoldedBy(taking, z, z) = z /\ HeadersOf(z) = FoldedBy(taking, z, z)
      <4>1. StepOn(taking, Headers, Member) /\ z \in Headers /\ HeadersOf(z) = FoldedBy(taking, z, z)
        BY <2>1, HeadersAreFolded
      <4>2. FoldedBy(taking, z, <<>>) = z
        <5> HIDE DEF z
        <5> QED
          BY <4>1, FoldedByEmpty
      <4> QED
        BY <4>1, <4>2
    <3> QED
      BY <3>1, NoHeaders
  <2>3. Sent(z, name) = {}
    <3>1. Range(z) = {}
      BY EmptySeq DEF Range
    <3> HIDE DEF z
    <3> QED
      BY <3>1 DEF Sent
  <2> HIDE DEF z
  <2>4. SentSoFar(z, HeadersOf(z), name)
    BY <2>2, <2>3 DEF SentSoFar
  <2> QED
    BY <2>1, <2>2, <2>4 DEF z
<1>2. ASSUME NEW v \in Seq(Member), NEW m \in Member, v \in S PROVE Append(v, m) \in S
  <2>1. HeadersOf(Append(v, m)) = Taking(HeadersOf(v), m) /\ HeadersOf(v) \in Headers
    BY HeadersAppend
  <2>2. HeadersOf(Append(v, m)) \in Headers
    BY <2>1, TakingIs
  <2>3. SentSoFar(Append(v, m), HeadersOf(Append(v, m)), name)
    BY <1>2, SentSoFarAppend
  <2>4. Append(v, m) \in Seq(Member)
    OBVIOUS
  <2> QED
    BY <2>2, <2>3, <2>4
<1> HIDE DEF S
<1>3. s \in S
  BY <1>1, <1>2, SeqSetInduction
<1> QED
  BY <1>3 DEF S

\* A sequence is one of a larger set.
LEMMA SeqOfMore ==
    ASSUME NEW B, NEW C, B \subseteq C, NEW s \in Seq(B)
    PROVE  s \in Seq(C)
  OBVIOUS

\* What HeadersAsConfigured says of one call.
LEMMA HeadersMerged ==
    ASSUME NEW d \in Seq(Default), NEW c \in Seq(Member)
    PROVE  Merged(d, c, DefaultHeaders(d, c))
<1> DEFINE hd == HeadersOf(d)
           hc == HeadersOf(c)
           R == DefaultHeaders(d, c)
           removed == {n \in DOMAIN hc : Head(hc[n]) = ""}
           kept == (DOMAIN hd \cup DOMAIN hc) \ removed
           Expected(n) == IF Sent(c, n) # {} THEN Sent(c, n) ELSE Sent(d, n)
           names == {m.name : m \in Range(c) \cup Range(d)}
<1>1. d \in Seq(Member)
  <2>1. Default \subseteq Member
    BY DEF Default
  <2> QED
    BY <2>1, SeqOfMore
<1>2. \A n : SentSoFar(d, hd, n) /\ SentSoFar(c, hc, n)
  BY <1>1, SentSoFarAll
<1>3. R = [n \in kept |-> IF n \in DOMAIN hc THEN hc[n] ELSE hd[n]]
  BY DEF DefaultHeaders, MergeHeaders, HeadersOf
<1>4. \A n : "" \notin Sent(d, n)
  <2>1. \A m \in Range(d) : m.value # ""
    <3>1. \A i \in DOMAIN d : d[i] \in Default
      OBVIOUS
    <3> QED
      BY <3>1 DEF Range, Default
  <2> QED
    BY <2>1 DEF Sent, resolveHeaderValue
<1>5. \A n : Sent(c, n) # {} \/ Sent(d, n) # {} => n \in names
  BY DEF Sent
<1> HIDE DEF hd, hc, R, names
<1>6. \A n : n \in removed <=> "" \in Sent(c, n)
  BY <1>2 DEF SentSoFar
<1>7. \A n : n \in kept <=> n \in names /\ Expected(n) # {} /\ "" \notin Expected(n)
  <2>1. \A n : n \in DOMAIN hc <=> Sent(c, n) # {}
    BY <1>2 DEF SentSoFar
  <2>2. \A n : n \in DOMAIN hd <=> Sent(d, n) # {}
    BY <1>2 DEF SentSoFar
  <2> HIDE DEF removed
  <2> QED
    BY <1>4, <1>5, <1>6, <2>1, <2>2
<1>8. DOMAIN R = {n \in names : Expected(n) # {} /\ "" \notin Expected(n)}
  <2> HIDE DEF Expected, kept
  <2> QED
    BY <1>3, <1>7
<1>9. ASSUME NEW n \in DOMAIN R PROVE Range(R[n]) = Expected(n)
  <2>1. n \in kept /\ "" \notin Expected(n)
    <3> HIDE DEF Expected
    <3> QED
      BY <1>8, <1>7
  <2>2. R[n] = IF n \in DOMAIN hc THEN hc[n] ELSE hd[n]
    BY <1>3, <2>1
  <2>3. CASE n \in DOMAIN hc
    <3>1. Sent(c, n) # {}
      BY <1>2, <2>3 DEF SentSoFar
    <3>2. Range(hc[n]) = Sent(c, n)
      BY <1>2, <2>1, <2>3, <3>1 DEF SentSoFar
    <3> QED
      BY <2>2, <2>3, <3>1, <3>2
  <2>4. CASE n \notin DOMAIN hc
    <3>1. Sent(c, n) = {} /\ n \in DOMAIN hd
      BY <1>2, <2>1, <2>4 DEF SentSoFar
    <3>2. Range(hd[n]) = Sent(d, n)
      BY <1>2, <1>4, <3>1 DEF SentSoFar
    <3> QED
      BY <2>2, <2>4, <3>1, <3>2
  <2> QED
    BY <2>3, <2>4
<1>10. Merged(d, c, R)
  BY <1>8, <1>9 DEF Merged, names
<1> QED
  BY <1>10 DEF R

-----------------------------------------------------------------------------
(* The numbers of a set in their order *)

appending(N) == [x \in Seq(1 .. N) \X (1 .. N) |-> Append(x[1], x[2])]

\* Ascending is what a function gives that appends the greatest of a set last.
LEMMA AscendingIs ==
    ASSUME NEW N \in Nat
    PROVE  \E h : /\ Computing(h, Seq(1 .. N), <<>>, appending(N), N)
                  /\ \A S \in SUBSET (1 .. N) : Ascending(S) = h[S]
<1> DEFINE A == Seq(1 .. N)
           base == <<>>
           step == appending(N)
<1>1. StepOn(step, A, 1 .. N) /\ base \in A
  BY EmptySeq DEF StepOn, appending
<1>2. \A x \in A, n \in 1 .. N : step[<<x, n>>] = Append(x, n)
  BY DEF appending
<1> HIDE DEF A, base, step
<1>3. PICK h : Computing(h, A, base, step, N)
  BY <1>1, FoldExists
<1>4. ASSUME NEW S \in SUBSET (1 .. N) PROVE Ascending(S) = h[S]
  <2> DEFINE F(g) == [t \in SUBSET S |-> IF t = {} THEN <<>> ELSE Append(g[t \ {Max(t)}], Max(t))]
             k == [t \in SUBSET S |-> h[t]]
  <2>1. ASSUME NEW t \in SUBSET (1 .. N), t # {}
        PROVE  /\ Max(t) \in t /\ t \ {Max(t)} \in SUBSET (1 .. N)
               /\ h[t] = Append(h[t \ {Max(t)}], Max(t))
    <3>1. Max(t) \in t /\ t \ {Max(t)} \in SUBSET (1 .. N)
      BY <2>1, MaxOfSegment
    <3>2. h[t \ {Max(t)}] \in A
      BY <1>3, <3>1 DEF Computing
    <3>3. h[t] = step[<<h[t \ {Max(t)}], Max(t)>>]
      BY <1>3, <2>1 DEF Computing
    <3> QED
      BY <1>2, <3>1, <3>2, <3>3
  <2>2. h[{}] = <<>>
    BY <1>3 DEF Computing, base
  <2>3. k = F(k)
    <3>1. ASSUME NEW t \in SUBSET S
          PROVE  h[t] = IF t = {} THEN <<>> ELSE Append(k[t \ {Max(t)}], Max(t))
      <4>1. t \in SUBSET (1 .. N) /\ t \ {Max(t)} \in SUBSET S
        OBVIOUS
      <4> QED
        BY <2>1, <2>2, <4>1
    <3> QED
      BY <3>1
  <2>4. Ascending(S) = (CHOOSE g : g = F(g))[S]
    BY DEF Ascending, MapThenFoldSet
  <2>5. PICK g : g = F(g) /\ Ascending(S) = g[S]
    <3> HIDE DEF F, k
    <3> QED
      BY <2>3, <2>4
  <2> DEFINE f == [t \in SUBSET (1 .. N) |-> IF t \in SUBSET S THEN g[t] ELSE h[t]]
  <2>6. Agreeing(N, f, h)
    <3>1. f[{}] = h[{}]
      BY <2>2, <2>5
    <3>2. ASSUME NEW t \in SUBSET (1 .. N), t # {}, f[t \ {Max(t)}] = h[t \ {Max(t)}]
          PROVE  f[t] = h[t]
      <4>1. CASE t \in SUBSET S
        <5>1. t \ {Max(t)} \in SUBSET S /\ t \ {Max(t)} \in SUBSET (1 .. N)
          BY <4>1
        <5>2. g[t] = Append(g[t \ {Max(t)}], Max(t))
          BY <2>5, <3>2, <4>1
        <5>3. f[t] = g[t] /\ f[t \ {Max(t)}] = g[t \ {Max(t)}]
          BY <4>1, <5>1
        <5> QED
          BY <2>1, <3>2, <5>2, <5>3
      <4>2. CASE t \notin SUBSET S
        BY <4>2
      <4> QED
        BY <4>1, <4>2
    <3> HIDE DEF f
    <3> QED
      BY <3>1, <3>2 DEF Agreeing
  <2> HIDE DEF f
  <2>7. f[S] = h[S]
    BY <2>6, FoldUnique
  <2>8. f[S] = g[S]
    BY DEF f
  <2> QED
    BY <2>5, <2>7, <2>8
<1> QED
  BY <1>3, <1>4 DEF A, base, step

\* A number above those of a set comes last.
LEMMA AscendingWith ==
    ASSUME NEW N \in Nat, NEW S \in SUBSET (1 .. N)
    PROVE  /\ Ascending({}) = <<>>
           /\ Ascending(S) \in Seq(1 .. N)
           /\ Ascending(S \cup {N + 1}) = Append(Ascending(S), N + 1)
<1> DEFINE M == N + 1
           T == S \cup {M}
<1>1. M \in Nat /\ S \in SUBSET (1 .. M) /\ T \in SUBSET (1 .. M) /\ M \in 1 .. M /\ T # {}
  OBVIOUS
<1>2. Ascending(S) \in Seq(1 .. N) /\ Ascending({}) = <<>>
  <2>1. PICK h : /\ Computing(h, Seq(1 .. N), <<>>, appending(N), N)
                 /\ \A U \in SUBSET (1 .. N) : Ascending(U) = h[U]
    BY AscendingIs
  <2>2. {} \in SUBSET (1 .. N)
    OBVIOUS
  <2> QED
    BY <2>1, <2>2 DEF Computing
<1>3. Max(T) = M
  <2>1. Max(T) \in T /\ \A y \in T : Max(T) >= y
    <3> HIDE DEF M, T
    <3> QED
      BY <1>1, MaxOfSegment
  <2>2. M \in T
    OBVIOUS
  <2> HIDE DEF M, T
  <2>3. Max(T) >= M /\ Max(T) \in 1 .. M
    BY <1>1, <2>1, <2>2
  <2> QED
    BY <1>1, <2>3
<1>4. T \ {M} = S
  BY <1>1
<1> HIDE DEF M, T
<1>5. Ascending(T) = Append(Ascending(S), M)
  <2>1. PICK h : /\ Computing(h, Seq(1 .. M), <<>>, appending(M), M)
                 /\ \A U \in SUBSET (1 .. M) : Ascending(U) = h[U]
    BY <1>1, AscendingIs
  <2>2. h[T] = appending(M)[<<h[S], M>>] /\ h[S] \in Seq(1 .. M)
    BY <1>1, <1>3, <1>4, <2>1 DEF Computing
  <2>3. appending(M)[<<h[S], M>>] = Append(h[S], M)
    BY <1>1, <2>2 DEF appending
  <2> QED
    BY <1>1, <2>1, <2>2, <2>3
<1> QED
  BY <1>2, <1>5 DEF M, T

-----------------------------------------------------------------------------
(* The fields of a parser *)

ParserOf(l, e, d, n, o, r, x) ==
    [line |-> l, event |-> e, data |-> d, eventBytes |-> n, out |-> o, refuses |-> r, error |-> x]

\* Another line.
PutLine(p, v) == [p EXCEPT !.line = v]

\* Its fields.
LEMMA PutLineIs ==
    ASSUME NEW l, NEW e, NEW d, NEW n, NEW o, NEW r, NEW x, NEW v
    PROVE  PutLine(ParserOf(l, e, d, n, o, r, x), v) = ParserOf(v, e, d, n, o, r, x)
BY DEF PutLine, ParserOf

\* Another event.
PutEvent(p, v, w, u) == [p EXCEPT !.event = v, !.data = w, !.eventBytes = u]

\* Its fields.
LEMMA PutEventIs ==
    ASSUME NEW l, NEW e, NEW d, NEW n, NEW o, NEW r, NEW x, NEW v, NEW w, NEW u
    PROVE  PutEvent(ParserOf(l, e, d, n, o, r, x), v, w, u) = ParserOf(l, v, w, u, o, r, x)
<1> DEFINE p == ParserOf(l, e, d, n, o, r, x)
<1>1. PutEvent(p, v, w, u) = [[[p EXCEPT !.event = v] EXCEPT !.data = w] EXCEPT !.eventBytes = u]
  BY DEF PutEvent
<1>2. [ParserOf(l, e, d, n, o, r, x) EXCEPT !.event = v] = ParserOf(l, v, d, n, o, r, x)
  BY DEF ParserOf
<1>3. [ParserOf(l, v, d, n, o, r, x) EXCEPT !.data = w] = ParserOf(l, v, w, n, o, r, x)
  BY DEF ParserOf
<1>4. [ParserOf(l, v, w, n, o, r, x) EXCEPT !.eventBytes = u] = ParserOf(l, v, w, u, o, r, x)
  BY DEF ParserOf
<1> QED
  BY <1>1, <1>2, <1>3, <1>4

\* Another name of the event, and its bytes.
PutName(p, v, w) == [p EXCEPT !.event = v, !.eventBytes = w]

\* Its fields.
LEMMA PutNameIs ==
    ASSUME NEW l, NEW e, NEW d, NEW n, NEW o, NEW r, NEW x, NEW v, NEW w
    PROVE  PutName(ParserOf(l, e, d, n, o, r, x), v, w) = ParserOf(l, v, d, w, o, r, x)
<1> DEFINE p == ParserOf(l, e, d, n, o, r, x)
<1>1. PutName(p, v, w) = [[p EXCEPT !.event = v] EXCEPT !.eventBytes = w]
  BY DEF PutName
<1>2. [ParserOf(l, e, d, n, o, r, x) EXCEPT !.event = v] = ParserOf(l, v, d, n, o, r, x)
  BY DEF ParserOf
<1>3. [ParserOf(l, v, d, n, o, r, x) EXCEPT !.eventBytes = w] = ParserOf(l, v, d, w, o, r, x)
  BY DEF ParserOf
<1> QED
  BY <1>1, <1>2, <1>3

\* Other data, and their bytes.
PutData(p, v, w) == [p EXCEPT !.data = v, !.eventBytes = w]

\* Its fields.
LEMMA PutDataIs ==
    ASSUME NEW l, NEW e, NEW d, NEW n, NEW o, NEW r, NEW x, NEW v, NEW w
    PROVE  PutData(ParserOf(l, e, d, n, o, r, x), v, w) = ParserOf(l, e, v, w, o, r, x)
<1> DEFINE p == ParserOf(l, e, d, n, o, r, x)
<1>1. PutData(p, v, w) = [[p EXCEPT !.data = v] EXCEPT !.eventBytes = w]
  BY DEF PutData
<1>2. [ParserOf(l, e, d, n, o, r, x) EXCEPT !.data = v] = ParserOf(l, e, v, n, o, r, x)
  BY DEF ParserOf
<1>3. [ParserOf(l, e, v, n, o, r, x) EXCEPT !.eventBytes = w] = ParserOf(l, e, v, w, o, r, x)
  BY DEF ParserOf
<1> QED
  BY <1>1, <1>2, <1>3

\* Another output, and how it ended.
PutOut(p, v, w) == [p EXCEPT !.out = v, !.error = w]

\* Its fields.
LEMMA PutOutIs ==
    ASSUME NEW l, NEW e, NEW d, NEW n, NEW o, NEW r, NEW x, NEW v, NEW w
    PROVE  PutOut(ParserOf(l, e, d, n, o, r, x), v, w) = ParserOf(l, e, d, n, v, r, w)
<1> DEFINE p == ParserOf(l, e, d, n, o, r, x)
<1>1. PutOut(p, v, w) = [[p EXCEPT !.out = v] EXCEPT !.error = w]
  BY DEF PutOut
<1>2. [ParserOf(l, e, d, n, o, r, x) EXCEPT !.out = v] = ParserOf(l, e, d, n, v, r, x)
  BY DEF ParserOf
<1>3. [ParserOf(l, e, d, n, v, r, x) EXCEPT !.error = w] = ParserOf(l, e, d, n, v, r, w)
  BY DEF ParserOf
<1> QED
  BY <1>1, <1>2, <1>3

Bytes == Seq(StreamByte)
Event == [event : Bytes, data : Seq(Bytes)]
NoEvent == [event |-> <<>>, data |-> <<>>]
Errors == {"none", "line", "event", "callback"}

\* A parser, whose line is never longer than the limit.
Parser ==
    {p \in [line : Bytes, event : Bytes, data : Seq(Bytes), eventBytes : Nat,
            out : Seq(Event), refuses : Nat, error : Errors] : Len(p.line) <= sseBufferLimit}

Pending(p) == [event |-> p.event, data |-> p.data]

\* The fields of a parser, and a parser of fields.
LEMMA ParserIs ==
    ASSUME NEW p \in Parser
    PROVE  /\ p.line \in Bytes /\ Len(p.line) <= sseBufferLimit /\ p.event \in Bytes /\ p.data \in Seq(Bytes)
           /\ p.eventBytes \in Nat /\ p.out \in Seq(Event) /\ p.refuses \in Nat /\ p.error \in Errors
           /\ p = ParserOf(p.line, p.event, p.data, p.eventBytes, p.out, p.refuses, p.error)
BY DEF Parser, ParserOf

\* The fields of a parser made of fields.
LEMMA FieldsAre ==
    ASSUME NEW l, NEW e, NEW d, NEW n, NEW o, NEW r, NEW x, NEW p, p = ParserOf(l, e, d, n, o, r, x)
    PROVE  /\ p.line = l /\ p.event = e /\ p.data = d /\ p.eventBytes = n
           /\ p.out = o /\ p.refuses = r /\ p.error = x
BY DEF ParserOf

\* Fields of their types make a parser.
LEMMA ParserTyped ==
    ASSUME NEW l \in Bytes, Len(l) <= sseBufferLimit, NEW e \in Bytes, NEW d \in Seq(Bytes), NEW n \in Nat,
           NEW o \in Seq(Event), NEW r \in Nat, NEW x \in Errors
    PROVE  ParserOf(l, e, d, n, o, r, x) \in Parser
BY DEF Parser, ParserOf

\* The limit is positive.
LEMMA Limits == sseBufferLimit \in Nat \ {0}
BY TransportAssumption

\* Nothing is a sequence of bytes, of data and of events, and not too long.
LEMMA NoBytes ==
    /\ <<>> \in Bytes /\ Len(<<>>) = 0 /\ <<>> \in Seq(Bytes) /\ <<>> \in Seq(Event)
    /\ Len(<<>>) <= sseBufferLimit /\ 0 \in Nat
BY Limits DEF Bytes

\* A parser that is aborted.
LEMMA AbortIs ==
    ASSUME NEW p \in Parser, NEW error \in Errors
    PROVE  /\ Abort(p, error) \in Parser
           /\ Abort(p, error) = ParserOf(<<>>, <<>>, <<>>, 0, p.out, p.refuses, error)
<1>1. PICK z : z = <<>>
  OBVIOUS
<1>2. PICK y : y = 0
  OBVIOUS
<1>3. NewParser(p.refuses) = ParserOf(z, z, z, y, z, p.refuses, "none")
  BY <1>1, <1>2 DEF NewParser, ParserOf
<1>4. Abort(p, error) = PutOut(ParserOf(z, z, z, y, z, p.refuses, "none"), p.out, error)
  BY <1>3 DEF Abort, PutOut
<1>5. Abort(p, error) = ParserOf(z, z, z, y, p.out, p.refuses, error)
  BY <1>4, PutOutIs
<1>6. ParserOf(z, z, z, y, p.out, p.refuses, error) \in Parser
  <2>1. /\ z \in Bytes /\ Len(z) <= sseBufferLimit /\ z \in Seq(Bytes) /\ y \in Nat
        /\ p.out \in Seq(Event) /\ p.refuses \in Nat
    BY <1>1, <1>2, NoBytes, ParserIs
  <2> QED
    BY <2>1, ParserTyped
<1> QED
  BY <1>1, <1>2, <1>5, <1>6

\* What the callback is given, and whether it refuses it.
LEMMA EmitIs ==
    ASSUME NEW p \in Parser
    PROVE  /\ Emit(p) \in Parser
           /\ Emit(p) = ParserOf(p.line, <<>>, <<>>, 0,
                                 IF Pending(p) = NoEvent THEN p.out ELSE Append(p.out, Pending(p)),
                                 p.refuses,
                                 IF Pending(p) # NoEvent /\ Len(p.out) + 1 = p.refuses THEN "callback" ELSE p.error)
<1> DEFINE says == p.event # <<>> \/ p.data # <<>>
           cleared == [p EXCEPT !.event = <<>>, !.data = <<>>, !.eventBytes = 0]
<1>1. says <=> Pending(p) # NoEvent
  BY DEF Pending, NoEvent
<1>2. /\ p.line \in Bytes /\ Len(p.line) <= sseBufferLimit /\ p.event \in Bytes /\ p.data \in Seq(Bytes)
      /\ p.out \in Seq(Event) /\ p.refuses \in Nat /\ p.error \in Errors /\ "callback" \in Errors
  BY ParserIs DEF Errors
<1>3. PICK z : z = <<>>
  OBVIOUS
<1>4. PICK y : y = 0
  OBVIOUS
<1>5. z \in Bytes /\ z \in Seq(Bytes) /\ y \in Nat
  BY <1>3, <1>4, NoBytes
<1>6. cleared = ParserOf(p.line, z, z, y, p.out, p.refuses, p.error)
  <2>1. cleared = PutEvent(p, z, z, y)
    BY <1>3, <1>4 DEF PutEvent
  <2>2. p = ParserOf(p.line, p.event, p.data, p.eventBytes, p.out, p.refuses, p.error)
    BY ParserIs
  <2> HIDE DEF cleared
  <2> QED
    BY <2>1, <2>2, PutEventIs
<1>7. CASE ~says
  <2>1. Emit(p) = cleared
    BY <1>7 DEF Emit
  <2> HIDE DEF cleared
  <2>2. cleared \in Parser
    BY <1>2, <1>5, <1>6, ParserTyped
  <2> QED
    BY <1>1, <1>3, <1>4, <1>6, <1>7, <2>1, <2>2
<1>8. CASE says
  <2> DEFINE o == Append(p.out, Pending(p))
             x == IF Len(p.out) + 1 = p.refuses THEN "callback" ELSE p.error
  <2>1. Emit(p) = [cleared EXCEPT !.out = Append(@, [event |-> p.event, data |-> p.data]),
                                  !.error = IF Len(p.out) + 1 = p.refuses THEN "callback" ELSE @]
    BY <1>8 DEF Emit
  <2> HIDE DEF cleared
  <2>2. cleared.out = p.out /\ cleared.error = p.error
    BY <1>6, FieldsAre
  <2>3. Emit(p) = PutOut(ParserOf(p.line, z, z, y, p.out, p.refuses, p.error), o, x)
    BY <1>6, <2>1, <2>2 DEF Pending, PutOut
  <2>4. o \in Seq(Event) /\ x \in Errors
    <3>1. Pending(p) \in Event
      BY <1>2 DEF Pending, Event
    <3> QED
      BY <1>2, <3>1
  <2> HIDE DEF o, x
  <2>5. Emit(p) = ParserOf(p.line, z, z, y, o, p.refuses, x)
    BY <2>3, PutOutIs
  <2>6. ParserOf(p.line, z, z, y, o, p.refuses, x) \in Parser
    BY <1>2, <1>5, <2>4, ParserTyped
  <2> QED
    BY <1>1, <1>3, <1>4, <1>8, <2>5, <2>6 DEF o, x
<1> QED
  BY <1>7, <1>8

\* A line without its return.
LEMMA WithoutReturnIs ==
    ASSUME NEW raw \in Bytes
    PROVE  /\ WithoutReturn(raw) \in Bytes
           /\ WithoutReturn(raw) # <<>> => Tail(WithoutReturn(raw)) \in Bytes /\ Head(WithoutReturn(raw)) \in StreamByte
<1>1. WithoutReturn(raw) \in Bytes
  <2>1. CASE raw # <<>> /\ Last(raw) = "R"
    <3>1. WithoutReturn(raw) = SubSeq(raw, 1, Len(raw) - 1)
      BY <2>1 DEF WithoutReturn, Front
    <3> QED
      BY <2>1, <3>1 DEF Bytes
  <2>2. CASE ~(raw # <<>> /\ Last(raw) = "R")
    BY <2>2 DEF WithoutReturn
  <2> QED
    BY <2>1, <2>2
<1> DEFINE s == WithoutReturn(raw)
<1>2. s \in Seq(StreamByte)
  BY <1>1 DEF Bytes
<1> HIDE DEF s
<1>3. s # <<>> => Tail(s) \in Seq(StreamByte) /\ Head(s) \in StreamByte
  BY <1>2
<1> QED
  BY <1>1, <1>3 DEF s, Bytes

\* What a line does, by what it starts with.
LEMMA LineInIs ==
    ASSUME NEW p \in Parser, NEW raw \in Bytes, NEW lf \in BOOLEAN,
           NEW s, s = WithoutReturn(raw), NEW n, n = Len(raw) + (IF lf THEN 1 ELSE 0)
    PROVE  /\ LineIn(p, raw, lf) \in Parser
           /\ s = <<>> => LineIn(p, raw, lf) = Emit(p)
           /\ s # <<>> /\ Head(s) \in {"e", "d"} /\ p.eventBytes + n > sseBufferLimit
                => LineIn(p, raw, lf) = Abort(p, "event")
           /\ s # <<>> /\ Head(s) = "e" /\ p.eventBytes + n <= sseBufferLimit
                => LineIn(p, raw, lf) = ParserOf(p.line, Tail(s), p.data, p.eventBytes + n, p.out, p.refuses, p.error)
           /\ s # <<>> /\ Head(s) = "d" /\ p.eventBytes + n <= sseBufferLimit
                => LineIn(p, raw, lf)
                     = ParserOf(p.line, p.event, Append(p.data, Tail(s)), p.eventBytes + n, p.out, p.refuses, p.error)
           /\ s # <<>> /\ Head(s) \notin {"e", "d"} => LineIn(p, raw, lf) = p
<1>1. /\ p.line \in Bytes /\ Len(p.line) <= sseBufferLimit /\ p.event \in Bytes /\ p.data \in Seq(Bytes)
      /\ p.eventBytes \in Nat /\ p.out \in Seq(Event) /\ p.refuses \in Nat /\ p.error \in Errors
      /\ p = ParserOf(p.line, p.event, p.data, p.eventBytes, p.out, p.refuses, p.error)
  BY ParserIs
<1>2. n \in Nat
  BY DEF Bytes
<1>3. s \in Bytes /\ (s # <<>> => Tail(s) \in Bytes /\ Head(s) \in StreamByte)
  BY WithoutReturnIs
<1>4. sseBufferLimit \in Int
  BY Limits
<1>5. ASSUME s = <<>> PROVE LineIn(p, raw, lf) = Emit(p) /\ Emit(p) \in Parser
  BY <1>5, EmitIs DEF LineIn
<1>6. ASSUME s # <<>> /\ Head(s) \in {"e", "d"} /\ p.eventBytes + n > sseBufferLimit
      PROVE  LineIn(p, raw, lf) = Abort(p, "event") /\ Abort(p, "event") \in Parser
  <2>1. "event" \in Errors
    BY DEF Errors
  <2>2. ~(p.eventBytes + n <= sseBufferLimit)
    BY <1>1, <1>2, <1>4, <1>6
  <2>3. LineIn(p, raw, lf) = Abort(p, "event")
    BY <1>6, <2>2 DEF LineIn
  <2> QED
    BY <2>1, <2>3, AbortIs
<1>7. ASSUME s # <<>> /\ Head(s) = "e" /\ p.eventBytes + n <= sseBufferLimit
      PROVE  /\ LineIn(p, raw, lf) = ParserOf(p.line, Tail(s), p.data, p.eventBytes + n, p.out, p.refuses, p.error)
             /\ LineIn(p, raw, lf) \in Parser
  <2>1. ~(p.eventBytes + n > sseBufferLimit) /\ p.eventBytes + n \in Nat /\ Tail(s) \in Bytes
    BY <1>1, <1>2, <1>3, <1>4, <1>7
  <2>2. LineIn(p, raw, lf) = PutName(p, Tail(s), p.eventBytes + n)
    BY <1>7, <2>1 DEF LineIn, PutName
  <2>3. LineIn(p, raw, lf) = ParserOf(p.line, Tail(s), p.data, p.eventBytes + n, p.out, p.refuses, p.error)
    BY <1>1, <2>2, PutNameIs
  <2> QED
    BY <1>1, <2>1, <2>3, ParserTyped
<1>8. ASSUME s # <<>> /\ Head(s) = "d" /\ p.eventBytes + n <= sseBufferLimit
      PROVE  /\ LineIn(p, raw, lf)
                  = ParserOf(p.line, p.event, Append(p.data, Tail(s)), p.eventBytes + n, p.out, p.refuses, p.error)
             /\ LineIn(p, raw, lf) \in Parser
  <2>1. ~(p.eventBytes + n > sseBufferLimit) /\ p.eventBytes + n \in Nat /\ Tail(s) \in Bytes /\ Head(s) # "e"
    BY <1>1, <1>2, <1>3, <1>4, <1>8
  <2>2. Append(p.data, Tail(s)) \in Seq(Bytes)
    BY <1>1, <2>1
  <2>3. LineIn(p, raw, lf) = PutData(p, Append(p.data, Tail(s)), p.eventBytes + n)
    BY <1>8, <2>1 DEF LineIn, PutData
  <2>4. LineIn(p, raw, lf)
          = ParserOf(p.line, p.event, Append(p.data, Tail(s)), p.eventBytes + n, p.out, p.refuses, p.error)
    BY <1>1, <2>3, PutDataIs
  <2> DEFINE d == Append(p.data, Tail(s))
             b == p.eventBytes + n
  <2> HIDE DEF d, b
  <2>5. d \in Seq(Bytes) /\ b \in Nat
    BY <2>1, <2>2 DEF d, b
  <2>6. ParserOf(p.line, p.event, d, b, p.out, p.refuses, p.error) \in Parser
    BY <1>1, <2>5, ParserTyped
  <2> QED
    BY <2>4, <2>6 DEF d, b
<1>9. ASSUME s # <<>> /\ Head(s) \notin {"e", "d"} PROVE LineIn(p, raw, lf) = p
  BY <1>9 DEF LineIn
<1>10. LineIn(p, raw, lf) \in Parser
  <2>1. \/ s = <<>>
        \/ s # <<>> /\ Head(s) \in {"e", "d"} /\ p.eventBytes + n > sseBufferLimit
        \/ s # <<>> /\ Head(s) = "e" /\ p.eventBytes + n <= sseBufferLimit
        \/ s # <<>> /\ Head(s) = "d" /\ p.eventBytes + n <= sseBufferLimit
        \/ s # <<>> /\ Head(s) \notin {"e", "d"}
    <3>1. p.eventBytes + n > sseBufferLimit \/ p.eventBytes + n <= sseBufferLimit
      BY <1>1, <1>2, <1>4
    <3> QED
      BY <3>1
  <2> QED
    BY <1>5, <1>6, <1>7, <1>8, <1>9, <2>1
<1> QED
  BY <1>5, <1>6, <1>7, <1>8, <1>9, <1>10

\* A parser with another line.
LEMMA WithLine ==
    ASSUME NEW p \in Parser, NEW l \in Bytes, Len(l) <= sseBufferLimit
    PROVE  /\ PutLine(p, l) \in Parser
           /\ PutLine(p, l) = ParserOf(l, p.event, p.data, p.eventBytes, p.out, p.refuses, p.error)
           /\ p.line = l => PutLine(p, l) = p
<1>1. p = ParserOf(p.line, p.event, p.data, p.eventBytes, p.out, p.refuses, p.error)
  BY ParserIs
<1>2. PutLine(p, l) = ParserOf(l, p.event, p.data, p.eventBytes, p.out, p.refuses, p.error)
  BY <1>1, PutLineIs
<1>3. /\ p.event \in Bytes /\ p.data \in Seq(Bytes) /\ p.eventBytes \in Nat
      /\ p.out \in Seq(Event) /\ p.refuses \in Nat /\ p.error \in Errors
  BY ParserIs
<1>4. ParserOf(l, p.event, p.data, p.eventBytes, p.out, p.refuses, p.error) \in Parser
  BY <1>3, ParserTyped
<1> QED
  BY <1>1, <1>2, <1>4

\* What a turn of the loop of feed does.
LEMMA TakeIs ==
    ASSUME NEW p \in Parser, NEW piece \in Bytes, NEW lf \in BOOLEAN
    PROVE  /\ Take(p, piece, lf) \in Parser
           /\ Aborted(p) => Take(p, piece, lf) = p
           /\ ~Aborted(p) /\ Len(p.line) + Len(piece) > sseBufferLimit => Take(p, piece, lf) = Abort(p, "line")
           /\ ~Aborted(p) /\ Len(p.line) + Len(piece) <= sseBufferLimit /\ lf
                => Take(p, piece, lf) = LineIn(PutLine(p, <<>>), p.line \o piece, TRUE)
           /\ ~Aborted(p) /\ Len(p.line) + Len(piece) <= sseBufferLimit /\ ~lf
                => Take(p, piece, lf) = PutLine(p, p.line \o piece)
<1> DEFINE n == Len(p.line) + Len(piece)
           l == p.line \o piece
<1>1. p.line \in Bytes /\ n \in Nat /\ sseBufferLimit \in Nat /\ l \in Bytes /\ Len(l) = n
  <2>1. p.line \in Seq(StreamByte) /\ piece \in Seq(StreamByte)
    BY ParserIs DEF Bytes
  <2> QED
    BY <2>1, Limits DEF Bytes
<1> HIDE DEF l
<1>2. n > sseBufferLimit \/ n <= sseBufferLimit
  BY <1>1
<1>3. ~(n > sseBufferLimit /\ n <= sseBufferLimit)
  BY <1>1
<1>4. ASSUME Aborted(p) PROVE Take(p, piece, lf) = p
  BY <1>4 DEF Take
<1>5. ASSUME ~Aborted(p), n > sseBufferLimit PROVE Take(p, piece, lf) = Abort(p, "line") /\ Abort(p, "line") \in Parser
  <2>1. "line" \in Errors
    BY DEF Errors
  <2>2. Take(p, piece, lf) = Abort(p, "line")
    BY <1>3, <1>5 DEF Take
  <2> QED
    BY <2>1, <2>2, AbortIs
<1>6. ASSUME ~Aborted(p), n <= sseBufferLimit, lf
      PROVE  /\ Take(p, piece, lf) = LineIn(PutLine(p, <<>>), l, TRUE)
             /\ LineIn(PutLine(p, <<>>), l, TRUE) \in Parser
  <2>1. Take(p, piece, lf) = LineIn(PutLine(p, <<>>), l, TRUE)
    <3>1. Take(p, piece, lf) = LineIn([p EXCEPT !.line = <<>>], p.line \o piece, TRUE)
      BY <1>3, <1>6 DEF Take
    <3> QED
      BY <3>1 DEF PutLine, l
  <2>2. PutLine(p, <<>>) \in Parser
    BY NoBytes, WithLine
  <2>3. PICK s, k : s = WithoutReturn(l) /\ k = Len(l) + (IF TRUE THEN 1 ELSE 0)
    OBVIOUS
  <2>4. LineIn(PutLine(p, <<>>), l, TRUE) \in Parser
    BY <1>1, <2>2, <2>3, LineInIs
  <2> QED
    BY <2>1, <2>4
<1>7. ASSUME ~Aborted(p), n <= sseBufferLimit, ~lf
      PROVE  Take(p, piece, lf) = PutLine(p, l) /\ PutLine(p, l) \in Parser
  <2>1. Take(p, piece, lf) = PutLine(p, l)
    <3>1. Take(p, piece, lf) = [p EXCEPT !.line = @ \o piece]
      BY <1>3, <1>7 DEF Take
    <3> QED
      BY <3>1 DEF PutLine, l
  <2>2. Len(l) <= sseBufferLimit
    BY <1>1, <1>7
  <2> QED
    BY <1>1, <2>1, <2>2, WithLine
<1>8. Take(p, piece, lf) \in Parser
  BY <1>2, <1>4, <1>5, <1>6, <1>7
<1> QED
  BY <1>4, <1>5, <1>6, <1>7, <1>8 DEF l

-----------------------------------------------------------------------------
(* The pieces of a chunk *)

SomePieces == Seq(Bytes) \ {<<>>}

NextPieces(pieces, byte) ==
    IF byte = "N" THEN Append(pieces, <<>>) ELSE Append(Front(pieces), Append(Last(pieces), byte))

piecing == [x \in SomePieces \X StreamByte |-> NextPieces(x[1], x[2])]

\* Pieces without the last, and the last.
LEMMA SomePiecesAre ==
    ASSUME NEW s \in SomePieces
    PROVE  /\ Front(s) \in Seq(Bytes) /\ Last(s) \in Bytes
           /\ s \in Seq(Bytes) /\ Len(s) \in Nat \ {0} /\ Len(Front(s)) = Len(s) - 1
           /\ \A n \in 1 .. Len(s) - 1 : Front(s)[n] = s[n]
<1> DEFINE B == Bytes
<1>1. s \in Seq(B) /\ Len(s) \in Nat \ {0}
  <2> HIDE DEF B
  <2>1. s \in Seq(B) /\ s # <<>>
    BY DEF SomePieces, B
  <2> QED
    BY <2>1, EmptySeq
<1> HIDE DEF B
<1>2. Front(s) = SubSeq(s, 1, Len(s) - 1) /\ Last(s) = s[Len(s)]
  BY DEF Front, Last
<1>3. /\ SubSeq(s, 1, Len(s) - 1) \in Seq(B) /\ s[Len(s)] \in B
      /\ Len(SubSeq(s, 1, Len(s) - 1)) = Len(s) - 1
      /\ \A n \in 1 .. Len(s) - 1 : SubSeq(s, 1, Len(s) - 1)[n] = s[n]
  <2>1. Len(s) - 1 \in 0 .. Len(s) /\ \A n \in 1 .. Len(s) : s[n] \in B
    BY <1>1
  <2>2. SubSeq(s, 1, Len(s) - 1) \in Seq(B)
    BY <1>1
  <2>3. s[Len(s)] \in B
    BY <1>1, <2>1
  <2>4. Len(SubSeq(s, 1, Len(s) - 1)) = Len(s) - 1
    <3>1. PICK m : m = Len(s) - 1
      OBVIOUS
    <3>2. m \in Nat /\ 1 \in Int /\ \A n \in 1 .. m : s[n] \in B
      BY <1>1, <2>1, <3>1
    <3>3. Len(SubSeq(s, 1, m)) = IF 1 <= m THEN (m - 1) + 1 ELSE 0
      BY <3>2, SubSeqProperties
    <3>4. Len(SubSeq(s, 1, m)) = m
      BY <3>2, <3>3
    <3> QED
      BY <3>1, <3>4
  <2>5. \A n \in 1 .. Len(s) - 1 : SubSeq(s, 1, Len(s) - 1)[n] = s[n]
    BY <1>1
  <2> QED
    BY <2>2, <2>3, <2>4, <2>5
<1> QED
  BY <1>1, <1>2, <1>3 DEF B

\* Pieces with one added to them.
LEMMA MorePieces ==
    ASSUME NEW s \in Seq(Bytes), NEW l \in Bytes
    PROVE  Append(s, l) \in SomePieces /\ Front(Append(s, l)) = s /\ Last(Append(s, l)) = l
<1>1. Append(s, l) \in SomePieces
  <2> DEFINE B == Bytes
  <2> HIDE DEF B
  <2>1. s \in Seq(B) /\ l \in B
    BY DEF B
  <2>2. Append(s, l) \in Seq(B) /\ Append(s, l) # <<>>
    BY <2>1
  <2> QED
    BY <2>2 DEF SomePieces, B
<1> DEFINE r == Append(s, l)
<1>2. Len(r) = Len(s) + 1 /\ r \in Seq(Bytes) /\ r[Len(s) + 1] = l /\ Len(s) \in Nat
  OBVIOUS
<1>3. SubSeq(r, 1, Len(s)) = s
  OBVIOUS
<1> HIDE DEF r
<1>4. Front(r) = s /\ Last(r) = l
  BY <1>2, <1>3 DEF Front, Last
<1> QED
  BY <1>1, <1>4 DEF r

\* One byte more extends the last piece, or ends it.
LEMMA NextPiecesAre ==
    ASSUME NEW s \in SomePieces, NEW b \in StreamByte
    PROVE  /\ NextPieces(s, b) \in SomePieces
           /\ b = "N" => Front(NextPieces(s, b)) = s /\ Last(NextPieces(s, b)) = <<>>
           /\ b # "N" => Front(NextPieces(s, b)) = Front(s) /\ Last(NextPieces(s, b)) = Append(Last(s), b)
<1>1. CASE b = "N"
  <2>1. NextPieces(s, b) = Append(s, <<>>) /\ s \in Seq(Bytes) /\ <<>> \in Bytes
    BY <1>1, NoBytes DEF NextPieces, SomePieces
  <2> QED
    BY <1>1, <2>1, MorePieces
<1>2. CASE b # "N"
  <2> DEFINE l == Append(Last(s), b)
  <2>1. Front(s) \in Seq(Bytes) /\ l \in Bytes
    <3>1. Front(s) \in Seq(Bytes) /\ Last(s) \in Seq(StreamByte)
      BY SomePiecesAre DEF Bytes
    <3> QED
      BY <3>1 DEF Bytes
  <2>2. NextPieces(s, b) = Append(Front(s), l)
    BY <1>2 DEF NextPieces
  <2> HIDE DEF l
  <2>3. /\ Append(Front(s), l) \in SomePieces /\ Front(Append(Front(s), l)) = Front(s)
        /\ Last(Append(Front(s), l)) = l
    BY <2>1, MorePieces
  <2> QED
    BY <1>2, <2>2, <2>3 DEF l
<1> QED
  BY <1>1, <1>2

OnePiece == << <<>> >>

\* The pieces of nothing are one, and it is empty.
LEMMA OnePieceIs == OnePiece \in SomePieces /\ Front(OnePiece) = <<>> /\ Last(OnePiece) = <<>>
<1>1. PICK z : z = <<>>
  OBVIOUS
<1>2. z \in Seq(Bytes) /\ z \in Bytes
  BY <1>1, NoBytes
<1>3. Append(z, z) = <<z>>
  BY <1>1
<1>4. Append(z, z) \in SomePieces /\ Front(Append(z, z)) = z /\ Last(Append(z, z)) = z
  BY <1>2, MorePieces
<1> QED
  BY <1>1, <1>3, <1>4 DEF OnePiece

\* The pieces are a fold.
LEMMA PiecesAreFolded ==
    ASSUME NEW s \in Seq(StreamByte)
    PROVE  /\ StepOn(piecing, SomePieces, StreamByte) /\ OnePiece \in SomePieces
           /\ Pieces(s) = FoldedBy(piecing, OnePiece, s)
<1> DEFINE A == SomePieces
           B == StreamByte
           base == OnePiece
           step == piecing
           F(g) == [t \in SUBSET (DOMAIN s) |->
                        IF t = {} THEN base ELSE NextPieces(g[t \ {Max(t)}], s[Max(t)])]
<1>1. StepOn(step, A, B) /\ base \in A
  BY NextPiecesAre, OnePieceIs DEF StepOn, piecing
<1>2. s \in Seq(B)
  OBVIOUS
<1>3. Pieces(s) = (CHOOSE g : g = F(g))[DOMAIN s]
  BY DEF Pieces, FoldLeft, MapThenFoldSet, NextPieces, OnePiece
<1>4. \A x \in A, b \in B : step[<<x, b>>] = NextPieces(x, b)
  BY DEF piecing
<1> HIDE DEF A, B, base, step
<1>5. PICK h : Folding(h, A, B, step, base, s)
  BY <1>1, <1>2, FoldedByFunction
<1>6. h = F(h)
  <2>1. ASSUME NEW t \in SUBSET (DOMAIN s), t # {}
        PROVE  h[t] = NextPieces(h[t \ {Max(t)}], s[Max(t)])
    BY <1>4, <1>5, <2>1 DEF Folding
  <2> QED
    BY <1>5, <2>1 DEF Folding
<1>7. PICK g : g = F(g) /\ Pieces(s) = g[DOMAIN s]
  <2> HIDE DEF F
  <2> QED
    BY <1>3, <1>6
<1>8. Unfolding(g, A, B, step, base, s)
  BY <1>4, <1>7 DEF Unfolding
<1>9. Pieces(s) = FoldedBy(step, base, s)
  <2> HIDE DEF F
  <2> QED
    BY <1>1, <1>2, <1>7, <1>8, FoldedByUnfolding
<1> QED
  BY <1>1, <1>9 DEF A, B, base, step

\* The pieces, a byte at a time.
LEMMA PiecesAppend ==
    ASSUME NEW s \in Seq(StreamByte), NEW b \in StreamByte
    PROVE  /\ Pieces(<<>>) = OnePiece
           /\ Pieces(s) \in SomePieces
           /\ Pieces(Append(s, b)) = NextPieces(Pieces(s), b)
<1> DEFINE z == <<>>
           base == OnePiece
           step == piecing
           A == SomePieces
           B == StreamByte
<1>1. StepOn(step, A, B) /\ base \in A /\ s \in Seq(B) /\ b \in B
  BY PiecesAreFolded
<1>2. /\ Pieces(z) = FoldedBy(step, base, z) /\ Pieces(s) = FoldedBy(step, base, s)
      /\ Pieces(Append(s, b)) = FoldedBy(step, base, Append(s, b))
  <2>1. z \in Seq(StreamByte) /\ Append(s, b) \in Seq(StreamByte)
    BY EmptySeq
  <2> HIDE DEF z
  <2> QED
    BY <2>1, PiecesAreFolded
<1>3. \A x \in A : step[<<x, b>>] = NextPieces(x, b)
  BY DEF piecing
<1> HIDE DEF z, base, step, A, B
<1>4. /\ FoldedBy(step, base, <<>>) = base
      /\ FoldedBy(step, base, s) \in A
      /\ FoldedBy(step, base, Append(s, b)) = step[<<FoldedBy(step, base, s), b>>]
  BY <1>1, FoldedByAppend
<1> QED
  BY <1>2, <1>3, <1>4 DEF z, base, A

-----------------------------------------------------------------------------
(* The lines that the pieces of a chunk end *)

EndLines(p, pieces) == FoldLeft(LAMBDA q, piece : Take(q, piece, TRUE), p, pieces)

ending == [x \in Parser \X Bytes |-> Take(x[1], x[2], TRUE)]

\* Ending lines is a fold.
LEMMA EndLinesIsFolded ==
    ASSUME NEW p \in Parser, NEW s \in Seq(Bytes)
    PROVE  /\ StepOn(ending, Parser, Bytes)
           /\ EndLines(p, s) = FoldedBy(ending, p, s)
<1> DEFINE A == Parser
           B == Bytes
           step == ending
           End(q, l) == Take(q, l, TRUE)
           F(g) == [t \in SUBSET (DOMAIN s) |->
                        IF t = {} THEN p ELSE End(g[t \ {Max(t)}], s[Max(t)])]
<1>1. StepOn(step, A, B) /\ p \in A
  BY TakeIs DEF StepOn, ending
<1>2. s \in Seq(B)
  OBVIOUS
<1>3. EndLines(p, s) = (CHOOSE g : g = F(g))[DOMAIN s]
  BY DEF EndLines, FoldLeft, MapThenFoldSet
<1>4. \A x \in A, b \in B : step[<<x, b>>] = End(x, b)
  BY DEF ending
<1> HIDE DEF A, B, step, End
<1>5. PICK h : Folding(h, A, B, step, p, s)
  BY <1>1, <1>2, FoldedByFunction
<1>6. h = F(h)
  <2>1. ASSUME NEW t \in SUBSET (DOMAIN s), t # {}
        PROVE  h[t] = End(h[t \ {Max(t)}], s[Max(t)])
    BY <1>4, <1>5, <2>1 DEF Folding
  <2> QED
    BY <1>5, <2>1 DEF Folding
<1>7. PICK g : g = F(g) /\ EndLines(p, s) = g[DOMAIN s]
  <2> HIDE DEF F
  <2> QED
    BY <1>3, <1>6
<1>8. Unfolding(g, A, B, step, p, s)
  BY <1>4, <1>7 DEF Unfolding
<1>9. EndLines(p, s) = FoldedBy(step, p, s)
  <2> HIDE DEF F
  <2> QED
    BY <1>1, <1>2, <1>7, <1>8, FoldedByUnfolding
<1> QED
  BY <1>1, <1>9 DEF A, B, step

\* Ending lines, one at a time.
LEMMA EndLinesAppend ==
    ASSUME NEW p \in Parser, NEW s \in Seq(Bytes), NEW l \in Bytes
    PROVE  /\ EndLines(p, <<>>) = p
           /\ EndLines(p, s) \in Parser
           /\ EndLines(p, Append(s, l)) = Take(EndLines(p, s), l, TRUE)
<1> DEFINE z == <<>>
           step == ending
           A == Parser
           B == Bytes
<1>1. StepOn(step, A, B) /\ p \in A /\ s \in Seq(B) /\ l \in B
  BY EndLinesIsFolded
<1>2. /\ EndLines(p, z) = FoldedBy(step, p, z) /\ EndLines(p, s) = FoldedBy(step, p, s)
      /\ EndLines(p, Append(s, l)) = FoldedBy(step, p, Append(s, l))
  <2>1. z \in Seq(Bytes) /\ Append(s, l) \in Seq(Bytes)
    BY EmptySeq
  <2> HIDE DEF z
  <2> QED
    BY <2>1, EndLinesIsFolded
<1>3. \A x \in A : step[<<x, l>>] = Take(x, l, TRUE)
  BY DEF ending
<1> HIDE DEF z, step, A, B
<1>4. /\ FoldedBy(step, p, <<>>) = p
      /\ FoldedBy(step, p, s) \in A
      /\ FoldedBy(step, p, Append(s, l)) = step[<<FoldedBy(step, p, s), l>>]
  BY <1>1, FoldedByAppend
<1> QED
  BY <1>2, <1>3, <1>4 DEF z, A

-----------------------------------------------------------------------------
(* A byte at a time *)

TakeByte(q, b) ==
    IF Aborted(q) THEN q
    ELSE IF b = "N" THEN LineIn(PutLine(q, <<>>), q.line, TRUE)
    ELSE IF Len(q.line) + 1 > sseBufferLimit THEN Abort(q, "line")
    ELSE PutLine(q, Append(q.line, b))

feeding == [x \in Parser \X StreamByte |-> TakeByte(x[1], x[2])]

\* A line with nothing before it.
LEMMA FreshLine ==
    ASSUME NEW p \in Parser, NEW l \in Bytes, NEW lf \in BOOLEAN
    PROVE  PutLine(p, <<>>) \in Parser /\ LineIn(PutLine(p, <<>>), l, lf) \in Parser
<1>1. PutLine(p, <<>>) \in Parser
  BY NoBytes, WithLine
<1>2. PICK s, k : s = WithoutReturn(l) /\ k = Len(l) + (IF lf THEN 1 ELSE 0)
  OBVIOUS
<1> QED
  BY <1>1, <1>2, LineInIs

\* A byte makes a parser of a parser.
LEMMA TakeByteIs ==
    ASSUME NEW q \in Parser, NEW b \in StreamByte
    PROVE  TakeByte(q, b) \in Parser
<1>1. q.line \in Bytes /\ Append(q.line, b) \in Bytes /\ Len(Append(q.line, b)) = Len(q.line) + 1 /\ Len(q.line) + 1 \in Nat
  <2>1. q.line \in Seq(StreamByte)
    BY ParserIs DEF Bytes
  <2> QED
    BY <2>1 DEF Bytes
<1>2. LineIn(PutLine(q, <<>>), q.line, TRUE) \in Parser
  BY <1>1, FreshLine
<1>3. Abort(q, "line") \in Parser
  <2>1. "line" \in Errors
    BY DEF Errors
  <2> QED
    BY <2>1, AbortIs
<1>4. ~(Len(q.line) + 1 > sseBufferLimit) => PutLine(q, Append(q.line, b)) \in Parser
  <2> DEFINE l == Append(q.line, b)
  <2> HIDE DEF l
  <2>1. ~(Len(q.line) + 1 > sseBufferLimit) => Len(l) <= sseBufferLimit
    BY <1>1, Limits DEF l
  <2>2. l \in Bytes
    BY <1>1 DEF l
  <2>3. Len(l) <= sseBufferLimit => PutLine(q, l) \in Parser
    BY <2>2, WithLine
  <2> QED
    BY <2>1, <2>3 DEF l
<1> QED
  BY <1>2, <1>3, <1>4 DEF TakeByte

\* What a byte more does to the end of a chunk, after the lines that e has ended.
LEMMA TakeByteAfter ==
    ASSUME NEW e \in Parser, NEW l \in Bytes, NEW b \in StreamByte
    PROVE  /\ b = "N" => Take(e, l, TRUE) = TakeByte(Take(e, l, FALSE), b)
           /\ b # "N" => Take(e, Append(l, b), FALSE) = TakeByte(Take(e, l, FALSE), b)
<1> DEFINE q == Take(e, l, FALSE)
           m == Append(l, b)
           n == Len(e.line) + Len(l)
           k == e.line \o l
<1>1. /\ l \in Bytes /\ e.line \in Bytes /\ m \in Bytes /\ k \in Bytes
      /\ Len(k) = n /\ n \in Nat /\ Len(e.line) + Len(m) = n + 1
      /\ e.line \o m = Append(k, b)
  <2>1. e.line \in Seq(StreamByte) /\ l \in Seq(StreamByte)
    BY ParserIs DEF Bytes
  <2>2. m \in Seq(StreamByte) /\ k \in Seq(StreamByte) /\ Len(m) = Len(l) + 1 /\ Len(k) = n
    BY <2>1
  <2>3. e.line \o m = Append(k, b)
    <3>1. PICK r : r = e.line
      OBVIOUS
    <3>2. r \in Seq(StreamByte)
      BY <2>1, <3>1
    <3>3. r \o Append(l, b) = Append(r \o l, b)
      BY <2>1, <3>2, ConcatAppend
    <3> QED
      BY <3>1, <3>3
  <2>4. Len(e.line) \in Nat /\ Len(l) \in Nat
    BY <2>1
  <2> HIDE DEF k, m
  <2>5. Len(e.line) + Len(m) = n + 1 /\ n \in Nat
    <3>1. PICK x \in Nat, y \in Nat : x = Len(e.line) /\ y = Len(l)
      BY <2>4
    <3>2. x + (y + 1) = (x + y) + 1 /\ x + y \in Nat
      OBVIOUS
    <3>3. Len(m) = y + 1
      BY <2>2, <3>1
    <3> QED
      BY <3>1, <3>2, <3>3
  <2> QED
    BY <2>1, <2>2, <2>3, <2>5 DEF Bytes
<1>2. "line" \in Errors /\ "line" # "none"
  BY DEF Errors
<1>3. sseBufferLimit \in Nat
  BY Limits
<1>4. /\ q \in Parser
      /\ Aborted(e) => q = e
      /\ ~Aborted(e) /\ n > sseBufferLimit => q = Abort(e, "line")
      /\ ~Aborted(e) /\ n <= sseBufferLimit => q = PutLine(e, k)
  BY <1>1, TakeIs
<1>5. /\ Aborted(e) => Take(e, l, TRUE) = e
      /\ ~Aborted(e) /\ n > sseBufferLimit => Take(e, l, TRUE) = Abort(e, "line")
      /\ ~Aborted(e) /\ n <= sseBufferLimit => Take(e, l, TRUE) = LineIn(PutLine(e, <<>>), k, TRUE)
  BY <1>1, TakeIs
<1> HIDE DEF q, k, m
<1>6. /\ Aborted(e) => Take(e, m, FALSE) = e
      /\ ~Aborted(e) /\ n + 1 > sseBufferLimit => Take(e, m, FALSE) = Abort(e, "line")
      /\ ~Aborted(e) /\ n + 1 <= sseBufferLimit => Take(e, m, FALSE) = PutLine(e, Append(k, b))
  BY <1>1, TakeIs
<1>7. CASE Aborted(e)
  BY <1>4, <1>5, <1>6, <1>7 DEF TakeByte, q, m
<1>8. CASE ~Aborted(e) /\ n > sseBufferLimit
  <2>1. Aborted(Abort(e, "line"))
    <3>1. Abort(e, "line") = ParserOf(<<>>, <<>>, <<>>, 0, e.out, e.refuses, "line")
      BY <1>2, AbortIs
    <3>2. Abort(e, "line").error = "line"
      BY <3>1 DEF ParserOf
    <3> QED
      BY <1>2, <3>2 DEF Aborted
  <2>2. n + 1 > sseBufferLimit
    BY <1>1, <1>3, <1>8
  <2> QED
    BY <1>4, <1>5, <1>6, <1>8, <2>1, <2>2 DEF TakeByte, q, m
<1>9. CASE ~Aborted(e) /\ n <= sseBufferLimit
  <2>1. q = PutLine(e, k) /\ q = ParserOf(k, e.event, e.data, e.eventBytes, e.out, e.refuses, e.error)
    BY <1>1, <1>4, <1>9, WithLine
  <2>2. /\ q.line = k /\ q.event = e.event /\ q.data = e.data /\ q.eventBytes = e.eventBytes
        /\ q.out = e.out /\ q.refuses = e.refuses /\ q.error = e.error
    BY <2>1, FieldsAre
  <2>3. ~Aborted(q)
    BY <1>9, <2>2 DEF Aborted
  <2>4. ASSUME NEW v PROVE PutLine(q, v) = PutLine(e, v)
    <3>1. PutLine(q, v) = ParserOf(v, e.event, e.data, e.eventBytes, e.out, e.refuses, e.error)
      BY <2>1, PutLineIs
    <3>2. e = ParserOf(e.line, e.event, e.data, e.eventBytes, e.out, e.refuses, e.error)
      BY ParserIs
    <3>3. PutLine(e, v) = ParserOf(v, e.event, e.data, e.eventBytes, e.out, e.refuses, e.error)
      BY <3>2, PutLineIs
    <3> QED
      BY <3>1, <3>3
  <2>5. Abort(q, "line") = Abort(e, "line")
    BY <1>2, <1>4, <2>2, AbortIs
  <2>6. CASE b = "N"
    <3>1. TakeByte(q, b) = LineIn(PutLine(e, <<>>), k, TRUE)
      BY <2>2, <2>3, <2>4, <2>6 DEF TakeByte
    <3> QED
      BY <1>5, <1>9, <2>6, <3>1 DEF q
  <2>7. CASE b # "N"
    <3>1. CASE n + 1 > sseBufferLimit
      <4>1. TakeByte(q, b) = Abort(e, "line")
        BY <1>1, <2>2, <2>3, <2>5, <2>7, <3>1 DEF TakeByte
      <4> QED
        BY <1>6, <1>9, <2>7, <3>1, <4>1 DEF q, m
    <3>2. CASE n + 1 <= sseBufferLimit
      <4>1. ~(n + 1 > sseBufferLimit)
        BY <1>1, <1>3, <3>2
      <4>2. TakeByte(q, b) = PutLine(e, Append(k, b))
        BY <1>1, <2>2, <2>3, <2>4, <2>7, <4>1 DEF TakeByte
      <4> QED
        BY <1>6, <1>9, <2>7, <3>2, <4>2 DEF q, m
    <3>3. n + 1 > sseBufferLimit \/ n + 1 <= sseBufferLimit
      BY <1>1, <1>3
    <3> QED
      BY <3>1, <3>2, <3>3
  <2> QED
    BY <2>6, <2>7
<1>10. n > sseBufferLimit \/ n <= sseBufferLimit
  BY <1>1, <1>3
<1> QED
  BY <1>7, <1>8, <1>9, <1>10

\* A chunk, and a chunk with one byte more.
LEMMA FeedAppend ==
    ASSUME NEW p \in Parser, NEW s \in Seq(StreamByte), NEW b \in StreamByte
    PROVE  /\ Feed(p, <<>>) = p
           /\ Feed(p, s) \in Parser
           /\ Feed(p, Append(s, b)) = TakeByte(Feed(p, s), b)
<1> DEFINE F(ps) == Take(EndLines(p, Front(ps)), Last(ps), FALSE)
           ps == Pieces(s)
           e == EndLines(p, Front(ps))
           z == <<>>
<1>1. \A c : Feed(p, c) = F(Pieces(c))
  BY DEF Feed, EndLines
<1>2. /\ Pieces(z) = OnePiece /\ ps \in SomePieces /\ Pieces(Append(s, b)) = NextPieces(ps, b)
  BY PiecesAppend
<1> HIDE DEF z, ps
<1>3. ASSUME NEW q \in Parser PROVE Take(q, z, FALSE) = q
  <2>1. /\ q.line \in Bytes /\ Len(q.line) <= sseBufferLimit /\ z \in Bytes
        /\ Len(q.line) + Len(z) = Len(q.line) /\ q.line \o z = q.line
    <3>1. q.line \in Seq(StreamByte) /\ Len(q.line) <= sseBufferLimit
      BY ParserIs DEF Bytes
    <3> QED
      BY <3>1, NoBytes DEF z, Bytes
  <2> HIDE DEF z
  <2>2. /\ Aborted(q) => Take(q, z, FALSE) = q
        /\ ~Aborted(q) => Take(q, z, FALSE) = PutLine(q, q.line)
    BY <2>1, TakeIs
  <2>3. PutLine(q, q.line) = q
    BY <2>1, WithLine
  <2> QED
    BY <2>2, <2>3
<1>4. Feed(p, z) = p
  <2>1. Front(OnePiece) = z /\ Last(OnePiece) = z /\ EndLines(p, z) = p
    <3>1. <<>> \in Seq(Bytes) /\ <<>> \in Bytes
      BY NoBytes
    <3> QED
      BY <3>1, OnePieceIs, EndLinesAppend DEF z
  <2> QED
    BY <1>1, <1>2, <1>3, <2>1
<1>5. /\ Front(ps) \in Seq(Bytes) /\ Last(ps) \in Bytes /\ e \in Parser
      /\ EndLines(p, Append(Front(ps), Last(ps))) = Take(e, Last(ps), TRUE)
  BY <1>2, SomePiecesAre, EndLinesAppend
<1>6. Append(Front(ps), Last(ps)) = ps
  <2> DEFINE B == Bytes
             f == Front(ps)
             l == Last(ps)
  <2>1. /\ ps \in Seq(B) /\ Len(ps) \in Nat \ {0} /\ Len(f) = Len(ps) - 1 /\ f \in Seq(B) /\ l \in B
        /\ \A n \in 1 .. Len(ps) - 1 : f[n] = ps[n]
    BY <1>2, SomePiecesAre
  <2>2. l = ps[Len(ps)]
    BY DEF Last
  <2> HIDE DEF B, f, l
  <2>3. Append(f, l) \in Seq(B) /\ Len(Append(f, l)) = Len(ps)
        /\ \A n \in 1 .. Len(ps) : Append(f, l)[n] = ps[n]
    BY <2>1, <2>2, AppendProperties
  <2>4. Append(f, l) = ps
    BY <2>1, <2>3, SeqEqual
  <2> QED
    BY <2>4 DEF f, l
<1>7. Feed(p, s) = Take(e, Last(ps), FALSE) /\ Take(e, Last(ps), FALSE) \in Parser
  BY <1>1, <1>5, TakeIs DEF ps
<1>8. CASE b = "N"
  <2>1. Front(NextPieces(ps, b)) = ps /\ Last(NextPieces(ps, b)) = z
    BY <1>2, <1>8, NextPiecesAre DEF z
  <2>2. Feed(p, Append(s, b)) = Take(EndLines(p, ps), z, FALSE)
    BY <1>1, <1>2, <2>1
  <2>3. EndLines(p, ps) = Take(e, Last(ps), TRUE) /\ Take(e, Last(ps), TRUE) \in Parser
    BY <1>5, <1>6, TakeIs
  <2>4. Take(e, Last(ps), TRUE) = TakeByte(Take(e, Last(ps), FALSE), b)
    BY <1>5, <1>8, TakeByteAfter
  <2> QED
    BY <1>3, <1>4, <1>7, <2>2, <2>3, <2>4 DEF z
<1>9. CASE b # "N"
  <2>1. Front(NextPieces(ps, b)) = Front(ps) /\ Last(NextPieces(ps, b)) = Append(Last(ps), b)
    BY <1>2, <1>9, NextPiecesAre
  <2>2. Feed(p, Append(s, b)) = Take(e, Append(Last(ps), b), FALSE)
    BY <1>1, <1>2, <2>1
  <2>3. Take(e, Append(Last(ps), b), FALSE) = TakeByte(Take(e, Last(ps), FALSE), b)
    BY <1>5, <1>9, TakeByteAfter
  <2> QED
    BY <1>4, <1>7, <2>2, <2>3 DEF z
<1> QED
  BY <1>8, <1>9

-----------------------------------------------------------------------------
(* Chunks and bytes *)

\* Feeding a chunk is feeding its bytes.
LEMMA FeedIsFolded ==
    ASSUME NEW p \in Parser, NEW s \in Seq(StreamByte)
    PROVE  /\ StepOn(feeding, Parser, StreamByte)
           /\ Feed(p, s) = FoldedBy(feeding, p, s)
<1> DEFINE A == Parser
           B == StreamByte
           step == feeding
           S == {u \in Seq(B) : Feed(p, u) = FoldedBy(step, p, u)}
<1>1. StepOn(step, A, B) /\ \A x \in A, b \in B : step[<<x, b>>] = TakeByte(x, b)
  BY TakeByteIs DEF StepOn, feeding
<1>2. \A u \in Seq(B), b \in B : /\ Feed(p, <<>>) = p /\ Feed(p, u) \in A
                                 /\ Feed(p, Append(u, b)) = TakeByte(Feed(p, u), b)
  BY FeedAppend
<1>3. p \in A /\ s \in Seq(B) /\ \E b \in B : TRUE
  BY DEF StreamByte
<1> HIDE DEF A, B, step
<1>4. <<>> \in S
  <2>1. <<>> \in Seq(B)
    BY EmptySeq
  <2>2. FoldedBy(step, p, <<>>) = p
    BY <1>1, <1>3, FoldedByEmpty
  <2> QED
    BY <1>2, <1>3, <2>1, <2>2
<1>5. ASSUME NEW u \in Seq(B), NEW b \in B, u \in S PROVE Append(u, b) \in S
  <2>1. FoldedBy(step, p, Append(u, b)) = step[<<FoldedBy(step, p, u), b>>]
    BY <1>1, <1>3, FoldedByAppend
  <2>2. Append(u, b) \in Seq(B)
    BY AppendProperties
  <2> QED
    BY <1>1, <1>2, <1>5, <2>1, <2>2
<1> HIDE DEF S
<1>6. s \in S
  BY <1>3, <1>4, <1>5, SeqSetInduction
<1> QED
  BY <1>1, <1>6 DEF S, A, B, step

FeedAll(p, chunks) == FoldLeft(Feed, p, chunks)

feedingAll == [x \in Parser \X Bytes |-> Feed(x[1], x[2])]

\* Feeding chunks is a fold.
LEMMA FeedAllIsFolded ==
    ASSUME NEW p \in Parser, NEW s \in Seq(Bytes)
    PROVE  /\ StepOn(feedingAll, Parser, Bytes)
           /\ FeedAll(p, s) = FoldedBy(feedingAll, p, s)
<1> DEFINE A == Parser
           B == Bytes
           step == feedingAll
           F(g) == [t \in SUBSET (DOMAIN s) |->
                        IF t = {} THEN p ELSE Feed(g[t \ {Max(t)}], s[Max(t)])]
<1>1. StepOn(step, A, B) /\ p \in A
  <2>1. \A x \in A, c \in B : Feed(x, c) \in A
    BY FeedAppend DEF Bytes, StreamByte
  <2> QED
    BY <2>1 DEF StepOn, feedingAll
<1>2. s \in Seq(B)
  OBVIOUS
<1>3. FeedAll(p, s) = (CHOOSE g : g = F(g))[DOMAIN s]
  BY DEF FeedAll, FoldLeft, MapThenFoldSet
<1>4. \A x \in A, b \in B : step[<<x, b>>] = Feed(x, b)
  BY DEF feedingAll
<1> HIDE DEF A, B, step
<1>5. PICK h : Folding(h, A, B, step, p, s)
  BY <1>1, <1>2, FoldedByFunction
<1>6. h = F(h)
  <2>1. ASSUME NEW t \in SUBSET (DOMAIN s), t # {}
        PROVE  h[t] = Feed(h[t \ {Max(t)}], s[Max(t)])
    BY <1>4, <1>5, <2>1 DEF Folding
  <2> QED
    BY <1>5, <2>1 DEF Folding
<1>7. PICK g : g = F(g) /\ FeedAll(p, s) = g[DOMAIN s]
  <2> HIDE DEF F
  <2> QED
    BY <1>3, <1>6
<1>8. Unfolding(g, A, B, step, p, s)
  BY <1>4, <1>7 DEF Unfolding
<1>9. FeedAll(p, s) = FoldedBy(step, p, s)
  <2> HIDE DEF F
  <2> QED
    BY <1>1, <1>2, <1>7, <1>8, FoldedByUnfolding
<1> QED
  BY <1>1, <1>9 DEF A, B, step

\* However the stream is cut, its chunks are fed as the whole of it is.
LEMMA ChunksAreOne ==
    ASSUME NEW p \in Parser, NEW chunks \in Seq(Bytes)
    PROVE  /\ FlattenSeq(chunks) \in Bytes
           /\ FeedAll(p, chunks) = Feed(p, FlattenSeq(chunks))
<1> DEFINE A == Parser
           B == Bytes
           step == feedingAll
           S == {u \in Seq(B) : FlattenSeq(u) \in B /\ FeedAll(p, u) = Feed(p, FlattenSeq(u))}
<1>1. /\ StepOn(step, A, B) /\ p \in A /\ chunks \in Seq(B)
      /\ \A u \in Seq(B) : FeedAll(p, u) = FoldedBy(step, p, u)
  BY FeedAllIsFolded
<1>2. \A x \in A, c \in B : step[<<x, c>>] = Feed(x, c)
  BY DEF feedingAll
<1>3. \A x \in A, c, d \in B : Feed(Feed(x, c), d) = Feed(x, c \o d)
  <2> SUFFICES ASSUME NEW x \in A, NEW c \in B, NEW d \in B PROVE Feed(Feed(x, c), d) = Feed(x, c \o d)
    OBVIOUS
  <2>1. c \in Seq(StreamByte) /\ d \in Seq(StreamByte)
    BY DEF Bytes
  <2>2. c \o d \in Seq(StreamByte) /\ Feed(x, c) \in Parser
    <3>1. c \o d \in Seq(StreamByte)
      BY <2>1, ConcatProperties
    <3>2. PICK b : b \in StreamByte
      BY DEF StreamByte
    <3>3. Feed(x, c) \in Parser
      BY <2>1, <3>2, FeedAppend
    <3> QED
      BY <3>1, <3>3
  <2>3. /\ StepOn(feeding, Parser, StreamByte)
        /\ Feed(x, c) = FoldedBy(feeding, x, c)
        /\ Feed(x, c \o d) = FoldedBy(feeding, x, c \o d)
    BY <2>1, <2>2, FeedIsFolded
  <2>4. Feed(Feed(x, c), d) = FoldedBy(feeding, Feed(x, c), d)
    <3> DEFINE y == Feed(x, c)
    <3>1. y \in Parser
      BY <2>2
    <3> HIDE DEF y
    <3>2. Feed(y, d) = FoldedBy(feeding, y, d)
      BY <2>1, <3>1, FeedIsFolded
    <3> QED
      BY <3>2 DEF y
  <2>5. FoldedBy(feeding, x, c \o d) = FoldedBy(feeding, FoldedBy(feeding, x, c), d)
    BY <2>1, <2>3, FoldedByConcat
  <2> QED
    BY <2>3, <2>4, <2>5
<1>4. \A u \in Seq(B), c \in B : FlattenSeq(<<>>) = <<>> /\ FlattenSeq(Append(u, c)) = FlattenSeq(u) \o c
  <2> SUFFICES ASSUME NEW u \in Seq(B), NEW c \in B
               PROVE  FlattenSeq(<<>>) = <<>> /\ FlattenSeq(Append(u, c)) = FlattenSeq(u) \o c
    OBVIOUS
  <2>1. u \in Seq(Seq(StreamByte)) /\ c \in Seq(StreamByte)
    BY DEF Bytes
  <2> QED
    BY <2>1, FlattenAppend
<1>5. <<>> \in B /\ Feed(p, <<>>) = p /\ \A c, d \in B : c \o d \in B
  <2>1. \A c, d \in Seq(StreamByte) : c \o d \in Seq(StreamByte)
    BY ConcatProperties
  <2>2. PICK b : b \in StreamByte
    BY DEF StreamByte
  <2>3. <<>> \in Seq(StreamByte)
    BY EmptySeq
  <2>4. Feed(p, <<>>) = p
    BY <2>2, <2>3, FeedAppend
  <2> QED
    BY <2>1, <2>3, <2>4 DEF Bytes
<1> HIDE DEF A, B, step
<1>6. <<>> \in S
  <2>1. <<>> \in Seq(B)
    BY EmptySeq
  <2>2. FoldedBy(step, p, <<>>) = p
    BY <1>1, FoldedByEmpty
  <2>3. FlattenSeq(<<>>) = <<>>
    BY <1>1, <1>4, <1>5
  <2> QED
    BY <1>1, <1>5, <2>1, <2>2, <2>3
<1>7. ASSUME NEW u \in Seq(B), NEW c \in B, u \in S PROVE Append(u, c) \in S
  <2>1. /\ FoldedBy(step, p, u) \in A
        /\ FoldedBy(step, p, Append(u, c)) = step[<<FoldedBy(step, p, u), c>>]
    BY <1>1, FoldedByAppend
  <2>2. Append(u, c) \in Seq(B)
    BY AppendProperties
  <2>3. FeedAll(p, Append(u, c)) = Feed(FeedAll(p, u), c)
    BY <1>1, <1>2, <2>1, <2>2
  <2>4. FlattenSeq(u) \in B /\ FeedAll(p, u) = Feed(p, FlattenSeq(u))
    BY <1>7
  <2>5. Feed(Feed(p, FlattenSeq(u)), c) = Feed(p, FlattenSeq(u) \o c)
    BY <1>1, <1>3, <2>4
  <2>6. FlattenSeq(Append(u, c)) = FlattenSeq(u) \o c /\ FlattenSeq(u) \o c \in B
    BY <1>4, <1>5, <2>4
  <2> QED
    BY <2>2, <2>3, <2>4, <2>5, <2>6
<1> HIDE DEF S
<1>8. chunks \in S
  BY <1>1, <1>6, <1>7, SeqSetInduction
<1> QED
  BY <1>8 DEF S, B

-----------------------------------------------------------------------------
(* A line at a time *)

Line == [raw : Bytes, lf : BOOLEAN]
Blank == [raw |-> <<>>, lf |-> FALSE]

\* A parser that is at the start of a line.
Between == {p \in Parser : p.line = <<>>}

\* A line of the stream; after an error nothing is read.
LineStep(q, l) ==
    IF Aborted(q) THEN q
    ELSE IF Len(l.raw) > sseBufferLimit THEN Abort(q, "line")
    ELSE LineIn(q, l.raw, l.lf)

lining == [x \in Between \X Line |-> LineStep(x[1], x[2])]

\* What is left of a parser that has an error.
LEMMA AbortBetween ==
    ASSUME NEW q \in Parser, NEW error \in Errors, error # "none"
    PROVE  Abort(q, error) \in Between /\ Aborted(Abort(q, error))
<1>1. Abort(q, error) = ParserOf(<<>>, <<>>, <<>>, 0, q.out, q.refuses, error) /\ Abort(q, error) \in Parser
  BY AbortIs
<1>2. Abort(q, error).line = <<>> /\ Abort(q, error).error = error
  BY <1>1 DEF ParserOf
<1> QED
  BY <1>1, <1>2 DEF Between, Aborted

\* A line leaves the parser at the start of the next.
LEMMA LineInBetween ==
    ASSUME NEW q \in Between, NEW raw \in Bytes, NEW lf \in BOOLEAN
    PROVE  LineIn(q, raw, lf) \in Between
<1>1. PICK s, n : s = WithoutReturn(raw) /\ n = Len(raw) + (IF lf THEN 1 ELSE 0)
  OBVIOUS
<1>2. q \in Parser /\ q.line = <<>>
  BY DEF Between
<1> DEFINE r == LineIn(q, raw, lf)
<1>3. /\ r \in Parser
      /\ s = <<>> => r = Emit(q)
      /\ s # <<>> /\ Head(s) \in {"e", "d"} /\ q.eventBytes + n > sseBufferLimit => r = Abort(q, "event")
      /\ s # <<>> /\ Head(s) = "e" /\ q.eventBytes + n <= sseBufferLimit
           => r = ParserOf(q.line, Tail(s), q.data, q.eventBytes + n, q.out, q.refuses, q.error)
      /\ s # <<>> /\ Head(s) = "d" /\ q.eventBytes + n <= sseBufferLimit
           => r = ParserOf(q.line, q.event, Append(q.data, Tail(s)), q.eventBytes + n, q.out, q.refuses, q.error)
      /\ s # <<>> /\ Head(s) \notin {"e", "d"} => r = q
  BY <1>1, <1>2, LineInIs
<1> HIDE DEF r
<1>4. Emit(q).line = q.line
  BY <1>2, EmitIs, FieldsAre
<1>5. Abort(q, "event").line = <<>>
  <2>1. "event" \in Errors /\ "event" # "none"
    BY DEF Errors
  <2> QED
    BY <1>2, <2>1, AbortBetween DEF Between
<1>6. q.eventBytes + n > sseBufferLimit \/ q.eventBytes + n <= sseBufferLimit
  <2>1. q.eventBytes \in Nat /\ n \in Nat /\ sseBufferLimit \in Nat
    BY <1>1, <1>2, ParserIs, Limits DEF Bytes
  <2> QED
    BY <2>1
<1>7. r.line = <<>>
  <2>1. CASE s = <<>>
    BY <1>2, <1>3, <1>4, <2>1
  <2>2. CASE s # <<>> /\ Head(s) \in {"e", "d"} /\ q.eventBytes + n > sseBufferLimit
    BY <1>3, <1>5, <2>2
  <2>3. CASE s # <<>> /\ Head(s) = "e" /\ q.eventBytes + n <= sseBufferLimit
    BY <1>2, <1>3, <2>3 DEF ParserOf
  <2>4. CASE s # <<>> /\ Head(s) = "d" /\ q.eventBytes + n <= sseBufferLimit
    BY <1>2, <1>3, <2>4 DEF ParserOf
  <2>5. CASE s # <<>> /\ Head(s) \notin {"e", "d"}
    BY <1>2, <1>3, <2>5
  <2> QED
    BY <1>6, <2>1, <2>2, <2>3, <2>4, <2>5
<1> QED
  BY <1>3, <1>7 DEF Between, r

\* So does a line of the stream.
LEMMA LineStepBetween ==
    ASSUME NEW q \in Between, NEW l \in Line
    PROVE  LineStep(q, l) \in Between
<1>1. LineIn(q, l.raw, l.lf) \in Between
  BY LineInBetween DEF Line
<1>2. Abort(q, "line") \in Between
  BY AbortBetween DEF Between, Errors
<1> QED
  BY <1>1, <1>2 DEF LineStep

\* The end of a line of the stream is a turn of the loop of feed.
LEMMA TakeOfLine ==
    ASSUME NEW q \in Between, NEW l \in Bytes
    PROVE  /\ Take(q, l, TRUE) = LineStep(q, [raw |-> l, lf |-> TRUE])
           /\ Finalize(Take(q, l, FALSE))
                = LineStep(IF l = <<>> THEN q ELSE LineStep(q, [raw |-> l, lf |-> FALSE]), Blank)
<1>1. q \in Parser /\ q.line = <<>>
  BY DEF Between
<1>2. l \in Seq(StreamByte) /\ Len(l) \in Nat /\ q.line \o l = l /\ Len(q.line) + Len(l) = Len(l)
  <2>1. l \in Seq(StreamByte)
    BY DEF Bytes
  <2> QED
    BY <1>1, <2>1, ConcatEmptySeq
<1>3. PutLine(q, <<>>) = q
  BY <1>1, NoBytes, WithLine
<1>4. /\ Aborted(q) => Take(q, l, TRUE) = q
      /\ ~Aborted(q) /\ Len(l) > sseBufferLimit => Take(q, l, TRUE) = Abort(q, "line")
      /\ ~Aborted(q) /\ Len(l) <= sseBufferLimit => Take(q, l, TRUE) = LineIn(q, l, TRUE)
  BY <1>1, <1>2, <1>3, TakeIs
<1>5. /\ Aborted(q) => Take(q, l, FALSE) = q
      /\ ~Aborted(q) /\ Len(l) > sseBufferLimit => Take(q, l, FALSE) = Abort(q, "line")
      /\ ~Aborted(q) /\ Len(l) <= sseBufferLimit => Take(q, l, FALSE) = PutLine(q, l)
  BY <1>1, <1>2, TakeIs
<1>6. Len(l) <= sseBufferLimit <=> ~(Len(l) > sseBufferLimit)
  BY <1>2, Limits
<1>7. Take(q, l, TRUE) = LineStep(q, [raw |-> l, lf |-> TRUE])
  BY <1>4, <1>6 DEF LineStep
<1> DEFINE one == [raw |-> l, lf |-> FALSE]
<1>8. one \in Line /\ one.raw = l /\ one.lf = FALSE
  BY DEF Line
<1> HIDE DEF one
<1>9. Blank \in Line /\ Blank.raw = <<>> /\ Blank.lf = FALSE
  <2>1. PICK z : z = <<>>
    OBVIOUS
  <2>2. z \in Bytes
    BY <2>1, NoBytes
  <2> QED
    BY <2>1, <2>2 DEF Line, Blank
<1>10. ASSUME NEW r \in Between PROVE LineStep(r, Blank) = IF Aborted(r) THEN r ELSE Emit(r)
  <2>1. ~(Len(<<>>) > sseBufferLimit) /\ <<>> \in Bytes
    BY NoBytes, Limits
  <2>2. WithoutReturn(<<>>) = <<>>
    BY DEF WithoutReturn
  <2>3. LineIn(r, <<>>, FALSE) = Emit(r)
    BY <2>2 DEF LineIn
  <2> QED
    BY <1>9, <2>1, <2>3 DEF LineStep
<1>11. ASSUME NEW r \in Between, Aborted(r) PROVE Finalize(r) = r /\ LineStep(r, one) = r
  BY <1>11 DEF Finalize, Between, LineStep
<1>12. CASE Aborted(q)
  <2>1. LineStep(q, Blank) = q /\ Take(q, l, FALSE) = q
    BY <1>5, <1>10, <1>12
  <2> QED
    BY <1>7, <1>11, <1>12, <2>1 DEF one
<1>13. CASE ~Aborted(q) /\ Len(l) > sseBufferLimit
  <2>1. Abort(q, "line") \in Between /\ Aborted(Abort(q, "line"))
    <3>1. "line" \in Errors /\ "line" # "none"
      BY DEF Errors
    <3> QED
      BY <1>1, <3>1, AbortBetween
  <2>2. LineStep(q, one) = Abort(q, "line")
    BY <1>8, <1>13 DEF LineStep
  <2>3. l # <<>>
    BY <1>13, Limits
  <2>4. LineStep(Abort(q, "line"), Blank) = Abort(q, "line") /\ Finalize(Abort(q, "line")) = Abort(q, "line")
    BY <1>10, <1>11, <2>1
  <2> QED
    BY <1>5, <1>7, <1>13, <2>2, <2>3, <2>4 DEF one
<1>14. CASE ~Aborted(q) /\ Len(l) <= sseBufferLimit
  <2> DEFINE r == PutLine(q, l)
  <2>1. r = ParserOf(l, q.event, q.data, q.eventBytes, q.out, q.refuses, q.error) /\ r \in Parser
    BY <1>1, <1>14, WithLine
  <2>2. r.line = l /\ r.error = q.error /\ ~Aborted(r)
    <3>1. r.line = l /\ r.error = q.error
      BY <2>1 DEF ParserOf
    <3> QED
      BY <1>14, <3>1 DEF Aborted
  <2>3. Take(q, l, FALSE) = r
    BY <1>5, <1>14
  <2> HIDE DEF r
  <2>4. CASE l = <<>>
    <3>1. r = q
      BY <1>3, <2>4 DEF r
    <3>2. Finalize(r) = Emit(q)
      BY <1>1, <1>14, <3>1 DEF Finalize
    <3>3. LineStep(q, Blank) = Emit(q)
      BY <1>10, <1>14
    <3> QED
      BY <1>7, <2>3, <2>4, <3>2, <3>3
  <2>5. CASE l # <<>>
    <3> DEFINE u == LineIn(q, l, FALSE)
    <3>1. LineIn([r EXCEPT !.line = <<>>], r.line, FALSE) = u
      <4>1. [r EXCEPT !.line = <<>>] = PutLine(r, <<>>)
        BY DEF PutLine
      <4>2. PutLine(r, <<>>) = ParserOf(<<>>, q.event, q.data, q.eventBytes, q.out, q.refuses, q.error)
        BY <2>1, PutLineIs
      <4>3. PutLine(q, <<>>) = ParserOf(<<>>, q.event, q.data, q.eventBytes, q.out, q.refuses, q.error)
        BY <1>1, NoBytes, WithLine
      <4> QED
        BY <1>3, <2>2, <4>1, <4>2, <4>3
    <3>2. Finalize(r) = IF Aborted(u) THEN u ELSE Emit(u)
      BY <2>2, <2>5, <3>1 DEF Finalize
    <3>3. LineStep(q, one) = u
      BY <1>6, <1>8, <1>14 DEF LineStep
    <3>4. u \in Between
      BY LineInBetween
    <3>5. LineStep(u, Blank) = IF Aborted(u) THEN u ELSE Emit(u)
      <4> HIDE DEF u
      <4> QED
        BY <1>10, <3>4
    <3> HIDE DEF u
    <3> QED
      BY <1>7, <2>3, <2>5, <3>2, <3>3, <3>5 DEF one
  <2> QED
    BY <2>4, <2>5
<1> QED
  BY <1>6, <1>12, <1>13, <1>14

\* What is read of lines.
LinesRead(refuses, lines) == FoldedBy(lining, NewParser(refuses), lines)

\* A new parser is at the start of a line.
LEMMA NewParserIs ==
    ASSUME NEW refuses \in Nat
    PROVE  /\ NewParser(refuses) \in Between
           /\ NewParser(refuses) = ParserOf(<<>>, <<>>, <<>>, 0, <<>>, refuses, "none")
<1>1. NewParser(refuses) = ParserOf(<<>>, <<>>, <<>>, 0, <<>>, refuses, "none")
  BY DEF NewParser, ParserOf
<1>2. PICK z, y, x : z = <<>> /\ y = 0 /\ x = "none"
  OBVIOUS
<1>3. z \in Bytes /\ Len(z) <= sseBufferLimit /\ z \in Seq(Bytes) /\ z \in Seq(Event) /\ y \in Nat /\ x \in Errors
  BY <1>2, NoBytes DEF Errors
<1>4. ParserOf(z, z, z, y, z, refuses, x) \in Parser
  BY <1>3, ParserTyped
<1>5. NewParser(refuses).line = <<>>
  BY DEF NewParser
<1> QED
  BY <1>1, <1>2, <1>4, <1>5 DEF Between

\* What is read of lines, one at a time.
LEMMA LinesReadAppend ==
    ASSUME NEW refuses \in Nat, NEW s \in Seq(Line), NEW l \in Line
    PROVE  /\ LinesRead(refuses, <<>>) = NewParser(refuses)
           /\ LinesRead(refuses, s) \in Between
           /\ LinesRead(refuses, Append(s, l)) = LineStep(LinesRead(refuses, s), l)
<1> DEFINE A == Between
           B == Line
           step == lining
           base == NewParser(refuses)
<1>1. StepOn(step, A, B) /\ base \in A /\ s \in Seq(B) /\ l \in B
  BY LineStepBetween, NewParserIs DEF StepOn, lining
<1>2. \A x \in A : step[<<x, l>>] = LineStep(x, l)
  BY DEF lining
<1> HIDE DEF A, B, step, base
<1>3. /\ FoldedBy(step, base, <<>>) = base
      /\ FoldedBy(step, base, s) \in A
      /\ FoldedBy(step, base, Append(s, l)) = step[<<FoldedBy(step, base, s), l>>]
  BY <1>1, FoldedByAppend
<1> QED
  BY <1>2, <1>3 DEF A, step, base, LinesRead

\* Pieces that ends of lines follow.
Ended(pieces) == [n \in DOMAIN pieces |-> [raw |-> pieces[n], lf |-> TRUE]]

\* Pieces with their ends, one at a time.
LEMMA EndedAppend ==
    ASSUME NEW s \in Seq(Bytes), NEW l \in Bytes
    PROVE  /\ Ended(<<>>) = <<>>
           /\ Ended(s) \in Seq(Line)
           /\ Ended(Append(s, l)) = Append(Ended(s), [raw |-> l, lf |-> TRUE])
<1> DEFINE B == Bytes
           L(x) == [raw |-> x, lf |-> TRUE]
           C == Line
           e == Ended(s)
           u == Append(s, l)
           v == Append(e, L(l))
           N == Len(s)
<1>1. s \in Seq(B) /\ l \in B /\ \A x \in B : L(x) \in C
  BY DEF Line
<1>2. e = [n \in DOMAIN s |-> L(s[n])] /\ Ended(u) = [n \in DOMAIN u |-> L(u[n])]
  BY DEF Ended
<1>3. Ended(<<>>) = <<>>
  <2>1. DOMAIN <<>> = {}
    OBVIOUS
  <2> QED
    BY <2>1 DEF Ended
<1> HIDE DEF B, C, L, e
<1>4. N \in Nat /\ DOMAIN s = 1 .. N /\ \A n \in 1 .. N : s[n] \in B
  BY <1>1
<1>5. e \in Seq(C) /\ Len(e) = N /\ \A n \in 1 .. N : e[n] = L(s[n])
  <2>1. e = [n \in 1 .. N |-> L(s[n])] /\ \A n \in 1 .. N : L(s[n]) \in C
    BY <1>1, <1>2, <1>4
  <2> HIDE DEF N
  <2> QED
    BY <1>4, <2>1
<1>6. u \in Seq(B) /\ Len(u) = N + 1 /\ u[N + 1] = l /\ \A n \in 1 .. N : u[n] = s[n]
  BY <1>1, AppendProperties
<1>7. L(l) \in C
  BY <1>1
<1>8. v \in Seq(C) /\ Len(v) = N + 1 /\ v[N + 1] = L(l) /\ \A n \in 1 .. N : v[n] = L(s[n])
  <2>1. v \in Seq(C) /\ Len(v) = Len(e) + 1 /\ v[Len(e) + 1] = L(l) /\ \A n \in 1 .. Len(e) : v[n] = e[n]
    BY <1>5, <1>7, AppendProperties
  <2> QED
    BY <1>5, <2>1
<1> HIDE DEF u, v, N
<1>9. Ended(u) = v
  <2>1. DOMAIN u = 1 .. N + 1 /\ DOMAIN v = 1 .. N + 1 /\ v = [n \in DOMAIN v |-> v[n]]
    BY <1>4, <1>6, <1>8
  <2>2. \A n \in 1 .. N + 1 : L(u[n]) = v[n]
    BY <1>4, <1>6, <1>8
  <2> QED
    BY <1>2, <2>1, <2>2
<1> QED
  BY <1>3, <1>5, <1>9 DEF e, u, v, L, C

\* The lines that pieces are ended as are read.
LEMMA EndLinesAreRead ==
    ASSUME NEW refuses \in Nat, NEW s \in Seq(Bytes)
    PROVE  EndLines(NewParser(refuses), s) = LinesRead(refuses, Ended(s))
<1> DEFINE p == NewParser(refuses)
           B == Bytes
           S == {u \in Seq(B) : EndLines(p, u) = LinesRead(refuses, Ended(u))}
<1>1. p \in Parser /\ s \in Seq(B)
  BY NewParserIs DEF Between
<1>2. \A u \in Seq(B), l \in B : /\ EndLines(p, <<>>) = p
                                 /\ EndLines(p, Append(u, l)) = Take(EndLines(p, u), l, TRUE)
                                 /\ Ended(<<>>) = <<>> /\ LinesRead(refuses, <<>>) = p
  <2> SUFFICES ASSUME NEW u \in Seq(B), NEW l \in B
               PROVE  /\ EndLines(p, <<>>) = p
                      /\ EndLines(p, Append(u, l)) = Take(EndLines(p, u), l, TRUE)
                      /\ Ended(<<>>) = <<>> /\ LinesRead(refuses, <<>>) = p
    OBVIOUS
  <2>1. /\ EndLines(p, <<>>) = p
        /\ EndLines(p, Append(u, l)) = Take(EndLines(p, u), l, TRUE)
    <3> HIDE DEF p
    <3> QED
      BY <1>1, EndLinesAppend
  <2>2. Ended(u) \in Seq(Line) /\ Ended(<<>>) = <<>>
    BY EndedAppend
  <2>3. Blank \in Line
    <3>1. PICK z : z = <<>>
      OBVIOUS
    <3> QED
      BY <3>1, NoBytes DEF Blank, Line
  <2>4. LinesRead(refuses, <<>>) = p
    BY <2>2, <2>3, LinesReadAppend
  <2> QED
    BY <2>1, <2>2, <2>4
<1>3. ASSUME NEW u \in Seq(B), NEW l \in B, EndLines(p, u) = LinesRead(refuses, Ended(u))
      PROVE  EndLines(p, Append(u, l)) = LinesRead(refuses, Ended(Append(u, l)))
  <2> DEFINE one == [raw |-> l, lf |-> TRUE]
             q == LinesRead(refuses, Ended(u))
  <2>1. one \in Line
    BY DEF Line
  <2>2. Ended(u) \in Seq(Line) /\ Ended(Append(u, l)) = Append(Ended(u), one)
    BY EndedAppend
  <2> HIDE DEF one
  <2>3. q \in Between /\ LinesRead(refuses, Append(Ended(u), one)) = LineStep(q, one)
    BY <2>1, <2>2, LinesReadAppend
  <2>4. Take(q, l, TRUE) = LineStep(q, one)
    <3> HIDE DEF q
    <3> QED
      BY <2>3, TakeOfLine DEF one
  <2> QED
    BY <1>2, <1>3, <2>2, <2>3, <2>4
<1>4. <<>> \in S
  <2>1. <<>> \in Seq(B) /\ \E l \in B : TRUE
    BY NoBytes
  <2> QED
    BY <1>1, <1>2, <2>1
<1>5. \A u \in Seq(B), l \in B : u \in S => Append(u, l) \in S
  <2>1. \A u \in Seq(B), l \in B : Append(u, l) \in Seq(B)
    <3> HIDE DEF B
    <3> QED
      BY AppendProperties
  <2> HIDE DEF B, p
  <2> QED
    BY <1>3, <2>1
<1> HIDE DEF S, B
<1>6. s \in S
  BY <1>1, <1>4, <1>5, SeqSetInduction
<1> QED
  BY <1>6 DEF S, p

\* The lines of a stream, and the one after them.
LEMMA LinesInIs ==
    ASSUME NEW stream \in Bytes, NEW ps, ps = Pieces(stream),
           NEW e, e = Ended(Front(ps)), NEW one, one = [raw |-> Last(ps), lf |-> FALSE]
    PROVE  /\ e \in Seq(Line) /\ one \in Line /\ Blank \in Line
           /\ LinesIn(stream) = Append(IF Last(ps) = <<>> THEN e ELSE Append(e, one), Blank)
<1> DEFINE lines == [n \in DOMAIN ps |-> [raw |-> ps[n], lf |-> n < Len(ps)]]
           N == Len(ps)
           f == Front(ps)
<1>1. ps \in SomePieces
  <2>1. stream \in Seq(StreamByte)
    BY DEF Bytes
  <2>2. PICK b : b \in StreamByte
    BY DEF StreamByte
  <2> QED
    BY <2>1, <2>2, PiecesAppend
<1>2. /\ f \in Seq(Bytes) /\ Last(ps) \in Bytes /\ ps \in Seq(Bytes) /\ N \in Nat \ {0} /\ Len(f) = N - 1
      /\ \A n \in 1 .. N - 1 : f[n] = ps[n]
  BY <1>1, SomePiecesAre
<1>3. Last(ps) = ps[N]
  BY DEF Last
<1>4. DOMAIN ps = 1 .. N /\ DOMAIN f = 1 .. N - 1
  BY <1>2
<1>5. e \in Seq(Line) /\ one \in Line /\ Blank \in Line
  <2>1. e \in Seq(Line)
    BY <1>2, EndedAppend
  <2>2. one \in Line
    BY <1>2 DEF Line
  <2>3. Blank \in Line
    <3>1. PICK z : z = <<>>
      OBVIOUS
    <3> QED
      BY <3>1, NoBytes DEF Blank, Line
  <2> QED
    BY <2>1, <2>2, <2>3
<1>6. LinesIn(stream) = Append(IF Last(ps) = <<>> THEN Front(lines) ELSE lines, Blank)
  BY DEF LinesIn, Blank
<1>7. e = [n \in 1 .. N - 1 |-> [raw |-> ps[n], lf |-> TRUE]]
  BY <1>2, <1>4 DEF Ended
<1> HIDE DEF f
<1>8. lines = Append(e, one)
  <2> DEFINE v == Append(e, one)
             M == N - 1
  <2>1. M \in Nat /\ M + 1 = N
    BY <1>2
  <2>2. e = [n \in 1 .. M |-> [raw |-> ps[n], lf |-> TRUE]] /\ e \in Seq(Line)
    BY <1>5, <1>7
  <2> HIDE DEF N, M, v
  <2>3. Len(e) = M
    BY <2>1, <2>2
  <2>4. v \in Seq(Line) /\ Len(v) = M + 1 /\ v[M + 1] = one /\ \A n \in 1 .. M : v[n] = e[n]
    <3>1. /\ Append(e, one) \in Seq(Line) /\ Len(Append(e, one)) = Len(e) + 1 /\ Append(e, one)[Len(e) + 1] = one
          /\ \A n \in 1 .. Len(e) : Append(e, one)[n] = e[n]
      BY <1>5, AppendProperties
    <3> QED
      BY <2>3, <3>1 DEF v
  <2>5. v = [n \in 1 .. N |-> v[n]]
    BY <2>1, <2>4
  <2>6. ASSUME NEW n \in 1 .. N PROVE v[n] = [raw |-> ps[n], lf |-> n < N]
    <3>1. CASE n = N
      <4>1. v[n] = one /\ Last(ps) = ps[n]
        BY <1>3, <2>1, <2>4, <3>1
      <4>2. (n < N) = FALSE
        <5>1. N \in Int
          BY <2>1
        <5> QED
          BY <3>1, <5>1
      <4> QED
        BY <4>1, <4>2
    <3>2. CASE n # N
      <4>1. n \in 1 .. M /\ (n < N) = TRUE
        BY <2>1, <3>2
      <4> QED
        BY <2>2, <2>4, <4>1
    <3> QED
      BY <3>1, <3>2
  <2>7. lines = [n \in 1 .. N |-> [raw |-> ps[n], lf |-> n < N]]
    BY <1>4 DEF N
  <2> HIDE DEF lines
  <2>8. lines = v
    BY <2>5, <2>6, <2>7
  <2> QED
    BY <2>8 DEF v
<1>9. Front(lines) = e
  <2> HIDE DEF lines
  <2> DEFINE C == Line
  <2>1. e \in Seq(C) /\ one \in C
    BY <1>5
  <2> HIDE DEF C
  <2>2. Len(Append(e, one)) = Len(e) + 1 /\ SubSeq(Append(e, one), 1, Len(e)) = e /\ Len(e) \in Nat
    BY <2>1
  <2>3. Front(Append(e, one)) = e
    BY <2>2 DEF Front
  <2> QED
    BY <1>8, <2>3
<1> HIDE DEF lines
<1> QED
  BY <1>5, <1>6, <1>8, <1>9

\* To parse a stream, in whatever chunks, is to read its lines one after the other.
LEMMA ParseIsLines ==
    ASSUME NEW chunks \in Seq(Bytes), NEW refuses \in Nat
    PROVE  /\ LinesIn(FlattenSeq(chunks)) \in Seq(Line)
           /\ Parse(chunks, refuses) = LinesRead(refuses, LinesIn(FlattenSeq(chunks)))
<1> DEFINE p == NewParser(refuses)
           stream == FlattenSeq(chunks)
           ps == Pieces(stream)
           l == Last(ps)
           e == Ended(Front(ps))
           one == [raw |-> l, lf |-> FALSE]
           q == LinesRead(refuses, e)
<1>1. p \in Parser
  BY NewParserIs DEF Between
<1>2. stream \in Bytes /\ FeedAll(p, chunks) = Feed(p, stream)
  <2> HIDE DEF p
  <2> QED
    BY <1>1, ChunksAreOne
<1>3. Parse(chunks, refuses) = Finalize(Feed(p, stream))
  BY <1>2 DEF Parse, FeedAll
<1> HIDE DEF stream
<1>4. /\ e \in Seq(Line) /\ one \in Line /\ Blank \in Line
      /\ LinesIn(stream) = Append(IF l = <<>> THEN e ELSE Append(e, one), Blank)
  BY <1>2, LinesInIs
<1>5. Front(ps) \in Seq(Bytes) /\ l \in Bytes
  <2>1. stream \in Seq(StreamByte)
    BY <1>2 DEF Bytes
  <2>2. PICK b : b \in StreamByte
    BY DEF StreamByte
  <2>3. ps \in SomePieces
    BY <2>1, <2>2, PiecesAppend
  <2> HIDE DEF ps
  <2> QED
    BY <2>3, SomePiecesAre
<1>6. Feed(p, stream) = Take(q, l, FALSE)
  <2>1. Feed(p, stream) = Take(EndLines(p, Front(ps)), l, FALSE)
    BY DEF Feed, EndLines
  <2>2. EndLines(p, Front(ps)) = q
    <3> HIDE DEF ps
    <3> QED
      BY <1>5, EndLinesAreRead DEF ps
  <2> QED
    BY <2>1, <2>2
<1> HIDE DEF ps, l, e
<1>7. q \in Between /\ LinesRead(refuses, Append(e, one)) = LineStep(q, one)
  BY <1>4, LinesReadAppend
<1>8. Finalize(Take(q, l, FALSE)) = LineStep(IF l = <<>> THEN q ELSE LineStep(q, one), Blank)
  <2> HIDE DEF q
  <2> QED
    BY <1>5, <1>7, TakeOfLine
<1> HIDE DEF one
<1> DEFINE w == IF l = <<>> THEN e ELSE Append(e, one)
<1>9. w \in Seq(Line)
  <2>1. Append(e, one) \in Seq(Line)
    BY <1>4, AppendProperties
  <2> QED
    BY <1>4, <2>1
<1>10. LinesRead(refuses, w) = IF l = <<>> THEN q ELSE LineStep(q, one)
  BY <1>7
<1> HIDE DEF w
<1>11. LinesRead(refuses, Append(w, Blank)) = LineStep(LinesRead(refuses, w), Blank) /\ Append(w, Blank) \in Seq(Line)
  BY <1>4, <1>9, LinesReadAppend, AppendProperties
<1> HIDE DEF q
<1> QED
  BY <1>3, <1>4, <1>6, <1>8, <1>10, <1>11 DEF w, stream

-----------------------------------------------------------------------------
(* The lines of an event *)

\* The lines that say something of the event that is not ended yet.
Open(lines) ==
    {j \in 1 .. Len(lines) : /\ Field(lines[j]) \in {"e", "d"}
                             /\ \A k \in j .. Len(lines) : Field(lines[k]) # "blank"}

\* The bytes of the lines S.
Sizes(lines, S) == MapThenSumSet(LAMBDA j : Size(lines[j]), S)

SizeOf(lines) == [n \in DOMAIN lines |-> Size(lines[n])]

\* The lines of S with a name, those with data, and what lines say.
NamesOf(lines, S) == {j \in S : Field(lines[j]) = "e"}
DataOf(lines, S) == {j \in S : Field(lines[j]) = "d"}
ValuesOf(lines, places) == [n \in DOMAIN places |-> Value(lines[places[n]])]

\* The event that the lines S say.
EventOf(lines, S) ==
    [event |-> IF NamesOf(lines, S) = {} THEN <<>> ELSE Value(lines[Max(NamesOf(lines, S))]),
     data |-> ValuesOf(lines, Ascending(DataOf(lines, S)))]

\* Lines and one more.
LEMMA LineAfter ==
    ASSUME NEW s \in Seq(Line), NEW l \in Line
    PROVE  /\ Append(s, l) \in Seq(Line) /\ Len(Append(s, l)) = Len(s) + 1 /\ Len(s) \in Nat
           /\ Append(s, l)[Len(s) + 1] = l
           /\ \A n \in 1 .. Len(s) : Append(s, l)[n] = s[n] /\ s[n] \in Line
           /\ DOMAIN Append(s, l) = 1 .. Len(s) + 1 /\ DOMAIN s = 1 .. Len(s)
<1> DEFINE C == Line
<1>1. s \in Seq(C) /\ l \in C
  OBVIOUS
<1> HIDE DEF C
<1>2. /\ Append(s, l) \in Seq(C) /\ Len(Append(s, l)) = Len(s) + 1 /\ Len(s) \in Nat
      /\ Append(s, l)[Len(s) + 1] = l
      /\ \A n \in 1 .. Len(s) : Append(s, l)[n] = s[n] /\ s[n] \in C
  BY <1>1, AppendProperties
<1>3. DOMAIN Append(s, l) = 1 .. Len(s) + 1 /\ DOMAIN s = 1 .. Len(s)
  BY <1>1, <1>2
<1> QED
  BY <1>2, <1>3 DEF C

\* The bytes of a line are a number.
LEMMA SizeIs ==
    ASSUME NEW l \in Line
    PROVE  Size(l) \in Nat /\ Size(l) \in Int
<1>1. Size(l) = Len(l.raw) + (IF l.lf THEN 1 ELSE 0)
  BY DEF Size
<1>2. l.raw \in Bytes
  BY DEF Line
<1>3. l.raw \in Seq(StreamByte)
  BY <1>2 DEF Bytes
<1>4. PICK x \in Nat : x = Len(l.raw)
  BY <1>3
<1>5. PICK y \in Nat : y = IF l.lf THEN 1 ELSE 0
  OBVIOUS
<1>6. Size(l) = x + y
  BY <1>1, <1>4, <1>5
<1> QED
  BY <1>6

\* The bytes of a set of lines as the library's fold over a set has them.
LEMMA SizesAre ==
    ASSUME NEW s \in Seq(Line), NEW T \in SUBSET (1 .. Len(s))
    PROVE  /\ SizeOf(s) \in Seq(Int) /\ DOMAIN SizeOf(s) = 1 .. Len(s)
           /\ Sizes(s, T) = Total(Only(SizeOf(s), T))
<1> DEFINE v == SizeOf(s)
           F(g) == [t \in SUBSET T |->
                        IF t = {} THEN 0
                        ELSE Size(s[CHOOSE x \in t : TRUE]) + g[t \ {CHOOSE x \in t : TRUE}]]
           h == [t \in SUBSET T |-> Total(Only(v, t))]
<1>1. v \in Seq(Int) /\ DOMAIN v = 1 .. Len(s) /\ T \in SUBSET DOMAIN v
  <2> DEFINE N == Len(s)
  <2>1. N \in Nat /\ DOMAIN s = 1 .. N /\ \A n \in 1 .. N : Size(s[n]) \in Int
    <3>1. N \in Nat /\ DOMAIN s = 1 .. N /\ \A n \in 1 .. N : s[n] \in Line
      OBVIOUS
    <3> QED
      BY <3>1, SizeIs
  <2>2. v = [n \in 1 .. N |-> Size(s[n])]
    BY <2>1 DEF SizeOf
  <2>3. T \in SUBSET (1 .. N)
    OBVIOUS
  <2> HIDE DEF v, N
  <2>4. v = [n \in 1 .. N |-> v[n]] /\ \A n \in 1 .. N : v[n] \in Int
    BY <2>1, <2>2
  <2>5. v \in Seq(Int) /\ Len(v) = N
    BY <2>1, <2>4, NumbersAreSeq
  <2> QED
    BY <2>2, <2>3, <2>5 DEF N
<1>2. Sizes(s, T) = (CHOOSE g : g = F(g))[T]
  BY DEF Sizes, MapThenSumSet, MapThenFoldSet
<1>3. \A n \in T : v[n] = Size(s[n])
  BY DEF SizeOf
<1>4. AddingUp(h, v, T)
  <2> HIDE DEF v
  <2> QED
    BY <1>1, SumIs
<1> HIDE DEF v
<1>5. h = F(h)
  <2>1. ASSUME NEW t \in SUBSET T, t # {}
        PROVE  h[t] = Size(s[CHOOSE x \in t : TRUE]) + h[t \ {CHOOSE x \in t : TRUE}]
    <3>1. PICK i : i = (CHOOSE x \in t : TRUE) /\ i \in t
      BY <2>1
    <3>2. h[t] = v[i] + h[t \ {i}]
      BY <1>4, <2>1, <3>1 DEF AddingUp
    <3> QED
      BY <1>3, <3>1, <3>2
  <2>2. h[{}] = 0
    BY <1>4 DEF AddingUp
  <2> QED
    BY <2>1, <2>2
<1>6. PICK g : g = F(g) /\ Sizes(s, T) = g[T]
  <2> HIDE DEF F, h
  <2> QED
    BY <1>2, <1>5
<1>7. AddingUp(g, v, T)
  <2>1. ASSUME NEW t \in SUBSET T, t # {}
        PROVE  g[t] = v[CHOOSE x \in t : TRUE] + g[t \ {CHOOSE x \in t : TRUE}]
    <3>1. PICK i : i = (CHOOSE x \in t : TRUE) /\ i \in t
      BY <2>1
    <3>2. g[t] = Size(s[i]) + g[t \ {i}]
      BY <1>6, <2>1, <3>1
    <3> QED
      BY <1>3, <3>1, <3>2
  <2>2. g[{}] = 0
    BY <1>6
  <2> QED
    BY <2>1, <2>2 DEF AddingUp
<1>8. g[T] = Total(Only(v, T))
  BY <1>1, <1>7, SumIs
<1> QED
  BY <1>1, <1>6, <1>8 DEF v

\* The bytes of lines, and of lines with the next.
LEMMA SizesWith ==
    ASSUME NEW s \in Seq(Line), NEW l \in Line, NEW S \in SUBSET (1 .. Len(s))
    PROVE  /\ Sizes(s, S) \in Int
           /\ S = {} => Sizes(s, S) = 0
           /\ Sizes(Append(s, l), S) = Sizes(s, S)
           /\ Sizes(Append(s, l), S \cup {Len(s) + 1}) = Sizes(s, S) + Size(l)
<1> DEFINE u == Append(s, l)
           N == Len(s)
           T == S \cup {N + 1}
           v == SizeOf(s)
           w == SizeOf(u)
           o == Only(v, S)
<1>1. /\ u \in Seq(Line) /\ Len(u) = N + 1 /\ N \in Nat /\ u[N + 1] = l
      /\ \A n \in 1 .. N : u[n] = s[n] /\ s[n] \in Line
      /\ DOMAIN u = 1 .. N + 1 /\ DOMAIN s = 1 .. N
  BY LineAfter
<1>2. S \in SUBSET (1 .. N)
  OBVIOUS
<1>3. v \in Seq(Int) /\ DOMAIN v = 1 .. N /\ Sizes(s, S) = Total(o)
  BY SizesAre
<1>4. w = [n \in DOMAIN u |-> Size(u[n])] /\ v = [n \in DOMAIN s |-> Size(s[n])]
  BY DEF SizeOf
<1> HIDE DEF u, N
<1>5. S \in SUBSET (1 .. Len(u)) /\ T \in SUBSET (1 .. Len(u))
  BY <1>1, <1>2
<1> HIDE DEF T
<1>6. /\ w \in Seq(Int) /\ DOMAIN w = 1 .. Len(u)
      /\ Sizes(u, S) = Total(Only(w, S)) /\ Sizes(u, T) = Total(Only(w, T))
  BY <1>1, <1>5, SizesAre
<1>7. w[N + 1] = Size(l) /\ \A n \in 1 .. N : w[n] = v[n]
  BY <1>1, <1>4
<1> HIDE DEF v, w
<1>8. o \in Seq(Int) /\ (S = {} => Total(o) = 0)
  BY <1>2, <1>3, OnlyIs
<1>9. Len(o) = N /\ o = [n \in 1 .. N |-> IF n \in S THEN v[n] ELSE 0]
  <2>1. o = [n \in 1 .. N |-> IF n \in S THEN v[n] ELSE 0]
    BY <1>3 DEF Only
  <2> HIDE DEF o
  <2> QED
    BY <1>1, <1>8, <2>1
<1> HIDE DEF o
<1>10. Total(o) \in Int /\ \A x \in Int : Total(Append(o, x)) = Total(o) + x
  BY <1>8, TotalAppend
<1>11. Size(l) \in Int /\ 0 \in Int
  BY SizeIs
<1>12. ASSUME NEW R \in SUBSET (1 .. N + 1), NEW x \in Int,
              \A n \in 1 .. N : n \in R <=> n \in S,
              x = IF N + 1 \in R THEN w[N + 1] ELSE 0
       PROVE  Only(w, R) = Append(o, x)
  <2> DEFINE p == Append(o, x)
  <2>1. Only(w, R) = [n \in 1 .. N + 1 |-> IF n \in R THEN w[n] ELSE 0]
    BY <1>1, <1>6 DEF Only
  <2>2. Len(p) = N + 1 /\ p[N + 1] = x /\ (\A n \in 1 .. N : p[n] = o[n]) /\ p \in Seq(Int)
    BY <1>8, <1>9, OneMore
  <2> HIDE DEF p
  <2>3. p = [n \in 1 .. N + 1 |-> p[n]]
    BY <2>2
  <2>4. ASSUME NEW n \in 1 .. N + 1 PROVE p[n] = IF n \in R THEN w[n] ELSE 0
    <3>1. CASE n = N + 1
      BY <1>12, <2>2, <3>1
    <3>2. CASE n # N + 1
      <4>1. n \in 1 .. N
        BY <1>1, <3>2
      <4> QED
        BY <1>7, <1>9, <1>12, <2>2, <4>1
    <3> QED
      BY <3>1, <3>2
  <2>5. p = Only(w, R)
    BY <2>1, <2>3, <2>4
  <2> QED
    BY <2>5 DEF p
<1>13. Only(w, S) = Append(o, 0)
  <2>1. S \in SUBSET (1 .. N + 1) /\ N + 1 \notin S
    BY <1>1, <1>2
  <2>2. PICK x \in Int : x = 0
    OBVIOUS
  <2>3. x = IF N + 1 \in S THEN w[N + 1] ELSE 0
    BY <2>1, <2>2
  <2> QED
    BY <1>12, <2>1, <2>2, <2>3
<1>14. Only(w, T) = Append(o, Size(l))
  <2>1. /\ T \in SUBSET (1 .. N + 1) /\ N + 1 \in T
        /\ \A n \in 1 .. N : n \in T <=> n \in S
    BY <1>1, <1>2 DEF T
  <2>2. Size(l) = IF N + 1 \in T THEN w[N + 1] ELSE 0
    BY <1>7, <2>1
  <2> QED
    BY <1>11, <1>12, <2>1, <2>2
<1>15. Sizes(u, S) = Sizes(s, S) /\ Sizes(u, T) = Sizes(s, S) + Size(l) /\ Sizes(s, S) \in Int
  <2>1. Sizes(u, S) = Total(o) + 0 /\ Total(o) + 0 = Total(o)
    BY <1>6, <1>10, <1>11, <1>13
  <2>2. Sizes(u, T) = Total(o) + Size(l)
    BY <1>6, <1>10, <1>11, <1>14
  <2> QED
    BY <1>3, <1>10, <2>1, <2>2 DEF o
<1> QED
  BY <1>3, <1>8, <1>15 DEF u, T, N, o

\* The greatest of numbers up to N and the next.
LEMMA MaxWithNext ==
    ASSUME NEW N \in Nat, NEW S \in SUBSET (1 .. N)
    PROVE  Max(S \cup {N + 1}) = N + 1
<1> DEFINE M == N + 1
           T == S \cup {M}
<1>1. M \in Nat /\ T \in SUBSET (1 .. M) /\ M \in T /\ T # {}
  OBVIOUS
<1> HIDE DEF M, T
<1>2. Max(T) \in T /\ \A y \in T : Max(T) >= y
  BY <1>1, MaxOfSegment
<1>3. Max(T) >= M /\ Max(T) \in 1 .. M
  BY <1>1, <1>2
<1>4. Max(T) = M
  BY <1>1, <1>3
<1> QED
  BY <1>4 DEF M, T

\* What f has at the places a.
At(f, a) == [n \in DOMAIN a |-> f[a[n]]]

\* What is in a sequence is of its set.
LEMMA ElementsOf ==
    ASSUME NEW B, NEW s \in Seq(B)
    PROVE  \A n \in DOMAIN s : s[n] \in B
OBVIOUS

\* What is at some of the places up to N, and at the next.
LEMMA AtWith ==
    ASSUME NEW N \in Nat, NEW a \in Seq(1 .. N), NEW f, NEW g, \A i \in 1 .. N : f[i] = g[i]
    PROVE  /\ At(f, <<>>) = <<>>
           /\ At(g, a) = At(f, a)
           /\ At(g, Append(a, N + 1)) = Append(At(f, a), g[N + 1])
<1> DEFINE K == Len(a)
           b == Append(a, N + 1)
           D == {f[i] : i \in 1 .. N} \cup {g[N + 1]}
           v == At(f, a)
           w == At(g, b)
           x == Append(v, g[N + 1])
<1>1. K \in Nat /\ DOMAIN a = 1 .. K /\ \A n \in 1 .. K : a[n] \in 1 .. N
  <2> DEFINE C == 1 .. N
  <2>1. a \in Seq(C)
    OBVIOUS
  <2> HIDE DEF C
  <2>2. K \in Nat /\ DOMAIN a = 1 .. K /\ \A n \in 1 .. K : a[n] \in C
    BY <2>1
  <2> QED
    BY <2>2 DEF C
<1>2. b \in Seq(1 .. N + 1) /\ Len(b) = K + 1 /\ b[K + 1] = N + 1 /\ \A n \in 1 .. K : b[n] = a[n]
  <2> DEFINE C == 1 .. N + 1
  <2>1. a \in Seq(C) /\ N + 1 \in C
    OBVIOUS
  <2> HIDE DEF C
  <2>2. b \in Seq(C) /\ Len(b) = K + 1 /\ b[K + 1] = N + 1 /\ \A n \in 1 .. K : b[n] = a[n]
    BY <2>1, AppendProperties
  <2> QED
    BY <2>2 DEF C
<1>3. At(f, <<>>) = <<>>
  <2>1. DOMAIN <<>> = {}
    OBVIOUS
  <2> QED
    BY <2>1 DEF At
<1>4. v = [n \in 1 .. K |-> f[a[n]]] /\ At(g, a) = [n \in 1 .. K |-> g[a[n]]]
  BY <1>1 DEF At
<1>5. At(g, a) = v
  BY <1>1, <1>4
<1> HIDE DEF b, K
<1>6. DOMAIN b = 1 .. K + 1
  BY <1>2
<1>7. w = [n \in 1 .. K + 1 |-> g[b[n]]]
  BY <1>6 DEF At
<1> HIDE DEF v, w
<1>8. v \in Seq(D) /\ Len(v) = K
  <2>1. \A n \in 1 .. K : f[a[n]] \in D
    BY <1>1
  <2> HIDE DEF D
  <2> QED
    BY <1>1, <1>4, <2>1
<1>9. x \in Seq(D) /\ Len(x) = K + 1 /\ x[K + 1] = g[N + 1] /\ \A n \in 1 .. K : x[n] = v[n]
  <2>1. g[N + 1] \in D
    OBVIOUS
  <2> HIDE DEF D
  <2>2. x \in Seq(D) /\ Len(x) = Len(v) + 1 /\ x[Len(v) + 1] = g[N + 1] /\ \A n \in 1 .. Len(v) : x[n] = v[n]
    BY <1>8, <2>1, AppendProperties
  <2> QED
    BY <1>8, <2>2
<1> HIDE DEF x, D
<1>10. w = x
  <2>1. x = [n \in 1 .. K + 1 |-> x[n]]
    BY <1>9
  <2>2. ASSUME NEW n \in 1 .. K + 1 PROVE x[n] = g[b[n]]
    <3>1. CASE n = K + 1
      BY <1>2, <1>9, <3>1
    <3>2. CASE n # K + 1
      <4>1. n \in 1 .. K
        BY <1>1, <3>2
      <4>2. x[n] = f[a[n]] /\ b[n] = a[n] /\ g[a[n]] = f[a[n]]
        BY <1>1, <1>2, <1>4, <1>9, <4>1
      <4> QED
        BY <4>2
    <3> QED
      BY <3>1, <3>2
  <2> QED
    BY <1>7, <2>1, <2>2
<1> QED
  BY <1>3, <1>5, <1>10 DEF v, w, x, b

\* What lines say, and lines with the next.
LEMMA ValuesWith ==
    ASSUME NEW s \in Seq(Line), NEW l \in Line, NEW a \in Seq(1 .. Len(s))
    PROVE  /\ ValuesOf(s, <<>>) = <<>>
           /\ ValuesOf(Append(s, l), a) = ValuesOf(s, a)
           /\ ValuesOf(Append(s, l), Append(a, Len(s) + 1)) = Append(ValuesOf(s, a), Value(l))
<1> DEFINE u == Append(s, l)
           N == Len(s)
           f == [i \in 1 .. N |-> Value(s[i])]
           g == [i \in 1 .. N + 1 |-> Value(u[i])]
<1>1. /\ N \in Nat /\ u[N + 1] = l
      /\ \A n \in 1 .. N : u[n] = s[n]
  BY LineAfter
<1>2. a \in Seq(1 .. N)
  OBVIOUS
<1> HIDE DEF u, N
<1>3. g[N + 1] = Value(l) /\ \A i \in 1 .. N : f[i] = g[i]
  BY <1>1
<1>4. \A b \in Seq(1 .. N) : ValuesOf(s, b) = At(f, b)
  <2> SUFFICES ASSUME NEW b \in Seq(1 .. N) PROVE ValuesOf(s, b) = At(f, b)
    OBVIOUS
  <2>1. \A n \in DOMAIN b : b[n] \in 1 .. N
    BY ElementsOf
  <2> QED
    BY <2>1 DEF ValuesOf, At
<1>5. \A b \in Seq(1 .. N + 1) : ValuesOf(u, b) = At(g, b)
  <2> SUFFICES ASSUME NEW b \in Seq(1 .. N + 1) PROVE ValuesOf(u, b) = At(g, b)
    OBVIOUS
  <2>1. \A n \in DOMAIN b : b[n] \in 1 .. N + 1
    BY ElementsOf
  <2> QED
    BY <2>1 DEF ValuesOf, At
<1> HIDE DEF f, g
<1>6. /\ At(f, <<>>) = <<>>
      /\ At(g, a) = At(f, a)
      /\ At(g, Append(a, N + 1)) = Append(At(f, a), g[N + 1])
  <2>1. \A i \in 1 .. N : f[i] = g[i]
    BY <1>3
  <2>2. N \in Nat /\ a \in Seq(1 .. N)
    BY <1>1, <1>2
  <2> QED
    BY <2>1, <2>2, AtWith
<1>7. <<>> \in Seq(1 .. N) /\ a \in Seq(1 .. N + 1) /\ Append(a, N + 1) \in Seq(1 .. N + 1)
  <2> DEFINE C == 1 .. N + 1
  <2>1. a \in Seq(C) /\ N + 1 \in C
    BY <1>1, <1>2
  <2> HIDE DEF C
  <2>2. Append(a, N + 1) \in Seq(C)
    BY <2>1, AppendProperties
  <2> QED
    BY <2>1, <2>2, EmptySeq DEF C
<1>8. ValuesOf(s, <<>>) = <<>> /\ ValuesOf(s, a) = At(f, a)
  BY <1>2, <1>4, <1>6, <1>7
<1>9. ValuesOf(u, a) = At(f, a) /\ ValuesOf(u, Append(a, N + 1)) = Append(At(f, a), Value(l))
  BY <1>3, <1>5, <1>6, <1>7
<1> QED
  BY <1>8, <1>9 DEF u, N

\* The event of lines, and of lines with the next.
LEMMA EventOfWith ==
    ASSUME NEW s \in Seq(Line), NEW l \in Line, NEW S \in SUBSET (1 .. Len(s))
    PROVE  /\ S = {} => EventOf(s, S) = NoEvent
           /\ EventOf(Append(s, l), S) = EventOf(s, S)
           /\ Field(l) = "e" => EventOf(Append(s, l), S \cup {Len(s) + 1})
                                  = [event |-> Value(l), data |-> EventOf(s, S).data]
           /\ Field(l) = "d" => EventOf(Append(s, l), S \cup {Len(s) + 1})
                                  = [event |-> EventOf(s, S).event, data |-> Append(EventOf(s, S).data, Value(l))]
<1> DEFINE u == Append(s, l)
           N == Len(s)
           T == S \cup {N + 1}
           names == NamesOf(s, S)
           data == DataOf(s, S)
           a == Ascending(data)
           event == IF names = {} THEN <<>> ELSE Value(s[Max(names)])
<1>1. /\ N \in Nat /\ u[N + 1] = l
      /\ \A n \in 1 .. N : u[n] = s[n]
  BY LineAfter
<1>2. S \in SUBSET (1 .. N)
  OBVIOUS
<1>3. names \in SUBSET (1 .. N) /\ data \in SUBSET (1 .. N)
  BY <1>2 DEF NamesOf, DataOf
<1>4. /\ NamesOf(u, S) = names
      /\ NamesOf(u, T) = IF Field(l) = "e" THEN names \cup {N + 1} ELSE names
  <2> HIDE DEF u, N
  <2> QED
    BY <1>1, <1>2 DEF NamesOf
<1>5. /\ DataOf(u, S) = data
      /\ DataOf(u, T) = IF Field(l) = "d" THEN data \cup {N + 1} ELSE data
  <2> HIDE DEF u, N
  <2> QED
    BY <1>1, <1>2 DEF DataOf
<1>6. /\ Ascending({}) = <<>> /\ a \in Seq(1 .. N)
      /\ Ascending(data \cup {N + 1}) = Append(a, N + 1)
  <2> HIDE DEF data, N
  <2> QED
    BY <1>1, <1>3, AscendingWith DEF N
<1>7. Max(names \cup {N + 1}) = N + 1
  <2> HIDE DEF names, N
  <2> QED
    BY <1>1, <1>3, MaxWithNext
<1>8. names # {} => Max(names) \in 1 .. N
  <2> HIDE DEF names, N
  <2> QED
    BY <1>1, <1>3, MaxOfSegment
<1>9. /\ ValuesOf(s, <<>>) = <<>> /\ ValuesOf(u, a) = ValuesOf(s, a)
      /\ ValuesOf(u, Append(a, N + 1)) = Append(ValuesOf(s, a), Value(l))
  <2> HIDE DEF a
  <2> QED
    BY <1>6, ValuesWith
<1>10. EventOf(s, S) = [event |-> event, data |-> ValuesOf(s, a)]
  BY DEF EventOf
<1>11. (IF names = {} THEN <<>> ELSE Value(u[Max(names)])) = event
  BY <1>1, <1>8
<1>12. EventOf(u, S) = EventOf(s, S)
  <2>1. EventOf(u, S) = [event |-> IF names = {} THEN <<>> ELSE Value(u[Max(names)]), data |-> ValuesOf(u, a)]
    <3> HIDE DEF u, names, data
    <3> QED
      BY <1>4, <1>5 DEF EventOf
  <2> HIDE DEF u, names, data, a, event
  <2> QED
    BY <1>9, <1>10, <1>11, <2>1
<1>13. S = {} => EventOf(s, S) = NoEvent
  <2> SUFFICES ASSUME S = {} PROVE EventOf(s, S) = NoEvent
    OBVIOUS
  <2>1. names = {} /\ data = {}
    BY DEF NamesOf, DataOf
  <2>2. event = <<>> /\ ValuesOf(s, a) = <<>>
    BY <1>6, <1>9, <2>1
  <2> QED
    BY <1>10, <2>2 DEF NoEvent
<1> HIDE DEF u, N, names, data, a, event, T
<1>14. ASSUME Field(l) = "e" PROVE EventOf(u, T) = [event |-> Value(l), data |-> EventOf(s, S).data]
  <2>1. NamesOf(u, T) = names \cup {N + 1} /\ DataOf(u, T) = data
    BY <1>4, <1>5, <1>14
  <2>2. Max(NamesOf(u, T)) = N + 1 /\ NamesOf(u, T) # {}
    BY <1>7, <2>1
  <2>3. EventOf(u, T).event = Value(l) /\ EventOf(u, T).data = ValuesOf(s, a)
    BY <1>1, <1>9, <2>1, <2>2 DEF EventOf, a
  <2>4. EventOf(u, T) = [event |-> EventOf(u, T).event, data |-> EventOf(u, T).data]
    BY DEF EventOf
  <2> QED
    BY <1>10, <2>3, <2>4
<1>15. ASSUME Field(l) = "d"
       PROVE  EventOf(u, T) = [event |-> EventOf(s, S).event, data |-> Append(EventOf(s, S).data, Value(l))]
  <2>1. NamesOf(u, T) = names /\ DataOf(u, T) = data \cup {N + 1}
    BY <1>4, <1>5, <1>15
  <2>2. EventOf(u, T).event = event /\ EventOf(u, T).data = Append(ValuesOf(s, a), Value(l))
    BY <1>6, <1>9, <1>11, <2>1 DEF EventOf
  <2>3. EventOf(u, T) = [event |-> EventOf(u, T).event, data |-> EventOf(u, T).data]
    BY DEF EventOf
  <2> QED
    BY <1>10, <2>2, <2>3
<1> QED
  BY <1>12, <1>13, <1>14, <1>15 DEF u, T, N

-----------------------------------------------------------------------------
(* Lines and the next *)

\* The event that a line ends is that of the lines that belong to it.
LEMMA EventEndingIs ==
    ASSUME NEW s, NEW i
    PROVE  EventEnding(s, i) = EventOf(s, Belonging(s, i))
BY DEF EventEnding, EventOf, NamesOf, DataOf, ValuesOf

\* What is said of a line does not depend on those that follow it.
LEMMA BelongingAppend ==
    ASSUME NEW s \in Seq(Line), NEW l \in Line, NEW i \in 1 .. Len(s)
    PROVE  /\ Belonging(s, i) \in SUBSET (1 .. Len(s))
           /\ Belonging(Append(s, l), i) = Belonging(s, i)
           /\ EventEnding(Append(s, l), i) = EventEnding(s, i)
           /\ TooLong(Append(s, l), i) <=> TooLong(s, i)
<1> DEFINE u == Append(s, l)
           N == Len(s)
           S == Belonging(s, i)
<1>1. N \in Nat /\ \A n \in 1 .. N : u[n] = s[n]
  BY LineAfter
<1>2. i \in 1 .. N
  OBVIOUS
<1> HIDE DEF u, N
<1>3. S \in SUBSET (1 .. N)
  BY <1>1, <1>2 DEF Belonging
<1>4. Belonging(u, i) = S
  <2>1. \A j \in 1 .. i : u[j] = s[j] /\ \A k \in j .. i - 1 : u[k] = s[k]
    BY <1>1, <1>2
  <2> QED
    BY <2>1 DEF Belonging
<1> HIDE DEF S
<1>5. EventOf(u, S) = EventOf(s, S)
  BY <1>3, EventOfWith DEF u, N
<1>6. EventEnding(u, i) = EventEnding(s, i)
  BY <1>4, <1>5, EventEndingIs DEF S
<1>7. Sizes(u, S) = Sizes(s, S)
  BY <1>3, SizesWith DEF u, N
<1>8. \A t : TooLong(t, i) <=> \/ Len(t[i].raw) > sseBufferLimit
                               \/ i \in Belonging(t, i) /\ Sizes(t, Belonging(t, i)) > sseBufferLimit
  BY DEF TooLong, Sizes
<1>9. u[i] = s[i]
  BY <1>1, <1>2
<1>10. TooLong(u, i) <=> TooLong(s, i)
  BY <1>4, <1>7, <1>8, <1>9 DEF S
<1> QED
  BY <1>3, <1>4, <1>6, <1>10 DEF u, N, S

\* What is said of the next line, by the event that the lines before it leave open.
LEMMA BelongingNext ==
    ASSUME NEW s \in Seq(Line), NEW l \in Line, NEW u, u = Append(s, l), NEW N, N = Len(s)
    PROVE  /\ Open(s) \in SUBSET (1 .. N)
           /\ Belonging(u, N + 1) = IF Field(l) \in {"e", "d"} THEN Open(s) \cup {N + 1} ELSE Open(s)
           /\ Open(u) = IF Field(l) = "blank" THEN {} ELSE Belonging(u, N + 1)
           /\ TooLong(u, N + 1) <=> \/ Len(l.raw) > sseBufferLimit
                                    \/ Field(l) \in {"e", "d"} /\ Sizes(s, Open(s)) + Size(l) > sseBufferLimit
           /\ Field(l) = "blank" => EventEnding(u, N + 1) = EventOf(s, Open(s))
<1> DEFINE M == N + 1
<1>1. N \in Nat /\ Len(u) = M /\ u[M] = l /\ \A n \in 1 .. N : u[n] = s[n]
  BY LineAfter
<1>2. Open(s) \in SUBSET (1 .. N)
  BY DEF Open
<1>3. M \in Nat /\ M - 1 = N /\ 1 .. M = (1 .. N) \cup {M} /\ M \notin 1 .. N
  BY <1>1
<1>4. \A j \in 1 .. N : j .. M = (j .. N) \cup {M}
  BY <1>1
<1>5. M .. N = {} /\ M .. M = {M}
  BY <1>1
<1> HIDE DEF M
<1>6. \A j \in 1 .. N : j \in Belonging(u, M) <=> j \in Open(s)
  <2> SUFFICES ASSUME NEW j \in 1 .. N PROVE j \in Belonging(u, M) <=> j \in Open(s)
    OBVIOUS
  <2>1. j \in Belonging(u, M) <=> Field(u[j]) \in {"e", "d"} /\ \A k \in j .. N : Field(u[k]) # "blank"
    BY <1>3 DEF Belonging
  <2>2. j \in Open(s) <=> Field(s[j]) \in {"e", "d"} /\ \A k \in j .. N : Field(s[k]) # "blank"
    BY DEF Open
  <2>3. u[j] = s[j] /\ \A k \in j .. N : u[k] = s[k]
    BY <1>1
  <2> QED
    BY <2>1, <2>2, <2>3
<1>7. M \in Belonging(u, M) <=> Field(l) \in {"e", "d"}
  BY <1>1, <1>3, <1>5 DEF Belonging
<1>8. Belonging(u, M) \in SUBSET (1 .. M)
  BY DEF Belonging
<1>9. Belonging(u, M) = IF Field(l) \in {"e", "d"} THEN Open(s) \cup {M} ELSE Open(s)
  <2>1. CASE Field(l) \in {"e", "d"}
    <3>1. M \in Belonging(u, M)
      BY <1>7, <2>1
    <3>2. \A j : j \in Belonging(u, M) <=> j \in Open(s) \cup {M}
      BY <1>2, <1>3, <1>6, <1>8, <3>1
    <3> QED
      BY <2>1, <3>2
  <2>2. CASE Field(l) \notin {"e", "d"}
    <3>1. M \notin Belonging(u, M)
      BY <1>7, <2>2
    <3>2. \A j : j \in Belonging(u, M) <=> j \in Open(s)
      BY <1>2, <1>3, <1>6, <1>8, <3>1
    <3> QED
      BY <2>2, <3>2
  <2> QED
    BY <2>1, <2>2
<1>10. Open(u) = IF Field(l) = "blank" THEN {} ELSE Belonging(u, M)
  <2>1. \A j \in 1 .. M : M \in j .. M /\ j .. M = (j .. M - 1) \cup {M}
    BY <1>1, <1>3, <1>4, <1>5
  <2>2. CASE Field(l) = "blank"
    <3>1. \A j \in 1 .. M : ~(\A k \in j .. M : Field(u[k]) # "blank")
      BY <1>1, <2>1, <2>2
    <3> QED
      BY <1>1, <2>2, <3>1 DEF Open
  <2>3. CASE Field(l) # "blank"
    <3>1. \A j \in 1 .. M : (\A k \in j .. M : Field(u[k]) # "blank") <=> \A k \in j .. M - 1 : Field(u[k]) # "blank"
      BY <1>1, <2>1, <2>3
    <3> QED
      BY <1>1, <2>3, <3>1 DEF Open, Belonging
  <2> QED
    BY <2>2, <2>3
<1>11. Sizes(u, Open(s) \cup {M}) = Sizes(s, Open(s)) + Size(l)
  <2> DEFINE O == Open(s)
  <2>1. O \in SUBSET (1 .. Len(s))
    BY <1>2
  <2> HIDE DEF O
  <2>2. Sizes(Append(s, l), O \cup {Len(s) + 1}) = Sizes(s, O) + Size(l)
    BY <2>1, SizesWith
  <2> QED
    BY <2>2 DEF O, M
<1>12. TooLong(u, M) <=> \/ Len(l.raw) > sseBufferLimit
                         \/ Field(l) \in {"e", "d"} /\ Sizes(s, Open(s)) + Size(l) > sseBufferLimit
  <2>1. TooLong(u, M) <=> \/ Len(u[M].raw) > sseBufferLimit
                          \/ M \in Belonging(u, M) /\ Sizes(u, Belonging(u, M)) > sseBufferLimit
    BY DEF TooLong, Sizes
  <2> QED
    BY <1>1, <1>7, <1>9, <1>11, <2>1
<1>13. Field(l) = "blank" => EventEnding(u, M) = EventOf(s, Open(s))
  <2> SUFFICES ASSUME Field(l) = "blank" PROVE EventEnding(u, M) = EventOf(s, Open(s))
    OBVIOUS
  <2>1. Belonging(u, M) = Open(s)
    BY <1>9
  <2> DEFINE O == Open(s)
  <2>2. O \in SUBSET (1 .. Len(s))
    BY <1>2
  <2> HIDE DEF O
  <2>3. EventOf(Append(s, l), O) = EventOf(s, O)
    BY <2>2, EventOfWith
  <2> QED
    BY <2>1, <2>3, EventEndingIs DEF O
<1> QED
  BY <1>2, <1>9, <1>10, <1>12, <1>13 DEF M

\* The first line that is too long, if there is one.
First(s, x) ==
    /\ x \in 1 .. Len(s) + 1
    /\ x \in 1 .. Len(s) => TooLong(s, x)
    /\ \A i \in 1 .. x - 1 : ~TooLong(s, i)

\* The limit is the first line that is too long, and there is one such place.
LEMMA LimitIs ==
    ASSUME NEW s \in Seq(Line)
    PROVE  First(s, Limit(s)) /\ \A x : First(s, x) => Limit(s) = x
<1> DEFINE N == Len(s)
           T == {i \in 1 .. N : TooLong(s, i)} \cup {N + 1}
<1>1. N \in Nat /\ DOMAIN s = 1 .. N
  OBVIOUS
<1>2. Limit(s) = Min(T)
  BY <1>1 DEF Limit
<1>3. T \in SUBSET Nat /\ T # {} /\ \A i \in T : i \in 1 .. N + 1
  BY <1>1
<1>4. PICK x \in T : \A y \in T : x <= y
  <2> HIDE DEF T
  <2> QED
    BY <1>3, LeastOfNaturals
<1>5. Limit(s) \in T /\ \A y \in T : Limit(s) <= y
  <2> HIDE DEF T
  <2> QED
    BY <1>2, <1>4 DEF Min
<1> HIDE DEF N
<1>6. First(s, Limit(s))
  <2>1. Limit(s) \in 1 .. N + 1
    BY <1>3, <1>5
  <2>2. Limit(s) \in 1 .. N => TooLong(s, Limit(s))
    BY <1>1, <1>5
  <2>3. ASSUME NEW i \in 1 .. Limit(s) - 1 PROVE ~TooLong(s, i)
    <3>1. i \in 1 .. N /\ ~(Limit(s) <= i)
      BY <1>1, <2>1
    <3> QED
      BY <1>5, <3>1
  <2> QED
    BY <2>1, <2>2, <2>3 DEF First, N
<1>7. ASSUME NEW y, First(s, y) PROVE Limit(s) = y
  <2>1. /\ y \in 1 .. N + 1 /\ (y \in 1 .. N => TooLong(s, y))
        /\ \A i \in 1 .. y - 1 : ~TooLong(s, i)
    BY <1>7 DEF First, N
  <2>2. y \in T
    BY <1>1, <2>1
  <2>3. Limit(s) <= y /\ Limit(s) \in 1 .. N + 1
    BY <1>3, <1>5, <2>2
  <2>4. ~(Limit(s) < y)
    <3> SUFFICES ASSUME Limit(s) < y PROVE FALSE
      OBVIOUS
    <3>1. Limit(s) \in 1 .. y - 1 /\ Limit(s) \in 1 .. N
      BY <1>1, <2>1, <2>3
    <3>2. TooLong(s, Limit(s))
      BY <1>1, <1>5, <3>1
    <3> QED
      BY <2>1, <3>1, <3>2
  <2> QED
    BY <1>1, <2>1, <2>3, <2>4
<1> QED
  BY <1>6, <1>7

\* With the next line.
LEMMA LimitAppend ==
    ASSUME NEW s \in Seq(Line), NEW l \in Line, NEW u, u = Append(s, l), NEW N, N = Len(s)
    PROVE  /\ Limit(s) \in 1 .. N + 1 /\ N \in Nat
           /\ Limit(s) \in 1 .. N => Limit(u) = Limit(s)
           /\ Limit(s) = N + 1 /\ TooLong(u, N + 1) => Limit(u) = N + 1
           /\ Limit(s) = N + 1 /\ ~TooLong(u, N + 1) => Limit(u) = (N + 1) + 1
<1>1. u \in Seq(Line) /\ Len(u) = N + 1 /\ N \in Nat
  BY LineAfter
<1>2. \A i \in 1 .. N : TooLong(u, i) <=> TooLong(s, i)
  BY BelongingAppend
<1>3. PICK x : x = Limit(s)
  OBVIOUS
<1>4. x \in 1 .. N + 1 /\ (x \in 1 .. N => TooLong(s, x)) /\ \A i \in 1 .. x - 1 : ~TooLong(s, i)
  BY <1>3, LimitIs DEF First
<1>5. \A y : First(u, y) => Limit(u) = y
  BY <1>1, LimitIs
<1>6. ASSUME x \in 1 .. N PROVE First(u, x)
  <2>1. x \in 1 .. (N + 1) + 1 /\ TooLong(u, x) /\ \A i \in 1 .. x - 1 : ~TooLong(u, i)
    BY <1>1, <1>2, <1>4, <1>6
  <2> QED
    BY <1>1, <2>1 DEF First
<1>7. ASSUME x = N + 1 PROVE \A i \in 1 .. N : ~TooLong(u, i)
  BY <1>1, <1>2, <1>4, <1>7
<1>8. ASSUME x = N + 1, TooLong(u, N + 1) PROVE First(u, N + 1)
  <2>1. N + 1 \in 1 .. (N + 1) + 1 /\ 1 .. (N + 1) - 1 = 1 .. N
    BY <1>1
  <2> QED
    BY <1>1, <1>7, <1>8, <2>1 DEF First
<1>9. ASSUME x = N + 1, ~TooLong(u, N + 1) PROVE First(u, (N + 1) + 1)
  <2>1. /\ (N + 1) + 1 \in 1 .. (N + 1) + 1 /\ (N + 1) + 1 \notin 1 .. N + 1
        /\ \A i \in 1 .. ((N + 1) + 1) - 1 : i \in 1 .. N \/ i = N + 1
    BY <1>1
  <2>2. \A i \in 1 .. ((N + 1) + 1) - 1 : ~TooLong(u, i)
    BY <1>7, <1>9, <2>1
  <2> QED
    BY <1>1, <2>1, <2>2 DEF First
<1> QED
  BY <1>1, <1>3, <1>4, <1>5, <1>6, <1>8, <1>9

-----------------------------------------------------------------------------
(* Events before a line *)

\* The lines that end events come before the limit, and each event is one that a line ends.
LEMMA EventsBeforeIs ==
    ASSUME NEW s \in Seq(Line), NEW limit \in 1 .. Len(s) + 1
    PROVE  /\ Ends(s, limit) \in SUBSET (1 .. Len(s))
           /\ EventsBefore(s, limit) = At([i \in 1 .. Len(s) |-> EventEnding(s, i)], Ascending(Ends(s, limit)))
           /\ EventsBefore(s, limit) \in Seq({EventEnding(s, i) : i \in 1 .. Len(s)})
<1> DEFINE N == Len(s)
           S == Ends(s, limit)
           a == Ascending(S)
           f == [i \in 1 .. N |-> EventEnding(s, i)]
           D == {EventEnding(s, i) : i \in 1 .. N}
<1>1. N \in Nat /\ limit \in 1 .. N + 1
  OBVIOUS
<1> HIDE DEF N
<1>2. S \in SUBSET (1 .. N)
  <2>1. S \in SUBSET (1 .. limit - 1)
    BY DEF Ends
  <2> HIDE DEF S
  <2> QED
    BY <1>1, <2>1
<1>3. a \in Seq(1 .. N)
  <2> HIDE DEF S
  <2> QED
    BY <1>1, <1>2, AscendingWith
<1>4. EventsBefore(s, limit) = [n \in DOMAIN a |-> EventEnding(s, a[n])]
  BY DEF EventsBefore
<1> HIDE DEF a
<1>5. \A n \in DOMAIN a : a[n] \in 1 .. N
  BY <1>3, ElementsOf
<1>6. EventsBefore(s, limit) = At(f, a)
  BY <1>4, <1>5 DEF At
<1>7. PICK K \in Nat : DOMAIN a = 1 .. K
  <2> DEFINE C == 1 .. N
  <2>1. a \in Seq(C)
    BY <1>3
  <2> HIDE DEF C
  <2> QED
    BY <2>1
<1>8. EventsBefore(s, limit) \in Seq(D)
  <2>1. \A n \in 1 .. K : EventEnding(s, a[n]) \in D
    BY <1>5, <1>7
  <2> HIDE DEF D
  <2> QED
    BY <1>4, <1>7, <2>1
<1> QED
  BY <1>2, <1>6, <1>8 DEF N, a

\* The next line is not among those before the ones there are, and it ends at most one event.
LEMMA EventsBeforeNext ==
    ASSUME NEW s \in Seq(Line), NEW l \in Line
    PROVE  LET u == Append(s, l)
               N == Len(s)
               e == EventEnding(u, N + 1)
           IN  /\ \A limit \in 1 .. N + 1 : EventsBefore(u, limit) = EventsBefore(s, limit)
               /\ Field(l) = "blank" /\ e # NoEvent
                    => EventsBefore(u, (N + 1) + 1) = Append(EventsBefore(s, N + 1), e)
               /\ ~(Field(l) = "blank" /\ e # NoEvent)
                    => EventsBefore(u, (N + 1) + 1) = EventsBefore(s, N + 1)
<1>0. PICK u, N, e : u = Append(s, l) /\ N = Len(s) /\ e = EventEnding(u, N + 1)
  OBVIOUS
<1> DEFINE M == N + 1
           f == [i \in 1 .. N |-> EventEnding(s, i)]
           g == [i \in 1 .. M |-> EventEnding(u, i)]
           S == Ends(s, M)
           T == Ends(u, M + 1)
<1>1. /\ u \in Seq(Line) /\ Len(u) = M /\ N \in Nat /\ u[M] = l
      /\ \A n \in 1 .. N : u[n] = s[n]
  BY <1>0, LineAfter
<1>2. \A i \in 1 .. N : EventEnding(u, i) = EventEnding(s, i)
  BY <1>0, BelongingAppend
<1>3. M \in Nat /\ (M + 1) - 1 = M /\ M - 1 = N /\ 1 .. M = (1 .. N) \cup {M} /\ M \notin 1 .. N /\ M \in 1 .. M
  BY <1>1
<1>4. \A limit \in 1 .. M : limit \in 1 .. M + 1 /\ 1 .. limit - 1 \subseteq 1 .. N
  BY <1>1
<1>5. M + 1 \in 1 .. M + 1
  BY <1>3
<1> HIDE DEF M
<1>6. \A lines, limit : Ends(lines, limit)
        = {i \in 1 .. limit - 1 : Field(lines[i]) = "blank" /\ EventEnding(lines, i) # NoEvent}
  BY DEF Ends, NoEvent
<1>7. \A limit \in 1 .. M : Ends(u, limit) = Ends(s, limit)
  BY <1>1, <1>2, <1>4, <1>6
<1>8. \A limit \in 1 .. M : EventsBefore(s, limit) = At(f, Ascending(Ends(s, limit))) /\ Ends(s, limit) \in SUBSET (1 .. N)
  BY <1>0, <1>1, EventsBeforeIs DEF M
<1>9. \A limit \in 1 .. M + 1 : EventsBefore(u, limit) = At(g, Ascending(Ends(u, limit)))
  BY <1>1, EventsBeforeIs
<1>10. f = [i \in 1 .. N |-> f[i]] /\ \A i \in 1 .. N : f[i] = g[i]
  BY <1>2, <1>3
<1>11. g[M] = e
  BY <1>0, <1>3 DEF M
<1> HIDE DEF f, g
<1>12. \A a \in Seq(1 .. N) : At(g, a) = At(f, a) /\ At(g, Append(a, N + 1)) = Append(At(f, a), g[N + 1])
  <2> SUFFICES ASSUME NEW a \in Seq(1 .. N)
               PROVE  At(g, a) = At(f, a) /\ At(g, Append(a, N + 1)) = Append(At(f, a), g[N + 1])
    OBVIOUS
  <2>1. N \in Nat /\ \A i \in 1 .. N : f[i] = g[i]
    BY <1>1, <1>10
  <2> QED
    BY <2>1, AtWith
<1>13. \A R \in SUBSET (1 .. N) : Ascending(R) \in Seq(1 .. N) /\ Ascending(R \cup {N + 1}) = Append(Ascending(R), N + 1)
  BY <1>1, AscendingWith
<1>14. \A limit \in 1 .. M : EventsBefore(u, limit) = EventsBefore(s, limit)
  BY <1>4, <1>7, <1>8, <1>9, <1>12, <1>13
<1>15. T = IF Field(l) = "blank" /\ e # NoEvent THEN S \cup {M} ELSE S
  <2>1. T = {i \in 1 .. M : Field(u[i]) = "blank" /\ EventEnding(u, i) # NoEvent}
    BY <1>3, <1>6
  <2>2. S = {i \in 1 .. N : Field(s[i]) = "blank" /\ EventEnding(s, i) # NoEvent}
    BY <1>3, <1>6
  <2>3. \A i \in 1 .. N : i \in T <=> i \in S
    BY <1>1, <1>2, <1>3, <2>1, <2>2
  <2>4. M \in T <=> Field(l) = "blank" /\ e # NoEvent
    BY <1>1, <1>3, <1>0, <2>1 DEF M
  <2>5. T \in SUBSET (1 .. M) /\ S \in SUBSET (1 .. N)
    BY <2>1, <2>2
  <2> HIDE DEF T, S
  <2>6. CASE M \in T
    <3>1. \A i : i \in T <=> i \in S \cup {M}
      BY <1>3, <2>3, <2>5, <2>6
    <3> QED
      BY <2>4, <2>6, <3>1
  <2>7. CASE M \notin T
    <3>1. \A i : i \in T <=> i \in S
      BY <1>3, <2>3, <2>5, <2>7
    <3> QED
      BY <2>4, <2>7, <3>1
  <2> QED
    BY <2>6, <2>7
<1>16. EventsBefore(s, M) = At(f, Ascending(S)) /\ S \in SUBSET (1 .. N)
  BY <1>3, <1>8
<1>17. EventsBefore(u, M + 1) = At(g, Ascending(T))
  BY <1>5, <1>9
<1> HIDE DEF S, T
<1>18. Ascending(S) \in Seq(1 .. N)
  BY <1>13, <1>16
<1>19. ASSUME Field(l) = "blank" /\ e # NoEvent PROVE EventsBefore(u, M + 1) = Append(EventsBefore(s, M), e)
  <2>1. Ascending(T) = Append(Ascending(S), N + 1)
    BY <1>13, <1>15, <1>16, <1>19 DEF M
  <2>2. At(g, Ascending(T)) = Append(At(f, Ascending(S)), g[N + 1])
    BY <1>12, <1>18, <2>1
  <2> QED
    BY <1>11, <1>16, <1>17, <2>2 DEF M
<1>20. ASSUME ~(Field(l) = "blank" /\ e # NoEvent) PROVE EventsBefore(u, M + 1) = EventsBefore(s, M)
  BY <1>12, <1>15, <1>16, <1>17, <1>18, <1>20
<1> QED
  BY <1>0, <1>14, <1>19, <1>20 DEF M

\* What comes of events, case by case.
LEMMA OutcomeIs ==
    ASSUME NEW events, NEW refuses, NEW lines, NEW limit
    PROVE  /\ refuses \in DOMAIN events => Outcome(events, refuses, lines, limit)
                                             = [out |-> SubSeq(events, 1, refuses), error |-> "callback"]
           /\ refuses \notin DOMAIN events /\ limit > Len(lines) => Outcome(events, refuses, lines, limit)
                                                                      = [out |-> events, error |-> "none"]
           /\ refuses \notin DOMAIN events /\ ~(limit > Len(lines))
                => Outcome(events, refuses, lines, limit)
                     = [out |-> events, error |-> IF Len(lines[limit].raw) > sseBufferLimit THEN "line" ELSE "event"]
<1>1. CASE refuses \in DOMAIN events
  BY <1>1 DEF Outcome
<1>2. CASE refuses \notin DOMAIN events /\ limit > Len(lines)
  BY <1>2 DEF Outcome
<1>3. CASE refuses \notin DOMAIN events /\ ~(limit > Len(lines))
  BY <1>3 DEF Outcome
<1> QED
  BY <1>1, <1>2, <1>3

\* What a line says, as the parser reads it.
LEMMA FieldIs ==
    ASSUME NEW l \in Line
    PROVE  /\ Field(l) = "blank" <=> WithoutReturn(l.raw) = <<>>
           /\ WithoutReturn(l.raw) # <<>> => Field(l) = Head(WithoutReturn(l.raw))
           /\ Value(l) = Tail(WithoutReturn(l.raw))
           /\ Size(l) = Len(l.raw) + (IF l.lf THEN 1 ELSE 0)
           /\ l.raw \in Bytes /\ l.lf \in BOOLEAN /\ Len(l.raw) \in Nat
<1> DEFINE w == WithoutReturn(l.raw)
<1>1. l.raw \in Bytes /\ l.lf \in BOOLEAN
  BY DEF Line
<1>2. w # <<>> => Head(w) \in StreamByte
  BY <1>1, WithoutReturnIs
<1>3. Len(l.raw) \in Nat
  BY <1>1 DEF Bytes
<1>4. Field(l) = IF w = <<>> THEN "blank" ELSE Head(w)
  BY DEF Field
<1>5. "blank" \notin StreamByte
  BY DEF StreamByte
<1> QED
  BY <1>1, <1>2, <1>3, <1>4, <1>5 DEF Value, Size

\* What a line does, by what it says.
LEMMA LineInSays ==
    ASSUME NEW q \in Parser, NEW l \in Line
    PROVE  LET r == LineIn(q, l.raw, l.lf)
               n == q.eventBytes + Size(l)
           IN  /\ Field(l) = "blank" => r = Emit(q)
               /\ Field(l) \in {"e", "d"} /\ n > sseBufferLimit => r = Abort(q, "event")
               /\ Field(l) = "e" /\ n <= sseBufferLimit
                    => r = ParserOf(q.line, Value(l), q.data, n, q.out, q.refuses, q.error)
               /\ Field(l) = "d" /\ n <= sseBufferLimit
                    => r = ParserOf(q.line, q.event, Append(q.data, Value(l)), n, q.out, q.refuses, q.error)
               /\ Field(l) \notin {"blank", "e", "d"} => r = q
<1> DEFINE r == LineIn(q, l.raw, l.lf)
<1>1. PICK raw, lf : raw = l.raw /\ lf = l.lf
  OBVIOUS
<1>2. raw \in Bytes /\ lf \in BOOLEAN
  BY <1>1, FieldIs
<1>3. PICK s : s = WithoutReturn(raw)
  OBVIOUS
<1>4. PICK n : n = Len(raw) + (IF lf THEN 1 ELSE 0)
  OBVIOUS
<1>5. PICK k : k = LineIn(q, raw, lf)
  OBVIOUS
<1>6. /\ s = <<>> => k = Emit(q)
      /\ s # <<>> /\ Head(s) \in {"e", "d"} /\ q.eventBytes + n > sseBufferLimit => k = Abort(q, "event")
      /\ s # <<>> /\ Head(s) = "e" /\ q.eventBytes + n <= sseBufferLimit
           => k = ParserOf(q.line, Tail(s), q.data, q.eventBytes + n, q.out, q.refuses, q.error)
      /\ s # <<>> /\ Head(s) = "d" /\ q.eventBytes + n <= sseBufferLimit
           => k = ParserOf(q.line, q.event, Append(q.data, Tail(s)), q.eventBytes + n, q.out, q.refuses, q.error)
      /\ s # <<>> /\ Head(s) \notin {"e", "d"} => k = q
  BY <1>2, <1>3, <1>4, <1>5, LineInIs
<1>7. (s # <<>> => Field(l) = Head(s)) /\ Value(l) = Tail(s) /\ Size(l) = n
  BY <1>1, <1>3, <1>4, FieldIs
<1>8. Field(l) = "blank" <=> s = <<>>
  BY <1>1, <1>3, FieldIs
<1> QED
  BY <1>1, <1>5, <1>6, <1>7, <1>8

-----------------------------------------------------------------------------
(* What has been read *)

\* A parser r that has read the lines s: what it gave and how it ended is what is
\* promised of them, and it has what they say of the event they leave open.
Agrees(refuses, s, r) ==
    /\ [out |-> r.out, error |-> r.error] = Promised(s, refuses)
    /\ r.refuses = refuses
    /\ r.error = "none" => r.eventBytes = Sizes(s, Open(s)) /\ Pending(r) = EventOf(s, Open(s))

\* What is promised of lines, by the first that is too long.
LEMMA PromisedIs ==
    ASSUME NEW lines, NEW refuses
    PROVE  LET x == Limit(lines)
               events == EventsBefore(lines, x)
           IN  /\ refuses \in DOMAIN events => Promised(lines, refuses)
                                                = [out |-> SubSeq(events, 1, refuses), error |-> "callback"]
               /\ refuses \notin DOMAIN events /\ x > Len(lines) => Promised(lines, refuses)
                                                                     = [out |-> events, error |-> "none"]
               /\ refuses \notin DOMAIN events /\ ~(x > Len(lines))
                    => Promised(lines, refuses)
                         = [out |-> events, error |-> IF Len(lines[x].raw) > sseBufferLimit THEN "line" ELSE "event"]
<1>1. PICK x, events : x = Limit(lines) /\ events = EventsBefore(lines, x)
  OBVIOUS
<1>2. Promised(lines, refuses) = Outcome(events, refuses, lines, x)
  BY <1>1 DEF Promised
<1> QED
  BY <1>1, <1>2, OutcomeIs

\* Nothing is read after a line that is too long.
LEMMA AgreesAfterLimit ==
    ASSUME NEW refuses \in Nat, NEW s \in Seq(Line), NEW l \in Line, NEW r \in Between, Agrees(refuses, s, r),
           Limit(s) \in 1 .. Len(s)
    PROVE  Agrees(refuses, Append(s, l), LineStep(r, l))
<1>1. PICK u, N, x : u = Append(s, l) /\ N = Len(s) /\ x = Limit(s)
  OBVIOUS
<1>2. /\ N \in Nat /\ Len(u) = N + 1 /\ x \in 1 .. N /\ u[x] = s[x]
      /\ \A n \in 1 .. N : u[n] = s[n]
  BY <1>1, LineAfter
<1>3. Limit(u) = x
  BY <1>1, <1>2, LimitAppend
<1>4. EventsBefore(u, x) = EventsBefore(s, x)
  <2>1. x \in 1 .. N + 1
    BY <1>2
  <2>2. PICK e : e = EventEnding(u, N + 1)
    OBVIOUS
  <2>3. \A limit \in 1 .. N + 1 : EventsBefore(u, limit) = EventsBefore(s, limit)
    BY <1>1, <2>2, EventsBeforeNext
  <2> QED
    BY <2>1, <2>3
<1>5. PICK events : events = EventsBefore(s, x)
  OBVIOUS
<1>6. ~(x > Len(s)) /\ ~(x > Len(u))
  BY <1>1, <1>2
<1>7. Promised(u, refuses) = Promised(s, refuses) /\ Promised(s, refuses).error # "none"
  <2>1. CASE refuses \in DOMAIN events
    <3>1. Promised(s, refuses) = [out |-> SubSeq(events, 1, refuses), error |-> "callback"]
      BY <1>1, <1>5, <2>1, PromisedIs
    <3>2. Promised(u, refuses) = [out |-> SubSeq(events, 1, refuses), error |-> "callback"]
      BY <1>3, <1>4, <1>5, <2>1, PromisedIs
    <3> QED
      BY <3>1, <3>2
  <2>2. CASE refuses \notin DOMAIN events
    <3> DEFINE error == IF Len(s[x].raw) > sseBufferLimit THEN "line" ELSE "event"
    <3>1. Promised(s, refuses) = [out |-> events, error |-> error]
      BY <1>1, <1>5, <1>6, <2>2, PromisedIs
    <3>2. Promised(u, refuses) = [out |-> events, error |-> error]
      BY <1>2, <1>3, <1>4, <1>5, <1>6, <2>2, PromisedIs
    <3>3. error # "none"
      OBVIOUS
    <3> HIDE DEF error
    <3> QED
      BY <3>1, <3>2, <3>3
  <2> QED
    BY <2>1, <2>2
<1>8. r.error # "none"
  <2>1. [out |-> r.out, error |-> r.error] = Promised(s, refuses)
    BY DEF Agrees
  <2> QED
    BY <1>7, <2>1
<1>9. LineStep(r, l) = r
  BY <1>8 DEF LineStep, Aborted
<1> QED
  BY <1>1, <1>7, <1>8, <1>9 DEF Agrees

\* Nothing is read after an event that is refused.
LEMMA AgreesAfterRefusal ==
    ASSUME NEW refuses \in Nat, NEW s \in Seq(Line), NEW l \in Line, NEW r \in Between, Agrees(refuses, s, r),
           Limit(s) = Len(s) + 1, refuses \in DOMAIN EventsBefore(s, Len(s) + 1)
    PROVE  Agrees(refuses, Append(s, l), LineStep(r, l))
<1>1. PICK u, N : u = Append(s, l) /\ N = Len(s)
  OBVIOUS
<1>2. PICK E, e, y : E = EventsBefore(s, N + 1) /\ e = EventEnding(u, N + 1) /\ y = Limit(u)
  OBVIOUS
<1>3. N \in Nat /\ (y = N + 1 \/ y = (N + 1) + 1)
  BY <1>1, <1>2, LimitAppend
<1>4. EventsBefore(u, y) = E \/ EventsBefore(u, y) = Append(E, e)
  <2>1. N + 1 \in 1 .. N + 1
    BY <1>3
  <2>2. /\ \A limit \in 1 .. N + 1 : EventsBefore(u, limit) = EventsBefore(s, limit)
        /\ Field(l) = "blank" /\ e # NoEvent => EventsBefore(u, (N + 1) + 1) = Append(EventsBefore(s, N + 1), e)
        /\ ~(Field(l) = "blank" /\ e # NoEvent) => EventsBefore(u, (N + 1) + 1) = EventsBefore(s, N + 1)
    BY <1>1, <1>2, EventsBeforeNext
  <2> QED
    BY <1>2, <1>3, <2>1, <2>2
<1>5. PICK D : E \in Seq(D) /\ e \in D
  <2> DEFINE B == {EventEnding(s, i) : i \in 1 .. N}
  <2>1. N + 1 \in 1 .. Len(s) + 1
    BY <1>1, <1>3
  <2>2. E \in Seq(B)
    BY <1>1, <1>2, <2>1, EventsBeforeIs
  <2> HIDE DEF B
  <2>3. E \in Seq(B \cup {e})
    BY <2>2
  <2> QED
    BY <2>3
<1>6. PICK K \in Nat : /\ K = Len(E) /\ DOMAIN E = 1 .. K
                       /\ Append(E, e) \in Seq(D) /\ Len(Append(E, e)) = K + 1 /\ DOMAIN Append(E, e) = 1 .. K + 1
                       /\ \A n \in 1 .. K : Append(E, e)[n] = E[n]
  <2>1. /\ Append(E, e) \in Seq(D) /\ Len(Append(E, e)) = Len(E) + 1 /\ Len(E) \in Nat
        /\ \A n \in 1 .. Len(E) : Append(E, e)[n] = E[n]
    BY <1>5, AppendProperties
  <2> QED
    BY <1>5, <2>1
<1>7. refuses \in 1 .. K
  BY <1>1, <1>2, <1>6
<1>8. refuses \in DOMAIN EventsBefore(u, y) /\ SubSeq(EventsBefore(u, y), 1, refuses) = SubSeq(E, 1, refuses)
  <2>1. SubSeq(Append(E, e), 1, refuses) = SubSeq(E, 1, refuses)
    BY <1>5, <1>6, <1>7
  <2> QED
    BY <1>4, <1>6, <1>7, <2>1
<1>9. Promised(s, refuses) = [out |-> SubSeq(E, 1, refuses), error |-> "callback"]
  BY <1>1, <1>2, <1>6, <1>7, PromisedIs
<1>10. Promised(u, refuses) = [out |-> SubSeq(E, 1, refuses), error |-> "callback"]
  <2>1. PICK events : events = EventsBefore(u, y)
    OBVIOUS
  <2> QED
    BY <1>2, <1>8, <2>1, PromisedIs
<1>11. r.error # "none"
  <2>1. [out |-> r.out, error |-> r.error] = Promised(s, refuses)
    BY DEF Agrees
  <2> QED
    BY <1>9, <2>1
<1>12. LineStep(r, l) = r
  BY <1>11 DEF LineStep, Aborted
<1> QED
  BY <1>1, <1>9, <1>10, <1>11, <1>12 DEF Agrees

\* A parser that goes on has all that the lines before say.
LEMMA AgreesOpen ==
    ASSUME NEW refuses \in Nat, NEW s \in Seq(Line), NEW r \in Between, Agrees(refuses, s, r),
           Limit(s) = Len(s) + 1, refuses \notin DOMAIN EventsBefore(s, Len(s) + 1)
    PROVE  /\ r.error = "none" /\ r.refuses = refuses /\ r.out = EventsBefore(s, Len(s) + 1)
           /\ r.eventBytes = Sizes(s, Open(s)) /\ Pending(r) = EventOf(s, Open(s))
<1>1. PICK N \in Nat : N = Len(s)
  OBVIOUS
<1>2. N + 1 > Len(s)
  BY <1>1
<1>3. Promised(s, refuses) = [out |-> EventsBefore(s, N + 1), error |-> "none"]
  <2>1. PICK E : E = EventsBefore(s, N + 1)
    OBVIOUS
  <2> QED
    BY <1>1, <1>2, <2>1, PromisedIs
<1>4. [out |-> r.out, error |-> r.error] = Promised(s, refuses)
  BY DEF Agrees
<1>5. r.error = "none" /\ r.out = EventsBefore(s, N + 1)
  BY <1>3, <1>4
<1> QED
  BY <1>1, <1>5 DEF Agrees

\* A parser r that goes on, with what the lines s leave open.
GoesOn(refuses, s, r) ==
    /\ Limit(s) = Len(s) + 1
    /\ refuses \notin DOMAIN EventsBefore(s, Len(s) + 1)
    /\ r.error = "none" /\ r.refuses = refuses /\ r.out = EventsBefore(s, Len(s) + 1)
    /\ r.eventBytes = Sizes(s, Open(s)) /\ Pending(r) = EventOf(s, Open(s))

\* A line or an event that is too long ends it.
LEMMA AgreesTooLong ==
    ASSUME NEW refuses \in Nat, NEW s \in Seq(Line), NEW l \in Line, NEW r \in Between, GoesOn(refuses, s, r),
           TooLong(Append(s, l), Len(s) + 1)
    PROVE  Agrees(refuses, Append(s, l), LineStep(r, l))
<1>1. PICK u, N : u = Append(s, l) /\ N = Len(s)
  OBVIOUS
<1>2. N \in Nat /\ Len(u) = N + 1 /\ u[N + 1] = l
  BY <1>1, LineAfter
<1>3. Limit(u) = N + 1
  BY <1>1, LimitAppend DEF GoesOn
<1>4. EventsBefore(u, N + 1) = EventsBefore(s, N + 1)
  <2>1. N + 1 \in 1 .. N + 1
    BY <1>2
  <2> QED
    BY <1>1, <2>1, EventsBeforeNext
<1>5. PICK E : E = EventsBefore(s, N + 1)
  OBVIOUS
<1>6. refuses \notin DOMAIN E /\ r.out = E /\ r.refuses = refuses /\ ~Aborted(r) /\ r \in Parser
  BY <1>1, <1>5 DEF GoesOn, Aborted, Between
<1>7. PICK error : error = IF Len(l.raw) > sseBufferLimit THEN "line" ELSE "event"
  OBVIOUS
<1>8. Promised(u, refuses) = [out |-> E, error |-> error]
  <2>1. ~(N + 1 > Len(u))
    BY <1>2
  <2> QED
    BY <1>2, <1>3, <1>4, <1>5, <1>6, <1>7, <2>1, PromisedIs
<1>9. LineStep(r, l) = Abort(r, error)
  <2>1. CASE Len(l.raw) > sseBufferLimit
    BY <1>6, <1>7, <2>1 DEF LineStep
  <2>2. CASE ~(Len(l.raw) > sseBufferLimit)
    <3>1. Field(l) \in {"e", "d"} /\ Sizes(s, Open(s)) + Size(l) > sseBufferLimit
      BY <1>1, <2>2, BelongingNext
    <3>2. r.eventBytes + Size(l) > sseBufferLimit
      BY <3>1 DEF GoesOn
    <3>3. LineIn(r, l.raw, l.lf) = Abort(r, "event")
      BY <1>6, <3>1, <3>2, LineInSays
    <3> QED
      BY <1>6, <1>7, <2>2, <3>3 DEF LineStep
  <2> QED
    BY <2>1, <2>2
<1>10. error \in Errors /\ error # "none"
  BY <1>7 DEF Errors
<1>11. PICK v : v = Abort(r, error)
  OBVIOUS
<1>12. v.out = E /\ v.refuses = refuses /\ v.error = error
  <2>1. v = ParserOf(<<>>, <<>>, <<>>, 0, E, refuses, error)
    BY <1>6, <1>10, <1>11, AbortIs
  <2> QED
    BY <2>1 DEF ParserOf
<1> QED
  BY <1>1, <1>8, <1>9, <1>10, <1>11, <1>12 DEF Agrees

\* A line that is not too long is read.
LEMMA LineStepOn ==
    ASSUME NEW refuses \in Nat, NEW s \in Seq(Line), NEW l \in Line, NEW r \in Between, GoesOn(refuses, s, r),
           ~TooLong(Append(s, l), Len(s) + 1)
    PROVE  /\ LineStep(r, l) = LineIn(r, l.raw, l.lf)
           /\ Limit(Append(s, l)) = (Len(s) + 1) + 1
           /\ (Len(s) + 1) + 1 > Len(Append(s, l))
           /\ Field(l) \in {"e", "d"} => r.eventBytes + Size(l) <= sseBufferLimit
<1>1. PICK u, N : u = Append(s, l) /\ N = Len(s)
  OBVIOUS
<1>2. N \in Nat /\ Len(u) = N + 1
  BY <1>1, LineAfter
<1>3. Limit(u) = (N + 1) + 1
  <2>1. Limit(s) = N + 1 /\ ~TooLong(u, N + 1)
    BY <1>1 DEF GoesOn
  <2>2. Limit(s) = N + 1 /\ ~TooLong(u, N + 1) => Limit(u) = (N + 1) + 1
    BY <1>1, LimitAppend
  <2> QED
    BY <2>1, <2>2
<1>4. ~(Len(l.raw) > sseBufferLimit) /\ ~(Field(l) \in {"e", "d"} /\ Sizes(s, Open(s)) + Size(l) > sseBufferLimit)
  BY <1>1, BelongingNext
<1>5. LineStep(r, l) = LineIn(r, l.raw, l.lf)
  BY <1>4 DEF LineStep, GoesOn, Aborted
<1>6. ASSUME Field(l) \in {"e", "d"} PROVE r.eventBytes + Size(l) <= sseBufferLimit
  <2>1. ~(r.eventBytes + Size(l) > sseBufferLimit)
    BY <1>4, <1>6 DEF GoesOn
  <2>2. PICK a \in Nat : a = r.eventBytes
    BY ParserIs DEF Between
  <2>3. PICK b \in Nat : b = Size(l)
    BY SizeIs
  <2> QED
    BY <2>1, <2>2, <2>3, Limits
<1> QED
  BY <1>1, <1>2, <1>3, <1>5, <1>6

\* A line that ends no event of the stream and that is not too long leaves what was
\* given as it is.
LEMMA AgreesSilently ==
    ASSUME NEW refuses \in Nat, NEW s \in Seq(Line), NEW l \in Line, NEW r \in Between, GoesOn(refuses, s, r),
           ~TooLong(Append(s, l), Len(s) + 1),
           ~(Field(l) = "blank" /\ EventOf(s, Open(s)) # NoEvent),
           NEW v, v = LineStep(r, l), v.out = r.out, v.refuses = r.refuses, v.error = r.error,
           v.eventBytes = Sizes(Append(s, l), Open(Append(s, l))),
           Pending(v) = EventOf(Append(s, l), Open(Append(s, l)))
    PROVE  Agrees(refuses, Append(s, l), v)
<1>1. PICK u, N : u = Append(s, l) /\ N = Len(s)
  OBVIOUS
<1>2. PICK E : E = EventsBefore(s, N + 1)
  OBVIOUS
<1>3. EventsBefore(u, (N + 1) + 1) = E
  <2>1. Field(l) = "blank" => EventEnding(u, N + 1) = EventOf(s, Open(s))
    BY <1>1, BelongingNext
  <2>2. ~(Field(l) = "blank" /\ EventEnding(u, N + 1) # NoEvent)
    BY <2>1
  <2> QED
    BY <1>1, <1>2, <2>2, EventsBeforeNext
<1>4. refuses \notin DOMAIN E /\ r.out = E /\ r.error = "none" /\ r.refuses = refuses
  BY <1>1, <1>2 DEF GoesOn
<1>5. Limit(u) = (N + 1) + 1 /\ (N + 1) + 1 > Len(u)
  BY <1>1, LineStepOn
<1>6. Promised(u, refuses) = [out |-> E, error |-> "none"]
  BY <1>3, <1>4, <1>5, PromisedIs
<1> QED
  BY <1>1, <1>4, <1>6 DEF Agrees

\* A blank line: what is open is given to the callback, which may refuse it.
LEMMA AgreesAtBlank ==
    ASSUME NEW refuses \in Nat, NEW s \in Seq(Line), NEW l \in Line, NEW r \in Between, GoesOn(refuses, s, r),
           ~TooLong(Append(s, l), Len(s) + 1), Field(l) = "blank"
    PROVE  Agrees(refuses, Append(s, l), LineStep(r, l))
<1>1. PICK u, N, v : u = Append(s, l) /\ N = Len(s) /\ v = LineStep(r, l)
  OBVIOUS
<1>2. PICK E, P : E = EventsBefore(s, N + 1) /\ P = EventOf(s, Open(s))
  OBVIOUS
<1>3. /\ refuses \notin DOMAIN E /\ r.out = E /\ r.error = "none" /\ r.refuses = refuses /\ Pending(r) = P
      /\ r \in Parser
  BY <1>1, <1>2 DEF GoesOn, Between
<1>4. v = Emit(r)
  <2>1. LineIn(r, l.raw, l.lf) = Emit(r)
    BY <1>3, LineInSays
  <2> QED
    BY <1>1, <2>1, LineStepOn
<1>5. PICK o, x : /\ o = IF P = NoEvent THEN E ELSE Append(E, P)
                  /\ x = IF P # NoEvent /\ Len(E) + 1 = refuses THEN "callback" ELSE "none"
  OBVIOUS
<1>6. v.out = o /\ v.refuses = refuses /\ v.error = x /\ v.eventBytes = 0 /\ Pending(v) = NoEvent
  <2>1. v = ParserOf(r.line, <<>>, <<>>, 0, o, refuses, x)
    BY <1>3, <1>4, <1>5, EmitIs
  <2> QED
    BY <2>1 DEF ParserOf, Pending, NoEvent
<1>7. Sizes(u, Open(u)) = 0 /\ EventOf(u, Open(u)) = NoEvent
  <2>1. Open(u) = {}
    BY <1>1, BelongingNext
  <2>2. PICK Z : Z = {} /\ Z \in SUBSET (1 .. Len(s))
    OBVIOUS
  <2>3. Sizes(Append(s, l), Z) = Sizes(s, Z) /\ Sizes(s, Z) = 0
    BY <2>2, SizesWith
  <2>4. EventOf(Append(s, l), Z) = EventOf(s, Z) /\ EventOf(s, Z) = NoEvent
    BY <2>2, EventOfWith
  <2> QED
    BY <1>1, <2>1, <2>2, <2>3, <2>4
<1>8. CASE P = NoEvent
  <2>1. v.out = r.out /\ v.refuses = r.refuses /\ v.error = r.error
    BY <1>3, <1>5, <1>6, <1>8
  <2>2. v.eventBytes = Sizes(Append(s, l), Open(Append(s, l))) /\ Pending(v) = EventOf(Append(s, l), Open(Append(s, l)))
    BY <1>1, <1>6, <1>7
  <2>3. Agrees(refuses, Append(s, l), v)
    BY <1>1, <1>2, <1>8, <2>1, <2>2, AgreesSilently
  <2> QED
    BY <1>1, <2>3
<1>9. CASE P # NoEvent
  <2>1. EventEnding(u, N + 1) = P
    BY <1>1, <1>2, BelongingNext
  <2>2. EventsBefore(u, (N + 1) + 1) = Append(E, P)
    BY <1>1, <1>2, <1>9, <2>1, EventsBeforeNext
  <2>3. Limit(u) = (N + 1) + 1 /\ (N + 1) + 1 > Len(u)
    BY <1>1, LineStepOn
  <2>4. E \in Seq(Event) /\ P \in Event
    <3>1. r.out \in Seq(Event) /\ r.event \in Bytes /\ r.data \in Seq(Bytes)
      BY <1>3, ParserIs
    <3> QED
      BY <1>3, <3>1 DEF Event, Pending
  <2>5. PICK K, F : /\ K \in Nat /\ K = Len(E) /\ DOMAIN E = 1 .. K /\ F = Append(E, P)
                    /\ F \in Seq(Event) /\ Len(F) = K + 1 /\ DOMAIN F = 1 .. K + 1
    <3> DEFINE D == Event
    <3>1. E \in Seq(D) /\ P \in D
      BY <2>4
    <3> HIDE DEF D
    <3>2. Append(E, P) \in Seq(D) /\ Len(Append(E, P)) = Len(E) + 1 /\ Len(E) \in Nat
      BY <3>1, AppendProperties
    <3>3. DOMAIN E = 1 .. Len(E) /\ DOMAIN Append(E, P) = 1 .. Len(Append(E, P))
      BY <3>1, <3>2
    <3> QED
      BY <3>2, <3>3 DEF D
  <2>6. Promised(u, refuses) = [out |-> F, error |-> x]
    <3>1. CASE K + 1 = refuses
      <4>1. refuses \in DOMAIN F /\ SubSeq(F, 1, refuses) = F
        <5>1. SubSeq(F, 1, Len(F)) = F
          <6> DEFINE D == Event
          <6>1. F \in Seq(D)
            BY <2>5
          <6> HIDE DEF D
          <6> QED
            BY <6>1
        <5> QED
          BY <2>5, <3>1, <5>1
      <4>2. Promised(u, refuses) = [out |-> F, error |-> "callback"]
        BY <2>2, <2>3, <2>5, <4>1, PromisedIs
      <4> QED
        BY <1>5, <1>9, <2>5, <3>1, <4>2
    <3>2. CASE K + 1 # refuses
      <4>1. refuses \notin DOMAIN F
        BY <1>3, <2>5, <3>2
      <4>2. Promised(u, refuses) = [out |-> F, error |-> "none"]
        BY <2>2, <2>3, <2>5, <4>1, PromisedIs
      <4> QED
        BY <1>5, <2>5, <3>2, <4>2
    <3> QED
      BY <3>1, <3>2
  <2>7. v.out = F
    BY <1>5, <1>6, <1>9, <2>5
  <2> QED
    BY <1>1, <1>6, <1>7, <2>6, <2>7 DEF Agrees
<1> QED
  BY <1>8, <1>9

\* A line with the name of the event, with data, or of another field.
LEMMA AgreesAtField ==
    ASSUME NEW refuses \in Nat, NEW s \in Seq(Line), NEW l \in Line, NEW r \in Between, GoesOn(refuses, s, r),
           ~TooLong(Append(s, l), Len(s) + 1), Field(l) # "blank"
    PROVE  Agrees(refuses, Append(s, l), LineStep(r, l))
<1>1. PICK u, N, v, O : u = Append(s, l) /\ N = Len(s) /\ v = LineStep(r, l) /\ O = Open(s)
  OBVIOUS
<1>2. /\ r.error = "none" /\ r.refuses = refuses /\ r \in Parser
      /\ r.eventBytes = Sizes(s, O) /\ Pending(r) = EventOf(s, O)
  BY <1>1 DEF GoesOn, Between
<1>3. PICK n : n = r.eventBytes + Size(l)
  OBVIOUS
<1>4. /\ Field(l) \in {"e", "d"} => n <= sseBufferLimit
      /\ v = LineIn(r, l.raw, l.lf)
  BY <1>1, <1>3, LineStepOn
<1>5. /\ Field(l) = "e" /\ n <= sseBufferLimit
           => LineIn(r, l.raw, l.lf) = ParserOf(r.line, Value(l), r.data, n, r.out, r.refuses, r.error)
      /\ Field(l) = "d" /\ n <= sseBufferLimit
           => LineIn(r, l.raw, l.lf)
                = ParserOf(r.line, r.event, Append(r.data, Value(l)), n, r.out, r.refuses, r.error)
      /\ Field(l) \notin {"blank", "e", "d"} => LineIn(r, l.raw, l.lf) = r
  BY <1>2, <1>3, LineInSays
<1>6. /\ Field(l) = "e" => v = ParserOf(r.line, Value(l), r.data, n, r.out, r.refuses, r.error)
      /\ Field(l) = "d" => v = ParserOf(r.line, r.event, Append(r.data, Value(l)), n, r.out, r.refuses, r.error)
      /\ Field(l) \notin {"e", "d"} => v = r
  BY <1>4, <1>5
<1>7. O \in SUBSET (1 .. Len(s))
  BY <1>1, BelongingNext
<1>8. Open(u) = IF Field(l) \in {"e", "d"} THEN O \cup {Len(s) + 1} ELSE O
  <2>1. /\ Belonging(u, N + 1) = IF Field(l) \in {"e", "d"} THEN O \cup {N + 1} ELSE O
        /\ Open(u) = IF Field(l) = "blank" THEN {} ELSE Belonging(u, N + 1)
    BY <1>1, BelongingNext
  <2> QED
    BY <1>1, <2>1
<1>9. Sizes(u, O) = Sizes(s, O) /\ Sizes(u, O \cup {Len(s) + 1}) = Sizes(s, O) + Size(l)
  BY <1>1, <1>7, SizesWith
<1>10. /\ EventOf(u, O) = EventOf(s, O)
       /\ Field(l) = "e" => EventOf(u, O \cup {Len(s) + 1}) = [event |-> Value(l), data |-> r.data]
       /\ Field(l) = "d" => EventOf(u, O \cup {Len(s) + 1}) = [event |-> r.event, data |-> Append(r.data, Value(l))]
  <2>1. EventOf(s, O).event = r.event /\ EventOf(s, O).data = r.data
    <3>1. Pending(r).event = r.event /\ Pending(r).data = r.data
      BY DEF Pending
    <3> QED
      BY <1>2, <3>1
  <2>2. /\ EventOf(Append(s, l), O) = EventOf(s, O)
        /\ Field(l) = "e" => EventOf(Append(s, l), O \cup {Len(s) + 1})
                               = [event |-> Value(l), data |-> EventOf(s, O).data]
        /\ Field(l) = "d" => EventOf(Append(s, l), O \cup {Len(s) + 1})
                               = [event |-> EventOf(s, O).event, data |-> Append(EventOf(s, O).data, Value(l))]
    BY <1>7, EventOfWith
  <2> QED
    BY <1>1, <2>1, <2>2
<1>11. /\ v.out = r.out /\ v.refuses = r.refuses /\ v.error = r.error
       /\ v.eventBytes = Sizes(u, Open(u)) /\ Pending(v) = EventOf(u, Open(u))
  <2>1. CASE Field(l) = "e"
    <3>1. /\ v.event = Value(l) /\ v.data = r.data /\ v.eventBytes = n
          /\ v.out = r.out /\ v.refuses = r.refuses /\ v.error = r.error
      BY <1>6, <2>1, FieldsAre
    <3>2. Pending(v) = [event |-> Value(l), data |-> r.data]
      BY <3>1 DEF Pending
    <3>3. Open(u) = O \cup {Len(s) + 1}
      BY <1>8, <2>1
    <3> QED
      BY <1>2, <1>3, <1>9, <1>10, <2>1, <3>1, <3>2, <3>3
  <2>2. CASE Field(l) = "d"
    <3>1. PICK d : d = Append(r.data, Value(l))
      OBVIOUS
    <3>2. /\ v.event = r.event /\ v.data = d /\ v.eventBytes = n
          /\ v.out = r.out /\ v.refuses = r.refuses /\ v.error = r.error
      <4>1. v = ParserOf(r.line, r.event, d, n, r.out, r.refuses, r.error)
        BY <1>6, <2>2, <3>1
      <4> QED
        BY <4>1, FieldsAre
    <3>3. Pending(v) = [event |-> r.event, data |-> d]
      BY <3>2 DEF Pending
    <3>4. Open(u) = O \cup {Len(s) + 1}
      BY <1>8, <2>2
    <3> QED
      BY <1>2, <1>3, <1>9, <1>10, <2>2, <3>1, <3>2, <3>3, <3>4
  <2>3. CASE Field(l) \notin {"e", "d"}
    <3>1. Open(u) = O /\ v = r
      BY <1>6, <1>8, <2>3
    <3> QED
      BY <1>2, <1>9, <1>10, <3>1
  <2> QED
    BY <2>1, <2>2, <2>3
<1>12. /\ v.eventBytes = Sizes(Append(s, l), Open(Append(s, l)))
       /\ Pending(v) = EventOf(Append(s, l), Open(Append(s, l)))
       /\ v.out = r.out /\ v.refuses = r.refuses /\ v.error = r.error
  BY <1>1, <1>11
<1>13. Agrees(refuses, Append(s, l), v)
  BY <1>1, <1>12, AgreesSilently
<1> QED
  BY <1>1, <1>13

\* One more line is read as it is promised.
LEMMA AgreesNext ==
    ASSUME NEW refuses \in Nat, NEW s \in Seq(Line), NEW l \in Line, NEW r \in Between, Agrees(refuses, s, r)
    PROVE  Agrees(refuses, Append(s, l), LineStep(r, l))
<1>1. Limit(s) \in 1 .. Len(s) \/ Limit(s) = Len(s) + 1
  <2>1. Limit(s) \in 1 .. Len(s) + 1 /\ Len(s) \in Nat
    BY LimitIs DEF First
  <2> QED
    BY <2>1
<1>2. CASE Limit(s) \in 1 .. Len(s)
  BY <1>2, AgreesAfterLimit
<1>3. CASE Limit(s) = Len(s) + 1 /\ refuses \in DOMAIN EventsBefore(s, Len(s) + 1)
  BY <1>3, AgreesAfterRefusal
<1>4. CASE Limit(s) = Len(s) + 1 /\ refuses \notin DOMAIN EventsBefore(s, Len(s) + 1)
  <2>1. GoesOn(refuses, s, r)
    BY <1>4, AgreesOpen DEF GoesOn
  <2> QED
    BY <2>1, AgreesTooLong, AgreesAtBlank, AgreesAtField
<1> QED
  BY <1>1, <1>2, <1>3, <1>4

\* There are lines.
LEMMA SomeLine == \E l : l \in Line
<1>1. PICK z : z = <<>> /\ z \in Bytes
  BY NoBytes
<1>2. [raw |-> z, lf |-> TRUE] \in Line
  BY <1>1 DEF Line
<1> QED
  BY <1>2

\* Before any line nothing is promised and nothing read.
LEMMA AgreesAtFirst ==
    ASSUME NEW refuses \in Nat
    PROVE  Agrees(refuses, <<>>, NewParser(refuses))
<1>1. PICK z, r : z = <<>> /\ r = NewParser(refuses)
  OBVIOUS
<1>2. z \in Seq(Line) /\ Len(z) = 0 /\ 1 .. 0 = {}
  BY <1>1
<1>3. r.line = z /\ r.event = z /\ r.data = z /\ r.eventBytes = 0 /\ r.out = z /\ r.refuses = refuses /\ r.error = "none"
  BY <1>1 DEF NewParser
<1>4. Limit(z) = 1
  <2>1. Limit(z) \in 1 .. 0 + 1
    BY <1>2, LimitIs DEF First
  <2> QED
    BY <2>1
<1>5. EventsBefore(z, 1) = z
  <2>1. Ends(z, 1) = {}
    <3>1. 1 .. 1 - 1 = {}
      OBVIOUS
    <3> QED
      BY <3>1 DEF Ends
  <2>2. 0 \in Nat /\ {} \in SUBSET (1 .. 0)
    OBVIOUS
  <2>3. Ascending({}) = <<>>
    BY <2>2, AscendingWith
  <2>4. EventsBefore(z, 1) = [n \in DOMAIN <<>> |-> EventEnding(z, <<>>[n])]
    BY <2>1, <2>3 DEF EventsBefore
  <2>5. DOMAIN <<>> = {}
    OBVIOUS
  <2> QED
    BY <1>1, <2>4, <2>5
<1>6. Promised(z, refuses) = [out |-> z, error |-> "none"]
  <2>1. refuses \notin DOMAIN z /\ 1 > Len(z)
    BY <1>1, <1>2
  <2> QED
    BY <1>4, <1>5, <2>1, PromisedIs
<1>7. Open(z) = {}
  BY <1>2 DEF Open
<1>8. Sizes(z, {}) = 0 /\ EventOf(z, {}) = NoEvent
  <2>1. PICK S : S = {} /\ S \in SUBSET (1 .. Len(z))
    OBVIOUS
  <2>2. PICK l : l \in Line
    BY SomeLine
  <2>3. Sizes(z, S) = 0
    BY <1>2, <2>1, <2>2, SizesWith
  <2>4. EventOf(z, S) = NoEvent
    BY <1>2, <2>1, <2>2, EventOfWith
  <2> QED
    BY <2>1, <2>3, <2>4
<1>9. Pending(r) = NoEvent
  BY <1>1, <1>3 DEF Pending, NoEvent
<1> QED
  BY <1>1, <1>3, <1>6, <1>7, <1>8, <1>9 DEF Agrees

\* What is read of lines is what is promised of them.
LEMMA AgreesAll ==
    ASSUME NEW refuses \in Nat, NEW s \in Seq(Line)
    PROVE  Agrees(refuses, s, LinesRead(refuses, s))
<1> DEFINE B == Line
           S == {t \in Seq(B) : Agrees(refuses, t, LinesRead(refuses, t))}
<1>1. S \subseteq Seq(B) /\ s \in Seq(B)
  OBVIOUS
<1>2. PICK l : l \in Line
  BY SomeLine
<1>3. <<>> \in S
  <2>1. <<>> \in Seq(Line)
    BY EmptySeq
  <2>2. LinesRead(refuses, <<>>) = NewParser(refuses)
    BY <1>2, <2>1, LinesReadAppend
  <2> QED
    BY <2>1, <2>2, AgreesAtFirst
<1>4. ASSUME NEW t \in S, NEW x \in B PROVE Append(t, x) \in S
  <2>1. t \in Seq(Line) /\ x \in Line /\ Append(t, x) \in Seq(Line) /\ Agrees(refuses, t, LinesRead(refuses, t))
    BY LineAfter
  <2>2. /\ LinesRead(refuses, t) \in Between
        /\ LinesRead(refuses, Append(t, x)) = LineStep(LinesRead(refuses, t), x)
    BY <2>1, LinesReadAppend
  <2>3. Agrees(refuses, Append(t, x), LineStep(LinesRead(refuses, t), x))
    BY <2>1, <2>2, AgreesNext
  <2> QED
    BY <2>1, <2>2, <2>3
<1>5. \A t \in Seq(B), x \in B : t \in S => Append(t, x) \in S
  <2> HIDE DEF S, B
  <2> QED
    BY <1>4
<1> HIDE DEF S, B
<1>6. s \in S
  BY <1>1, <1>3, <1>5, SeqSetInduction
<1> QED
  BY <1>6 DEF S

\* What is made of a stream in chunks is what is promised of it whole.
LEMMA StreamParsed ==
    ASSUME NEW chunks \in Seq(Bytes), NEW refuses \in Nat, NEW r, r = Parse(chunks, refuses)
    PROVE  [out |-> r.out, error |-> r.error] = Promised(LinesIn(FlattenSeq(chunks)), refuses)
<1>1. PICK lines : lines = LinesIn(FlattenSeq(chunks))
  OBVIOUS
<1>2. lines \in Seq(Line) /\ r = LinesRead(refuses, lines)
  BY <1>1, ParseIsLines
<1>3. Agrees(refuses, lines, r)
  BY <1>2, AgreesAll
<1> QED
  BY <1>1, <1>3 DEF Agrees

-----------------------------------------------------------------------------
(* The messages of a conversation *)

Group == Seq(Item) \ {<<>>}
Message == [role : {"tool"}, id : Nat] \cup [role : {"user"}, images : Nat]
           \cup [role : {"assistant"}, tool_calls : Seq(Nat)]

\* What is a group stays one.
LEMMA GroupAppend ==
    ASSUME NEW g \in Seq(Item), NEW x \in Item
    PROVE  <<x>> \in Group /\ Append(g, x) \in Group
<1>1. <<x>> \in Seq(Item) /\ Len(<<x>>) = 1
  OBVIOUS
<1>2. Append(g, x) \in Seq(Item) /\ Len(Append(g, x)) = Len(g) + 1 /\ Len(g) \in Nat
  BY AppendProperties
<1>3. Len(<<>>) = 0
  OBVIOUS
<1> QED
  BY <1>1, <1>2, <1>3 DEF Group

\* An item joins the last group or starts one.
LEMMA GroupedIs ==
    /\ <<>> \in Seq(Group)
    /\ \A groups \in Seq(Group), x \in Item :
           /\ Grouped(groups, x) \in Seq(Group)
           /\ \/ Grouped(groups, x) = Append(groups, <<x>>)
              \/ \E before \in Seq(Group), last \in Group :
                     /\ groups = Append(before, last)
                     /\ x.kind \in Together(last[1].kind)
                     /\ Grouped(groups, x) = Append(before, Append(last, x))
<1> DEFINE G == Group
<1>1. ASSUME NEW groups \in Seq(G), NEW x \in Item
      PROVE  /\ Grouped(groups, x) \in Seq(G)
             /\ \/ Grouped(groups, x) = Append(groups, <<x>>)
                \/ \E before \in Seq(G), last \in G :
                       /\ groups = Append(before, last)
                       /\ x.kind \in Together(last[1].kind)
                       /\ Grouped(groups, x) = Append(before, Append(last, x))
  <2>1. <<x>> \in G /\ \A g \in G : g \in Seq(Item) /\ Append(g, x) \in G
    BY GroupAppend DEF Group
  <2> HIDE DEF G
  <2>2. CASE groups # <<>> /\ x.kind \in Together(Last(groups)[1].kind)
    <3> DEFINE before == Front(groups)
               last == Last(groups)
    <3>1. before \in Seq(G) /\ last \in G /\ groups = Append(before, last)
      <4>1. Len(groups) \in Nat /\ Len(groups) # 0
        BY <2>2
      <4>2. last = groups[Len(groups)] /\ before = SubSeq(groups, 1, Len(groups) - 1)
        BY DEF Last, Front
      <4> QED
        BY <4>1, <4>2
    <3>2. Grouped(groups, x) = Append(before, Append(last, x))
      BY <2>2 DEF Grouped
    <3>3. Append(last, x) \in G /\ x.kind \in Together(last[1].kind)
      BY <2>1, <2>2, <3>1
    <3> HIDE DEF before, last
    <3>4. Grouped(groups, x) \in Seq(G)
      BY <3>1, <3>2, <3>3, AppendProperties
    <3> QED
      BY <3>1, <3>2, <3>3, <3>4
  <2>3. CASE ~(groups # <<>> /\ x.kind \in Together(Last(groups)[1].kind))
    <3>1. Grouped(groups, x) = Append(groups, <<x>>)
      BY <2>3 DEF Grouped
    <3> QED
      BY <2>1, <3>1, AppendProperties
  <2> QED
    BY <2>2, <2>3
<1> QED
  BY <1>1, EmptySeq

grouping == [x \in (Seq(Group)) \X (Item) |-> Grouped(x[1], x[2])]

\* The groups of items are a fold.
LEMMA GroupsIsFolded ==
    ASSUME NEW s \in Seq(Item)
    PROVE  /\ StepOn(grouping, Seq(Group), Item) /\ <<>> \in Seq(Group)
           /\ Groups(s) = FoldedBy(grouping, <<>>, s)
           /\ Groups(s) \in Seq(Group)
<1> DEFINE A == Seq(Group)
           B == Item
           step == grouping
           base == <<>>
           F(g) == [t \in SUBSET (DOMAIN s) |->
                        IF t = {} THEN base ELSE Grouped(g[t \ {Max(t)}], s[Max(t)])]
<1>1. StepOn(step, A, B) /\ base \in A
  BY GroupedIs DEF StepOn, grouping
<1>2. s \in Seq(B)
  OBVIOUS
<1>3. Groups(s) = (CHOOSE g : g = F(g))[DOMAIN s]
  BY DEF Groups, FoldLeft, MapThenFoldSet
<1>4. \A x \in A, e \in B : step[<<x, e>>] = Grouped(x, e)
  BY DEF grouping
<1> HIDE DEF A, B, base, step
<1>5. PICK h : Folding(h, A, B, step, base, s)
  BY <1>1, <1>2, FoldedByFunction
<1>6. h = F(h)
  <2>1. ASSUME NEW t \in SUBSET (DOMAIN s), t # {}
        PROVE  h[t] = Grouped(h[t \ {Max(t)}], s[Max(t)])
    BY <1>4, <1>5, <2>1 DEF Folding
  <2> QED
    BY <1>5, <2>1 DEF Folding
<1>7. PICK g : g = F(g) /\ Groups(s) = g[DOMAIN s]
  <2> HIDE DEF F
  <2> QED
    BY <1>3, <1>6
<1>8. Unfolding(g, A, B, step, base, s)
  BY <1>4, <1>7 DEF Unfolding
<1>9. Groups(s) = FoldedBy(step, base, s)
  <2> HIDE DEF F
  <2> QED
    BY <1>1, <1>2, <1>7, <1>8, FoldedByUnfolding
<1>10. FoldedBy(step, base, s) \in A
  BY <1>1, <1>2, FoldedByType
<1> QED
  BY <1>1, <1>9, <1>10 DEF A, B, base, step

\* It starts from nothing.
LEMMA GroupsOfNone ==
    Groups(<<>>) = <<>>
<1> DEFINE z == <<>>
           A == Seq(Group)
           B == Item
           base == <<>>
           step == grouping
<1>1. z \in Seq(B)
  OBVIOUS
<1>2. StepOn(step, A, B) /\ base \in A /\ Groups(z) = FoldedBy(step, base, z)
  <2> HIDE DEF z
  <2> QED
    BY <1>1, GroupsIsFolded
<1>3. FoldedBy(step, base, <<>>) = base
  <2> HIDE DEF z, A, B, base, step
  <2> QED
    BY <1>2, FoldedByEmpty
<1> QED
  BY <1>2, <1>3

\* Groups, an item at a time.
LEMMA GroupsAppend ==
    ASSUME NEW s \in Seq(Item), NEW e \in Item
    PROVE  /\ Groups(<<>>) = <<>>
           /\ Groups(s) \in Seq(Group)
           /\ Groups(Append(s, e)) = Grouped(Groups(s), e)
<1> DEFINE z == <<>>
           base == <<>>
           step == grouping
           A == Seq(Group)
           B == Item
<1>1. StepOn(step, A, B) /\ base \in A
  <2>1. StepOn(grouping, Seq(Group), Item) /\ <<>> \in Seq(Group)
    BY GroupsIsFolded
  <2> QED
    BY <2>1
<1>2. /\ Groups(z) = FoldedBy(step, base, z) /\ Groups(s) = FoldedBy(step, base, s)
      /\ Groups(Append(s, e)) = FoldedBy(step, base, Append(s, e))
  <2>1. z \in Seq(B) /\ Append(s, e) \in Seq(B)
    <3> HIDE DEF B
    <3> QED
      BY EmptySeq, AppendProperties DEF B
  <2> HIDE DEF z
  <2> QED
    BY <2>1, GroupsIsFolded
<1>3. \A x \in A : step[<<x, e>>] = Grouped(x, e)
  BY DEF grouping
<1>4. s \in Seq(B) /\ e \in B
  OBVIOUS
<1> HIDE DEF z, base, step, A, B
<1>5. /\ FoldedBy(step, base, <<>>) = base
      /\ FoldedBy(step, base, s) \in A
      /\ FoldedBy(step, base, Append(s, e)) = step[<<FoldedBy(step, base, s), e>>]
  BY <1>1, <1>4, FoldedByAppend
<1> QED
  BY <1>2, <1>3, <1>5 DEF z, base, A

\* The ids of calls, with one more item.
Called(ids, x) == IF x.kind = "call" THEN Append(ids, x.id) ELSE ids

\* They stay a sequence of ids.
LEMMA CalledIs ==
    <<>> \in Seq(Nat) /\ \A ids \in Seq(Nat), x \in Item : Called(ids, x) \in Seq(Nat)
  BY DEF Called, Item

calling == [x \in (Seq(Nat)) \X (Item) |-> Called(x[1], x[2])]

\* The calls of a group are a fold.
LEMMA ToolCallsIsFolded ==
    ASSUME NEW s \in Seq(Item)
    PROVE  /\ StepOn(calling, Seq(Nat), Item) /\ <<>> \in Seq(Nat)
           /\ ToolCalls(s) = FoldedBy(calling, <<>>, s)
           /\ ToolCalls(s) \in Seq(Nat)
<1> DEFINE A == Seq(Nat)
           B == Item
           step == calling
           base == <<>>
           F(g) == [t \in SUBSET (DOMAIN s) |->
                        IF t = {} THEN base ELSE Called(g[t \ {Max(t)}], s[Max(t)])]
<1>1. StepOn(step, A, B) /\ base \in A
  BY CalledIs DEF StepOn, calling
<1>2. s \in Seq(B)
  OBVIOUS
<1>3. ToolCalls(s) = (CHOOSE g : g = F(g))[DOMAIN s]
  BY DEF ToolCalls, Called, FoldLeft, MapThenFoldSet
<1>4. \A x \in A, e \in B : step[<<x, e>>] = Called(x, e)
  BY DEF calling
<1> HIDE DEF A, B, base, step
<1>5. PICK h : Folding(h, A, B, step, base, s)
  BY <1>1, <1>2, FoldedByFunction
<1>6. h = F(h)
  <2>1. ASSUME NEW t \in SUBSET (DOMAIN s), t # {}
        PROVE  h[t] = Called(h[t \ {Max(t)}], s[Max(t)])
    BY <1>4, <1>5, <2>1 DEF Folding
  <2> QED
    BY <1>5, <2>1 DEF Folding
<1>7. PICK g : g = F(g) /\ ToolCalls(s) = g[DOMAIN s]
  <2> HIDE DEF F
  <2> QED
    BY <1>3, <1>6
<1>8. Unfolding(g, A, B, step, base, s)
  BY <1>4, <1>7 DEF Unfolding
<1>9. ToolCalls(s) = FoldedBy(step, base, s)
  <2> HIDE DEF F
  <2> QED
    BY <1>1, <1>2, <1>7, <1>8, FoldedByUnfolding
<1>10. FoldedBy(step, base, s) \in A
  BY <1>1, <1>2, FoldedByType
<1> QED
  BY <1>1, <1>9, <1>10 DEF A, B, base, step

\* It starts from nothing.
LEMMA ToolCallsOfNone ==
    ToolCalls(<<>>) = <<>>
<1> DEFINE z == <<>>
           A == Seq(Nat)
           B == Item
           base == <<>>
           step == calling
<1>1. z \in Seq(B)
  OBVIOUS
<1>2. StepOn(step, A, B) /\ base \in A /\ ToolCalls(z) = FoldedBy(step, base, z)
  <2> HIDE DEF z
  <2> QED
    BY <1>1, ToolCallsIsFolded
<1>3. FoldedBy(step, base, <<>>) = base
  <2> HIDE DEF z, A, B, base, step
  <2> QED
    BY <1>2, FoldedByEmpty
<1> QED
  BY <1>2, <1>3

\* Calls, an item at a time.
LEMMA ToolCallsAppend ==
    ASSUME NEW s \in Seq(Item), NEW e \in Item
    PROVE  /\ ToolCalls(<<>>) = <<>>
           /\ ToolCalls(s) \in Seq(Nat)
           /\ ToolCalls(Append(s, e)) = Called(ToolCalls(s), e)
<1> DEFINE z == <<>>
           base == <<>>
           step == calling
           A == Seq(Nat)
           B == Item
<1>1. StepOn(step, A, B) /\ base \in A
  <2>1. StepOn(calling, Seq(Nat), Item) /\ <<>> \in Seq(Nat)
    BY ToolCallsIsFolded
  <2> QED
    BY <2>1
<1>2. /\ ToolCalls(z) = FoldedBy(step, base, z) /\ ToolCalls(s) = FoldedBy(step, base, s)
      /\ ToolCalls(Append(s, e)) = FoldedBy(step, base, Append(s, e))
  <2>1. z \in Seq(B) /\ Append(s, e) \in Seq(B)
    <3> HIDE DEF B
    <3> QED
      BY EmptySeq, AppendProperties DEF B
  <2> HIDE DEF z
  <2> QED
    BY <2>1, ToolCallsIsFolded
<1>3. \A x \in A : step[<<x, e>>] = Called(x, e)
  BY DEF calling
<1>4. s \in Seq(B) /\ e \in B
  OBVIOUS
<1> HIDE DEF z, base, step, A, B
<1>5. /\ FoldedBy(step, base, <<>>) = base
      /\ FoldedBy(step, base, s) \in A
      /\ FoldedBy(step, base, Append(s, e)) = step[<<FoldedBy(step, base, s), e>>]
  BY <1>1, <1>4, FoldedByAppend
<1> QED
  BY <1>2, <1>3, <1>5 DEF z, base, A

\* One picture more, or none.
Pictured(n, x) == IF x.image THEN n + 1 ELSE n

\* It stays a number.
LEMMA PicturedIs ==
    0 \in Nat /\ \A n \in Nat, x \in Item : Pictured(n, x) \in Nat
  BY DEF Pictured

picturing == [x \in (Nat) \X (Item) |-> Pictured(x[1], x[2])]

\* The pictures of a group are a fold.
LEMMA PicturesIsFolded ==
    ASSUME NEW s \in Seq(Item)
    PROVE  /\ StepOn(picturing, Nat, Item) /\ 0 \in Nat
           /\ Pictures(s) = FoldedBy(picturing, 0, s)
           /\ Pictures(s) \in Nat
<1> DEFINE A == Nat
           B == Item
           step == picturing
           base == 0
           F(g) == [t \in SUBSET (DOMAIN s) |->
                        IF t = {} THEN base ELSE Pictured(g[t \ {Max(t)}], s[Max(t)])]
<1>1. StepOn(step, A, B) /\ base \in A
  BY PicturedIs DEF StepOn, picturing
<1>2. s \in Seq(B)
  OBVIOUS
<1>3. Pictures(s) = (CHOOSE g : g = F(g))[DOMAIN s]
  BY DEF Pictures, Pictured, FoldLeft, MapThenFoldSet
<1>4. \A x \in A, e \in B : step[<<x, e>>] = Pictured(x, e)
  BY DEF picturing
<1> HIDE DEF A, B, base, step
<1>5. PICK h : Folding(h, A, B, step, base, s)
  BY <1>1, <1>2, FoldedByFunction
<1>6. h = F(h)
  <2>1. ASSUME NEW t \in SUBSET (DOMAIN s), t # {}
        PROVE  h[t] = Pictured(h[t \ {Max(t)}], s[Max(t)])
    BY <1>4, <1>5, <2>1 DEF Folding
  <2> QED
    BY <1>5, <2>1 DEF Folding
<1>7. PICK g : g = F(g) /\ Pictures(s) = g[DOMAIN s]
  <2> HIDE DEF F
  <2> QED
    BY <1>3, <1>6
<1>8. Unfolding(g, A, B, step, base, s)
  BY <1>4, <1>7 DEF Unfolding
<1>9. Pictures(s) = FoldedBy(step, base, s)
  <2> HIDE DEF F
  <2> QED
    BY <1>1, <1>2, <1>7, <1>8, FoldedByUnfolding
<1>10. FoldedBy(step, base, s) \in A
  BY <1>1, <1>2, FoldedByType
<1> QED
  BY <1>1, <1>9, <1>10 DEF A, B, base, step

\* It starts from nothing.
LEMMA PicturesOfNone ==
    Pictures(<<>>) = 0
<1> DEFINE z == <<>>
           A == Nat
           B == Item
           base == 0
           step == picturing
<1>1. z \in Seq(B)
  OBVIOUS
<1>2. StepOn(step, A, B) /\ base \in A /\ Pictures(z) = FoldedBy(step, base, z)
  <2> HIDE DEF z
  <2> QED
    BY <1>1, PicturesIsFolded
<1>3. FoldedBy(step, base, <<>>) = base
  <2> HIDE DEF z, A, B, base, step
  <2> QED
    BY <1>2, FoldedByEmpty
<1> QED
  BY <1>2, <1>3

\* Pictures, an item at a time.
LEMMA PicturesAppend ==
    ASSUME NEW s \in Seq(Item), NEW e \in Item
    PROVE  /\ Pictures(<<>>) = 0
           /\ Pictures(s) \in Nat
           /\ Pictures(Append(s, e)) = Pictured(Pictures(s), e)
<1> DEFINE z == <<>>
           base == 0
           step == picturing
           A == Nat
           B == Item
<1>1. StepOn(step, A, B) /\ base \in A
  <2>1. StepOn(picturing, Nat, Item) /\ 0 \in Nat
    BY PicturesIsFolded
  <2> QED
    BY <2>1
<1>2. /\ Pictures(z) = FoldedBy(step, base, z) /\ Pictures(s) = FoldedBy(step, base, s)
      /\ Pictures(Append(s, e)) = FoldedBy(step, base, Append(s, e))
  <2>1. z \in Seq(B) /\ Append(s, e) \in Seq(B)
    <3> HIDE DEF B
    <3> QED
      BY EmptySeq, AppendProperties DEF B
  <2> HIDE DEF z
  <2> QED
    BY <2>1, PicturesIsFolded
<1>3. \A x \in A : step[<<x, e>>] = Pictured(x, e)
  BY DEF picturing
<1>4. s \in Seq(B) /\ e \in B
  OBVIOUS
<1> HIDE DEF z, base, step, A, B
<1>5. /\ FoldedBy(step, base, <<>>) = base
      /\ FoldedBy(step, base, s) \in A
      /\ FoldedBy(step, base, Append(s, e)) = step[<<FoldedBy(step, base, s), e>>]
  BY <1>1, <1>4, FoldedByAppend
<1> QED
  BY <1>2, <1>3, <1>5 DEF z, base, A

\* What is awaited after one more group.
Awaiting(ids, group) == IF Silent(group) THEN ids ELSE Asked(group)

\* What a group asks is a sequence of ids.
LEMMA AwaitingTyped ==
    \A group \in Group : ToolCalls(group) \in Seq(Nat)
  BY ToolCallsIsFolded DEF Group

\* So it stays a sequence of ids.
LEMMA AwaitingIs ==
    <<>> \in Seq(Nat) /\ \A ids \in Seq(Nat), group \in Group : Awaiting(ids, group) \in Seq(Nat)
  BY AwaitingTyped, EmptySeq DEF Awaiting, Asked

awaiting == [x \in (Seq(Nat)) \X (Group) |-> Awaiting(x[1], x[2])]

\* What is awaited is a fold.
LEMMA AwaitedIsFolded ==
    ASSUME NEW s \in Seq(Group)
    PROVE  /\ StepOn(awaiting, Seq(Nat), Group) /\ <<>> \in Seq(Nat)
           /\ Awaited(s) = FoldedBy(awaiting, <<>>, s)
           /\ Awaited(s) \in Seq(Nat)
<1> DEFINE A == Seq(Nat)
           B == Group
           step == awaiting
           base == <<>>
           F(g) == [t \in SUBSET (DOMAIN s) |->
                        IF t = {} THEN base ELSE Awaiting(g[t \ {Max(t)}], s[Max(t)])]
<1>1. StepOn(step, A, B) /\ base \in A
  BY AwaitingIs DEF StepOn, awaiting
<1>2. s \in Seq(B)
  OBVIOUS
<1>3. Awaited(s) = (CHOOSE g : g = F(g))[DOMAIN s]
  BY DEF Awaited, Awaiting, FoldLeft, MapThenFoldSet
<1>4. \A x \in A, e \in B : step[<<x, e>>] = Awaiting(x, e)
  BY DEF awaiting
<1> HIDE DEF A, B, base, step
<1>5. PICK h : Folding(h, A, B, step, base, s)
  BY <1>1, <1>2, FoldedByFunction
<1>6. h = F(h)
  <2>1. ASSUME NEW t \in SUBSET (DOMAIN s), t # {}
        PROVE  h[t] = Awaiting(h[t \ {Max(t)}], s[Max(t)])
    BY <1>4, <1>5, <2>1 DEF Folding
  <2> QED
    BY <1>5, <2>1 DEF Folding
<1>7. PICK g : g = F(g) /\ Awaited(s) = g[DOMAIN s]
  <2> HIDE DEF F
  <2> QED
    BY <1>3, <1>6
<1>8. Unfolding(g, A, B, step, base, s)
  BY <1>4, <1>7 DEF Unfolding
<1>9. Awaited(s) = FoldedBy(step, base, s)
  <2> HIDE DEF F
  <2> QED
    BY <1>1, <1>2, <1>7, <1>8, FoldedByUnfolding
<1>10. FoldedBy(step, base, s) \in A
  BY <1>1, <1>2, FoldedByType
<1> QED
  BY <1>1, <1>9, <1>10 DEF A, B, base, step

\* It starts from nothing.
LEMMA AwaitedOfNone ==
    Awaited(<<>>) = <<>>
<1> DEFINE z == <<>>
           A == Seq(Nat)
           B == Group
           base == <<>>
           step == awaiting
<1>1. z \in Seq(B)
  OBVIOUS
<1>2. StepOn(step, A, B) /\ base \in A /\ Awaited(z) = FoldedBy(step, base, z)
  <2> HIDE DEF z
  <2> QED
    BY <1>1, AwaitedIsFolded
<1>3. FoldedBy(step, base, <<>>) = base
  <2> HIDE DEF z, A, B, base, step
  <2> QED
    BY <1>2, FoldedByEmpty
<1> QED
  BY <1>2, <1>3

\* What is awaited, a group at a time.
LEMMA AwaitedAppend ==
    ASSUME NEW s \in Seq(Group), NEW e \in Group
    PROVE  /\ Awaited(<<>>) = <<>>
           /\ Awaited(s) \in Seq(Nat)
           /\ Awaited(Append(s, e)) = Awaiting(Awaited(s), e)
<1> DEFINE z == <<>>
           base == <<>>
           step == awaiting
           A == Seq(Nat)
           B == Group
<1>1. StepOn(step, A, B) /\ base \in A
  <2>1. StepOn(awaiting, Seq(Nat), Group) /\ <<>> \in Seq(Nat)
    BY AwaitedIsFolded
  <2> QED
    BY <2>1
<1>2. /\ Awaited(z) = FoldedBy(step, base, z) /\ Awaited(s) = FoldedBy(step, base, s)
      /\ Awaited(Append(s, e)) = FoldedBy(step, base, Append(s, e))
  <2>1. z \in Seq(B) /\ Append(s, e) \in Seq(B)
    <3> HIDE DEF B
    <3> QED
      BY EmptySeq, AppendProperties DEF B
  <2> HIDE DEF z
  <2> QED
    BY <2>1, AwaitedIsFolded
<1>3. \A x \in A : step[<<x, e>>] = Awaiting(x, e)
  BY DEF awaiting
<1>4. s \in Seq(B) /\ e \in B
  OBVIOUS
<1> HIDE DEF z, base, step, A, B
<1>5. /\ FoldedBy(step, base, <<>>) = base
      /\ FoldedBy(step, base, s) \in A
      /\ FoldedBy(step, base, Append(s, e)) = step[<<FoldedBy(step, base, s), e>>]
  BY <1>1, <1>4, FoldedByAppend
<1> QED
  BY <1>2, <1>3, <1>5 DEF z, base, A

ToolMessage == [role : {"tool"}, id : Nat]

\* What a group has for results, and whether it is a message.
LEMMA ToolMessagesAre ==
    ASSUME NEW group \in Group
    PROVE  /\ ToolMessages(group) \in Seq(ToolMessage)
           /\ Len(ToolMessages(group)) = Len(group)
           /\ \A n \in DOMAIN group : ToolMessages(group)[n] = [role |-> "tool", id |-> group[n].id]
<1>1. group \in Seq(Item) /\ DOMAIN group = 1 .. Len(group) /\ Len(group) \in Nat
  BY DEF Group
<1>2. ASSUME NEW n \in DOMAIN group PROVE [role |-> "tool", id |-> group[n].id] \in ToolMessage
  <2>1. group[n] \in Item
    BY <1>1
  <2>2. group[n].id \in Nat
    BY <2>1 DEF Item
  <2> QED
    BY <2>2 DEF ToolMessage
<1>3. ToolMessages(group) = [n \in 1 .. Len(group) |-> [role |-> "tool", id |-> group[n].id]]
  BY <1>1 DEF ToolMessages
<1> DEFINE N == Len(group)
           t == ToolMessages(group)
<1>4. t \in [1 .. N -> ToolMessage]
  BY <1>1, <1>2, <1>3
<1> HIDE DEF t
<1>5. t \in Seq(ToolMessage) /\ Len(t) = N
  BY <1>1, <1>4
<1> QED
  BY <1>1, <1>3, <1>5 DEF t

\* The messages of one group.
LEMMA ImageMessageIs ==
    ASSUME NEW group \in Group, NEW images \in BOOLEAN
    PROVE  \/ ImageMessage(group, images) = <<>> /\ (images => Pictures(group) = 0)
           \/ /\ images /\ Pictures(group) \in Nat
              /\ ImageMessage(group, images) = <<[role |-> "user", images |-> Pictures(group)]>>
<1>1. Pictures(group) \in Nat
  BY PicturesIsFolded DEF Group
<1> QED
  BY <1>1 DEF ImageMessage

\* Each of them is a message.
LEMMA MessagesAre ==
    /\ ToolMessage \subseteq Message
    /\ \A n \in Nat : [role |-> "user", images |-> n] \in Message
    /\ \A ids \in Seq(Nat) : [role |-> "assistant", tool_calls |-> ids] \in Message
  BY DEF Message, ToolMessage

\* The kinds of a group are apart.
LEMMA KindsApart ==
    ASSUME NEW group
    PROVE  /\ group[1].kind = "user" =>
                  /\ ~Silent(group) /\ AnswersOf(group) = <<>>
                  /\ \A images, field : GroupMessages(group, images, field) = <<[role |-> "user", images |-> 0]>>
           /\ group[1].kind = "result" =>
                  /\ ~Silent(group) /\ AnswersOf(group) = [n \in DOMAIN group |-> group[n].id]
                  /\ \A images, field : GroupMessages(group, images, field) = ResultMessages(group, images)
           /\ group[1].kind \in OfAssistant =>
                  /\ ~Silent(group) /\ AnswersOf(group) = <<>>
                  /\ \A images, field : GroupMessages(group, images, field) = AssistantMessage(group, field)
           /\ group[1].kind \notin {"user", "result"} \cup OfAssistant =>
                  /\ Silent(group)
                  /\ \A images, field : GroupMessages(group, images, field) = <<>>
<1> DEFINE kind == group[1].kind
<1>1. \A images, field :
        GroupMessages(group, images, field) =
          CASE kind = "user" -> <<[role |-> "user", images |-> 0]>>
            [] kind = "result" -> ResultMessages(group, images)
            [] kind \in OfAssistant -> AssistantMessage(group, field)
            [] OTHER -> <<>>
  BY DEF GroupMessages
<1>2. Silent(group) <=> kind \notin {"user", "result"} \cup OfAssistant
  BY DEF Silent
<1>3. AnswersOf(group) = IF kind = "result" THEN [n \in DOMAIN group |-> group[n].id] ELSE <<>>
  BY DEF AnswersOf
<1>4. "user" \notin OfAssistant /\ "result" \notin OfAssistant
  BY DEF OfAssistant
<1> HIDE DEF kind
<1>5. CASE kind = "user"
  BY <1>1, <1>2, <1>3, <1>4, <1>5 DEF kind
<1>6. CASE kind = "result"
  BY <1>1, <1>2, <1>3, <1>4, <1>6 DEF kind
<1>7. CASE kind \in OfAssistant
  <2>1. kind # "user" /\ kind # "result"
    BY <1>4, <1>7
  <2> QED
    BY <1>1, <1>2, <1>3, <1>7, <2>1 DEF kind
<1>8. CASE kind \notin {"user", "result"} \cup OfAssistant
  BY <1>1, <1>2, <1>3, <1>8 DEF kind
<1> QED
  BY <1>5, <1>6, <1>7, <1>8

\* The message of the assistant, if there is one, has the calls of its group.
LEMMA AssistantMessageIs ==
    ASSUME NEW group \in Group, NEW field \in BOOLEAN
    PROVE  /\ ToolCalls(group) \in Seq(Nat)
           /\ \/ AssistantMessage(group, field) = <<>> /\ ToolCalls(group) = <<>>
              \/ AssistantMessage(group, field) = <<[role |-> "assistant", tool_calls |-> ToolCalls(group)]>>
<1>1. ToolCalls(group) \in Seq(Nat)
  BY AwaitingTyped
<1> QED
  BY <1>1 DEF AssistantMessage

\* What is sent of one more group are messages.
LEMMA SentIs ==
    <<>> \in Seq(Message) /\
    \A msgs \in Seq(Message), group \in Group, images, field \in BOOLEAN :
        msgs \o GroupMessages(group, images, field) \in Seq(Message)
<1> DEFINE M == Message
<1>1. ASSUME NEW group \in Group, NEW images \in BOOLEAN, NEW field \in BOOLEAN
      PROVE  GroupMessages(group, images, field) \in Seq(M)
  <2>1. CASE group[1].kind = "user"
    <3>1. 0 \in Nat
      OBVIOUS
    <3>2. [role |-> "user", images |-> 0] \in M
      BY <3>1, MessagesAre
    <3> HIDE DEF M
    <3> QED
      BY <2>1, <3>2, KindsApart
  <2>2. CASE group[1].kind = "result"
    <3>1. ToolMessages(group) \in Seq(M)
      <4>1. ToolMessages(group) \in Seq(ToolMessage) /\ ToolMessage \subseteq M
        BY ToolMessagesAre, MessagesAre
      <4> HIDE DEF M
      <4> QED
        BY <4>1
    <3>2. ImageMessage(group, images) \in Seq(M)
      <4>1. \A n \in Nat : [role |-> "user", images |-> n] \in M
        BY MessagesAre
      <4> HIDE DEF M
      <4>2. CASE ImageMessage(group, images) = <<>>
        BY <4>2, EmptySeq
      <4>3. CASE ImageMessage(group, images) # <<>>
        <5>1. /\ Pictures(group) \in Nat
              /\ ImageMessage(group, images) = <<[role |-> "user", images |-> Pictures(group)]>>
          BY <4>3, ImageMessageIs
        <5> DEFINE m == [role |-> "user", images |-> Pictures(group)]
        <5>2. m \in M
          BY <4>1, <5>1
        <5> HIDE DEF m
        <5>3. <<m>> \in Seq(M)
          BY <5>2
        <5> QED
          BY <5>1, <5>3 DEF m
      <4> QED
        BY <4>2, <4>3
    <3> HIDE DEF M
    <3>3. ToolMessages(group) \o ImageMessage(group, images) \in Seq(M)
      BY <3>1, <3>2, ConcatProperties
    <3> QED
      BY <2>2, <3>3, KindsApart DEF ResultMessages
  <2>3. CASE group[1].kind \in OfAssistant
    <3>1. \A ids \in Seq(Nat) : [role |-> "assistant", tool_calls |-> ids] \in M
      BY MessagesAre
    <3> HIDE DEF M
    <3>2. AssistantMessage(group, field) \in Seq(M)
      <4> DEFINE m == [role |-> "assistant", tool_calls |-> ToolCalls(group)]
      <4>1. m \in M
        BY <3>1, AssistantMessageIs
      <4> HIDE DEF m
      <4>2. <<m>> \in Seq(M) /\ <<>> \in Seq(M)
        BY <4>1, EmptySeq
      <4>3. AssistantMessage(group, field) = <<>> \/ AssistantMessage(group, field) = <<m>>
        BY AssistantMessageIs DEF m
      <4> QED
        BY <4>2, <4>3
    <3> QED
      BY <2>3, <3>2, KindsApart
  <2>4. CASE group[1].kind \notin {"user", "result"} \cup OfAssistant
    <3>1. GroupMessages(group, images, field) = <<>>
      BY <2>4, KindsApart
    <3> HIDE DEF M
    <3> QED
      BY <3>1, EmptySeq
  <2> QED
    BY <2>1, <2>2, <2>3, <2>4
<1> HIDE DEF M
<1>2. ASSUME NEW msgs \in Seq(M), NEW group \in Group, NEW images \in BOOLEAN, NEW field \in BOOLEAN
      PROVE  msgs \o GroupMessages(group, images, field) \in Seq(M)
  BY <1>1, ConcatProperties
<1> QED
  BY <1>2, EmptySeq DEF M

\* The messages of some groups.
Sending(images, field, groups) ==
    FoldLeft(LAMBDA out_, group : out_ \o GroupMessages(group, images, field), <<>>, groups)

sending(images, field) == [x \in (Seq(Message)) \X (Group) |-> x[1] \o GroupMessages(x[2], images, field)]

\* Messages are a fold.
LEMMA SendingIsFolded ==
    ASSUME NEW images \in BOOLEAN, NEW field \in BOOLEAN, NEW s \in Seq(Group)
    PROVE  /\ StepOn(sending(images, field), Seq(Message), Group) /\ <<>> \in Seq(Message)
           /\ Sending(images, field, s) = FoldedBy(sending(images, field), <<>>, s)
           /\ Sending(images, field, s) \in Seq(Message)
<1> DEFINE A == Seq(Message)
           B == Group
           step == sending(images, field)
           base == <<>>
           F(g) == [t \in SUBSET (DOMAIN s) |->
                        IF t = {} THEN base ELSE g[t \ {Max(t)}] \o GroupMessages(s[Max(t)], images, field)]
<1>1. StepOn(step, A, B) /\ base \in A
  BY SentIs DEF StepOn, sending
<1>2. s \in Seq(B)
  OBVIOUS
<1>3. Sending(images, field, s) = (CHOOSE g : g = F(g))[DOMAIN s]
  BY DEF Sending, FoldLeft, MapThenFoldSet
<1>4. \A x \in A, e \in B : step[<<x, e>>] = x \o GroupMessages(e, images, field)
  BY DEF sending
<1> HIDE DEF A, B, base, step
<1>5. PICK h : Folding(h, A, B, step, base, s)
  BY <1>1, <1>2, FoldedByFunction
<1>6. h = F(h)
  <2>1. ASSUME NEW t \in SUBSET (DOMAIN s), t # {}
        PROVE  h[t] = h[t \ {Max(t)}] \o GroupMessages(s[Max(t)], images, field)
    BY <1>4, <1>5, <2>1 DEF Folding
  <2> QED
    BY <1>5, <2>1 DEF Folding
<1>7. PICK g : g = F(g) /\ Sending(images, field, s) = g[DOMAIN s]
  <2> HIDE DEF F
  <2> QED
    BY <1>3, <1>6
<1>8. Unfolding(g, A, B, step, base, s)
  BY <1>4, <1>7 DEF Unfolding
<1>9. Sending(images, field, s) = FoldedBy(step, base, s)
  <2> HIDE DEF F
  <2> QED
    BY <1>1, <1>2, <1>7, <1>8, FoldedByUnfolding
<1>10. FoldedBy(step, base, s) \in A
  BY <1>1, <1>2, FoldedByType
<1> QED
  BY <1>1, <1>9, <1>10 DEF A, B, base, step

\* It starts from nothing.
LEMMA SendingOfNone ==
    ASSUME NEW images \in BOOLEAN, NEW field \in BOOLEAN
    PROVE  Sending(images, field, <<>>) = <<>>
<1> DEFINE z == <<>>
           A == Seq(Message)
           B == Group
           base == <<>>
           step == sending(images, field)
<1>1. z \in Seq(B)
  OBVIOUS
<1>2. StepOn(step, A, B) /\ base \in A /\ Sending(images, field, z) = FoldedBy(step, base, z)
  <2> HIDE DEF z
  <2> QED
    BY <1>1, SendingIsFolded
<1>3. FoldedBy(step, base, <<>>) = base
  <2> HIDE DEF z, A, B, base, step
  <2> QED
    BY <1>2, FoldedByEmpty
<1> QED
  BY <1>2, <1>3

\* Messages, a group at a time.
LEMMA SendingAppend ==
    ASSUME NEW images \in BOOLEAN, NEW field \in BOOLEAN, NEW s \in Seq(Group), NEW e \in Group
    PROVE  /\ Sending(images, field, <<>>) = <<>>
           /\ Sending(images, field, s) \in Seq(Message)
           /\ Sending(images, field, Append(s, e)) = Sending(images, field, s) \o GroupMessages(e, images, field)
<1> DEFINE z == <<>>
           base == <<>>
           step == sending(images, field)
           A == Seq(Message)
           B == Group
<1>1. StepOn(step, A, B) /\ base \in A
  <2>1. StepOn(sending(images, field), Seq(Message), Group) /\ <<>> \in Seq(Message)
    BY SendingIsFolded
  <2> QED
    BY <2>1
<1>2. /\ Sending(images, field, z) = FoldedBy(step, base, z) /\ Sending(images, field, s) = FoldedBy(step, base, s)
      /\ Sending(images, field, Append(s, e)) = FoldedBy(step, base, Append(s, e))
  <2>1. z \in Seq(B) /\ Append(s, e) \in Seq(B)
    <3> HIDE DEF B
    <3> QED
      BY EmptySeq, AppendProperties DEF B
  <2> HIDE DEF z
  <2> QED
    BY <2>1, SendingIsFolded
<1>3. \A x \in A : step[<<x, e>>] = x \o GroupMessages(e, images, field)
  BY DEF sending
<1>4. s \in Seq(B) /\ e \in B
  OBVIOUS
<1> HIDE DEF z, base, step, A, B
<1>5. /\ FoldedBy(step, base, <<>>) = base
      /\ FoldedBy(step, base, s) \in A
      /\ FoldedBy(step, base, Append(s, e)) = step[<<FoldedBy(step, base, s), e>>]
  BY <1>1, <1>4, FoldedByAppend
<1> QED
  BY <1>2, <1>3, <1>5 DEF z, base, A

\* One message more, with its images.
Showing(n, m) == IF m.role = "user" THEN n + m.images ELSE n

\* It stays a number.
LEMMA ShowingIs ==
    0 \in Nat /\ \A n \in Nat, m \in Message : Showing(n, m) \in Nat
  BY DEF Showing, Message

showing == [x \in (Nat) \X (Message) |-> Showing(x[1], x[2])]

\* The images of messages are a fold.
LEMMA ShownIsFolded ==
    ASSUME NEW s \in Seq(Message)
    PROVE  /\ StepOn(showing, Nat, Message) /\ 0 \in Nat
           /\ Shown(s) = FoldedBy(showing, 0, s)
           /\ Shown(s) \in Nat
<1> DEFINE A == Nat
           B == Message
           step == showing
           base == 0
           F(g) == [t \in SUBSET (DOMAIN s) |->
                        IF t = {} THEN base ELSE Showing(g[t \ {Max(t)}], s[Max(t)])]
<1>1. StepOn(step, A, B) /\ base \in A
  BY ShowingIs DEF StepOn, showing
<1>2. s \in Seq(B)
  OBVIOUS
<1>3. Shown(s) = (CHOOSE g : g = F(g))[DOMAIN s]
  BY DEF Shown, Showing, FoldLeft, MapThenFoldSet
<1>4. \A x \in A, e \in B : step[<<x, e>>] = Showing(x, e)
  BY DEF showing
<1> HIDE DEF A, B, base, step
<1>5. PICK h : Folding(h, A, B, step, base, s)
  BY <1>1, <1>2, FoldedByFunction
<1>6. h = F(h)
  <2>1. ASSUME NEW t \in SUBSET (DOMAIN s), t # {}
        PROVE  h[t] = Showing(h[t \ {Max(t)}], s[Max(t)])
    BY <1>4, <1>5, <2>1 DEF Folding
  <2> QED
    BY <1>5, <2>1 DEF Folding
<1>7. PICK g : g = F(g) /\ Shown(s) = g[DOMAIN s]
  <2> HIDE DEF F
  <2> QED
    BY <1>3, <1>6
<1>8. Unfolding(g, A, B, step, base, s)
  BY <1>4, <1>7 DEF Unfolding
<1>9. Shown(s) = FoldedBy(step, base, s)
  <2> HIDE DEF F
  <2> QED
    BY <1>1, <1>2, <1>7, <1>8, FoldedByUnfolding
<1>10. FoldedBy(step, base, s) \in A
  BY <1>1, <1>2, FoldedByType
<1> QED
  BY <1>1, <1>9, <1>10 DEF A, B, base, step

\* It starts from nothing.
LEMMA ShownOfNone ==
    Shown(<<>>) = 0
<1> DEFINE z == <<>>
           A == Nat
           B == Message
           base == 0
           step == showing
<1>1. z \in Seq(B)
  OBVIOUS
<1>2. StepOn(step, A, B) /\ base \in A /\ Shown(z) = FoldedBy(step, base, z)
  <2> HIDE DEF z
  <2> QED
    BY <1>1, ShownIsFolded
<1>3. FoldedBy(step, base, <<>>) = base
  <2> HIDE DEF z, A, B, base, step
  <2> QED
    BY <1>2, FoldedByEmpty
<1> QED
  BY <1>2, <1>3

\* Images, a message at a time.
LEMMA ShownAppend ==
    ASSUME NEW s \in Seq(Message), NEW e \in Message
    PROVE  /\ Shown(<<>>) = 0
           /\ Shown(s) \in Nat
           /\ Shown(Append(s, e)) = Showing(Shown(s), e)
<1> DEFINE z == <<>>
           base == 0
           step == showing
           A == Nat
           B == Message
<1>1. StepOn(step, A, B) /\ base \in A
  <2>1. StepOn(showing, Nat, Message) /\ 0 \in Nat
    BY ShownIsFolded
  <2> QED
    BY <2>1
<1>2. /\ Shown(z) = FoldedBy(step, base, z) /\ Shown(s) = FoldedBy(step, base, s)
      /\ Shown(Append(s, e)) = FoldedBy(step, base, Append(s, e))
  <2>1. z \in Seq(B) /\ Append(s, e) \in Seq(B)
    <3> HIDE DEF B
    <3> QED
      BY EmptySeq, AppendProperties DEF B
  <2> HIDE DEF z
  <2> QED
    BY <2>1, ShownIsFolded
<1>3. \A x \in A : step[<<x, e>>] = Showing(x, e)
  BY DEF showing
<1>4. s \in Seq(B) /\ e \in B
  OBVIOUS
<1> HIDE DEF z, base, step, A, B
<1>5. /\ FoldedBy(step, base, <<>>) = base
      /\ FoldedBy(step, base, s) \in A
      /\ FoldedBy(step, base, Append(s, e)) = step[<<FoldedBy(step, base, s), e>>]
  BY <1>1, <1>4, FoldedByAppend
<1> QED
  BY <1>2, <1>3, <1>5 DEF z, base, A

\* The results of calls show nothing, and a message what it has.
LEMMA ShownMore ==
    ASSUME NEW out_ \in Seq(Message)
    PROVE  /\ Shown(out_) \in Nat
           /\ \A t \in Seq(ToolMessage) : Shown(out_ \o t) = Shown(out_)
           /\ \A m \in Message : Shown(out_ \o <<m>>) = Showing(Shown(out_), m)
<1> DEFINE M == Message
           T == ToolMessage
           S == {t \in Seq(T) : Shown(out_ \o t) = Shown(out_)}
<1>1. T \subseteq M /\ \A m \in T : \A n \in Nat : Showing(n, m) = n
  <2>1. \A m \in T : m.role # "user"
    BY DEF ToolMessage
  <2> QED
    BY <2>1, MessagesAre DEF Showing
<1>2. \A s \in Seq(M), m \in M : Shown(s) \in Nat /\ Shown(Append(s, m)) = Showing(Shown(s), m)
  BY ShownAppend
<1>3. out_ \in Seq(M)
  OBVIOUS
<1>4. \E m \in M : TRUE
  <2>1. 0 \in Nat
    OBVIOUS
  <2> QED
    BY <2>1, MessagesAre
<1> HIDE DEF M, T
<1>5. Shown(out_) \in Nat
  BY <1>2, <1>3, <1>4
<1>6. <<>> \in S
  BY <1>3, EmptySeq, ConcatEmptySeq
<1>7. ASSUME NEW t \in Seq(T), NEW m \in T, t \in S PROVE Append(t, m) \in S
  <2>1. t \in Seq(M) /\ m \in M
    BY <1>1
  <2>2. out_ \o Append(t, m) = Append(out_ \o t, m) /\ out_ \o t \in Seq(M) /\ Append(t, m) \in Seq(T)
    BY <1>3, <2>1, ConcatProperties, ConcatAppend, AppendProperties
  <2>3. Shown(Append(out_ \o t, m)) = Showing(Shown(out_ \o t), m)
    BY <1>2, <2>1, <2>2
  <2> QED
    BY <1>1, <1>5, <1>7, <2>2, <2>3
<1> HIDE DEF S
<1>8. Seq(T) \subseteq S
  BY <1>6, <1>7, SeqSetInduction
<1>9. \A t \in Seq(T) : Shown(out_ \o t) = Shown(out_)
  BY <1>8 DEF S
<1>10. ASSUME NEW m \in M PROVE Shown(out_ \o <<m>>) = Showing(Shown(out_), m)
  <2>1. out_ \o <<m>> = Append(out_, m)
    BY <1>3
  <2> QED
    BY <1>2, <1>3, <2>1
<1> QED
  BY <1>5, <1>9, <1>10 DEF M, T

\* The images that a group is answered with.
Imaged(group) == IF group[1].kind = "result" THEN Pictures(group) ELSE 0

\* The messages of a group show them.
LEMMA ShownOfGroup ==
    ASSUME NEW out_ \in Seq(Message), NEW group \in Group, NEW images \in BOOLEAN, NEW field \in BOOLEAN
    PROVE  /\ Imaged(group) \in Nat
           /\ Shown(out_ \o GroupMessages(group, images, field))
                = Shown(out_) + (IF images THEN Imaged(group) ELSE 0)
<1> DEFINE M == Message
<1>1. Shown(out_) \in Nat
  BY ShownMore
<1>2. Pictures(group) \in Nat
  BY PicturesIsFolded DEF Group
<1>3. CASE group[1].kind = "result"
  <2> DEFINE o == out_ \o ToolMessages(group)
  <2>1. ToolMessages(group) \in Seq(ToolMessage)
    BY ToolMessagesAre
  <2>2. ToolMessages(group) \in Seq(M) /\ out_ \in Seq(M)
    <3>1. ToolMessage \subseteq M
      BY MessagesAre
    <3> HIDE DEF M
    <3> QED
      BY <2>1, <3>1 DEF M
  <2>3. Shown(o) = Shown(out_)
    BY <2>1, ShownMore
  <2>4. o \in Seq(M)
    <3> HIDE DEF M
    <3> QED
      BY <2>2, ConcatProperties
  <2>5. GroupMessages(group, images, field) = ToolMessages(group) \o ImageMessage(group, images)
    BY <1>3, KindsApart DEF ResultMessages
  <2> DEFINE im == ImageMessage(group, images)
             m == [role |-> "user", images |-> Pictures(group)]
  <2>6. m \in M /\ m.role = "user" /\ m.images = Pictures(group)
    BY <1>2, MessagesAre
  <2>7. \/ im = <<>> /\ (images => Pictures(group) = 0)
        \/ images /\ im = <<m>>
    BY ImageMessageIs
  <2>8. out_ \o (ToolMessages(group) \o im) = o \o im
    <3>1. im \in Seq(M)
      <4> HIDE DEF im, m, M
      <4>1. <<m>> \in Seq(M) /\ <<>> \in Seq(M)
        BY <2>6, EmptySeq
      <4> QED
        BY <2>7, <4>1
    <3> HIDE DEF M, im
    <3> QED
      BY <2>2, <3>1, ConcatAssociative
  <2>9. CASE im = <<>> /\ (images => Pictures(group) = 0)
    <3>1. o \o im = o
      <4> HIDE DEF o, M, im
      <4> QED
        BY <2>4, <2>9, ConcatEmptySeq
    <3> QED
      BY <1>1, <1>2, <1>3, <2>3, <2>5, <2>8, <2>9, <3>1 DEF Imaged
  <2>10. CASE images /\ im = <<m>>
    <3>1. Shown(o \o <<m>>) = Showing(Shown(o), m)
      <4> HIDE DEF o, m
      <4> QED
        BY <2>4, <2>6, ShownMore
    <3>2. Showing(Shown(o), m) = Shown(o) + Pictures(group)
      <4> HIDE DEF o, m
      <4> QED
        BY <2>6 DEF Showing
    <3> HIDE DEF o, m, im
    <3> QED
      BY <1>1, <1>2, <1>3, <2>3, <2>5, <2>8, <2>10, <3>1, <3>2 DEF Imaged, im
  <2> QED
    BY <2>7, <2>9, <2>10
<1>4. CASE group[1].kind # "result"
  <2>1. Imaged(group) = 0
    BY <1>4 DEF Imaged
  <2>2. \/ GroupMessages(group, images, field) = <<>>
        \/ \E m \in M : /\ GroupMessages(group, images, field) = <<m>>
                        /\ \A n \in Nat : Showing(n, m) = n
    <3>1. CASE group[1].kind = "user"
      <4> DEFINE m == [role |-> "user", images |-> 0]
      <4>1. m \in M /\ GroupMessages(group, images, field) = <<m>>
        <5>1. 0 \in Nat
          OBVIOUS
        <5> QED
          BY <3>1, <5>1, MessagesAre, KindsApart
      <4>2. \A n \in Nat : Showing(n, m) = n
        BY DEF Showing
      <4> HIDE DEF m, M
      <4> QED
        BY <4>1, <4>2
    <3>2. CASE group[1].kind \in OfAssistant
      <4> DEFINE m == [role |-> "assistant", tool_calls |-> ToolCalls(group)]
      <4>1. m \in M /\ m.role # "user"
        BY MessagesAre, AssistantMessageIs
      <4>2. \A n \in Nat : Showing(n, m) = n
        BY <4>1 DEF Showing
      <4>3. GroupMessages(group, images, field) = <<>> \/ GroupMessages(group, images, field) = <<m>>
        BY <3>2, AssistantMessageIs, KindsApart
      <4> HIDE DEF m, M
      <4> QED
        BY <4>1, <4>2, <4>3
    <3>3. CASE group[1].kind \notin {"user", "result"} \cup OfAssistant
      BY <3>3, KindsApart
    <3> QED
      BY <1>4, <3>1, <3>2, <3>3
  <2>3. CASE GroupMessages(group, images, field) = <<>>
    <3>1. out_ \o <<>> = out_
      BY ConcatEmptySeq
    <3> QED
      BY <1>1, <2>1, <2>3, <3>1
  <2>4. CASE \E m \in M : /\ GroupMessages(group, images, field) = <<m>>
                          /\ \A n \in Nat : Showing(n, m) = n
    <3>1. PICK m \in M : GroupMessages(group, images, field) = <<m>> /\ \A n \in Nat : Showing(n, m) = n
      BY <2>4
    <3>2. Shown(out_ \o <<m>>) = Showing(Shown(out_), m)
      BY ShownMore
    <3> QED
      BY <1>1, <2>1, <3>1, <3>2
  <2> QED
    BY <2>2, <2>3, <2>4
<1> QED
  BY <1>2, <1>3, <1>4 DEF Imaged

\* What an item adds to the images of its group.
LEMMA ImagedAppend ==
    ASSUME NEW x \in Item
    PROVE  /\ Imaged(<<x>>) = IF x.kind = "result" /\ x.image THEN 1 ELSE 0
           /\ \A group \in Group : x.kind \in Together(group[1].kind) =>
                  Imaged(Append(group, x)) = Imaged(group) + (IF x.kind = "result" /\ x.image THEN 1 ELSE 0)
<1>1. \A g \in Seq(Item) : Pictures(g) \in Nat /\ Pictures(Append(g, x)) = Pictured(Pictures(g), x)
  BY PicturesAppend
<1>2. Imaged(<<x>>) = IF x.kind = "result" /\ x.image THEN 1 ELSE 0
  <2>1. <<x>> = Append(<<>>, x)
    OBVIOUS
  <2>2. <<>> \in Seq(Item)
    BY EmptySeq
  <2>3. Pictures(<<>>) = 0
    BY <2>2, PicturesAppend
  <2>4. Pictures(<<x>>) = Pictured(0, x)
    BY <1>1, <2>1, <2>2, <2>3
  <2> QED
    BY <2>4 DEF Imaged, Pictured
<1>3. ASSUME NEW group \in Group, x.kind \in Together(group[1].kind)
      PROVE  Imaged(Append(group, x)) = Imaged(group) + (IF x.kind = "result" /\ x.image THEN 1 ELSE 0)
  <2>1. x.kind = "result" <=> group[1].kind = "result"
    BY <1>3 DEF Together, OfAssistant
  <2>2. group \in Seq(Item) /\ Append(group, x)[1] = group[1]
    <3>1. group \in Seq(Item) /\ group # <<>>
      BY DEF Group
    <3>2. Len(group) \in Nat /\ Len(group) # 0
      BY <3>1
    <3> QED
      BY <3>1, <3>2
  <2> QED
    BY <1>1, <2>1, <2>2 DEF Imaged, Pictured
<1> QED
  BY <1>2, <1>3

\* The items whose images a request has.
WithImages(items) == {n \in DOMAIN items : items[n].kind = "result" /\ items[n].image}

\* They are as many as there are images in the messages, when images may be sent.
LEMMA ShownOfItems ==
    ASSUME NEW items \in Seq(Item), NEW images \in BOOLEAN, NEW field \in BOOLEAN
    PROVE  /\ IsFiniteSet(WithImages(items))
           /\ Shown(Sending(images, field, Groups(items))) = IF images THEN Cardinality(WithImages(items)) ELSE 0
<1> DEFINE G == Group
           sent(gs) == Shown(Sending(images, field, gs))
           P(s) == /\ IsFiniteSet(WithImages(s))
                   /\ sent(Groups(s)) = IF images THEN Cardinality(WithImages(s)) ELSE 0
           S == {s \in Seq(Item) : P(s)}
<1>1. \A gs \in Seq(G), g \in G :
        /\ sent(gs) \in Nat
        /\ sent(Append(gs, g)) = sent(gs) + (IF images THEN Imaged(g) ELSE 0)
        /\ Imaged(g) \in Nat
  <2> SUFFICES ASSUME NEW gs \in Seq(G), NEW g \in G
               PROVE  /\ sent(gs) \in Nat
                      /\ sent(Append(gs, g)) = sent(gs) + (IF images THEN Imaged(g) ELSE 0)
                      /\ Imaged(g) \in Nat
    OBVIOUS
  <2>1. /\ Sending(images, field, gs) \in Seq(Message)
        /\ Sending(images, field, Append(gs, g)) = Sending(images, field, gs) \o GroupMessages(g, images, field)
    BY SendingAppend
  <2> QED
    BY <2>1, ShownOfGroup, ShownMore
<1>2. <<>> \in Seq(Item)
  BY EmptySeq
<1>3. <<>> \in S
  <2>1. Groups(<<>>) = <<>> /\ Sending(images, field, <<>>) = <<>> /\ Shown(<<>>) = 0
    BY GroupsOfNone, SendingOfNone, ShownOfNone
  <2>2. WithImages(<<>>) = {}
    BY DEF WithImages
  <2> QED
    BY <1>2, <2>1, <2>2, FS_EmptySet
<1>4. ASSUME NEW s \in Seq(Item), NEW x \in Item, s \in S PROVE Append(s, x) \in S
  <2> DEFINE one == IF x.kind = "result" /\ x.image THEN 1 ELSE 0
             t == Append(s, x)
  <2>1. /\ Groups(s) \in Seq(G) /\ Groups(t) = Grouped(Groups(s), x)
    BY GroupsAppend
  <2>2. sent(Groups(t)) = sent(Groups(s)) + (IF images THEN one ELSE 0)
    <3>1. CASE Grouped(Groups(s), x) = Append(Groups(s), <<x>>)
      <4>1. <<x>> \in G /\ Imaged(<<x>>) = one
        BY GroupAppend, EmptySeq, ImagedAppend
      <4> HIDE DEF G, sent, one, t
      <4> QED
        BY <1>1, <2>1, <3>1, <4>1
    <3>2. CASE \E before \in Seq(G), last \in G :
                   /\ Groups(s) = Append(before, last)
                   /\ x.kind \in Together(last[1].kind)
                   /\ Grouped(Groups(s), x) = Append(before, Append(last, x))
      <4>1. PICK before \in Seq(G), last \in G :
                   /\ Groups(s) = Append(before, last)
                   /\ x.kind \in Together(last[1].kind)
                   /\ Grouped(Groups(s), x) = Append(before, Append(last, x))
        BY <3>2
      <4>2. Append(last, x) \in G /\ Imaged(Append(last, x)) = Imaged(last) + one
        BY <4>1, GroupAppend, ImagedAppend DEF Group
      <4>3. one \in Nat
        OBVIOUS
      <4>4. /\ sent(before) \in Nat /\ Imaged(last) \in Nat
            /\ sent(Groups(s)) = sent(before) + (IF images THEN Imaged(last) ELSE 0)
            /\ sent(Groups(t)) = sent(before) + (IF images THEN Imaged(Append(last, x)) ELSE 0)
        <5> HIDE DEF G, sent, one, t
        <5> QED
          BY <1>1, <2>1, <4>1, <4>2
      <4> HIDE DEF G, sent, one, t
      <4> QED
        BY <4>2, <4>3, <4>4
    <3> QED
      BY <2>1, <3>1, <3>2, GroupedIs
  <2>3. /\ IsFiniteSet(WithImages(t))
        /\ Cardinality(WithImages(t)) = Cardinality(WithImages(s)) + one
        /\ Cardinality(WithImages(s)) \in Nat
    <3> DEFINE n == Len(s) + 1
    <3>1. /\ DOMAIN t = DOMAIN s \cup {n} /\ n \notin DOMAIN s /\ t[n] = x
          /\ \A i \in DOMAIN s : t[i] = s[i]
      OBVIOUS
    <3> HIDE DEF n, t
    <3>2. IsFiniteSet(WithImages(s)) /\ n \notin WithImages(s)
      BY <1>4, <3>1 DEF WithImages
    <3>3. WithImages(t) = IF x.kind = "result" /\ x.image THEN WithImages(s) \cup {n} ELSE WithImages(s)
      BY <3>1 DEF WithImages
    <3>4. /\ IsFiniteSet(WithImages(s) \cup {n})
          /\ Cardinality(WithImages(s) \cup {n}) = Cardinality(WithImages(s)) + 1
          /\ Cardinality(WithImages(s)) \in Nat
      BY <3>2, FS_AddElement, FS_CardinalityType
    <3> QED
      BY <3>2, <3>3, <3>4
  <2>4. t \in Seq(Item)
    BY AppendProperties
  <2>5. sent(Groups(s)) = IF images THEN Cardinality(WithImages(s)) ELSE 0
    BY <1>4
  <2>6. one \in Nat
    OBVIOUS
  <2> HIDE DEF sent, one, t
  <2> QED
    BY <2>2, <2>3, <2>4, <2>5, <2>6 DEF t
<1> HIDE DEF S
<1>5. items \in S
  BY <1>3, <1>4, SeqSetInduction
<1> QED
  BY <1>5 DEF S

\* The calls of message i of a request are answered by those after it.
AnsweredAt(messages, i) ==
    \A n \in DOMAIN messages[i].tool_calls :
        /\ i + n \in DOMAIN messages
        /\ messages[i + n] = [role |-> "tool", id |-> messages[i].tool_calls[n]]

\* Message j of a request answers a call of one before it.
AnswerAt(messages, j) ==
    \E i \in 1 .. j - 1 : Asks(messages, i) /\ j - i \in DOMAIN messages[i].tool_calls

\* What holds of the messages of a part of a conversation: all calls are answered
\* but those of the last message, which wait.
Standing(messages, waiting) ==
    /\ \A i \in DOMAIN messages : Asks(messages, i) =>
           \/ AnsweredAt(messages, i)
           \/ i = Len(messages) /\ waiting # <<>> /\ messages[i].tool_calls = waiting
    /\ \A j \in DOMAIN messages : messages[j].role = "tool" => AnswerAt(messages, j)
    /\ waiting # <<>> => /\ messages # <<>>
                         /\ Asks(messages, Len(messages))
                         /\ messages[Len(messages)].tool_calls = waiting

\* Messages after others do not change what holds of those.
LEMMA EarlierStands ==
    ASSUME NEW m \in Seq(Message), NEW t \in Seq(Message), NEW r, r = m \o t
    PROVE  /\ r \in Seq(Message) /\ Len(r) = Len(m) + Len(t) /\ Len(m) \in Nat /\ Len(t) \in Nat
           /\ \A i \in 1 .. Len(m) : i \in DOMAIN m /\ i \in DOMAIN r /\ r[i] = m[i]
           /\ \A n \in 1 .. Len(t) : Len(m) + n \in DOMAIN r /\ r[Len(m) + n] = t[n]
           /\ \A i \in DOMAIN m : Asks(m, i) <=> Asks(r, i)
           /\ \A i \in DOMAIN m : AnsweredAt(m, i) => AnsweredAt(r, i)
           /\ \A j \in DOMAIN m : AnswerAt(m, j) => AnswerAt(r, j)
<1> DEFINE M == Message
<1>1. m \in Seq(M) /\ t \in Seq(M)
  OBVIOUS
<1> HIDE DEF M
<1>2. /\ r \in Seq(M) /\ Len(r) = Len(m) + Len(t) /\ Len(m) \in Nat /\ Len(t) \in Nat
      /\ DOMAIN m = 1 .. Len(m) /\ DOMAIN r = 1 .. Len(m) + Len(t)
      /\ \A i \in 1 .. Len(m) : r[i] = m[i]
      /\ \A n \in 1 .. Len(t) : r[Len(m) + n] = t[n]
  BY <1>1
<1>3. \A i \in 1 .. Len(m) : i \in DOMAIN r
  BY <1>2
<1>4. \A n \in 1 .. Len(t) : Len(m) + n \in DOMAIN r
  BY <1>2
<1>5. \A i \in DOMAIN m : Asks(m, i) <=> Asks(r, i)
  BY <1>2 DEF Asks
<1>6. \A i \in DOMAIN m : AnsweredAt(m, i) => AnsweredAt(r, i)
  <2> SUFFICES ASSUME NEW i \in DOMAIN m, AnsweredAt(m, i), NEW n \in DOMAIN r[i].tool_calls
               PROVE  /\ i + n \in DOMAIN r
                      /\ r[i + n] = [role |-> "tool", id |-> r[i].tool_calls[n]]
    BY DEF AnsweredAt
  <2>1. r[i] = m[i]
    BY <1>2
  <2>2. i + n \in DOMAIN m /\ m[i + n] = [role |-> "tool", id |-> m[i].tool_calls[n]]
    BY <2>1 DEF AnsweredAt
  <2> QED
    BY <1>2, <1>3, <2>1, <2>2
<1>7. \A j \in DOMAIN m : AnswerAt(m, j) => AnswerAt(r, j)
  <2> SUFFICES ASSUME NEW j \in DOMAIN m, AnswerAt(m, j) PROVE AnswerAt(r, j)
    OBVIOUS
  <2>1. PICK i \in 1 .. j - 1 : Asks(m, i) /\ j - i \in DOMAIN m[i].tool_calls
    BY DEF AnswerAt
  <2>2. i \in DOMAIN m /\ r[i] = m[i]
    BY <1>2
  <2> QED
    BY <1>5, <2>1, <2>2 DEF AnswerAt
<1> QED
  BY <1>2, <1>3, <1>4, <1>5, <1>6, <1>7 DEF M

\* The same, of a single message.
LEMMA OneMoreStands ==
    ASSUME NEW m \in Seq(Message), NEW s \in Seq(Message), Len(s) = 1
    PROVE  LET r == m \o s IN
           /\ r \in Seq(Message) /\ Len(r) = Len(m) + 1 /\ Len(m) \in Nat
           /\ \A i \in 1 .. Len(m) : i \in DOMAIN m /\ i \in DOMAIN r /\ r[i] = m[i]
           /\ r[Len(m) + 1] = s[1]
           /\ \A i \in DOMAIN m : Asks(m, i) <=> Asks(r, i)
           /\ \A i \in DOMAIN m : AnsweredAt(m, i) => AnsweredAt(r, i)
           /\ \A j \in DOMAIN m : AnswerAt(m, j) => AnswerAt(r, j)
<1> DEFINE r == m \o s
<1>2. /\ r \in Seq(Message) /\ Len(r) = Len(m) + Len(s) /\ Len(m) \in Nat /\ Len(s) \in Nat
      /\ \A i \in 1 .. Len(m) : i \in DOMAIN m /\ i \in DOMAIN r /\ r[i] = m[i]
      /\ \A n \in 1 .. Len(s) : Len(m) + n \in DOMAIN r /\ r[Len(m) + n] = s[n]
      /\ \A i \in DOMAIN m : Asks(m, i) <=> Asks(r, i)
      /\ \A i \in DOMAIN m : AnsweredAt(m, i) => AnsweredAt(r, i)
      /\ \A j \in DOMAIN m : AnswerAt(m, j) => AnswerAt(r, j)
  <2> HIDE DEF r
  <2> QED
    BY EarlierStands DEF r
<1>3. 1 \in 1 .. Len(s)
  OBVIOUS
<1> HIDE DEF r
<1>4. /\ r \in Seq(Message) /\ Len(r) = Len(m) + 1 /\ Len(m) \in Nat
      /\ \A i \in 1 .. Len(m) : i \in DOMAIN m /\ i \in DOMAIN r /\ r[i] = m[i]
      /\ r[Len(m) + 1] = s[1]
      /\ \A i \in DOMAIN m : Asks(m, i) <=> Asks(r, i)
      /\ \A i \in DOMAIN m : AnsweredAt(m, i) => AnsweredAt(r, i)
      /\ \A j \in DOMAIN m : AnswerAt(m, j) => AnswerAt(r, j)
  BY <1>2, <1>3
<1> QED
  BY <1>4 DEF r

\* A message that answers nothing, when nothing waits.
LEMMA StandingMore ==
    ASSUME NEW m \in Seq(Message), NEW x \in Message, x.role # "tool", Standing(m, <<>>), NEW w,
           w = IF x.role = "assistant" THEN x.tool_calls ELSE <<>>
    PROVE  Standing(m \o <<x>>, w)
<1>1. <<x>> \in Seq(Message) /\ Len(<<x>>) = 1 /\ <<x>>[1] = x
  <2> DEFINE M == Message
  <2>1. x \in M
    OBVIOUS
  <2> HIDE DEF M
  <2>2. <<x>> \in Seq(M) /\ Len(<<x>>) = 1 /\ <<x>>[1] = x
    BY <2>1
  <2> QED
    BY <2>2 DEF M
<1> SUFFICES ASSUME NEW s \in Seq(Message), Len(s) = 1, s[1] = x PROVE Standing(m \o s, w)
  BY <1>1
<1> DEFINE r == m \o s
<1>2. /\ r \in Seq(Message) /\ Len(r) = Len(m) + 1 /\ Len(m) \in Nat
      /\ \A i \in 1 .. Len(m) : i \in DOMAIN m /\ i \in DOMAIN r /\ r[i] = m[i]
      /\ r[Len(m) + 1] = x
      /\ \A i \in DOMAIN m : Asks(m, i) <=> Asks(r, i)
      /\ \A i \in DOMAIN m : AnsweredAt(m, i) => AnsweredAt(r, i)
      /\ \A j \in DOMAIN m : AnswerAt(m, j) => AnswerAt(r, j)
  <2> HIDE DEF r
  <2> QED
    BY OneMoreStands DEF r
<1> HIDE DEF r
<1>3. DOMAIN r = 1 .. Len(m) + 1
  <2>1. DOMAIN r = 1 .. Len(r)
    BY <1>2
  <2> QED
    BY <1>2, <2>1
<1>4. Asks(r, Len(m) + 1) <=> w # <<>>
  BY <1>2 DEF Asks
<1>5. ASSUME NEW i \in DOMAIN r, Asks(r, i)
      PROVE  AnsweredAt(r, i) \/ (i = Len(r) /\ w # <<>> /\ r[i].tool_calls = w)
  <2>1. CASE i = Len(m) + 1
    BY <1>2, <1>4, <1>5, <2>1 DEF Asks
  <2>2. CASE i # Len(m) + 1
    <3>1. i \in DOMAIN m
      BY <1>2, <1>3, <2>2
    <3> QED
      BY <1>2, <1>5, <3>1 DEF Standing
  <2> QED
    BY <2>1, <2>2
<1>6. ASSUME NEW j \in DOMAIN r, r[j].role = "tool"
      PROVE  AnswerAt(r, j)
  <2>1. j \in 1 .. Len(m)
    BY <1>2, <1>3, <1>6
  <2> QED
    BY <1>2, <1>6, <2>1 DEF Standing
<1>7. ASSUME w # <<>>
      PROVE  r # <<>> /\ Asks(r, Len(r)) /\ r[Len(r)].tool_calls = w
  <2>1. Len(<<>>) = 0
    OBVIOUS
  <2> QED
    BY <1>2, <1>4, <1>7, <2>1 DEF Asks
<1> QED
  BY <1>5, <1>6, <1>7 DEF Standing, r

\* The results of the calls that wait.
LEMMA StandingAnswered ==
    ASSUME NEW m \in Seq(Message), NEW w \in Seq(Nat), w # <<>>, Standing(m, w),
           NEW t \in Seq(ToolMessage), Len(t) = Len(w),
           \A n \in DOMAIN w : t[n] = [role |-> "tool", id |-> w[n]]
    PROVE  Standing(m \o t, <<>>)
<1> DEFINE r == m \o t
<1>1. t \in Seq(Message)
  BY MessagesAre
<1>2. /\ r \in Seq(Message) /\ Len(r) = Len(m) + Len(t) /\ Len(m) \in Nat /\ Len(t) \in Nat
      /\ \A i \in 1 .. Len(m) : i \in DOMAIN m /\ i \in DOMAIN r /\ r[i] = m[i]
      /\ \A n \in 1 .. Len(t) : Len(m) + n \in DOMAIN r /\ r[Len(m) + n] = t[n]
      /\ \A i \in DOMAIN m : Asks(m, i) <=> Asks(r, i)
      /\ \A i \in DOMAIN m : AnsweredAt(m, i) => AnsweredAt(r, i)
      /\ \A j \in DOMAIN m : AnswerAt(m, j) => AnswerAt(r, j)
  <2> HIDE DEF r
  <2> QED
    BY <1>1, EarlierStands DEF r
<1>3. DOMAIN r = 1 .. Len(m) + Len(t)
  <2>1. DOMAIN r = 1 .. Len(r)
    <3> HIDE DEF r
    <3> QED
      BY <1>2
  <2> QED
    BY <1>2, <2>1
<1> HIDE DEF r
<1>4. DOMAIN w = 1 .. Len(t)
  OBVIOUS
<1> DEFINE k == Len(m)
<1>5. /\ k \in DOMAIN m /\ k \in 1 .. k /\ Asks(m, k) /\ m[k].tool_calls = w
      /\ Asks(r, k) /\ r[k].tool_calls = w
  <2>1. m # <<>> /\ Asks(m, k) /\ m[k].tool_calls = w
    BY DEF Standing
  <2>2. k # 0
    BY <2>1
  <2> QED
    BY <1>2, <2>1, <2>2
<1>6. AnsweredAt(r, k)
  BY <1>2, <1>4, <1>5 DEF AnsweredAt
<1>7. ASSUME NEW i \in DOMAIN r, Asks(r, i)
      PROVE  AnsweredAt(r, i)
  <2>1. CASE i \in 1 .. k
    BY <1>2, <1>6, <1>7, <2>1 DEF Standing
  <2>2. CASE i \notin 1 .. k
    <3>1. i - k \in 1 .. Len(t) /\ i = k + (i - k)
      BY <1>2, <1>3, <2>2
    <3>2. r[i] = t[i - k]
      BY <1>2, <3>1
    <3>3. i - k \in DOMAIN w
      BY <1>4, <3>1
    <3>4. t[i - k] = [role |-> "tool", id |-> w[i - k]]
      BY <3>3
    <3>5. r[i].role = "tool"
      BY <3>2, <3>4
    <3> QED
      BY <1>7, <3>5 DEF Asks
  <2> QED
    BY <2>1, <2>2
<1>8. ASSUME NEW j \in DOMAIN r, r[j].role = "tool"
      PROVE  AnswerAt(r, j)
  <2>1. CASE j \in 1 .. k
    BY <1>2, <1>8, <2>1 DEF Standing
  <2>2. CASE j \notin 1 .. k
    <3>1. j - k \in 1 .. Len(t) /\ k \in 1 .. j - 1
      BY <1>2, <1>3, <1>5, <2>2
    <3> QED
      BY <1>4, <1>5, <3>1 DEF AnswerAt
  <2> QED
    BY <2>1, <2>2
<1> QED
  BY <1>7, <1>8 DEF Standing, r

\* What waits for a result after a group of a conversation in turns.
LEMMA StandingGroup ==
    ASSUME NEW m \in Seq(Message), NEW w \in Seq(Nat), Standing(m, w), NEW group \in Group,
           NEW images \in BOOLEAN, NEW field \in BOOLEAN, Silent(group) \/ AnswersOf(group) = w
    PROVE  Standing(m \o GroupMessages(group, images, field), Awaiting(w, group))
<1> DEFINE sent == GroupMessages(group, images, field)
<1>1. m \o <<>> = m
  BY ConcatEmptySeq
<1>2. CASE group[1].kind = "user"
  <2> DEFINE x == [role |-> "user", images |-> 0]
  <2>1. x \in Message /\ x.role = "user"
    <3>1. 0 \in Nat
      OBVIOUS
    <3> QED
      BY <3>1, MessagesAre
  <2>2. sent = <<x>> /\ w = <<>> /\ ~Silent(group)
    BY <1>2, KindsApart
  <2>3. Awaiting(w, group) = <<>>
    BY <1>2, <2>2, KindsApart DEF Awaiting, Asked, OfAssistant
  <2> HIDE DEF x
  <2>4. Standing(m \o <<x>>, <<>>)
    BY <2>1, <2>2, StandingMore
  <2> QED
    BY <2>2, <2>3, <2>4
<1>3. CASE group[1].kind = "result"
  <2> DEFINE t == ToolMessages(group)
             im == ImageMessage(group, images)
  <2>1. ~Silent(group) /\ w = [n \in DOMAIN group |-> group[n].id] /\ sent = t \o im
    BY <1>3, KindsApart DEF ResultMessages
  <2>2. /\ t \in Seq(ToolMessage) /\ Len(t) = Len(group)
        /\ \A n \in DOMAIN group : t[n] = [role |-> "tool", id |-> group[n].id]
    BY ToolMessagesAre
  <2>3. DOMAIN group = 1 .. Len(group) /\ Len(group) \in Nat /\ Len(group) # 0
    <3>1. group \in Seq(Item) /\ group # <<>>
      BY DEF Group
    <3> QED
      BY <3>1
  <2>4. w # <<>> /\ Len(t) = Len(w) /\ \A n \in DOMAIN w : t[n] = [role |-> "tool", id |-> w[n]]
    <3>1. Len(w) = Len(group) /\ DOMAIN w = DOMAIN group
      BY <2>1, <2>3
    <3>2. w # <<>>
      BY <2>3, <3>1
    <3> QED
      BY <2>1, <2>2, <3>1, <3>2
  <2>5. Awaiting(w, group) = <<>>
    BY <1>3, <2>1 DEF Awaiting, Asked, OfAssistant
  <2> HIDE DEF t
  <2>6. Standing(m \o t, <<>>)
    BY <2>2, <2>4, StandingAnswered
  <2>7. m \o t \in Seq(Message)
    <3> DEFINE M == Message
    <3>1. m \in Seq(M) /\ t \in Seq(M)
      BY <2>2, MessagesAre
    <3> HIDE DEF M
    <3>2. m \o t \in Seq(M)
      BY <3>1, ConcatProperties
    <3> QED
      BY <3>2 DEF M
  <2>8. m \o (t \o <<>>) = m \o t
    BY <2>2, ConcatEmptySeq
  <2>9. CASE im = <<>>
    BY <2>1, <2>5, <2>6, <2>8, <2>9
  <2>10. CASE im # <<>>
    <3> DEFINE x == [role |-> "user", images |-> Pictures(group)]
    <3>1. x \in Message /\ x.role = "user" /\ im = <<x>>
      BY <2>10, ImageMessageIs, MessagesAre
    <3> HIDE DEF x, im
    <3>2. Standing((m \o t) \o <<x>>, <<>>)
      BY <2>6, <2>7, <3>1, StandingMore
    <3>3. (m \o t) \o <<x>> = m \o (t \o <<x>>)
      <4> DEFINE M == Message
      <4>1. m \in Seq(M) /\ t \in Seq(M) /\ x \in M
        BY <2>2, <3>1, MessagesAre
      <4> HIDE DEF M
      <4>2. <<x>> \in Seq(M)
        BY <4>1
      <4> QED
        BY <4>1, <4>2, ConcatAssociative
    <3> QED
      BY <2>1, <2>5, <3>1, <3>2, <3>3 DEF im
  <2> QED
    BY <2>9, <2>10
<1>4. CASE group[1].kind \in OfAssistant
  <2> DEFINE x == [role |-> "assistant", tool_calls |-> ToolCalls(group)]
  <2>1. /\ ~Silent(group) /\ w = <<>>
        /\ Awaiting(w, group) = ToolCalls(group)
        /\ \/ sent = <<>> /\ ToolCalls(group) = <<>>
           \/ sent = <<x>>
    BY <1>4, KindsApart, AssistantMessageIs DEF Awaiting, Asked
  <2>2. x \in Message /\ x.role = "assistant" /\ x.tool_calls = ToolCalls(group)
    BY AssistantMessageIs, MessagesAre
  <2> HIDE DEF x, sent
  <2>3. CASE sent = <<>> /\ ToolCalls(group) = <<>>
    BY <1>1, <2>1, <2>3 DEF sent
  <2>4. CASE sent = <<x>>
    <3>1. Standing(m \o <<x>>, ToolCalls(group))
      BY <2>1, <2>2, StandingMore
    <3> QED
      BY <2>1, <2>4, <3>1 DEF sent
  <2> QED
    BY <2>1, <2>3, <2>4
<1>5. CASE group[1].kind \notin {"user", "result"} \cup OfAssistant
  <2>1. Silent(group) /\ sent = <<>>
    BY <1>5, KindsApart
  <2> QED
    BY <1>1, <2>1 DEF Awaiting
<1> QED
  BY <1>2, <1>3, <1>4, <1>5

\* After each group of a conversation in turns, the calls that are not answered wait.
LEMMA StandingGroups ==
    ASSUME NEW groups \in Seq(Group), InTurns(groups), NEW images \in BOOLEAN, NEW field \in BOOLEAN
    PROVE  Standing(Sending(images, field, groups), Awaited(groups))
<1> DEFINE G == Group
           sent(gs) == Sending(images, field, gs)
           S == {gs \in Seq(G) : InTurns(gs) => Standing(sent(gs), Awaited(gs))}
<1>1. <<>> \in S
  <2>1. sent(<<>>) = <<>> /\ Awaited(<<>>) = <<>>
    BY SendingOfNone, AwaitedOfNone
  <2>2. DOMAIN <<>> = {}
    OBVIOUS
  <2>3. Standing(<<>>, <<>>)
    BY <2>2 DEF Standing
  <2>4. <<>> \in Seq(G)
    BY EmptySeq
  <2> QED
    BY <2>1, <2>3, <2>4
<1>2. ASSUME NEW gs \in Seq(G), NEW g \in G, gs \in S PROVE Append(gs, g) \in S
  <2> DEFINE r == Append(gs, g)
             N == Len(gs)
  <2>1. /\ r \in Seq(G) /\ DOMAIN r = 1 .. N + 1 /\ DOMAIN gs = 1 .. N /\ N \in Nat
        /\ r[N + 1] = g /\ \A n \in 1 .. N : r[n] = gs[n]
        /\ \A n \in 1 .. N + 1 : SubSeq(r, 1, n - 1) = SubSeq(gs, 1, n - 1)
        /\ SubSeq(gs, 1, N) = gs
    <3> HIDE DEF G
    <3>1. /\ r \in Seq(G) /\ DOMAIN r = 1 .. N + 1 /\ DOMAIN gs = 1 .. N /\ N \in Nat
          /\ r[N + 1] = g /\ \A n \in 1 .. N : r[n] = gs[n]
      OBVIOUS
    <3>2. ASSUME NEW n \in 1 .. N + 1 PROVE SubSeq(r, 1, n - 1) = SubSeq(gs, 1, n - 1)
      OBVIOUS
    <3>3. SubSeq(gs, 1, N) = gs
      OBVIOUS
    <3> QED
      BY <3>1, <3>2, <3>3
  <2> HIDE DEF r, N
  <2>2. SUFFICES ASSUME InTurns(r) PROVE Standing(sent(r), Awaited(r))
    BY <2>1 DEF r
  <2>3. \A n \in 1 .. N + 1 : Silent(r[n]) \/ AnswersOf(r[n]) = Awaited(SubSeq(gs, 1, n - 1))
    BY <2>1, <2>2 DEF InTurns
  <2>4. InTurns(gs)
    <3>1. \A n \in 1 .. N : n \in 1 .. N + 1
      BY <2>1
    <3> QED
      BY <2>1, <2>3, <3>1 DEF InTurns
  <2>5. Standing(sent(gs), Awaited(gs))
    BY <1>2, <2>4
  <2>6. Silent(g) \/ AnswersOf(g) = Awaited(gs)
    <3>1. N + 1 \in 1 .. N + 1 /\ (N + 1) - 1 = N
      BY <2>1
    <3> QED
      BY <2>1, <2>3, <3>1
  <2>7. /\ sent(gs) \in Seq(Message) /\ sent(r) = sent(gs) \o GroupMessages(g, images, field)
        /\ Awaited(gs) \in Seq(Nat) /\ Awaited(r) = Awaiting(Awaited(gs), g)
    BY SendingAppend, AwaitedAppend DEF r
  <2> HIDE DEF sent
  <2> QED
    BY <2>5, <2>6, <2>7, StandingGroup
<1> HIDE DEF S
<1>3. groups \in S
  <2>1. groups \in Seq(G)
    OBVIOUS
  <2> HIDE DEF G
  <2> QED
    BY <1>1, <1>2, <2>1, SeqSetInduction
<1> QED
  BY <1>3 DEF S

\* The messages of an orderly conversation.
LEMMA ConversationAnswered ==
    ASSUME NEW items \in Orderly, NEW images \in BOOLEAN, NEW field \in BOOLEAN, NEW r,
           r = Messages(items, images, field)
    PROVE  /\ Answered(r)
           /\ Shown(r) = IF images
                         THEN Cardinality({n \in DOMAIN items : items[n].kind = "result" /\ items[n].image})
                         ELSE 0
<1>1. items \in Seq(Item) /\ InTurns(Groups(items)) /\ Awaited(Groups(items)) = <<>>
  BY DEF Orderly
<1>2. r = Sending(images, field, Groups(items))
  BY DEF Messages, Sending
<1>3. Groups(items) \in Seq(Group)
  BY <1>1, GroupsIsFolded
<1>4. Standing(r, <<>>)
  BY <1>1, <1>2, <1>3, StandingGroups
<1>5. Answered(r)
  BY <1>4 DEF Standing, Answered, AnsweredAt, AnswerAt
<1> QED
  BY <1>1, <1>2, <1>5, ShownOfItems DEF WithImages

-----------------------------------------------------------------------------
(* Theorems *)

\* A call is of an input of its function.
LEMMA InputOf ==
    ASSUME in \in Calls
    PROVE  /\ in.alg = "delay" => in.of \in DelayInputs
           /\ in.alg = "retryAfter" => in.of \in HeaderValues
           /\ in.alg = "sse" => in.of \in Streams
           /\ in.alg = "scaled" => in.of \in Numbers
           /\ in.alg = "usage" => in.of \in UsageSequences
           /\ in.alg = "headers" => in.of \in HeaderInputs
           /\ in.alg = "messages" => in.of \in Conversations
  BY DEF Calls

\* No step changes the input, and one computes its result.
LEMMA StepOfCall ==
    ASSUME Next
    PROVE  /\ in' = in
           /\ in.alg = "delay" => out' = <<Delay(in.of.policy, in.of.attempt)>>
           /\ in.alg = "retryAfter" => out' = <<RetryAfter(in.of)>>
           /\ in.alg = "sse" => out' = <<Parse(in.of.chunks, in.of.refuses)>>
           /\ in.alg = "scaled" => out' = <<ParseScaled(in.of.kind, in.of.n, in.of.unit)>>
           /\ in.alg = "usage" => out' = <<FoldLeft(Add, NewStreamUsage, in.of)>>
           /\ in.alg = "headers" => out' = <<DefaultHeaders(in.of.defaults, in.of.configured)>>
           /\ in.alg = "messages" => out' = <<Messages(in.of.items, in.of.images, in.of.field)>>
  BY DEF Next, Call, ComputeDelay, ComputeRetryAfter, ComputeEvents, ComputeNumber, ComputeUsage,
         ComputeHeaders, ComputeMessages

\* What one of the three numbers is.
NumbersInv == in \in Calls /\ NumbersInBounds

\* Computing a number keeps it in its bounds.
LEMMA NumbersNext ==
    ASSUME NumbersInv, [Next]_vars
    PROVE  NumbersInv'
<1>1. CASE UNCHANGED vars
  BY <1>1 DEF NumbersInv, NumbersInBounds, DelayInBounds, RetryAfterInBounds, ScaledIsExact, Done, result, vars
<1>2. CASE Next
  <2>1. in' = in /\ in \in Calls
    BY <1>2, StepOfCall DEF NumbersInv
  <2>2. DelayInBounds'
    <3> SUFFICES ASSUME in.alg = "delay" PROVE DelayInBounds'
      BY <2>1 DEF DelayInBounds, Done
    <3> DEFINE p == in.of.policy
               k == in.of.attempt
    <3>1. p \in Policy /\ k \in Nat
      BY <2>1, InputOf, InputsAssumption DEF Policy
    <3>2. result' = Delay(p, k)
      BY <1>2, StepOfCall DEF result
    <3> HIDE DEF p, k
    <3>3. LET exact == Min({p.MaxDelay, Max({p.BaseDelay, 0}) * Pow2[k]})
          IN  /\ Delay(p, k) \in 0 .. Max({p.MaxDelay, 0})
              /\ p.percent <= 100 => Delay(p, k) <= Max({exact, 0})
              /\ 4 * (Delay(p, k) + 2) >= 3 * exact
      BY <3>1, DelayBounds
    <3> QED
      BY <2>1, <3>2, <3>3 DEF DelayInBounds, p, k
  <2>3. RetryAfterInBounds'
    <3> SUFFICES ASSUME in.alg = "retryAfter" PROVE RetryAfterInBounds'
      BY <2>1 DEF RetryAfterInBounds, Done
    <3>1. in.of \in Seq(Byte)
      BY <2>1, InputOf, InputsAssumption DEF Byte
    <3>2. result' = RetryAfter(in.of)
      BY <1>2, StepOfCall DEF result
    <3> QED
      BY <2>1, <3>1, <3>2, RetryAfterBounds DEF RetryAfterInBounds
  <2>4. ScaledIsExact'
    <3> SUFFICES ASSUME in.alg = "scaled" PROVE ScaledIsExact'
      BY <2>1 DEF ScaledIsExact, Done
    <3>1. in.of.n \in Int
      BY <2>1, InputOf, InputsAssumption
    <3>2. result' = ParseScaled(in.of.kind, in.of.n, in.of.unit)
      BY <1>2, StepOfCall DEF result
    <3> QED
      BY <2>1, <3>1, <3>2, ScaledBounds DEF ScaledIsExact, Known
  <2> QED
    BY <2>1, <2>2, <2>3, <2>4 DEF NumbersInv, NumbersInBounds
<1> QED
  BY <1>1, <1>2

\* A delay is within its policy, what Retry-After asks for is taken exactly up to the
\* limit, and a number with a unit is its product or refused: whatever the policy, the
\* attempt, the header, the number and the widths.
THEOREM NumbersHold == Spec => []NumbersInBounds
<1>1. Init => NumbersInv
  BY DEF Init, NumbersInv, NumbersInBounds, DelayInBounds, RetryAfterInBounds, ScaledIsExact, Done
<1>2. NumbersInv /\ [Next]_vars => NumbersInv'
  BY NumbersNext
<1>3. NumbersInv => NumbersInBounds
  BY DEF NumbersInv
<1> QED
  BY <1>1, <1>2, <1>3, PTL DEF Spec

\* What the accounting makes of reports is their sum.
LEMMA UsageSummed ==
    ASSUME NEW s \in Seq(Usage)
    PROVE  Summed(s, UsageOf(s))
<1> DEFINE u == UsageOf(s)
<1>1. /\ \A c \in Counts : u[c] = SumOf(s, c)
      /\ u.cost = CostOf(s)
      /\ u.fast = FastOf(s)
  BY AccountedAll DEF Accounted
<1>2. \A c \in Fields : SumOf(s, c) = IF Reporting(s, c) = {} THEN -1
                                      ELSE MapThenSumSet(LAMBDA n : s[n][c], Reporting(s, c))
  BY ReportedIs DEF SumOf
<1> HIDE DEF u
<1>3. \A c \in Counts : u[c] = IF {n \in DOMAIN s : s[n][c] >= 0} = {} THEN -1
                               ELSE MapThenSumSet(LAMBDA n : s[n][c], {n \in DOMAIN s : s[n][c] >= 0})
  BY <1>1, <1>2 DEF Reporting, Fields
<1>4. u.cost = IF \E n \in DOMAIN s : Unpriced(s[n]) THEN -1
               ELSE IF {n \in DOMAIN s : s[n]["cost"] >= 0} = {} THEN -1
               ELSE MapThenSumSet(LAMBDA n : s[n]["cost"], {n \in DOMAIN s : s[n]["cost"] >= 0})
  BY <1>1, <1>2 DEF Reporting, Fields, CostOf
<1>5. u.fast = IF {n \in DOMAIN s : s[n].fast # "unknown"} = {} THEN "unknown"
               ELSE s[Max({n \in DOMAIN s : s[n].fast # "unknown"})].fast
  BY <1>1 DEF FastOf, Knowing
<1>6. Summed(s, u)
  BY <1>3, <1>4, <1>5 DEF Summed
<1> QED
  BY <1>6 DEF u

\* What a stream of usages amounts to.
UsageInv == in \in Calls /\ UsageIsTotal

\* Adding the usages up makes their sum.
LEMMA UsageNext ==
    ASSUME UsageInv, [Next]_vars
    PROVE  UsageInv'
<1>1. UsageIsTotal <=> (in.alg = "usage" /\ out # <<>> => Summed(in.of, Head(out)))
  BY DEF UsageIsTotal, Done, result
<1>2. UsageIsTotal' <=> (in'.alg = "usage" /\ out' # <<>> => Summed(in'.of, Head(out')))
  BY DEF UsageIsTotal, Done, result
<1>3. in \in Calls /\ UsageIsTotal
  BY DEF UsageInv
<1>4. CASE UNCHANGED vars
  BY <1>1, <1>2, <1>3, <1>4 DEF UsageInv, vars
<1>5. CASE Next
  <2>1. in' = in
    BY <1>5, StepOfCall
  <2>2. ASSUME in.alg = "usage" PROVE Summed(in.of, Head(out'))
    <3>1. in.of \in Seq(Usage)
      BY <1>3, <2>2, InputOf, InputsAssumption
    <3>2. out' = <<UsageOf(in.of)>>
      BY <1>5, <2>2, StepOfCall DEF UsageOf
    <3>3. Head(out') = UsageOf(in.of)
      BY <3>2
    <3> QED
      BY <3>1, <3>3, UsageSummed
  <2> QED
    BY <1>2, <1>3, <2>1, <2>2 DEF UsageInv
<1> QED
  BY <1>4, <1>5

\* Whatever usages a stream reports, and in whatever order, their accounting is the sum
\* of what was reported, and the cost is unknown exactly when no cost was reported or
\* tokens were without one.
THEOREM UsageHolds == Spec => []UsageIsTotal
<1>1. Init => UsageInv
  BY DEF Init, UsageInv, UsageIsTotal, Done
<1>2. UsageInv /\ [Next]_vars => UsageInv'
  BY UsageNext
<1>3. UsageInv => UsageIsTotal
  BY DEF UsageInv
<1> QED
  BY <1>1, <1>2, <1>3, PTL DEF Spec

\* What an object configures.
HeadersInv == in \in Calls /\ HeadersAsConfigured

\* Merging the headers of two objects does it.
LEMMA HeadersNext ==
    ASSUME HeadersInv, [Next]_vars
    PROVE  HeadersInv'
<1>1. HeadersAsConfigured <=>
        (in.alg = "headers" /\ out # <<>> => Merged(in.of.defaults, in.of.configured, Head(out)))
  BY DEF HeadersAsConfigured, Done, result
<1>2. HeadersAsConfigured' <=>
        (in'.alg = "headers" /\ out' # <<>> => Merged(in'.of.defaults, in'.of.configured, Head(out')))
  BY DEF HeadersAsConfigured, Done, result
<1>3. in \in Calls /\ HeadersAsConfigured
  BY DEF HeadersInv
<1>4. CASE UNCHANGED vars
  BY <1>1, <1>2, <1>3, <1>4 DEF HeadersInv, vars
<1>5. CASE Next
  <2>1. in' = in
    BY <1>5, StepOfCall
  <2>2. ASSUME in.alg = "headers" PROVE Merged(in.of.defaults, in.of.configured, Head(out'))
    <3>1. in.of.defaults \in Seq(Default) /\ in.of.configured \in Seq(Member)
      BY <1>3, <2>2, InputOf, InputsAssumption
    <3>2. out' = <<DefaultHeaders(in.of.defaults, in.of.configured)>>
      BY <1>5, <2>2, StepOfCall
    <3>3. Head(out') = DefaultHeaders(in.of.defaults, in.of.configured)
      BY <3>2
    <3> QED
      BY <3>1, <3>3, HeadersMerged
  <2> QED
    BY <1>2, <1>3, <2>1, <2>2 DEF HeadersInv
<1> QED
  BY <1>4, <1>5

\* Whatever members two objects have, and in whatever order, a header that is configured
\* empty anywhere is not sent, one that is configured is sent with those values only, and
\* the other defaults stay.
THEOREM HeadersHold == Spec => []HeadersAsConfigured
<1>1. Init => HeadersInv
  BY DEF Init, HeadersInv, HeadersAsConfigured, Done
<1>2. HeadersInv /\ [Next]_vars => HeadersInv'
  BY HeadersNext
<1>3. HeadersInv => HeadersAsConfigured
  BY DEF HeadersInv
<1> QED
  BY <1>1, <1>2, <1>3, PTL DEF Spec

\* What is parsed of a stream is what is promised of it.
EventsInv == in \in Calls /\ EventsOfStream

\* Parsing keeps the promise.
LEMMA EventsNext ==
    ASSUME EventsInv, [Next]_vars
    PROVE  EventsInv'
<1> DEFINE kept(of, r) == [out |-> r.out, error |-> r.error] = Promised(LinesIn(FlattenSeq(of.chunks)), of.refuses)
<1>1. EventsOfStream <=> (in.alg = "sse" /\ out # <<>> => kept(in.of, Head(out)))
  BY DEF EventsOfStream, Done, result
<1>2. EventsOfStream' <=> (in'.alg = "sse" /\ out' # <<>> => kept(in'.of, Head(out')))
  BY DEF EventsOfStream, Done, result
<1>3. in \in Calls /\ EventsOfStream
  BY DEF EventsInv
<1>4. CASE UNCHANGED vars
  <2> HIDE DEF kept
  <2> QED
    BY <1>1, <1>2, <1>3, <1>4 DEF EventsInv, vars
<1>5. CASE Next
  <2>1. in' = in
    BY <1>5, StepOfCall
  <2>2. ASSUME in.alg = "sse" PROVE kept(in.of, Head(out'))
    <3>1. in.of.chunks \in Seq(Bytes) /\ in.of.refuses \in Nat
      BY <1>3, <2>2, InputOf, InputsAssumption DEF Bytes
    <3>2. out' = <<Parse(in.of.chunks, in.of.refuses)>>
      BY <1>5, <2>2, StepOfCall
    <3>3. Head(out') = Parse(in.of.chunks, in.of.refuses)
      BY <3>2
    <3> QED
      BY <3>1, <3>3, StreamParsed
  <2> HIDE DEF kept
  <2> QED
    BY <1>2, <1>3, <2>1, <2>2 DEF EventsInv
<1> QED
  BY <1>4, <1>5

\* However a response is cut into chunks, and however many there are, the callback gets
\* the events of the whole stream, in order, up to the first line or event above the
\* limit or the event it refuses, and that is the error reported.
THEOREM EventsHold == Spec => []EventsOfStream
<1>1. Init => EventsInv
  BY DEF Init, EventsInv, EventsOfStream, Done
<1>2. EventsInv /\ [Next]_vars => EventsInv'
  BY EventsNext
<1>3. EventsInv => EventsOfStream
  BY DEF EventsInv
<1> QED
  BY <1>1, <1>2, <1>3, PTL DEF Spec

\* What a request asks is answered.
MessagesInv == in \in Calls /\ CallsAnswered

\* Making the messages answers it.
LEMMA MessagesNext ==
    ASSUME MessagesInv, [Next]_vars
    PROVE  MessagesInv'
<1> DEFINE kept(of, r) ==
               /\ Answered(r)
               /\ Shown(r) = IF of.images
                             THEN Cardinality({n \in DOMAIN of.items : of.items[n].kind = "result" /\ of.items[n].image})
                             ELSE 0
<1>1. CallsAnswered <=> (in.alg = "messages" /\ out # <<>> => kept(in.of, Head(out)))
  BY DEF CallsAnswered, Done, result
<1>2. CallsAnswered' <=> (in'.alg = "messages" /\ out' # <<>> => kept(in'.of, Head(out')))
  BY DEF CallsAnswered, Done, result
<1>3. in \in Calls /\ CallsAnswered
  BY DEF MessagesInv
<1>4. CASE UNCHANGED vars
  <2> HIDE DEF kept
  <2> QED
    BY <1>1, <1>2, <1>3, <1>4 DEF MessagesInv, vars
<1>5. CASE Next
  <2>1. in' = in
    BY <1>5, StepOfCall
  <2>2. ASSUME in.alg = "messages" PROVE kept(in.of, Head(out'))
    <3>1. in.of.items \in Orderly /\ in.of.images \in BOOLEAN /\ in.of.field \in BOOLEAN
      BY <1>3, <2>2, InputOf, InputsAssumption
    <3>2. out' = <<Messages(in.of.items, in.of.images, in.of.field)>>
      BY <1>5, <2>2, StepOfCall
    <3>3. Head(out') = Messages(in.of.items, in.of.images, in.of.field)
      BY <3>2
    <3> QED
      BY <3>1, <3>3, ConversationAnswered
  <2> HIDE DEF kept
  <2> QED
    BY <1>2, <1>3, <2>1, <2>2 DEF MessagesInv
<1> QED
  BY <1>4, <1>5

\* In the messages of every orderly conversation, however long, the results of the calls
\* of a message follow it directly, one for each call and in their order, there is no
\* other result, and no image of a result is lost.
THEOREM MessagesHold == Spec => []CallsAnswered
<1>1. Init => MessagesInv
  BY DEF Init, MessagesInv, CallsAnswered, Done
<1>2. MessagesInv /\ [Next]_vars => MessagesInv'
  BY MessagesNext
<1>3. MessagesInv => CallsAnswered
  BY DEF MessagesInv
<1> QED
  BY <1>1, <1>2, <1>3, PTL DEF Spec
=============================================================================
