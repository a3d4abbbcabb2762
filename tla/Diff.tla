-------------------------------- MODULE Diff --------------------------------
(***************************************************************************)
(* internal/herbie/text: UnifiedDiff of two texts.  The texts are narrowed *)
(* to a window around the bytes that differ, their lines are compared by   *)
(* Myers' algorithm from both ends at once, within a budget of comparisons *)
(* (when it is spent, lines count as different), runs of changed lines     *)
(* are slid to where they read best, and what is left is cut into hunks.   *)
(*                                                                         *)
(* A text is a sequence of bytes, of which only the end of a line means    *)
(* anything; every other byte is visible, so that a line is blank when it  *)
(* is empty.  Lines are counted from 0, as in the code.  Hashes, which     *)
(* only save comparisons, and windows beyond 4 GiB are left out.           *)
(***************************************************************************)
EXTENDS Integers, SequencesExt

CONSTANTS
    contextLines,    \* 3
    windowSlack,     \* 64
    regionStepsMin,  \* 64
    regionStepsMax   \* 1024

ASSUME DiffAssumption ==
    /\ {contextLines, windowSlack, regionStepsMin} \subseteq Nat
    /\ regionStepsMax \in Nat \ {0} /\ regionStepsMin <= regionStepsMax
    /\ \E e \in 0 .. 10 : regionStepsMax = regionStepsMin * 2 ^ e

NL == "\n"

AtLeast0(x) == IF x < 0 THEN 0 ELSE x
Least(x, y) == IF x < y THEN x ELSE y
Largest(S) == CHOOSE x \in S : \A y \in S : y <= x
Smallest(S) == CHOOSE x \in S : \A y \in S : x <= y

\* newDiffSide: a line goes on to the next newline; what follows the last one is a line too.
WithByte(lines, c) ==
    IF lines = <<>> \/ Last(Last(lines)) = NL THEN Append(lines, <<c>>)
    ELSE Append(Front(lines), Append(Last(lines), c))

LinesOf(data) == FoldLeft(WithByte, <<>>, data)

-----------------------------------------------------------------------------
(* unifiedWindow *)

\* The start of the line that byte i, counted from 0, is in.
LineStart(a, i) == Largest({l \in 0 .. i : l = 0 \/ a[l] = NL})

\* The starts of the lines before and after those that start at lo and at hi.
LineBefore(a, lo) == IF lo = 0 THEN 0 ELSE LineStart(a, lo - 1)
LineAfter(a, hi) ==
    IF hi = Len(a) THEN hi ELSE Smallest({i \in hi + 1 .. Len(a) : a[i] = NL \/ i = Len(a)})

Before(a, lo, n) ==
    LET back[k \in 0 .. n] == IF k = 0 THEN lo ELSE LineBefore(a, back[k - 1]) IN back[n]

After(a, hi, n) ==
    LET ahead[k \in 0 .. n] == IF k = 0 THEN hi ELSE LineAfter(a, ahead[k - 1]) IN ahead[n]

\* The lengths of what two texts share at their beginning and at their end, up to most.
PrefixLen(a, b, most) == Largest({p \in 0 .. most : \A i \in 1 .. p : a[i] = b[i]})
SuffixLen(a, b, most) ==
    Largest({s \in 0 .. most : \A i \in 0 .. s - 1 : a[Len(a) - i] = b[Len(b) - i]})

WindowStart(a, b) == Before(a, LineStart(a, PrefixLen(a, b, Least(Len(a), Len(b)))), windowSlack)

\* Where the window ends in a text that shares its last s bytes with the other.
WindowEnd(a, s) ==
    LET nls == {i \in Len(a) - s + 1 .. Len(a) : a[i] = NL}
    IN  IF nls = {} THEN Len(a) ELSE After(a, Smallest(nls), windowSlack)

Bounds(lo, aHi, shorter) == [lo |-> lo, aHi |-> aHi, bHi |-> aHi - shorter]

\* Mutant: the suffix may overlap the prefix in the shorter text.
WindowOverlapping(a, b, lo) ==
    Bounds(lo, WindowEnd(a, SuffixLen(a, b, Least(Len(a), Len(b)))), Len(a) - Len(b))

WindowAfter(a, b, lo) ==
    Bounds(lo, WindowEnd(a, SuffixLen(a, b, Least(Len(a), Len(b)) - lo)), Len(a) - Len(b))

Window(a, b) == WindowAfter(a, b, WindowStart(a, b))

-----------------------------------------------------------------------------
(* The comparison.  c is the diffContext: the lines of both sides, which   *)
(* of them changed, the furthest points on the diagonals, which are not    *)
(* cleared from one split to the next, and the work that is left.          *)

NewContext(x, y, work) ==
    LET kv == [k \in -(regionStepsMax + 1) .. regionStepsMax + 1 |-> 0] IN
    [a |-> x, b |-> y, work |-> work, kvf |-> kv, kvb |-> kv,
     aChanged |-> [i \in 0 .. Len(x) - 1 |-> FALSE], bChanged |-> [j \in 0 .. Len(y) - 1 |-> FALSE]]

\* How many of the next pairs are equal, and the work that is left when one of most
\* pairs may be the one that is not.
Compared(n, work, most) == [n |-> n, work |-> IF n < Least(most, work) THEN work - n - 1 ELSE work - n]

\* As many pairs as there are in region r from x and y on.
Pairs(r, x, y) == AtLeast0(Least(r.aHi - r.aLo - x, r.bHi - r.bLo - y))

Forward(c, r, work, x, y) ==
    Compared(Largest({n \in 0 .. Least(Pairs(r, x, y), work) :
                         \A i \in 0 .. n - 1 : c.a[r.aLo + x + i + 1] = c.b[r.bLo + y + i + 1]}),
             work, Pairs(r, x, y))

Backward(c, r, work, x, y) ==
    Compared(Largest({n \in 0 .. Least(Pairs(r, x, y), work) :
                         \A i \in 0 .. n - 1 : c.a[r.aHi - x - i] = c.b[r.bHi - y - i]}),
             work, Pairs(r, x, y))

\* Where a path of d steps on diagonal k starts.
Furthest(kv, d, k) ==
    IF k = -d \/ (k # d /\ kv[k - 1] < kv[k + 1]) THEN kv[k + 1] ELSE kv[k - 1] + 1

SplitOut(r, x, y) ==
    [a |-> r.aLo + AtLeast0(Least(r.aHi - r.aLo, x)), b |-> r.bLo + AtLeast0(Least(r.bHi - r.bLo, y))]

LineCount(r) == (r.aHi - r.aLo) + (r.bHi - r.bLo)

Budget(size) ==
    LET S == {b \in regionStepsMin .. regionStepsMax :
                 (\E e \in 0 .. 10 : b = regionStepsMin * 2 ^ e) /\ (b * b >= size \/ b = regionStepsMax)}
    IN  Least(Smallest(S), size \div 2 + 1)

\* Mutant: the paths count as met when they are one apart.
MetEarly(x, reach, n) == x + 1 >= n - reach

\* The paths from both ends have met.
Met(x, reach, n) == x >= n - reach

\* myersSplit.  s: the points, the work that is left, the best point so far, and the
\* split, once found.  A forward path of d steps has come to x on diagonal k, and a backward one.
ForwardTo(r, s, d, k, x, work) ==
    LET n == r.aHi - r.aLo
        m == r.bHi - r.bLo
        kb == n - m - k
        met == (n - m) % 2 # 0 /\ kb \in -(d - 1) .. d - 1 /\ Met(x, s.kvb[kb], n)
        better == x <= n /\ x - k <= m /\ x + (x - k) > s.best
    IN  [s EXCEPT !.kvf[k] = x, !.work = work, !.found = met, !.best = IF better THEN x + (x - k) ELSE @,
                  !.x = IF met \/ better THEN x ELSE @, !.y = IF met \/ better THEN x - k ELSE @]

BackwardTo(r, s, d, k, x, work) ==
    LET n == r.aHi - r.aLo
        m == r.bHi - r.bLo
        kf == n - m - k
        met == (n - m) % 2 = 0 /\ kf \in -d .. d /\ Met(s.kvf[kf], x, n)
    IN  [s EXCEPT !.kvb[k] = x, !.work = work, !.found = met,
                  !.x = IF met THEN n - x ELSE @, !.y = IF met THEN m - (x - k) ELSE @]

ForwardPath(r, s, d, k, x, e) == ForwardTo(r, s, d, k, x + e.n, e.work)
ForwardFrom(c, r, s, d, k, x) == ForwardPath(r, s, d, k, x, Forward(c, r, s.work, x, x - k))
ForwardOn(c, r, s, d, k) == IF s.found THEN s ELSE ForwardFrom(c, r, s, d, k, Furthest(s.kvf, d, k))

BackwardPath(r, s, d, k, x, e) == BackwardTo(r, s, d, k, x + e.n, e.work)
BackwardFrom(c, r, s, d, k, x) == BackwardPath(r, s, d, k, x, Backward(c, r, s.work, x, x - k))
BackwardOn(c, r, s, d, k) == IF s.found THEN s ELSE BackwardFrom(c, r, s, d, k, Furthest(s.kvb, d, k))

\* All paths of d steps, on diagonals -d, -d + 2, ... d.
ForwardPaths(c, r, s, d) ==
    LET path[i \in 0 .. d + 1] == IF i = 0 THEN s ELSE ForwardOn(c, r, path[i - 1], d, 2 * (i - 1) - d) IN path[d + 1]

BackwardPaths(c, r, s, d) ==
    LET path[i \in 0 .. d + 1] == IF i = 0 THEN s ELSE BackwardOn(c, r, path[i - 1], d, 2 * (i - 1) - d) IN path[d + 1]

Step(c, r, s, d) ==
    IF s.found \/ s.work = 0 THEN s ELSE BackwardPaths(c, r, ForwardPaths(c, r, s, d), d)

Steps(c, r, s, budget) ==
    LET upTo[n \in 0 .. budget + 1] == IF n = 0 THEN s ELSE Step(c, r, upTo[n - 1], n - 1) IN upTo[budget + 1]

SplitAt(c, r, s) ==
    [c |-> [c EXCEPT !.kvf = s.kvf, !.kvb = s.kvb, !.work = s.work], at |-> SplitOut(r, s.x, s.y)]

MyersSplit(c, r) ==
    SplitAt(c, r, Steps(c, r, [kvf |-> [c.kvf EXCEPT ![1] = 0], kvb |-> [c.kvb EXCEPT ![1] = 0], work |-> c.work,
                               best |-> -1, x |-> 0, y |-> 0, found |-> FALSE],
                        Budget(LineCount(r))))

Marked(changed, lo, hi) == [i \in DOMAIN changed |-> changed[i] \/ i \in lo .. hi - 1]

\* f is what the lines of region r share at its beginning, and g at its end.
AfterPrefix(r, f) == [r EXCEPT !.aLo = @ + f.n, !.bLo = @ + f.n]
BeforeSuffix(r, g) == [r EXCEPT !.aHi = @ - g.n, !.bHi = @ - g.n]
Corners(r) == {[a |-> r.aLo, b |-> r.bLo], [a |-> r.aHi, b |-> r.bHi]}

Change(c, r) == [c EXCEPT !.aChanged = Marked(@, r.aLo, r.aHi), !.bChanged = Marked(@, r.bLo, r.bHi)]

\* region: without the prefix and the suffix, the region is all changed when a side is
\* empty, no work is left or no split is found, and else its parts are, the smaller first.
\* Region is what `smaller` is of regions of a smaller size.
Halves(smaller, c, r, at) ==
    LET low == [r EXCEPT !.aHi = at.a, !.bHi = at.b]
        high == [r EXCEPT !.aLo = at.a, !.bLo = at.b]
        lowFirst == (at.a - r.aLo) + (at.b - r.bLo) <= (r.aHi - at.a) + (r.bHi - at.b)
    IN  smaller[<<smaller[<<c, IF lowFirst THEN low ELSE high>>], IF lowFirst THEN high ELSE low>>]

SplitAlong(smaller, r, s) == IF s.at \in Corners(r) THEN Change(s.c, r) ELSE Halves(smaller, s.c, r, s.at)

Trimmed(smaller, c, r) ==
    IF r.aLo = r.aHi \/ r.bLo = r.bHi \/ c.work = 0 THEN Change(c, r)
    ELSE SplitAlong(smaller, r, MyersSplit(c, r))

WithoutSuffix(smaller, c, r, g) == Trimmed(smaller, [c EXCEPT !.work = g.work], BeforeSuffix(r, g))
WithoutPrefix(smaller, c, r, f) ==
    WithoutSuffix(smaller, c, AfterPrefix(r, f), Backward(c, AfterPrefix(r, f), f.work, 0, 0))
Whole(smaller, c, r) == WithoutPrefix(smaller, c, r, Forward(c, r, c.work, 0, 0))

\* The contexts and the regions of the same two texts.
Contexts(c) ==
    [a : {c.a}, b : {c.b}, work : Nat, kvf : [DOMAIN c.kvf -> Int], kvb : [DOMAIN c.kvb -> Int],
     aChanged : [DOMAIN c.aChanged -> BOOLEAN], bChanged : [DOMAIN c.bChanged -> BOOLEAN]]
Regions(c) ==
    {r \in [aLo : 0 .. Len(c.a), aHi : 0 .. Len(c.a), bLo : 0 .. Len(c.b), bHi : 0 .. Len(c.b)] :
        r.aLo <= r.aHi /\ r.bLo <= r.bHi}

AsIs(c) == [of \in Contexts(c) \X Regions(c) |-> of[1]]
Deeper(smaller, c) == [of \in Contexts(c) \X Regions(c) |-> Whole(smaller, of[1], of[2])]

\* A part is smaller than the whole, so the size of the region is deep enough.
Region(c, r) ==
    LET region[n \in 0 .. LineCount(r)] == IF n = 0 THEN AsIs(c) ELSE Deeper(region[n - 1], c)
    IN  region[LineCount(r)][<<c, r>>]

-----------------------------------------------------------------------------
(* slideRuns *)

Blank(s, i) == s[i + 1] = <<NL>>

RunScore(s, start, end) ==
    (IF start = 0 \/ Blank(s, start - 1) THEN 2 ELSE 0)
    + (IF end = Len(s) \/ Blank(s, end - 1) THEN 1 ELSE 0)

\* Mutant: a run slides down over any line.
LowestAnywhere(s, changed, start, run) ==
    Largest({hi \in start .. Len(s) - run : \A i \in start .. hi - 1 : ~changed[i + run]})

\* How far down a run can slide: each line it leaves equals the one it takes.
Lowest(s, changed, start, run) ==
    Largest({hi \in start .. Len(s) - run :
                \A i \in start .. hi - 1 : ~changed[i + run] /\ s[i + 1] = s[i + run + 1]})

Highest(s, changed, start, run) ==
    Smallest({lo \in 0 .. start :
                \A i \in lo .. start - 1 : ~changed[i] /\ s[i + 1] = s[i + run + 1]})

\* A run from scan to end is at its best at one of places, the lowest one of them.
Best(s, run, places) ==
    Largest({p \in places : \A q \in places : RunScore(s, q, q + run) <= RunScore(s, p, p + run)})

Moved(changed, scan, run, to) ==
    Marked([i \in DOMAIN changed |-> changed[i] /\ i \notin scan .. scan + run - 1], to, to + run)

\* t: which lines changed, and the place of the scan.
Slid(t, run, to) ==
    [changed |-> Moved(t.changed, t.scan, run, to), scan |-> Largest({to, t.scan}) + run]

SlideRun(s, t, run) ==
    Slid(t, run, Best(s, run, Highest(s, t.changed, t.scan, run) .. Lowest(s, t.changed, t.scan, run)))

SlideNext(s, t) ==
    IF t.scan >= Len(s) THEN t
    ELSE IF ~t.changed[t.scan] THEN [t EXCEPT !.scan = @ + 1]
    ELSE SlideRun(s, t, Largest({n \in 1 .. Len(s) - t.scan : \A i \in t.scan .. t.scan + n - 1 : t.changed[i]}))

\* Each turn scans a line at least.
SlideRuns(s, changed) ==
    LET turn[n \in 0 .. Len(s)] == IF n = 0 THEN [changed |-> changed, scan |-> 0] ELSE SlideNext(s, turn[n - 1])
    IN  turn[Len(s)].changed

-----------------------------------------------------------------------------
(* changes and appendHunks *)

Count(changed) == Cardinality(DOMAIN changed)

\* The first line from i on that is unchanged, or the number of lines.
RunEnd(changed, i) ==
    Smallest({e \in DOMAIN changed \cup {i, Count(changed)} : e >= i /\ (e \in DOMAIN changed => ~changed[e])})

\* t: the next lines of both texts, and the changes before them.
ChangeTo(t, aEnd, bEnd) ==
    [i |-> aEnd, j |-> bEnd,
     cs |-> Append(t.cs, [aStart |-> t.i, aLines |-> aEnd - t.i, bStart |-> t.j, bLines |-> bEnd - t.j])]

ChangeNext(a, b, t) ==
    IF t.i \notin DOMAIN a /\ t.j \notin DOMAIN b THEN t
    ELSE IF (t.i \in DOMAIN a /\ a[t.i]) \/ (t.j \in DOMAIN b /\ b[t.j])
    THEN ChangeTo(t, RunEnd(a, t.i), RunEnd(b, t.j))
    ELSE [t EXCEPT !.i = @ + 1, !.j = @ + 1]

\* Each turn takes a line at least.
Changes(a, b) ==
    LET turn[n \in 0 .. Count(a) + Count(b)] == IF n = 0 THEN [i |-> 0, j |-> 0, cs |-> <<>>] ELSE ChangeNext(a, b, turn[n - 1])
    IN  turn[Count(a) + Count(b)].cs

Tagged(marker, s, lo, hi) ==
    [n \in 1 .. AtLeast0(hi - lo) |-> [marker |-> marker, line |-> s[lo + n]]]

\* The changes from `first` that are near enough to share a hunk.
GroupEnd(cs, first) ==
    Largest({l \in first .. Len(cs) :
                \A n \in first + 1 .. l :
                    cs[n].aStart - (cs[n - 1].aStart + cs[n - 1].aLines) <= 2 * contextLines})

\* The lines before the n-th of the changes cs of a hunk, and its own.
Part(x, y, cs, aLo, n) ==
    Tagged(" ", x, IF n = 1 THEN aLo ELSE cs[n - 1].aStart + cs[n - 1].aLines, cs[n].aStart)
    \o Tagged("-", x, cs[n].aStart, cs[n].aStart + cs[n].aLines)
    \o Tagged("+", y, cs[n].bStart, cs[n].bStart + cs[n].bLines)

\* The hunk of changes cs, which follow each other closely.
HunkOf(x, y, cs, base) ==
    LET aEnd == Last(cs).aStart + Last(cs).aLines
        aLo == AtLeast0(Head(cs).aStart - contextLines)
        aHi == Least(Len(x), aEnd + contextLines)
        bLo == Head(cs).bStart - (Head(cs).aStart - aLo)
        bHi == Last(cs).bStart + Last(cs).bLines + (aHi - aEnd)
    IN  [a |-> base + aLo, aLines |-> aHi - aLo, b |-> base + bLo, bLines |-> bHi - bLo,
         lines |-> FlattenSeq([n \in DOMAIN cs |-> Part(x, y, cs, aLo, n)]) \o Tagged(" ", x, aEnd, aHi)]

\* t: the first change that is in no hunk yet, and the hunks before it.
HunkTo(x, y, cs, base, t, last) ==
    [group |-> last + 1, out |-> Append(t.out, HunkOf(x, y, SubSeq(cs, t.group, last), base))]

HunkNext(x, y, cs, base, t) ==
    IF t.group > Len(cs) THEN t ELSE HunkTo(x, y, cs, base, t, GroupEnd(cs, t.group))

Hunks(x, y, cs, base) ==
    LET turn[n \in 0 .. Len(cs)] == IF n = 0 THEN [group |-> 1, out |-> <<>>] ELSE HunkNext(x, y, cs, base, turn[n - 1])
    IN  turn[Len(cs)].out

HunksOf(x, y, c, base) ==
    Hunks(x, y, Changes(SlideRuns(x, c.aChanged), SlideRuns(y, c.bChanged)), base)

DiffLines(x, y, base, work) ==
    HunksOf(x, y, Region(NewContext(x, y, work), [aLo |-> 0, aHi |-> Len(x), bLo |-> 0, bHi |-> Len(y)]), base)

DiffWindow(a, b, w, work) ==
    DiffLines(LinesOf(SubSeq(a, w.lo + 1, w.aHi)), LinesOf(SubSeq(b, w.lo + 1, w.bHi)),
              Len(LinesOf(SubSeq(a, 1, w.lo))), work)

UnifiedDiff(a, b, workLimit) == IF a = b THEN <<>> ELSE DiffWindow(a, b, Window(a, b), workLimit)
=============================================================================
