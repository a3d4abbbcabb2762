------------------------------ MODULE TextDiff ------------------------------
(***************************************************************************)
(* Algorithms, and UnifiedDiff of Diff among its functions.  Hunks are     *)
(* compared with what they must do to the texts, and their length with     *)
(* that of a longest common subsequence.                                   *)
(***************************************************************************)
EXTENDS Diff, Algorithms

CONSTANT
    DiffInputs  \* [a, b: sequences of bytes, work]

ASSUME DiffInputsAssumption == DiffInputs \subseteq [a : Seq(STRING), b : Seq(STRING), work : Nat]

DiffInit == in \in [alg : {"diff"}, of : DiffInputs] /\ out = <<>>

ComputeDiff == Call("diff") /\ out' = <<UnifiedDiff(in.of.a, in.of.b, in.of.work)>>

AllInit == Init \/ DiffInit
AllNext == Next \/ ComputeDiff

AllSpec == AllInit /\ [][AllNext]_vars

-----------------------------------------------------------------------------
(* Properties *)

\* The lines of a hunk that are not marked so.
WithLine(kept, l, marker) == IF l.marker = marker THEN kept ELSE Append(kept, l.line)
Without(lines, marker) == FoldLeft(LAMBDA kept, l : WithLine(kept, l, marker), <<>>, lines)

\* The lines of a text between two hunks, before the first and after the last.
Gap(text, n, start, size) ==
    SubSeq(LinesOf(text), IF n = 0 THEN 1 ELSE result[n][start] + result[n][size] + 1,
           IF n = Len(result) THEN Len(LinesOf(text)) ELSE result[n + 1][start])

\* A diff (diff.go) is a patch of a that gives b: every hunk is, less its
\* additions, the lines of a in its place, less its deletions those of b, and
\* what lies between the hunks is the same in both texts.  However little work
\* was allowed, wherever the window was cut and however runs of changes were slid.
DiffIsPatch ==
    Done("diff") =>
        /\ result = <<>> <=> in.of.a = in.of.b
        /\ \A n \in DOMAIN result :
               /\ Without(result[n].lines, "+") = SubSeq(LinesOf(in.of.a), result[n].a + 1, result[n].a + result[n].aLines)
               /\ Without(result[n].lines, "-") = SubSeq(LinesOf(in.of.b), result[n].b + 1, result[n].b + result[n].bLines)
        /\ \A n \in 0 .. Len(result) : Gap(in.of.a, n, "a", "aLines") = Gap(in.of.b, n, "b", "bLines")

\* The length of a longest common subsequence.
Common(x, y) ==
    LET c[i \in 0 .. Len(x), j \in 0 .. Len(y)] ==
            CASE i = 0 \/ j = 0 -> 0
              [] i > 0 /\ j > 0 /\ x[i] = y[j] -> c[i - 1, j - 1] + 1
              [] OTHER -> Max({c[i - 1, j], c[i, j - 1]})
    IN  c[Len(x), Len(y)]

Changed ==
    FoldLeft(LAMBDA n, h : n + Len(SelectSeq(h.lines, LAMBDA l : l.marker # " ")), 0, result)

Unlimited == Max({i.work : i \in DiffInputs})

\* With work to spare no diff is longer than it must be: what is not marked as
\* changed is a longest common subsequence of the lines (diff.go, myersSplit).
DiffIsShortest ==
    Done("diff") /\ in.of.work = Unlimited =>
        LET x == LinesOf(in.of.a)
            y == LinesOf(in.of.b)
        IN  Changed = Len(x) + Len(y) - 2 * Common(x, y)
=============================================================================
