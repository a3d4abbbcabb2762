----------------------------- MODULE Transport -----------------------------
(***************************************************************************)
(* internal/herbie/transport, what is computed and not waited for: the     *)
(* delay before a retry, the delay a server asks for, and the parser that  *)
(* makes events of the chunks of a response.                               *)
(***************************************************************************)
EXTENDS Words, SequencesExt

CONSTANTS
    maxRetryAfter,   \* 120 seconds
    secondsWidth,    \* 64, the bits of an int64
    sseBufferLimit   \* 1 MiB

\* One more digit than the limit has must fit the integers.
ASSUME TransportAssumption ==
    /\ {maxRetryAfter, secondsWidth, sseBufferLimit} \subseteq Nat \ {0}
    /\ 10 * maxRetryAfter + 9 <= MaxInt(secondsWidth)

-----------------------------------------------------------------------------
(* retry.go: Delay.  A policy p has BaseDelay, MaxDelay and the percentage *)
(* that Jitter takes of the clock.                                         *)

\* BaseDelay doubled `attempt` times, at most MaxDelay, and never beyond it in between.
Backoff(p, attempt) ==
    FoldLeft(LAMBDA d, n : IF d > p.MaxDelay \div 2 THEN p.MaxDelay ELSE 2 * d,
             Min({p.BaseDelay, p.MaxDelay}), [n \in 1 .. attempt |-> n])

Jitter(d, percent) == (d \div 100) * percent + ((d % 100) * percent) \div 100

\* Mutant: the limit is applied before the jitter only.
DelayUnclamped(p, attempt) ==
    IF p.BaseDelay <= 0 \/ p.MaxDelay <= 0 THEN 0 ELSE Jitter(Backoff(p, attempt), p.percent)

Delay(p, attempt) ==
    IF p.BaseDelay <= 0 \/ p.MaxDelay <= 0 THEN 0
    ELSE Min({p.MaxDelay, Jitter(Backoff(p, attempt), p.percent)})

-----------------------------------------------------------------------------
(* http.go: retryAfter of a value that starts with a digit: a sequence of  *)
(* digits, and Other for a byte that is none.                              *)

Other == 10

Reads(s) == ~s.over /\ s.n >= 0

\* Mutant: the digits are all read before the limit is looked at.
MoreUnbounded(s, digit) ==
    CASE ~Reads(s) -> s
      [] Reads(s) /\ digit = Other -> [s EXCEPT !.n = -1]
      [] OTHER -> [s EXCEPT !.n = Wrapped(@ * 10 + digit, secondsWidth)]

\* The next byte.  -1 is no number; of one that is over the limit no more is read.
More(s, digit) ==
    CASE ~Reads(s) -> s
      [] Reads(s) /\ digit = Other -> [s EXCEPT !.n = -1]
      [] Reads(s) /\ digit # Other /\ s.n > maxRetryAfter -> [s EXCEPT !.over = TRUE]
      [] OTHER -> [s EXCEPT !.n = Wrapped(@ * 10 + digit, secondsWidth)]

\* What starts with a digit and is no number is no date either.
RetryAfter(value) ==
    LET s == FoldLeft(More, [n |-> 0, over |-> FALSE], value)
    IN  CASE s.over -> maxRetryAfter
          [] ~s.over /\ s.n < 0 -> 0
          [] OTHER -> Min({s.n, maxRetryAfter})

-----------------------------------------------------------------------------
(* sse.go.  A stream is a sequence of "e" and "d" (the names of the fields *)
(* event and data, with the colon), "v" (any other byte), "R" and "N" (the *)
(* two ends of a line).  A parser p has the line so far, the event so far  *)
(* with the bytes it has taken, what the callback was given, and `error`   *)
(* once it is aborted.  The callback refuses event number p.refuses.       *)

NewParser(refuses) ==
    [line |-> <<>>, event |-> <<>>, data |-> <<>>, eventBytes |-> 0,
     out |-> <<>>, refuses |-> refuses, error |-> "none"]

Aborted(p) == p.error # "none"

\* All is forgotten but what the callback was given.
Abort(p, error) == [NewParser(p.refuses) EXCEPT !.out = p.out, !.error = error]

Emit(p) ==
    LET cleared == [p EXCEPT !.event = <<>>, !.data = <<>>, !.eventBytes = 0]
    IN  IF p.event = <<>> /\ p.data = <<>> THEN cleared
        ELSE [cleared EXCEPT !.out = Append(@, [event |-> p.event, data |-> p.data]),
                             !.error = IF Len(p.out) + 1 = p.refuses THEN "callback" ELSE @]

WithoutReturn(raw) == IF raw # <<>> /\ Last(raw) = "R" THEN Front(raw) ELSE raw

LineIn(p, raw, lf) ==
    LET s == WithoutReturn(raw)
        n == Len(raw) + (IF lf THEN 1 ELSE 0)
    IN  CASE s = <<>> -> Emit(p)
          [] s # <<>> /\ Head(s) \in {"e", "d"} /\ p.eventBytes + n > sseBufferLimit -> Abort(p, "event")
          [] s # <<>> /\ Head(s) = "e" /\ p.eventBytes + n <= sseBufferLimit ->
                 [p EXCEPT !.event = Tail(s), !.eventBytes = @ + n]
          [] s # <<>> /\ Head(s) = "d" /\ p.eventBytes + n <= sseBufferLimit ->
                 [p EXCEPT !.data = Append(@, Tail(s)), !.eventBytes = @ + n]
          [] OTHER -> p

\* The bytes between the ends of lines, one piece more than there are ends.
Pieces(chunk) ==
    FoldLeft(LAMBDA pieces, byte : IF byte = "N" THEN Append(pieces, <<>>)
                                   ELSE Append(Front(pieces), Append(Last(pieces), byte)),
             << <<>> >>, chunk)

\* Mutant: what is left of earlier chunks does not count.
TakeOfChunk(p, piece, lf) ==
    CASE Aborted(p) -> p
      [] ~Aborted(p) /\ Len(piece) > sseBufferLimit -> Abort(p, "line")
      [] ~Aborted(p) /\ Len(piece) <= sseBufferLimit /\ lf ->
             LineIn([p EXCEPT !.line = <<>>], p.line \o piece, TRUE)
      [] OTHER -> [p EXCEPT !.line = @ \o piece]

\* One turn of the loop of `feed`.
Take(p, piece, lf) ==
    LET n == Len(p.line) + Len(piece)
    IN  CASE Aborted(p) -> p
          [] ~Aborted(p) /\ n > sseBufferLimit -> Abort(p, "line")
          [] ~Aborted(p) /\ n <= sseBufferLimit /\ lf ->
                 LineIn([p EXCEPT !.line = <<>>], p.line \o piece, TRUE)
          [] OTHER -> [p EXCEPT !.line = @ \o piece]

\* Each end of a line ends one, and what follows the last is kept.
Feed(p, chunk) ==
    LET pieces == Pieces(chunk)
    IN  Take(FoldLeft(LAMBDA q, piece : Take(q, piece, TRUE), p, Front(pieces)), Last(pieces), FALSE)

Finalize(p) ==
    LET q == IF p.line = <<>> THEN p ELSE LineIn([p EXCEPT !.line = <<>>], p.line, FALSE)
    IN  IF Aborted(p) \/ Aborted(q) THEN q ELSE Emit(q)

Parse(chunks, refuses) == Finalize(FoldLeft(Feed, NewParser(refuses), chunks))
=============================================================================
