----------------------------- MODULE Algorithms -----------------------------
(***************************************************************************)
(* The functions of Transport and Providers, each called once: a           *)
(* behaviour takes one of the inputs and computes its result.  The         *)
(* properties compare results with definitions of another kind: with what  *)
(* is said of the whole stream, sequence or set of inputs, not of its next *)
(* element.                                                                *)
(***************************************************************************)
EXTENDS Transport, Providers

CONSTANTS
    DelayInputs,    \* [policy, attempt]
    HeaderValues,   \* values of Retry-After
    Streams,        \* [chunks, refuses]
    Numbers,        \* [kind, n, unit]
    UsageSequences,
    HeaderInputs,   \* [defaults, configured: sequences of members]
    Conversations   \* [items, images, field]

\* What the inputs may be; no number of them is bounded.
StreamByte == {"e", "d", "v", "R", "N"}
Usage == [input : Int, output : Int, cached : Int, cost : Int, fast : {"unknown", "yes", "no"}]
Member == [name : STRING, spelling : Nat, value : STRING]
Default == {m \in Member : m.value # ""}   \* a header is declared to be sent
Item == [kind : STRING, id : Nat, image : BOOLEAN, own : BOOLEAN]

\* What a group asks and answers, and what waits for an answer after some groups.
Silent(group) == group[1].kind \notin {"user", "result"} \cup OfAssistant
AnswersOf(group) == IF group[1].kind = "result" THEN [n \in DOMAIN group |-> group[n].id] ELSE <<>>
Asked(group) == IF group[1].kind \in OfAssistant THEN ToolCalls(group) ELSE <<>>
Awaited(groups) ==
    FoldLeft(LAMBDA ids, group : IF Silent(group) THEN ids ELSE Asked(group), <<>>, groups)

\* Conversations as a provider is given them: after its calls, and perhaps items that
\* are not sent, a message has their results in order, and nothing else is a result.
InTurns(groups) ==
    \A n \in DOMAIN groups : Silent(groups[n]) \/ AnswersOf(groups[n]) = Awaited(SubSeq(groups, 1, n - 1))
Orderly == {items \in Seq(Item) : InTurns(Groups(items)) /\ Awaited(Groups(items)) = <<>>}

ASSUME InputsAssumption ==
    /\ DelayInputs \subseteq [policy : [BaseDelay : Int, MaxDelay : Int, percent : 75 .. 125], attempt : Nat]
    /\ HeaderValues \subseteq Seq(0 .. Other)
    /\ Streams \subseteq [chunks : Seq(Seq(StreamByte)), refuses : Nat]
    /\ Numbers \subseteq [kind : STRING, n : Int, unit : STRING]
    /\ UsageSequences \subseteq Seq(Usage)
    /\ HeaderInputs \subseteq [defaults : Seq(Default), configured : Seq(Member)]
    /\ Conversations \subseteq [items : Orderly, images : BOOLEAN, field : BOOLEAN]

VARIABLES
    in,   \* the algorithm and its input
    out   \* <<>>, then its result alone

vars == <<in, out>>

Calls ==
    [alg : {"delay"}, of : DelayInputs] \cup [alg : {"retryAfter"}, of : HeaderValues]
    \cup [alg : {"sse"}, of : Streams] \cup [alg : {"scaled"}, of : Numbers]
    \cup [alg : {"usage"}, of : UsageSequences] \cup [alg : {"headers"}, of : HeaderInputs]
    \cup [alg : {"messages"}, of : Conversations]

Init == in \in Calls /\ out = <<>>

Call(alg) == out = <<>> /\ in.alg = alg /\ UNCHANGED in

ComputeDelay == Call("delay") /\ out' = <<Delay(in.of.policy, in.of.attempt)>>
ComputeRetryAfter == Call("retryAfter") /\ out' = <<RetryAfter(in.of)>>
ComputeEvents == Call("sse") /\ out' = <<Parse(in.of.chunks, in.of.refuses)>>
ComputeNumber == Call("scaled") /\ out' = <<ParseScaled(in.of.kind, in.of.n, in.of.unit)>>
ComputeUsage == Call("usage") /\ out' = <<FoldLeft(Add, NewStreamUsage, in.of)>>
ComputeHeaders == Call("headers") /\ out' = <<DefaultHeaders(in.of.defaults, in.of.configured)>>
ComputeMessages == Call("messages") /\ out' = <<Messages(in.of.items, in.of.images, in.of.field)>>

Next ==
    \/ ComputeDelay \/ ComputeRetryAfter \/ ComputeEvents \/ ComputeNumber
    \/ ComputeUsage \/ ComputeHeaders \/ ComputeMessages

Spec == Init /\ [][Next]_vars

Done(alg) == in.alg = alg /\ out # <<>>
result == Head(out)

-----------------------------------------------------------------------------
(* Properties: numbers *)

DelayInBounds ==
    Done("delay") =>
        LET p == in.of.policy
            exact == Min({p.MaxDelay, Max({p.BaseDelay, 0}) * Pow2[in.of.attempt]})
        IN  /\ result \in 0 .. Max({p.MaxDelay, 0})
            /\ p.percent <= 100 => result <= Max({exact, 0})
            /\ 4 * (result + 2) >= 3 * exact

\* The number that digits stand for, without a width.
Number(digits) == FoldLeft(LAMBDA n, d : n * 10 + d, 0, digits)

RetryAfterInBounds ==
    Done("retryAfter") =>
        /\ result \in 0 .. maxRetryAfter
        /\ Other \notin Range(in.of) => result = Min({maxRetryAfter, Number(in.of)})

ScaledIsExact ==
    Done("scaled") =>
        LET known == in.of.unit \in {""} \cup DOMAIN Multiplier(in.of.kind)
            product == in.of.n * Scale(in.of.kind, in.of.unit)
        IN  /\ result.ok = (known /\ product \in Int64)
            /\ result.ok => result.n = product

\* A delay (retry.go) is never negative or longer than MaxDelay, whatever base,
\* attempt and clock, and never below three quarters (rounded down twice) of the
\* exponential delay it stands for; a server that asks for a delay (http.go,
\* retryAfter) gets exactly it, up to two minutes, however many digits it sends;
\* and a setting (config.go, parseScaled) is the number with its unit, or refused
\* when an int64 cannot hold it.
NumbersInBounds == DelayInBounds /\ RetryAfterInBounds /\ ScaledIsExact

\* u is the sum of the usages s: a count is unknown only when nothing reported it,
\* and the cost when nothing reported one or when anything that reported tokens had
\* none, wherever in the sequence it came.
Summed(s, u) ==
    LET Reported(c) == {n \in DOMAIN s : s[n][c] >= 0}
        Total(c) == IF Reported(c) = {} THEN -1 ELSE MapThenSumSet(LAMBDA n : s[n][c], Reported(c))
        known == {n \in DOMAIN s : s[n].fast # "unknown"}
    IN  /\ \A c \in Counts : u[c] = Total(c)
        /\ u.cost = IF \E n \in DOMAIN s : Unpriced(s[n]) THEN -1 ELSE Total("cost")
        /\ u.fast = IF known = {} THEN "unknown" ELSE s[Max(known)].fast

\* What a stream of usages reported is the sum of it (provider.go, Add).
UsageIsTotal == Done("usage") => Summed(in.of, result)

-----------------------------------------------------------------------------
(* Properties: the events of a stream *)

\* The lines of a stream, and an empty one after them: its end ends an event too.
LinesIn(stream) ==
    LET pieces == Pieces(stream)
        lines == [n \in DOMAIN pieces |-> [raw |-> pieces[n], lf |-> n < Len(pieces)]]
    IN  Append(IF Last(pieces) = <<>> THEN Front(lines) ELSE lines, [raw |-> <<>>, lf |-> FALSE])

Field(line) == LET s == WithoutReturn(line.raw) IN IF s = <<>> THEN "blank" ELSE Head(s)
Value(line) == Tail(WithoutReturn(line.raw))
Size(line) == Len(line.raw) + (IF line.lf THEN 1 ELSE 0)

\* The lines up to i that say something of the event that line i belongs to or ends.
Belonging(lines, i) ==
    {j \in 1 .. i : /\ Field(lines[j]) \in {"e", "d"}
                    /\ \A k \in j .. i - 1 : Field(lines[k]) # "blank"}

TooLong(lines, i) ==
    \/ Len(lines[i].raw) > sseBufferLimit
    \/ /\ i \in Belonging(lines, i)
       /\ MapThenSumSet(LAMBDA j : Size(lines[j]), Belonging(lines, i)) > sseBufferLimit

\* The numbers of a set in their order.
Ascending(S) == MapThenFoldSet(LAMBDA n, s : Append(s, n), <<>>, LAMBDA n : n, LAMBDA T : Max(T), S)

\* The event that line i ends: its last name and all its data.
EventEnding(lines, i) ==
    LET named == {j \in Belonging(lines, i) : Field(lines[j]) = "e"}
        data == Ascending({j \in Belonging(lines, i) : Field(lines[j]) = "d"})
    IN  [event |-> IF named = {} THEN <<>> ELSE Value(lines[Max(named)]),
         data |-> [n \in DOMAIN data |-> Value(lines[data[n]])]]

\* The blank lines before the one at limit that end an event that says something.
Ends(lines, limit) ==
    {i \in 1 .. limit - 1 : Field(lines[i]) = "blank" /\ EventEnding(lines, i) # [event |-> <<>>, data |-> <<>>]}

EventsBefore(lines, limit) ==
    LET ends == Ascending(Ends(lines, limit))
    IN  [n \in DOMAIN ends |-> EventEnding(lines, ends[n])]

\* The first line that is too long, or the one after the last.
Limit(lines) == Min({i \in DOMAIN lines : TooLong(lines, i)} \cup {Len(lines) + 1})

\* What comes of events, when the first line that is too long is limit.
Outcome(events, refuses, lines, limit) ==
    [out |-> IF refuses \in DOMAIN events THEN SubSeq(events, 1, refuses) ELSE events,
     error |-> CASE refuses \in DOMAIN events -> "callback"
                 [] refuses \notin DOMAIN events /\ limit > Len(lines) -> "none"
                 [] OTHER -> IF Len(lines[limit].raw) > sseBufferLimit THEN "line" ELSE "event"]

Promised(lines, refuses) == Outcome(EventsBefore(lines, Limit(lines)), refuses, lines, Limit(lines))

\* However a response is cut into chunks (sse.go), the callback gets the events of
\* the whole stream, in order, up to the first line or event above the limit or
\* the event it refuses, and that is the error reported.
EventsOfStream ==
    Done("sse") =>
        [out |-> result.out, error |-> result.error] = Promised(LinesIn(FlattenSeq(in.of.chunks)), in.of.refuses)

-----------------------------------------------------------------------------
(* Properties: requests *)

\* What the members of an object send under a name.
Sent(members, name) ==
    {resolveHeaderValue(m.value) :
        m \in {m \in Range(members) : m.name = name /\ m.value \notin {"bad", "$UNSET"}}}

Merged(defaults, configured, headers) ==
    LET Expected(name) == IF Sent(configured, name) # {} THEN Sent(configured, name) ELSE Sent(defaults, name)
        names == {m.name : m \in Range(configured) \cup Range(defaults)}
    IN  /\ DOMAIN headers = {n \in names : Expected(n) # {} /\ "" \notin Expected(n)}
        /\ \A n \in DOMAIN headers : Range(headers[n]) = Expected(n)

\* In whatever order and spelling the members of the object come (providerconfig.go,
\* DefaultHeaders), a header that is configured empty anywhere is not sent, one that
\* is configured is sent with the configured values only, and any other default stays.
HeadersAsConfigured == Done("headers") => Merged(in.of.defaults, in.of.configured, result)

\* Whether message i of a request asks for the results of calls.
Asks(messages, i) == messages[i].role = "assistant" /\ messages[i].tool_calls # <<>>

Answered(messages) ==
    /\ \A i \in DOMAIN messages : Asks(messages, i) =>
           \A n \in DOMAIN messages[i].tool_calls :
               /\ i + n \in DOMAIN messages
               /\ messages[i + n] = [role |-> "tool", id |-> messages[i].tool_calls[n]]
    /\ \A j \in DOMAIN messages : messages[j].role = "tool" =>
           \E i \in 1 .. j - 1 : Asks(messages, i) /\ j - i \in DOMAIN messages[i].tool_calls

\* The number of images in the messages of a request.
Shown(messages) == FoldLeft(LAMBDA n, m : IF m.role = "user" THEN n + m.images ELSE n, 0, messages)

\* In the messages of a conversation (openai.go, messages) the results of the calls of
\* a message follow it directly, one for each call and in their order, there is no other
\* result, and no image of a result is lost: the API refuses a request where anything
\* comes between them.
CallsAnswered ==
    Done("messages") =>
        /\ Answered(result)
        /\ Shown(result) = IF in.of.images
                           THEN Cardinality({n \in DOMAIN in.of.items :
                                                in.of.items[n].kind = "result" /\ in.of.items[n].image})
                           ELSE 0
=============================================================================
