------------------------------ MODULE Planner ------------------------------
(***************************************************************************)
(* planner.Plan: is the goal compound, and if so, what are its             *)
(* instructions?  The second question is a stream, started again after a   *)
(* failure (RunStreamRetry and Client.SSE in internal/herbie/transport),   *)
(* read by the parser of one of three wire formats (the providers) and     *)
(* collected by the callback of `split`.                                   *)
(*                                                                         *)
(* Text is told apart as far as parseSplit does: `open` is a bracket and   *)
(* an item, `more` another item, `close` the bracket, `prose` anything     *)
(* else.  A response that is started again starts from its beginning.      *)
(***************************************************************************)
EXTENDS Naturals, Sequences

CONSTANTS
    Wire,            \* the wire formats the environment may ask for
    MaxAttempts,     \* RetryPolicy.MaxAttempts
    MaxInstructions, \* maxInstructions
    MaxPlan          \* maxPlanBytes, in pieces of text

ASSUME WireAssumption == Wire \subseteq {"messages", "responses", "chat"}
ASSUME LimitAssumption == MaxAttempts \in Nat \ {0} /\ MaxInstructions \in Nat /\ MaxPlan \in Nat

VARIABLES
    pc,       \* where Plan is
    ctxDone,  \* the context was cancelled or its deadline has passed
    wire,     \* the wire format of the configured provider
    attempt,  \* of RunStreamRetry, from 0
    parser,   \* of this attempt, the fields that decide
    text,     \* what the callback has collected
    result,   \* what Plan returned; a plan is `text`
    fresh,    \* history: this attempt has not given any text yet
    starts,   \* history: where in `text` the text of an attempt starts
    earlier   \* history: how the earlier attempts ended that gave text

vars == <<pc, ctxDone, wire, attempt, parser, text, result, fresh, starts, earlier>>

Piece == {"open", "more", "close", "prose"}
Opener == {"open", "prose"}

Finish == {"none", "ok", "cut", "failed", "transient"}
Parser == [complete : BOOLEAN, terminal : BOOLEAN, refused : BOOLEAN, finish : Finish]

\* newEvents
NewParser == [complete |-> FALSE, terminal |-> FALSE, refused |-> FALSE, finish |-> "none"]

TypeOK ==
    /\ pc \in {"classify", "load", "attempt", "connect", "stream", "backoff", "returned"}
    /\ ctxDone \in BOOLEAN
    /\ wire \in Wire \cup {"none"}
    /\ attempt \in 0 .. MaxAttempts - 1
    /\ parser \in Parser
    /\ text \in Seq(Piece) /\ Len(text) <= MaxPlan
    /\ result \in {"none", "goal", "plan", "error"}
    /\ fresh \in BOOLEAN
    /\ starts \subseteq 1 .. Len(text)
    /\ earlier \subseteq Parser

Init ==
    /\ pc = "classify"
    /\ ctxDone = FALSE
    /\ wire = "none"
    /\ attempt = 0
    /\ parser = NewParser
    /\ text = <<>>
    /\ result = "none"
    /\ fresh = TRUE
    /\ starts = {}
    /\ earlier = {}

Return(r) ==
    /\ pc' = "returned"
    /\ result' = r

-----------------------------------------------------------------------------
(* plan *)

\* The goal is blank, or Ask fails: the request, its status or its answer, or the context.
AskFails ==
    /\ pc = "classify"
    /\ Return("error")
    /\ UNCHANGED <<ctxDone, wire, attempt, parser, text, fresh, starts, earlier>>

\* The probability that the goal is compound: low, in between, high, no number.
Classify(p) ==
    /\ pc = "classify"
    /\ ~ctxDone
    /\ \/ p = "low" /\ Return("goal")
       \/ p \in {"uncertain", "invalid"} /\ Return("error")
       \/ p = "high" /\ pc' = "load" /\ UNCHANGED result
    /\ UNCHANGED <<ctxDone, wire, attempt, parser, text, fresh, starts, earlier>>

\* fromEnv: no provider, model or key, or an unknown provider
LoadFails ==
    /\ pc = "load"
    /\ Return("error")
    /\ UNCHANGED <<ctxDone, wire, attempt, parser, text, fresh, starts, earlier>>

Load ==
    /\ pc = "load"
    /\ wire' \in Wire
    /\ pc' = "attempt"
    /\ UNCHANGED <<ctxDone, attempt, parser, text, result, fresh, starts, earlier>>

\* Mutant: what is between the brackets is not looked at.
BracketsOnly(s) == Len(s) > 2 /\ s[1] = "open" /\ s[Len(s)] = "close"

\* parseSplit accepts: one array of 2 to MaxInstructions items and nothing else.
IsPlan(s) ==
    /\ Len(s) \in 3 .. MaxInstructions + 1
    /\ s[1] = "open"
    /\ \A i \in 2 .. Len(s) - 1 : s[i] = "more"
    /\ s[Len(s)] = "close"

\* split, when the stream has ended well
ParseSplit == Return(IF IsPlan(text) THEN "plan" ELSE "error")

-----------------------------------------------------------------------------
(* The parsers.  Events: `stop`, the response is complete; `cut`, a limit   *)
(* cut it short; `failed`, the provider failed; `done`, the line [DONE];    *)
(* `error`, an error event.  A parser that refuses an event, or whose       *)
(* callback does, ends the attempt with an error.                           *)

Messages(p, e) ==
    CASE e = "stop" -> [p EXCEPT !.complete = TRUE, !.finish = "ok"]
      [] e = "cut" -> [p EXCEPT !.complete = TRUE, !.finish = "cut"]
      [] e = "error" -> [p EXCEPT !.terminal = TRUE]
      [] e = "done" -> [p EXCEPT !.refused = TRUE]
      [] OTHER -> p

Responses(p, e) ==
    CASE e = "stop" -> [p EXCEPT !.complete = TRUE, !.finish = "ok"]
      [] e \in {"cut", "failed"} -> [p EXCEPT !.complete = TRUE, !.finish = "failed"]
      [] e = "error" -> [p EXCEPT !.terminal = TRUE, !.refused = TRUE]
      [] OTHER -> p

\* handleChatFinish heeds the first reason only.
ChatFinish(p, f) == IF p.finish = "none" THEN [p EXCEPT !.finish = f] ELSE p

Chat(p, e) ==
    CASE e = "stop" -> ChatFinish(p, "ok")
      [] e = "cut" -> ChatFinish(p, "cut")
      [] e = "failed" -> ChatFinish(p, "transient")
      [] e = "error" -> [p EXCEPT !.terminal = TRUE, !.refused = TRUE]
      [] OTHER -> p

\* [DONE], on either wire of OpenAI
Done(p) == [ChatFinish(p, "ok") EXCEPT !.complete = TRUE]

Parse(p, e) ==
    CASE wire = "messages" -> Messages(p, e)
      [] wire # "messages" /\ e = "done" -> Done(p)
      [] wire = "responses" /\ e # "done" -> Responses(p, e)
      [] OTHER -> Chat(p, e)

\* Mutant: a response that ran into a limit is asked for again.
FinishedUnlessCut(p) ==
    p.terminal \/ (p.finish \notin {"transient", "cut"} /\ (p.complete \/ p.finish # "none"))

Finished(p) == p.terminal \/ (p.finish # "transient" /\ (p.complete \/ p.finish # "none"))

\* finalize: EventDone, or an EventError, at which `split` fails.
Finalize(p) ==
    IF p.finish = "ok" /\ ~p.terminal THEN ParseSplit ELSE Return("error")

-----------------------------------------------------------------------------
(* RunStreamRetry.  What SSE returned is a record: a status of 2xx, an      *)
(* error, StreamFailure, and whether the status or the failure to connect   *)
(* may be retried.                                                          *)

SSEResult(ok, err, failure, retryable) ==
    [ok |-> ok, err |-> err, failure |-> failure, retryable |-> retryable]

\* Mutant: a complete response does not count if the connection breaks then.
AcceptsCleanEnd(r, p) == r.ok /\ Finished(p) /\ ~r.err

Accepts(r, p) == r.ok /\ Finished(p) /\ (~r.err \/ r.failure)

\* `emitted` is FALSE whenever the status is not 2xx.
ShouldRetry(r) == IF r.ok THEN r.failure \/ ~r.err ELSE r.retryable

\* Mutant: one attempt too many.
MoreAttempts == attempt < MaxAttempts

AttemptsLeft == attempt + 1 < MaxAttempts

\* EventRetry, which `split` ignores, and then Sleep
Again == pc' = "backoff" /\ UNCHANGED result

Judge(r, p) ==
    \/ ctxDone /\ Return("error")
    \/ ~ctxDone /\ Accepts(r, p) /\ Finalize(p)
    \/ ~ctxDone /\ ~Accepts(r, p) /\ ShouldRetry(r) /\ AttemptsLeft /\ Again
    \/ /\ ~ctxDone /\ ~Accepts(r, p) /\ ~(ShouldRetry(r) /\ AttemptsLeft)
       /\ IF r.ok /\ ~r.err THEN Finalize(p) ELSE Return("error")

\* The head of the loop, and of SSE: the request is sent.
Attempt ==
    /\ pc = "attempt"
    /\ ~ctxDone
    /\ pc' = "connect"
    /\ parser' = NewParser
    /\ fresh' = TRUE
    /\ earlier' = IF fresh THEN earlier ELSE earlier \cup {parser}
    /\ UNCHANGED <<ctxDone, wire, attempt, text, result, starts>>

\* Sleep ends with its timer.
Wake ==
    /\ pc = "backoff"
    /\ pc' = "attempt"
    /\ attempt' = attempt + 1
    /\ UNCHANGED <<ctxDone, wire, parser, text, result, fresh, starts, earlier>>

\* Mutant: an open stream is not watched for the context's end.
CtxEndsUnlessStreaming ==
    /\ pc \in {"attempt", "connect", "backoff"}
    /\ ctxDone
    /\ Return("error")
    /\ UNCHANGED <<ctxDone, wire, attempt, parser, text, fresh, starts, earlier>>

\* Wherever RunStreamRetry, SSE or Sleep is, it sees the context's end.
CtxEnds ==
    /\ pc \in {"attempt", "connect", "stream", "backoff"}
    /\ ctxDone
    /\ Return("error")
    /\ UNCHANGED <<ctxDone, wire, attempt, parser, text, fresh, starts, earlier>>

-----------------------------------------------------------------------------
(* SSE *)

\* No connection, or no headers before the connect timeout of a provider that has one.
ConnectFails ==
    /\ pc = "connect"
    /\ Judge(SSEResult(FALSE, TRUE, FALSE, TRUE), parser)
    /\ UNCHANGED <<ctxDone, wire, attempt, parser, text, fresh, starts, earlier>>

\* A status other than 2xx: 408, 5xx and 429 may be retried, but not an exhausted quota.
BadStatus ==
    /\ pc = "connect"
    /\ \E retryable \in BOOLEAN : Judge(SSEResult(FALSE, FALSE, FALSE, retryable), parser)
    /\ UNCHANGED <<ctxDone, wire, attempt, parser, text, fresh, starts, earlier>>

Headers ==
    /\ pc = "connect"
    /\ pc' = "stream"
    /\ UNCHANGED <<ctxDone, wire, attempt, parser, text, result, fresh, starts, earlier>>

Ignores == parser.complete \/ parser.terminal

\* An event is parsed; if it is refused, SSE returns at once.
Feed(p) ==
    /\ parser' = p
    /\ IF p.refused THEN Judge(SSEResult(TRUE, TRUE, FALSE, FALSE), p)
                    ELSE UNCHANGED <<pc, result>>

Receive(e) ==
    /\ pc = "stream"
    /\ ~Ignores
    /\ Feed(Parse(parser, e))
    /\ UNCHANGED <<ctxDone, wire, attempt, text, fresh, starts, earlier>>

\* The callback collects text up to a limit, over all attempts.
ReceiveText(t) ==
    /\ pc = "stream"
    /\ ~Ignores
    /\ fresh => t \in Opener
    /\ Len(text) < MaxPlan
    /\ text' = Append(text, t)
    /\ starts' = starts \cup (IF fresh THEN {Len(text) + 1} ELSE {})
    /\ fresh' = FALSE
    /\ UNCHANGED <<pc, ctxDone, wire, attempt, parser, result, earlier>>

\* Text over the limit, or a tool call, is refused by the callback; what is no
\* JSON by the parser, even after the end.
Refuse ==
    /\ pc = "stream"
    /\ ~parser.terminal
    /\ Feed([parser EXCEPT !.refused = TRUE])
    /\ UNCHANGED <<ctxDone, wire, attempt, text, fresh, starts, earlier>>

\* The stream ends in good order ...
EndOfStream ==
    /\ pc = "stream"
    /\ Judge(SSEResult(TRUE, FALSE, FALSE, FALSE), parser)
    /\ UNCHANGED <<ctxDone, wire, attempt, parser, text, fresh, starts, earlier>>

\* ... or breaks, StreamFailure.
Breaks ==
    /\ pc = "stream"
    /\ Judge(SSEResult(TRUE, TRUE, TRUE, FALSE), parser)
    /\ UNCHANGED <<ctxDone, wire, attempt, parser, text, fresh, starts, earlier>>

\* The minute of `split` is over, or the user presses Ctrl-C.
Expire ==
    /\ pc # "returned"
    /\ ctxDone' = TRUE
    /\ UNCHANGED <<pc, wire, attempt, parser, text, result, fresh, starts, earlier>>

Probability == {"low", "uncertain", "high", "invalid"}
Event == {"stop", "cut", "failed", "done", "error"}

\* The steps the program takes by itself ...
Step ==
    \/ AskFails \/ \E p \in Probability : Classify(p)
    \/ LoadFails \/ Load
    \/ Attempt \/ CtxEnds \/ Wake

\* ... and those it takes at what the provider sends.
Answer ==
    \/ ConnectFails \/ BadStatus \/ Headers
    \/ \E e \in Event : Receive(e)
    \/ \E t \in Piece : ReceiveText(t)
    \/ Refuse \/ EndOfStream \/ Breaks

Next == Step \/ Answer \/ Expire

Spec == Init /\ [][Next]_vars

\* Nothing is assumed of the provider; the deadline of `split` is a timer.
FairSpec == Spec /\ WF_vars(Step) /\ WF_vars(Expire)

-----------------------------------------------------------------------------
\* The callback keeps the text of attempts that failed, and the next attempt's is
\* added to it; yet no plan is ever put together from the texts of two attempts.
NeverSpliced == result = "plan" => starts = {1}

\* What a response said that ran into a limit, failed for good, was refused or reported an
\* error is no plan, whatever it looks like: it is none when that response ends, and a
\* later attempt that completes without text does not make one of what the callback kept.
\* (Of a response that broke off, or of a failure the provider calls passing, it does.)
NoPlanOfBadResponse ==
    result = "plan" =>
        \A p \in earlier \cup {parser} :
            p.finish \notin {"cut", "failed"} /\ ~p.terminal /\ ~p.refused

\* RunStreamRetry asks again only if the attempt before did not end in an answer:
\* nothing is paid for twice that was complete, refused or reported as an error.
OnlyFailuresAreRetried ==
    [][attempt' > attempt => ~Finished(parser) /\ ~parser.refused]_vars

\* Plan returns, however the provider behaves.
PlanReturns == <>(pc = "returned")
=============================================================================
