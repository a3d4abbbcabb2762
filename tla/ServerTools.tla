----------------------------- MODULE ServerTools -----------------------------
(***************************************************************************)
(* providers/anthropic: `stream`, turn after turn of a conversation.  The  *)
(* server runs tools of its own: a use and its result arrive as two        *)
(* blocks, with others between them, perhaps in another continuation of a  *)
(* paused turn, perhaps in the next turn.  `stream` hands them on joined,  *)
(* in the place of the use, and refuses what does not match; an attempt    *)
(* that is started again must leave nothing of this behind; and what each  *)
(* attempt has cost must reach the caller once.                            *)
(*                                                                         *)
(* Of an event the model keeps whether it is a use, a result, the end of a *)
(* call of the client's tools, or anything else ("text").                  *)
(*                                                                         *)
(* External: the caller.  It drops what the attempts of a request have     *)
(* given it when it is told that the request is started again, keeps the   *)
(* events of a turn that is done as items, and drops those of one that     *)
(* failed.                                                                 *)
(***************************************************************************)
EXTENDS Naturals, SequencesExt

CONSTANTS
    Model,                  \* models of this provider
    Id,                     \* ids of uses
    MaxAttempts,            \* RetryPolicy.MaxAttempts
    maxPauseContinuations,  \* 16
    MaxEvents,              \* bound: events of the conversation
    MaxTurns                \* bound: turns

ASSUME LimitAssumption ==
    /\ MaxAttempts \in Nat \ {0}
    /\ {maxPauseContinuations, MaxEvents, MaxTurns} \subseteq Nat

VARIABLES
    pc,             \* "idle", "stream" or "backoff"
    model,          \* of this turn
    items,          \* the conversation
    pairing,        \* expected, deferred, seenServerToolUses, hasClientToolCall
    out,            \* what the callback was given in this turn
    arrived,        \* history: the events of this turn
    saved,          \* these three, when the request was sent first
    attempt,        \* of this request
    continuations,
    usage,          \* usage: what completed requests reported
    attemptUsage,   \* what this attempt reported
    transferred,    \* retryUsageTransferred
    reported,       \* history: what all attempts of the turn reported
    delivered,      \* history: what the caller was told
    requests,       \* history: requests sent in this turn
    stop,           \* the stop reason of the turn
    result,         \* how the last turn ended
    turns

vars == <<pc, model, items, pairing, out, arrived, saved, attempt, continuations, usage,
          attemptUsage, transferred, reported, delivered, requests, stop, result, turns>>

None == "none"
NoId == ""

Text == [kind |-> "text", id |-> NoId]
Call == [kind |-> "call", id |-> NoId]
Use(id) == [kind |-> "use", id |-> id]
Result(id) == [kind |-> "result", id |-> id]
PairOf(id) == [kind |-> "pair", id |-> id]

\* What may arrive, and what is kept of it: a use without an id is not.
Kept == {Text, Call} \cup [kind : {"use", "result"}, id : Id]
Event == Kept \cup {Use(NoId)}
Emitted == Kept \cup [kind : {"pair"}, id : Id]
Pairing == [expected : SUBSET Id, deferred : Seq(Kept), seen : SUBSET Id, client : BOOLEAN]

TypeOK ==
    /\ pc \in {"idle", "stream", "backoff"}
    /\ model \in Model \cup {None}
    /\ items \in Seq([model : Model, event : Emitted])
    /\ pairing \in Pairing
    /\ out \in Seq(Emitted)
    /\ arrived \in Seq(Event)
    /\ saved \in [pairing : Pairing, out : Seq(Emitted), arrived : Seq(Event)]
    /\ attempt \in 0 .. MaxAttempts - 1
    /\ {continuations, usage, attemptUsage, reported, delivered, turns} \subseteq Nat
    /\ requests \in 0 .. (maxPauseContinuations + 1) * MaxAttempts
    /\ transferred \in BOOLEAN
    /\ stop \in {None, "end_turn", "tool_use"}
    /\ result \in {None, "done", "refused", "failed", "error"}

NewPairing(pending) ==
    [expected |-> pending, deferred |-> <<>>, seen |-> {}, client |-> FALSE]

Init ==
    /\ pc = "idle" /\ model = None /\ items = <<>>
    /\ pairing = NewPairing({}) /\ out = <<>> /\ arrived = <<>>
    /\ saved = [pairing |-> pairing, out |-> out, arrived |-> arrived]
    /\ attempt = 0 /\ continuations = 0
    /\ usage = 0 /\ attemptUsage = 0 /\ transferred = FALSE
    /\ reported = 0 /\ delivered = 0 /\ requests = 0
    /\ stop = None /\ result = None /\ turns = 0

-----------------------------------------------------------------------------
(* The conversation *)

Item(m, e) == [model |-> m, event |-> e]

\* The conversation with a turn of this model that gave the events of o.
With(s, m, o) == s \o [i \in 1 .. Len(o) |-> Item(m, o[i])]

\* Mutant: uses of another model count.
PendingOfAny(s, m) ==
    {id \in Id :
        \E i \in 1 .. Len(s) :
            /\ s[i].event = Use(id)
            /\ \A j \in i + 1 .. Len(s) :
                   s[j].event \notin {Result(id), PairOf(id)}}

\* PendingServerToolIDs: the uses of this model with no result after them.
Pending(s, m) ==
    {id \in Id :
        \E i \in 1 .. Len(s) :
            /\ s[i] = Item(m, Use(id))
            /\ \A j \in i + 1 .. Len(s) :
                   s[j] \notin {Item(m, Result(id)), Item(m, PairOf(id))}}

\* messages: what a request to this model repeats of the uses and results.
Blocks(e) ==
    CASE e.kind \in {"use", "result"} -> <<e>>
      [] e.kind = "pair" -> <<Use(e.id), Result(e.id)>>
      [] OTHER -> <<>>

Replay(s, m) ==
    FoldLeft(LAMBDA blocks, x : IF x.model = m THEN blocks \o Blocks(x.event) ELSE blocks, <<>>, s)

-----------------------------------------------------------------------------
(* Pairing: what one event makes of it and of the output, or a refusal. *)

Step(p, o) == [pairing |-> p, out |-> o, ok |-> TRUE]
Refusal(p, o) == [pairing |-> p, out |-> o, ok |-> FALSE]

EmitResult(p, o, e) ==
    IF e.id \in p.expected
    THEN Step([p EXCEPT !.expected = @ \ {e.id}], Append(o, e))
    ELSE Refusal(p, o)

\* The results in d of its first event, a use.
ResultsOfFirst(d) == {i \in 2 .. Len(d) : d[i] = Result(d[1].id)}

\* drain, one turn of its loop.  A use waits for its result, and everything
\* after it waits with it.
DrainOnce(s) ==
    LET d == s.pairing.deferred
        rest == [s.pairing EXCEPT !.deferred = Tail(d)]
        results == ResultsOfFirst(d)
        at == CHOOSE i \in results : \A j \in results : i <= j
    IN  IF ~s.ok \/ d = <<>> THEN s
        ELSE CASE d[1].kind = "result" -> EmitResult(rest, s.out, d[1])
               [] d[1].kind = "use" /\ results = {} -> s
               [] d[1].kind = "use" /\ results # {} ->
                      Step([rest EXCEPT !.deferred = SubSeq(d, 2, at - 1) \o SubSeq(d, at + 1, Len(d))],
                           Append(s.out, PairOf(d[1].id)))
               [] OTHER -> Step(rest, Append(s.out, d[1]))

\* Every turn takes an event or nothing changes any more.
Drain(p, o) == FoldLeft(LAMBDA s, e : DrainOnce(s), Step(p, o), p.deferred)

\* pair: a use without an id, or one that was seen or is pending.
Repeated(p, e) == e.kind = "use" /\ (e.id = NoId \/ e.id \in p.seen \cup p.expected)

Noted(p, e) ==
    [p EXCEPT !.seen = IF e.kind = "use" THEN @ \cup {e.id} ELSE @,
              !.client = @ \/ e.kind = "call"]

\* Mutant: text and calls do not wait for the uses before them.
PairPassing(p, o, e) ==
    LET q == Noted(p, e) IN
    CASE Repeated(p, e) -> Refusal(p, o)
      [] e.kind \in {"text", "call"} -> Step(q, Append(o, e))
      [] OTHER -> Drain([q EXCEPT !.deferred = Append(@, e)], o)

\* With nothing deferred a use is deferred and anything else goes through,
\* which is what draining it alone does.
Pair(p, o, e) ==
    IF Repeated(p, e) THEN Refusal(p, o)
    ELSE Drain([Noted(p, e) EXCEPT !.deferred = Append(@, e)], o)

FlushOne(s, e) ==
    CASE ~s.ok -> s
      [] s.ok /\ e.kind = "result" -> EmitResult(s.pairing, s.out, e)
      [] OTHER -> Step(s.pairing, Append(s.out, e))

\* flushDeferred: uses are handed on alone, so no result may follow its use here.
Flush(p, o) == FoldLeft(FlushOne, Step([p EXCEPT !.deferred = <<>>], o), p.deferred)

\* stream, when a turn is complete: may it end like this?
End(p, o, reason) ==
    LET s == Flush(p, o) IN
    IF /\ p.deferred # <<>> => reason = "tool_use" /\ p.client
       /\ s.ok
       /\ s.pairing.expected = {}
    THEN s ELSE Refusal(p, o)

-----------------------------------------------------------------------------
(* The turn *)

\* streamRequest: a new parser, whose usage was not transferred yet.
Send ==
    /\ pc' = "stream"
    /\ attemptUsage' = 0
    /\ transferred' = FALSE
    /\ requests' = requests + 1

Begin(m) ==
    LET p == NewPairing(Pending(items, m)) IN
    /\ pc = "idle"
    /\ turns < MaxTurns
    /\ turns' = turns + 1
    /\ model' = m
    /\ pairing' = p /\ out' = <<>> /\ arrived' = <<>>
    /\ saved' = [pairing |-> p, out |-> <<>>, arrived |-> <<>>]
    /\ attempt' = 0 /\ continuations' = 0
    /\ usage' = 0 /\ reported' = 0 /\ delivered' = 0
    /\ pc' = "stream" /\ attemptUsage' = 0 /\ transferred' = FALSE /\ requests' = 1
    /\ stop' = None /\ result' = None
    /\ UNCHANGED items

\* Mutant: usage is added although it went with the retry.
AddAlways == usage + attemptUsage

\* streamRequest's caller: usage that went with a retry event is not added again.
AddUsage == usage + (IF transferred THEN 0 ELSE attemptUsage)

\* The caller is told the usage with the last event, or with the error; what
\* is local to stream is gone.
Return(r) ==
    /\ pc' = "idle"
    /\ result' = r
    /\ delivered' = delivered + AddUsage
    /\ pairing' = NewPairing({})
    /\ saved' = [pairing |-> NewPairing({}), out |-> <<>>, arrived |-> <<>>]
    /\ attempt' = 0 /\ continuations' = 0
    /\ usage' = 0 /\ attemptUsage' = 0 /\ transferred' = FALSE

\* message_start
Usage ==
    /\ pc = "stream"
    /\ attemptUsage = 0
    /\ attemptUsage' = 1
    /\ reported' = reported + 1
    /\ UNCHANGED <<pc, model, items, pairing, out, arrived, saved, attempt, continuations, usage,
                   transferred, delivered, requests, stop, result, turns>>

Receive(e) ==
    LET s == Pair(pairing, out, e) IN
    /\ pc = "stream"
    /\ Len(items) + Len(arrived) < MaxEvents
    /\ arrived' = Append(arrived, e)
    /\ out' = s.out
    /\ \/ /\ s.ok
          /\ pairing' = s.pairing
          /\ UNCHANGED <<pc, saved, attempt, continuations, usage, attemptUsage, transferred,
                         delivered, result>>
       \/ ~s.ok /\ Return("refused")
    /\ UNCHANGED <<model, items, reported, requests, stop, turns>>

\* message_stop
Complete(reason) ==
    LET s == End(pairing, out, reason) IN
    /\ pc = "stream"
    /\ stop' = reason
    /\ out' = s.out
    /\ Return(IF s.ok THEN "done" ELSE "refused")
    /\ items' = IF s.ok THEN With(items, model, s.out) ELSE items
    /\ UNCHANGED <<model, arrived, reported, requests, turns>>

\* pause_turn: the turn goes on in a request that repeats what has arrived.
Pause ==
    /\ pc = "stream"
    /\ continuations < maxPauseContinuations
    /\ Send
    /\ continuations' = continuations + 1
    /\ attempt' = 0
    /\ usage' = AddUsage
    /\ saved' = [pairing |-> pairing, out |-> out, arrived |-> arrived]
    /\ UNCHANGED <<model, items, pairing, out, arrived, reported, delivered, stop, result, turns>>

PauseTooOften ==
    /\ pc = "stream"
    /\ continuations = maxPauseContinuations
    /\ Return("error")
    /\ UNCHANGED <<model, items, out, arrived, reported, requests, stop, turns>>

\* Mutant: the ids that were seen are kept.
RestoreKeepsSeen == [saved.pairing EXCEPT !.seen = pairing.seen]

\* restorePairing
Restored == saved.pairing

\* Mutant: one attempt too many.
AlwaysAgain == attempt + 1 <= MaxAttempts

AttemptsLeft == attempt + 1 < MaxAttempts

\* The stream breaks, or the status asks for another attempt.
Retry ==
    /\ pc = "stream"
    /\ AttemptsLeft
    /\ pc' = "backoff"
    /\ transferred' = TRUE
    /\ delivered' = delivered + attemptUsage
    /\ pairing' = Restored
    /\ out' = saved.out
    /\ arrived' = saved.arrived
    /\ UNCHANGED <<model, items, saved, attempt, continuations, usage, attemptUsage, reported,
                   requests, stop, result, turns>>

Again ==
    /\ pc = "backoff"
    /\ Send
    /\ attempt' = attempt + 1
    /\ UNCHANGED <<model, items, pairing, out, arrived, saved, continuations, usage, reported,
                   delivered, stop, result, turns>>

\* An error event, max_tokens, a status that is final, or no attempt is left.
Fail ==
    /\ pc = "stream"
    /\ Return("failed")
    /\ UNCHANGED <<model, items, out, arrived, reported, requests, stop, turns>>

\* The context ends, or the callback refuses an event or the retry.
Cancel ==
    /\ pc # "idle"
    /\ Return("error")
    /\ UNCHANGED <<model, items, out, arrived, reported, requests, stop, turns>>

Next ==
    \/ \E m \in Model : Begin(m)
    \/ Usage
    \/ \E e \in Event : Receive(e)
    \/ \E reason \in {"end_turn", "tool_use"} : Complete(reason)
    \/ Pause \/ PauseTooOften
    \/ Retry \/ Again \/ Fail \/ Cancel

Spec == Init /\ [][Next]_vars

-----------------------------------------------------------------------------
(* Properties *)

Has(s, e) == \E i \in 1 .. Len(s) : s[i] = e

Before(s, e, f) == \E i, j \in 1 .. Len(s) : i < j /\ s[i] = e /\ s[j] = f

\* The events with one more: a result takes the place of its use beside it.
Joined(o, e) ==
    IF e.kind = "result" /\ Has(o, Use(e.id))
    THEN [i \in 1 .. Len(o) |-> IF o[i] = Use(e.id) THEN PairOf(e.id) ELSE o[i]]
    ELSE Append(o, e)

Paired(s) == FoldLeft(Joined, <<>>, s)

\* Whatever was retried or continued, what the caller was given and what still
\* waits is what has arrived, in its order, with each use joined with its
\* result: no block is lost, handed on twice or overtaken.
PairedInOrder == pc # "idle" => out \o Paired(pairing.deferred) = Paired(arrived)

\* Every result in s follows a use that had none before.
Answering(s) ==
    \A i \in 1 .. Len(s) :
        s[i].kind = "result" =>
            \E j \in 1 .. i - 1 :
                /\ s[j] = Use(s[i].id)
                /\ \A k \in j + 1 .. i - 1 : s[k] # s[i]

\* In what a request repeats of the conversation to a model, every result
\* follows a use by that model which had no result yet (the API refuses a
\* conversation where it does not).
ResultsFollowUses == \A m \in Model : Answering(Replay(items, m))

\* The uses that have no result after them.
Open(s) == {id \in Id : Has(s, Use(id)) /\ ~Before(s, Use(id), Result(id))}

\* Uses have ids of their own; a result answers a pending use or one before it, once.
WellFormed(s, pending) ==
    /\ ~Has(s, Use(NoId))
    /\ \A id \in Id :
           /\ Has(s, Use(id)) => id \notin pending /\ ~Before(s, Use(id), Use(id))
           /\ Has(s, Result(id)) =>
                  /\ ~Before(s, Result(id), Result(id))
                  /\ id \in pending \/ Before(s, Use(id), Result(id))

\* Nothing stays pending, and a use without a result only beside a call, and
\* then no use that has one comes after it (which flushDeferred takes for an orphan).
WellEnded(s, pending, reason) ==
    /\ \A id \in pending : Has(s, Result(id))
    /\ Open(s) # {} => reason = "tool_use" /\ Has(s, Call)
    /\ \A open \in Open(s), id \in Id : Before(s, Use(open), Use(id)) => id \in Open(s)

\* An id that was pending and has its result is used again: the code lets it
\* pass unless that result had to wait.
Reused(s, pending) == \E id \in pending : Before(s, Result(id), Use(id))

\* A turn is refused because of its server tools exactly when the blocks that
\* count do not match: nothing of an attempt that was started again, of another
\* turn or of another model makes a sound answer fail or a broken one pass.
RefusedIffBroken ==
    result \in {"done", "refused"} =>
        LET kept == IF result = "done" THEN Len(items) - Len(out) ELSE Len(items)
            pending == Pending(SubSeq(items, 1, kept), model)
            sound == /\ WellFormed(arrived, pending)
                     /\ stop # None => WellEnded(arrived, pending, stop)
        IN  Reused(arrived, pending) \/ (result = "refused") = ~sound

\* What the attempts of a turn reported reaches the caller once: with the
\* retry, with the last event or with the error, wherever the turn is
\* cancelled.
UsageCountedOnce == result # None => delivered = reported
=============================================================================
