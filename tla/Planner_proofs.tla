--------------------------- MODULE Planner_proofs ---------------------------
(***************************************************************************)
(* The safety properties of Planner, for any limits and any behaviour of   *)
(* the provider.                                                           *)
(***************************************************************************)
EXTENDS Planner, TLAPS

\* What is returned, and that nothing is before the return.
ResultOK ==
    /\ pc # "returned" => result = "none"
    /\ result = "plan" => IsPlan(text) /\ parser.finish = "ok" /\ ~parser.terminal

\* Where the loop is, the last attempt tells: a further one is due only after an
\* attempt that ended neither in an answer nor in a refusal.
LoopOK ==
    /\ pc \in {"load", "connect"} => parser = NewParser
    /\ pc = "stream" \/ result = "plan" => ~parser.refused
    /\ pc \in {"backoff", "attempt"} => ~Finished(parser) /\ ~parser.refused
    /\ pc = "backoff" => AttemptsLeft
    /\ pc = "classify" => parser = NewParser

\* The text of an attempt starts like a text, and all text is of some attempt.
StartsOK ==
    /\ \A i \in starts : text[i] \in Opener
    /\ text # <<>> => 1 \in starts
    /\ ~fresh => text # <<>>

\* An attempt that another followed has neither answered nor refused.
EarlierOK == \A p \in earlier : ~Finished(p) /\ ~p.refused

\* The inductive invariant.
IInv == TypeOK /\ ResultOK /\ LoopOK /\ StartsOK /\ EarlierOK

\* What Client.SSE may report
Report == [ok : BOOLEAN, err : BOOLEAN, failure : BOOLEAN, retryable : BOOLEAN]

\* After an attempt RunStreamRetry returns an error or a complete answer, or
\* tries again what gave no answer.
LEMMA JudgeOutcome ==
    ASSUME NEW r \in Report, NEW p \in Parser, Judge(r, p)
    PROVE  \/ pc' = "returned" /\ result' = "error"
           \/ /\ pc' = "returned" /\ result' = "plan" /\ IsPlan(text)
              /\ r.ok /\ (~r.err \/ r.failure) /\ p.finish = "ok" /\ ~p.terminal
           \/ /\ pc' = "backoff" /\ result' = result /\ AttemptsLeft
              /\ ~Accepts(r, p) /\ ShouldRetry(r)
<1>1. Finalize(p) => \/ pc' = "returned" /\ result' = "error"
                     \/ /\ pc' = "returned" /\ result' = "plan" /\ IsPlan(text)
                        /\ p.finish = "ok" /\ ~p.terminal
  BY DEF Finalize, ParseSplit, Return
<1>2. CASE ctxDone /\ Return("error")
  BY <1>2 DEF Return
<1>3. CASE Accepts(r, p) /\ Finalize(p)
  BY <1>1, <1>3 DEF Accepts
<1>4. CASE ~Accepts(r, p) /\ ShouldRetry(r) /\ AttemptsLeft /\ Again
  BY <1>4 DEF Again
<1>5. CASE IF r.ok /\ ~r.err THEN Finalize(p) ELSE Return("error")
  BY <1>1, <1>5 DEF Return
<1> QED
  BY <1>2, <1>3, <1>4, <1>5 DEF Judge

\* The parsers keep the shape of their state.
LEMMA ParseType ==
    ASSUME NEW p \in Parser, NEW e \in Event
    PROVE  Parse(p, e) \in Parser
<1>1. Messages(p, e) \in Parser
  BY DEF Messages, Parser, Finish
<1>2. \A f \in Finish : ChatFinish(p, f) \in Parser
  BY DEF ChatFinish, Parser, Finish
<1>3. Responses(p, e) \in Parser
  BY DEF Responses, Parser, Finish
<1>4. Chat(p, e) \in Parser
  BY <1>2 DEF Chat, Parser, Finish
<1>5. Done(p) \in Parser
  BY <1>2 DEF Done, Parser, Finish
<1> QED
  BY <1>1, <1>3, <1>4, <1>5 DEF Parse

\* The initial states satisfy the invariant.
LEMMA InitIInv == Init => IInv
<1> SUFFICES ASSUME Init PROVE IInv
  OBVIOUS
<1>1. TypeOK
  <2>1. text \in Seq(Piece) /\ Len(text) = 0
    BY DEF Init
  <2>2. attempt \in 0 .. MaxAttempts - 1 /\ Len(text) <= MaxPlan
    BY <2>1, LimitAssumption DEF Init
  <2>3. parser \in Parser
    BY DEF Init, NewParser, Parser, Finish
  <2> QED
    BY <2>1, <2>2, <2>3 DEF Init, TypeOK
<1>2. ResultOK /\ LoopOK
  BY DEF Init, ResultOK, LoopOK
<1>3. StartsOK /\ EarlierOK
  BY DEF Init, StartsOK, EarlierOK
<1> QED
  BY <1>1, <1>2, <1>3 DEF IInv

\* A step that judges an attempt keeps the invariant: the attempt failed to
\* connect and gave nothing, or its stream was read and refused nothing, or it
\* was refused and is over.
LEMMA JudgeStep ==
    ASSUME IInv, NEW r \in Report, NEW p \in Parser, Judge(r, p), parser' = p,
           UNCHANGED <<ctxDone, wire, attempt, text, fresh, starts, earlier>>,
           pc \in {"connect", "stream"},
           \/ ~r.ok /\ p = NewParser
           \/ r.ok /\ ~p.refused /\ (~r.err \/ r.failure)
           \/ r.ok /\ p.refused /\ r.err /\ ~r.failure
    PROVE  IInv'
<1> USE DEF IInv, TypeOK
<1>1. CASE pc' = "returned" /\ result' = "error"
  BY <1>1 DEF ResultOK, LoopOK, StartsOK, EarlierOK
<1>2. CASE /\ pc' = "returned" /\ result' = "plan" /\ IsPlan(text)
           /\ r.ok /\ (~r.err \/ r.failure) /\ p.finish = "ok" /\ ~p.terminal
  BY <1>2 DEF ResultOK, LoopOK, StartsOK, EarlierOK, IsPlan, Report
<1>3. CASE /\ pc' = "backoff" /\ result' = result /\ AttemptsLeft
           /\ ~Accepts(r, p) /\ ShouldRetry(r)
  <2>1. ~Finished(p) /\ ~p.refused
    BY <1>3 DEF Accepts, ShouldRetry, NewParser, Finished, Report
  <2>2. result = "none"
    BY DEF ResultOK
  <2>3. ResultOK' /\ StartsOK' /\ EarlierOK' /\ TypeOK'
    BY <1>3, <2>2 DEF ResultOK, StartsOK, EarlierOK
  <2>4. LoopOK'
    BY <1>3, <2>1, <2>2 DEF LoopOK, AttemptsLeft, Finished
  <2> QED
    BY <2>3, <2>4
<1> QED
  BY <1>1, <1>2, <1>3, JudgeOutcome

\* The records SSE's callers build are reports.
LEMMA ReportType ==
    ASSUME NEW a \in BOOLEAN, NEW b \in BOOLEAN, NEW c \in BOOLEAN, NEW d \in BOOLEAN
    PROVE  /\ SSEResult(a, b, c, d) \in Report
           /\ SSEResult(a, b, c, d).ok = a
           /\ SSEResult(a, b, c, d).err = b
           /\ SSEResult(a, b, c, d).failure = c
  BY DEF SSEResult, Report

\* An event fed to the parser: read, or refused.
LEMMA FeedStep ==
    ASSUME IInv, NEW p \in Parser, Feed(p), pc = "stream",
           UNCHANGED <<ctxDone, wire, attempt, text, fresh, starts, earlier>>
    PROVE  IInv'
<1>1. CASE p.refused
  <2> DEFINE r == SSEResult(TRUE, TRUE, FALSE, FALSE)
  <2>1. r \in Report /\ r.ok /\ r.err /\ ~r.failure
    BY ReportType
  <2>2. Judge(r, p) /\ parser' = p
    BY <1>1 DEF Feed
  <2> HIDE DEF r
  <2> QED
    BY <1>1, <2>1, <2>2, JudgeStep
<1>2. CASE ~p.refused
  <2>1. parser' = p /\ UNCHANGED <<pc, result>>
    BY <1>2 DEF Feed
  <2> QED
    BY <1>2, <2>1 DEF IInv, TypeOK, ResultOK, LoopOK, StartsOK, EarlierOK
<1> QED
  BY <1>1, <1>2 DEF Parser

\* Every step keeps the invariant; a stuttering step too.
LEMMA StepIInv == IInv /\ [Next]_vars => IInv'
<1> SUFFICES ASSUME IInv, [Next]_vars PROVE IInv'
  OBVIOUS
<1> USE DEF IInv
<1>1. CASE AskFails
  BY <1>1 DEF AskFails, Return, TypeOK, ResultOK, LoopOK, StartsOK, EarlierOK
<1>2. ASSUME NEW p \in Probability, Classify(p) PROVE IInv'
  BY <1>2 DEF Classify, Return, TypeOK, ResultOK, LoopOK, StartsOK, EarlierOK
<1>3. CASE LoadFails
  BY <1>3 DEF LoadFails, Return, TypeOK, ResultOK, LoopOK, StartsOK, EarlierOK
<1>4. CASE Load
  BY <1>4 DEF Load, TypeOK, ResultOK, LoopOK, StartsOK, EarlierOK, NewParser, Finished
<1>5. CASE Attempt
  BY <1>5 DEF Attempt, TypeOK, ResultOK, LoopOK, StartsOK, EarlierOK, NewParser, Parser, Finish
<1>6. CASE CtxEnds
  BY <1>6 DEF CtxEnds, Return, TypeOK, ResultOK, LoopOK, StartsOK, EarlierOK
<1>7. CASE Wake
  BY <1>7, LimitAssumption DEF Wake, TypeOK, ResultOK, LoopOK, StartsOK, EarlierOK, AttemptsLeft, Finished
<1>8. CASE ConnectFails
  <2> DEFINE r == SSEResult(FALSE, TRUE, FALSE, TRUE)
  <2>1. r \in Report /\ ~r.ok
    BY ReportType
  <2>2. Judge(r, parser)
    BY <1>8 DEF ConnectFails
  <2> HIDE DEF r
  <2> QED
    BY <1>8, <2>1, <2>2, JudgeStep DEF ConnectFails, LoopOK, TypeOK
<1>9. CASE BadStatus
  <2>1. PICK d \in BOOLEAN : Judge(SSEResult(FALSE, FALSE, FALSE, d), parser)
    BY <1>9 DEF BadStatus
  <2> DEFINE r == SSEResult(FALSE, FALSE, FALSE, d)
  <2>2. r \in Report /\ ~r.ok
    BY ReportType
  <2>3. Judge(r, parser)
    BY <2>1
  <2> HIDE DEF r
  <2> QED
    BY <1>9, <2>2, <2>3, JudgeStep DEF BadStatus, LoopOK, TypeOK
<1>10. CASE Headers
  BY <1>10 DEF Headers, TypeOK, ResultOK, LoopOK, StartsOK, EarlierOK, NewParser
<1>11. ASSUME NEW e \in Event, Receive(e) PROVE IInv'
  <2>1. Parse(parser, e) \in Parser
    BY ParseType DEF TypeOK
  <2> QED
    BY <1>11, <2>1, FeedStep DEF Receive
<1>12. ASSUME NEW t \in Piece, ReceiveText(t) PROVE IInv'
  <2>1. TypeOK'
    <3>1. text' \in Seq(Piece) /\ Len(text') = Len(text) + 1 /\ Len(text) \in Nat
      BY <1>12 DEF ReceiveText, TypeOK
    <3>2. Len(text') <= MaxPlan
      BY <1>12, <3>1, LimitAssumption DEF ReceiveText
    <3>3. starts' \subseteq 1 .. Len(text')
      <4>1. starts' \subseteq starts \cup {Len(text) + 1} /\ starts \subseteq 1 .. Len(text)
        BY <1>12 DEF ReceiveText, TypeOK
      <4> QED
        BY <4>1, <3>1
    <3> QED
      <4>1. UNCHANGED <<pc, ctxDone, wire, attempt, parser, result, earlier>> /\ fresh' = FALSE
        BY <1>12 DEF ReceiveText
      <4> QED
        BY <4>1, <3>1, <3>2, <3>3 DEF TypeOK
  <2>2. ResultOK' /\ LoopOK' /\ EarlierOK'
    BY <1>12 DEF ReceiveText, ResultOK, LoopOK, EarlierOK, Finished
  <2>3. /\ text \in Seq(Piece) /\ Len(text) \in Nat /\ starts \subseteq 1 .. Len(text)
        /\ text' = Append(text, t)
    BY <1>12 DEF TypeOK, ReceiveText
  <2>4. text' # <<>>
    BY <2>3
  <2>5. \A i \in 1 .. Len(text) : text'[i] = text[i]
    BY <2>3
  <2>6. text'[Len(text) + 1] = t
    BY <2>3
  <2>7. \A i \in starts' : text'[i] \in Opener
    BY <1>12, <2>3, <2>5, <2>6 DEF ReceiveText, StartsOK
  <2>8. 1 \in starts'
    <3>1. CASE text = <<>>
      BY <3>1, <1>12 DEF ReceiveText, StartsOK
    <3>2. CASE text # <<>>
      BY <3>2, <1>12 DEF ReceiveText, StartsOK
    <3> QED
      BY <3>1, <3>2
  <2>9. StartsOK'
    BY <2>4, <2>7, <2>8 DEF StartsOK
  <2> QED
    BY <2>1, <2>2, <2>9
<1>13. CASE Refuse
  <2>1. [parser EXCEPT !.refused = TRUE] \in Parser
    BY DEF TypeOK, Parser
  <2> QED
    BY <1>13, <2>1, FeedStep DEF Refuse
<1>14. CASE EndOfStream
  <2> DEFINE r == SSEResult(TRUE, FALSE, FALSE, FALSE)
  <2>1. r \in Report /\ r.ok /\ ~r.err
    BY ReportType
  <2>2. Judge(r, parser)
    BY <1>14 DEF EndOfStream
  <2> HIDE DEF r
  <2> QED
    BY <1>14, <2>1, <2>2, JudgeStep DEF EndOfStream, LoopOK, TypeOK
<1>15. CASE Breaks
  <2> DEFINE r == SSEResult(TRUE, TRUE, TRUE, FALSE)
  <2>1. r \in Report /\ r.ok /\ r.failure
    BY ReportType
  <2>2. Judge(r, parser)
    BY <1>15 DEF Breaks
  <2> HIDE DEF r
  <2> QED
    BY <1>15, <2>1, <2>2, JudgeStep DEF Breaks, LoopOK, TypeOK
<1>16. CASE Expire
  BY <1>16 DEF Expire, TypeOK, ResultOK, LoopOK, StartsOK, EarlierOK, Finished, AttemptsLeft
<1>17. CASE UNCHANGED vars
  BY <1>17 DEF vars, TypeOK, ResultOK, LoopOK, StartsOK, EarlierOK, Finished, AttemptsLeft
<1> QED
  BY <1>1, <1>2, <1>3, <1>4, <1>5, <1>6, <1>7, <1>8, <1>9, <1>10, <1>11, <1>12, <1>13,
     <1>14, <1>15, <1>16, <1>17 DEF Next, Step, Answer

\* The invariant holds in every reachable state.
THEOREM Inductive == Spec => []IInv
  BY InitIInv, StepIInv, PTL DEF Spec

\* TypeOK holds in every reachable state; in it, that attempts stay below
\* RetryPolicy.MaxAttempts and the text within its limit.
THEOREM TypeCorrect == Spec => []TypeOK
<1>1. IInv => TypeOK
  BY DEF IInv
<1> QED
  BY <1>1, Inductive, PTL

\* No plan mixes the texts of two attempts: parseSplit accepts one array only, and
\* an attempt that starts anew starts with something that cannot continue one.
THEOREM PlansAreNotSpliced == Spec => []NeverSpliced
<1>1. IInv => NeverSpliced
  <2> SUFFICES ASSUME IInv, result = "plan" PROVE starts = {1}
    BY DEF NeverSpliced
  <2>1. IsPlan(text) /\ starts \subseteq 1 .. Len(text) /\ text \in Seq(Piece)
    BY DEF IInv, ResultOK, TypeOK
  <2>2. 1 \in starts
    BY <2>1 DEF IInv, StartsOK, IsPlan
  <2>3. \A i \in starts : i = 1
    BY <2>1 DEF IInv, StartsOK, IsPlan, Opener
  <2> QED
    BY <2>2, <2>3
<1> QED
  BY <1>1, Inductive, PTL

\* Nothing that a response said which ended badly for good becomes a plan, by itself or
\* through a later attempt.
THEOREM BadResponsesGiveNoPlan == Spec => []NoPlanOfBadResponse
<1>1. IInv => NoPlanOfBadResponse
  <2> SUFFICES ASSUME IInv, result = "plan", NEW p \in earlier \cup {parser}
               PROVE  p.finish \notin {"cut", "failed"} /\ ~p.terminal /\ ~p.refused
    BY DEF NoPlanOfBadResponse
  <2>1. CASE p \in earlier
    BY <2>1 DEF IInv, TypeOK, EarlierOK, Finished
  <2>2. CASE p = parser
    BY <2>2 DEF IInv, ResultOK, LoopOK
  <2> QED
    BY <2>1, <2>2
<1> QED
  BY <1>1, Inductive, PTL

\* RunStreamRetry never repeats a request that was answered or refused.
THEOREM AnswersAreNotAskedForTwice == Spec => OnlyFailuresAreRetried
<1>1. IInv /\ [Next]_vars => [attempt' > attempt => ~Finished(parser) /\ ~parser.refused]_vars
  <2> SUFFICES ASSUME IInv, Next, attempt' > attempt
               PROVE  ~Finished(parser) /\ ~parser.refused
    BY DEF vars
  <2>1. attempt \in Nat
    BY DEF IInv, TypeOK
  <2>2. CASE Wake
    BY <2>2 DEF Wake, IInv, LoopOK
  <2>3. CASE attempt' = attempt
    BY <2>1, <2>3
  <2>4. Wake \/ attempt' = attempt
    BY DEF Next, Step, Answer, AskFails, Classify, LoadFails, Load, Attempt, CtxEnds,
           ConnectFails, BadStatus, Headers, Receive, ReceiveText, Refuse, EndOfStream,
           Breaks, Expire
  <2> QED
    BY <2>2, <2>3, <2>4
<1> QED
  BY <1>1, Inductive, PTL DEF Spec, OnlyFailuresAreRetried
=============================================================================
