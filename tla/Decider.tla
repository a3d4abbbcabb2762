------------------------------ MODULE Decider ------------------------------
(***************************************************************************)
(* The decision loop (decide/decide.go, decide/sequence.go and             *)
(* decide/shortcut.go): PursueSequence pursues the instructions of a plan  *)
(* one after the other, each step gathering the state of the desktop,      *)
(* asking the model for the next action, and running it with the tool.     *)
(*                                                                         *)
(* The tool and the desktop are those of Worker; the desktop changes       *)
(* between any two calls, and so does the worker process.  The model may   *)
(* answer anything.  A goal's wording is abstracted to whether it names    *)
(* text to enter; what the model and the user read next to a token is      *)
(* the object the token stood for when it was listed.                      *)
(***************************************************************************)
EXTENDS Worker

CONSTANTS N,         \* the number of instructions
          WithText,  \* the instructions that name text to enter
          MaxSteps,  \* Decider.maxSteps
          DryRuns    \* the settings of Decider.dryRun considered

ASSUME NAssumption        == N \in Nat \ {0}
ASSUME WithTextAssumption == WithText \subseteq 1 .. N
ASSUME MaxStepsAssumption == MaxSteps \in Nat \ {0}
ASSUME DryRunsAssumption  == DryRuns \subseteq BOOLEAN

VARIABLES
    dryRun,      \* Decider.dryRun
    pc,          \* where PursueSequence is
    instruction, \* tracker.instruction
    number,      \* pursue's loop variable
    budget,      \* pursue's parameter
    recorded,    \* the steps recorded so far, of all instructions
    tracker,     \* the tokens the tracker knows, and what they were said to be
    call,        \* the call about to be made
    cancelled,   \* ctx is done
    outcome,     \* how PursueSequence ended
    meant,       \* history: the object the model chose, as it was described
    last,        \* history: what the last step's call concerned
    fresh,       \* history: a snapshot was read since the instruction began
    affirmed     \* history: instructions affirmed on evidence of their own

worker  == <<process, desktop>>
control == <<dryRun, pc, instruction, number, budget, recorded, call, outcome>>
history == <<meant, last, fresh, affirmed>>
vars    == <<worker, control, tracker, cancelled, history>>

NoCall == [action |-> "apps", app |-> 0, window |-> 0, target |-> 0]

\* A call made, the object it was meant for and the object it concerned.
Did(parsed, for, object) == [parsed |-> parsed, meant |-> for, object |-> object]

NothingDone == Did(TRUE, Nothing, Nothing)

NoTracker == [apps |-> <<>>, wins |-> <<>>, elems |-> <<>>, activeApp |-> 0, scope |-> 0]

TypeOK ==
    /\ WorkerTypeOK
    /\ dryRun \in DryRuns
    /\ pc \in {"begin", "head", "apps", "windows", "refresh", "ask", "execute", "finished"}
    /\ instruction \in 1 .. N
    /\ number \in 1 .. MaxSteps + 1
    /\ budget \in 0 .. MaxSteps
    /\ recorded \in Nat
    /\ DOMAIN tracker = {"apps", "wins", "elems", "activeApp", "scope"}
    /\ \A n \in DOMAIN tracker.apps : n \in Nat /\ tracker.apps[n] \in App
    /\ \A n \in DOMAIN tracker.wins : n \in Nat /\ tracker.wins[n] \in Win
    /\ \A n \in DOMAIN tracker.elems : n \in Nat /\ tracker.elems[n] \in Win \cup Elem
    /\ tracker.activeApp \in Nat
    /\ tracker.scope \in Nat
    /\ call \in Call
    /\ cancelled \in BOOLEAN
    /\ outcome \in {"none", "done", "stopped", "error"}
    /\ meant \in Object \cup {Nothing}
    /\ last \in [parsed : BOOLEAN, meant : Object \cup {Nothing},
                 object : Object \cup {Nothing}]
    /\ fresh \in BOOLEAN
    /\ affirmed \in 0 .. N

Init ==
    /\ WorkerInit
    /\ dryRun \in DryRuns
    /\ pc = "begin"
    /\ instruction = 1
    /\ number = 1
    /\ budget = 0
    /\ recorded = 0
    /\ tracker = NoTracker
    /\ call = NoCall
    /\ cancelled = FALSE
    /\ outcome = "none"
    /\ meant = Nothing
    /\ last = NothingDone
    /\ fresh = FALSE
    /\ affirmed = 0

-----------------------------------------------------------------------------
(* The loops *)

\* PursueSequence returns, and its tracker is gone.
Finish(result) ==
    /\ pc' = "finished"
    /\ outcome' = result
    /\ tracker' = NoTracker

\* Mutant: every instruction gets the whole budget.
RemainingWhole == MaxSteps

Remaining == MaxSteps - recorded

\* The first token of the last snapshot, its root's if that was in the text.
FirstElem == IF DOMAIN tracker.elems = {} THEN 0 ELSE Min(DOMAIN tracker.elems)

\* PursueSequence, at the head of its loop: the next instruction starts with a
\* new tracker, which only inherits the application referenced last and the
\* first element of the last snapshot.
Begin ==
    /\ pc = "begin"
    /\ ~cancelled
    /\ Remaining > 0
    /\ budget' = Remaining
    /\ number' = 1
    /\ tracker' = [NoTracker EXCEPT !.activeApp = tracker.activeApp,
                                    !.scope = FirstElem]
    /\ pc' = "head"
    /\ fresh' = FALSE
    /\ UNCHANGED <<worker, dryRun, instruction, recorded, call, outcome, cancelled, meant, last,
                   affirmed>>

\* Mutant: one step too many.
LoopOffByOne ==
    /\ pc = "head"
    /\ ~cancelled
    /\ number <= budget + 1
    /\ pc' = IF dryRun THEN "ask" ELSE "apps"
    /\ last' = NothingDone
    /\ UNCHANGED <<worker, dryRun, instruction, number, budget, recorded, call, outcome, tracker,
                   cancelled, meant, fresh, affirmed>>

\* pursue, at the head of its loop.
Loop ==
    /\ pc = "head"
    /\ ~cancelled
    /\ number <= budget
    /\ pc' = IF dryRun THEN "ask" ELSE "apps"
    /\ last' = NothingDone
    /\ UNCHANGED <<worker, dryRun, instruction, number, budget, recorded, call, outcome, tracker,
                   cancelled, meant, fresh, affirmed>>

\* Either loop ends: the context is done or the steps are used up.
GiveUp ==
    /\ \/ pc = "begin" /\ (cancelled \/ Remaining <= 0)
       \/ pc = "head" /\ (cancelled \/ number > budget)
    /\ Finish("error")
    /\ UNCHANGED <<worker, dryRun, instruction, number, budget, recorded, call, cancelled,
                   history>>

-----------------------------------------------------------------------------
(* Gathering the state of the desktop *)

\* Mutant: observeSnapshot keeps the tokens it knows already.
RefreshMerging(t, c, reply) ==
    LET u == IF c.app = 0 THEN t ELSE [t EXCEPT !.activeApp = c.app] IN
    IF ~reply.ok THEN u
    ELSE CASE c.action = "apps"     -> [u EXCEPT !.apps = reply.listing]
           [] c.action = "windows"  -> [u EXCEPT !.wins = reply.listing]
           [] c.action = "snapshot" -> [u EXCEPT !.elems = @ @@ reply.listing]
           [] OTHER                 -> u

\* tracker.refresh: the application is referenced even if the call fails; the
\* tokens are replaced by those of a listing that succeeds.  They are found in the
\* printed text by their form; it is assumed that no text on the screen has it.
Refresh(t, c, reply) ==
    LET u == IF c.app = 0 THEN t ELSE [t EXCEPT !.activeApp = c.app] IN
    IF ~reply.ok THEN u
    ELSE CASE c.action = "apps"     -> [u EXCEPT !.apps = reply.listing]
           [] c.action = "windows"  -> [u EXCEPT !.wins = reply.listing]
           [] c.action = "snapshot" -> [u EXCEPT !.elems = reply.listing]
           [] OTHER                 -> u

\* Mutant: the snapshot of the instruction before is evidence enough.
RefreshUnscoped == number = 1 /\ instruction > 1 /\ tracker.scope = 0

\* A later instruction first looks at the desktop again.
RefreshNeeded == number = 1 /\ instruction > 1

AfterGather == IF RefreshNeeded THEN "refresh" ELSE "ask"

\* gather, its first call: the running applications.
GatherApps ==
    /\ pc = "apps"
    /\ \E reply \in Replies(NoCall) :
         /\ Serve(NoCall, reply)
         /\ tracker' = Refresh(tracker, NoCall, reply)
    /\ pc' = IF tracker.activeApp # 0 THEN "windows" ELSE AfterGather
    /\ UNCHANGED <<dryRun, instruction, number, budget, recorded, call, outcome, cancelled,
                   history>>

\* gather, its second call: the windows of the application referenced last.
GatherWindows ==
    LET c == [NoCall EXCEPT !.action = "windows", !.app = tracker.activeApp] IN
    /\ pc = "windows"
    /\ \E reply \in Replies(c) :
         /\ Serve(c, reply)
         /\ tracker' = Refresh(tracker, c, reply)
    /\ pc' = AfterGather
    /\ UNCHANGED <<dryRun, instruction, number, budget, recorded, call, outcome, cancelled,
                   history>>

SnapshotCall == [NoCall EXCEPT !.action = "snapshot"]

\* The snapshot with which a later instruction starts: of the first
\* element of the previous snapshot, else of a window of the application
\* referenced last (focused, main or else the first; never a minimized one),
\* else of whatever is frontmost.
RefreshCalls ==
    IF tracker.scope # 0 THEN {[SnapshotCall EXCEPT !.target = tracker.scope]}
    ELSE IF tracker.activeApp = 0 THEN {SnapshotCall}
    ELSE {[SnapshotCall EXCEPT !.window = w] : w \in DOMAIN tracker.wins}

\* refreshInstruction succeeds.
RefreshInstruction ==
    /\ pc = "refresh"
    /\ tracker.scope # 0 \/ tracker.activeApp = 0 \/ tracker.activeApp \in DOMAIN tracker.apps
    /\ \E c \in RefreshCalls : \E reply \in Replies(c) :
         /\ reply.ok
         /\ Serve(c, reply)
         /\ tracker' = Refresh(tracker, c, reply)
    /\ fresh' = TRUE
    /\ pc' = "ask"
    /\ UNCHANGED <<dryRun, instruction, number, budget, recorded, call, outcome, cancelled, meant,
                   last, affirmed>>

\* The application's token is not listed any more, or all of its windows are
\* minimized, or it has none: the instruction fails before any call.
RefreshImpossible ==
    /\ pc = "refresh"
    /\ tracker.scope = 0
    /\ tracker.activeApp # 0
    /\ Finish("error")
    /\ UNCHANGED <<worker, dryRun, instruction, number, budget, recorded, call, cancelled,
                   history>>

\* The snapshot fails, and the instruction with it.
RefreshFails ==
    /\ pc = "refresh"
    /\ \E c \in RefreshCalls : \E reply \in Replies(c) : ~reply.ok /\ Serve(c, reply)
    /\ Finish("error")
    /\ UNCHANGED <<dryRun, instruction, number, budget, recorded, call, cancelled, history>>

-----------------------------------------------------------------------------
(* Deciding *)

Token(kind, n) == [kind |-> kind, n |-> n]

NoToken  == Token("none", 0)
Invented == Token("none", 1)

NeedsText   == {"fill", "type"}
NeedsTarget == {"windows", "activate", "click", "fill", "type", "press"}

\* tracker.tokens
Tokens ==
    {Token("a", n) : n \in DOMAIN tracker.apps}
      \cup {Token("w", n) : n \in DOMAIN tracker.wins}
      \cup {Token("e", n) : n \in DOMAIN tracker.elems}

\* tokenMatchesAction
Matches(t, action) ==
    \/ t.kind = "e" /\ action \in {"click", "fill", "type", "snapshot"}
    \/ t.kind = "w" /\ action \in {"activate", "snapshot", "screenshot", "windows"}
    \/ t.kind = "a" /\ action \in {"activate", "press", "windows"}

\* The target the model ends up with.  Its answer may be missing, or be a token
\* it was not offered; a token that exists but does not fit the action makes
\* pursue ask again, for tokens of one kind, and then the same goes for that
\* answer.
Answers == Tokens \cup {NoToken, Invented}

Unusable(action, t) ==
    \/ t # NoToken /\ (t \notin Tokens \/ ~Matches(t, action))
    \/ action \in NeedsTarget /\ t = NoToken

\* actionArgs, appToken and windowToken
ActionArgs(action, t) ==
    [action |-> action,
     app    |-> IF action \in {"windows", "press"} \/ (action = "activate" /\ t.kind # "w")
                THEN IF t.kind = "a" THEN t.n ELSE tracker.activeApp
                ELSE 0,
     window |-> IF action \in {"activate", "snapshot", "screenshot"} /\ t.kind = "w"
                THEN t.n ELSE 0,
     target |-> IF action \in {"click", "fill", "type"} THEN t.n ELSE 0]

\* The actions with their targets that the goal allows.
Decisions ==
    {action \in Actions : action \in NeedsText => instruction \in WithText} \X Answers

Usable == {d \in Decisions : ~Unusable(d[1], d[2])}

\* What the tokens of a call were described as.
Described(c) ==
    IF c.target # 0 THEN tracker.elems[c.target]
    ELSE IF c.window # 0 THEN tracker.wins[c.window]
    ELSE IF c.app \in DOMAIN tracker.apps \ {0} THEN tracker.apps[c.app]
    ELSE Nothing

\* The request fails (a context that is done makes it fail), it has no usable
\* action answer, or the second request fails: nothing is recorded.
AskFails ==
    /\ pc = "ask"
    /\ Finish("error")
    /\ UNCHANGED <<worker, dryRun, instruction, number, budget, recorded, call, cancelled,
                   history>>

\* The goal is reported satisfied, whatever action was chosen.
Satisfied ==
    /\ pc = "ask"
    /\ ~cancelled
    /\ recorded' = recorded + 1
    /\ affirmed' = IF instruction = 1 \/ fresh THEN affirmed + 1 ELSE affirmed
    /\ IF dryRun THEN Finish("stopped") /\ UNCHANGED instruction
       ELSE IF instruction = N THEN Finish("done") /\ UNCHANGED instruction
       ELSE /\ pc' = "begin"
            /\ instruction' = instruction + 1
            /\ UNCHANGED <<outcome, tracker>>
    /\ UNCHANGED <<worker, dryRun, number, budget, call, cancelled, meant, last, fresh>>

\* A step is recorded and the loop left: the model chose done but did not affirm
\* the goal; it is not sure of an action that changes something; the goal names
\* no text to enter; or no shortcut is named or chosen with confidence.
Escalate ==
    /\ pc = "ask"
    /\ ~cancelled
    /\ recorded' = recorded + 1
    /\ Finish("error")
    /\ UNCHANGED <<worker, dryRun, instruction, number, budget, call, cancelled, history>>

\* No usable target: a snapshot is taken instead, in a dry run too.
Observe ==
    /\ pc = "ask"
    /\ ~cancelled
    /\ Usable # Decisions
    /\ call' = SnapshotCall
    /\ meant' = Nothing
    /\ pc' = "execute"
    /\ UNCHANGED <<worker, dryRun, instruction, number, budget, recorded, outcome, tracker,
                   cancelled, last, fresh, affirmed>>

\* The action and its target are accepted.
Choose ==
    /\ pc = "ask"
    /\ ~cancelled
    /\ ~dryRun
    /\ \E c \in {ActionArgs(d[1], d[2]) : d \in Usable} :
         /\ call' = c
         /\ meant' = Described(c)
    /\ pc' = "execute"
    /\ UNCHANGED <<worker, dryRun, instruction, number, budget, recorded, outcome, tracker,
                   cancelled, last, fresh, affirmed>>

\* The same in a dry run: the decision is recorded, and that is all.
ChooseDry ==
    /\ pc = "ask"
    /\ ~cancelled
    /\ dryRun
    /\ Usable # {}
    /\ recorded' = recorded + 1
    /\ Finish("stopped")
    /\ UNCHANGED <<worker, dryRun, instruction, number, budget, call, cancelled, history>>

-----------------------------------------------------------------------------
(* Acting *)

\* Mutant: a failed call is made again and counts only once it succeeds.
ExecuteRetrying ==
    /\ pc = "execute"
    /\ \E reply \in Replies(call) :
         /\ Serve(call, reply)
         /\ tracker' = Refresh(tracker, call, reply)
         /\ last' = Did(Parses(call), meant, reply.object)
         /\ fresh' = (fresh \/ (call.action = "snapshot" /\ reply.ok))
         /\ recorded' = IF reply.ok THEN recorded + 1 ELSE recorded
         /\ number' = IF reply.ok THEN number + 1 ELSE number
    /\ pc' = "head"
    /\ call' = NoCall
    /\ meant' = Nothing
    /\ UNCHANGED <<dryRun, instruction, budget, outcome, cancelled, affirmed>>

\* execute: the call is made with a context of its own, whatever its outcome it
\* is recorded, and the loop goes on.
Execute ==
    /\ pc = "execute"
    /\ \E reply \in Replies(call) :
         /\ Serve(call, reply)
         /\ tracker' = Refresh(tracker, call, reply)
         /\ last' = Did(Parses(call), meant, reply.object)
         /\ fresh' = (fresh \/ (call.action = "snapshot" /\ reply.ok))
    /\ recorded' = recorded + 1
    /\ number' = number + 1
    /\ pc' = "head"
    /\ call' = NoCall
    /\ meant' = Nothing
    /\ UNCHANGED <<dryRun, instruction, budget, outcome, cancelled, affirmed>>

Cancel ==
    /\ pc # "finished"
    /\ ~cancelled
    /\ cancelled' = TRUE
    /\ UNCHANGED <<worker, control, tracker, history>>

DeciderStep ==
    \/ Begin \/ Loop \/ GiveUp
    \/ GatherApps \/ GatherWindows
    \/ RefreshInstruction \/ RefreshImpossible \/ RefreshFails
    \/ AskFails \/ Satisfied \/ Escalate \/ Observe \/ Choose \/ ChooseDry
    \/ Execute

\* The desktop changes at any time; only the calls read it, so a change made
\* earlier is as good as one made just before the next call.
DesktopChanges ==
    /\ pc \in {"apps", "windows", "refresh", "execute"}
    /\ DesktopStep
    /\ UNCHANGED <<control, tracker, cancelled, history>>

Next == DeciderStep \/ Cancel \/ DesktopChanges

Spec == Init /\ [][Next]_vars

\* The call to be made carries text or keys of the goal, whose length nothing bounds:
\* if the worker has stopped reading and they do not fit the pipe, the call never
\* returns (ComputerUse!Blocked), and cancelling does not end it, for execute passes no
\* context on.
MayBlock == pc = "execute" /\ call.action \in NeedsText \cup {"press"}

\* The program goes on unless such a call blocks: the client of the model has a timeout
\* of 60 seconds, and any other call of the tool fits the pipe and returns, with
\* whatever answer.
FairSpec == Spec /\ WF_vars(DeciderStep /\ ~MayBlock)

-----------------------------------------------------------------------------
(* Correctness *)

\* The tables of a worker and a tracker agree: a token in both of them stands for
\* the same object.
Agree(p, t) ==
    /\ \A n \in DOMAIN t.apps \cap DOMAIN p.apps : t.apps[n] = p.apps[n]
    /\ \A n \in DOMAIN t.wins \cap DOMAIN p.wins : t.wins[n] = p.wins[n]
    /\ \A n \in DOMAIN t.elems \cap DOMAIN p.elems : t.elems[n] = p.elems[n]

\* A token known to both the tracker and the worker stands for the same object,
\* however the desktop changed and however often the worker was restarted since
\* it was listed.
TokensAgree == process # Nothing => Agree(process, tracker)

\* A step acts on the object the model chose, as it was described to it when it
\* chose, or on nothing.
ActsOnWhatWasShown ==
    last.meant # Nothing /\ last.object # Nothing => last.object = last.meant

\* -max-steps is "a total budget across all instructions".
BudgetRespected == recorded <= MaxSteps

\* The plan is reported done only if each instruction was affirmed, each one
\* after the first on a snapshot read since it began ("fresh completion
\* evidence instead of reusing earlier success").
DoneIsEvidenced == outcome = "done" => affirmed = N

\* Whatever the model answers and the desktop does, PursueSequence returns, unless a
\* call that carries text or keys never does: nothing else keeps the loop waiting or going.
PursueReturnsUnlessBlocked == <>(pc = "finished") \/ <>[]MayBlock

\* "WithDryRun makes the decider report the decision it would take without running
\* the tool": in a dry run PursueSequence is never where its next step is to run it.
DryRunRunsNoTool == dryRun => pc \notin {"apps", "windows", "refresh", "execute"}

\* The calls the decider builds of an action and a token it has checked are
\* calls the tool accepts.
WellFormedCalls == last.parsed

\* gather lists "the windows of the most recently referenced application": the
\* token the tracker refers to it by goes on standing for that application.
ActiveAppKeepsItsMeaning ==
    [][\A n \in DOMAIN tracker.apps \cap DOMAIN tracker'.apps :
         n = tracker.activeApp => tracker'.apps[n] = tracker.apps[n]]_vars
=============================================================================
