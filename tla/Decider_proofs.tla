-------------------------- MODULE Decider_proofs --------------------------
(***************************************************************************)
(* A step of the decision loop acts on what the model was shown, for every *)
(* desktop, plan and step budget.                                          *)
(*                                                                         *)
(* The argument is that of TokensAgree: what a handler of the worker does  *)
(* to its token tables and what the tracker makes of the reply go          *)
(* together, whether the call succeeds, fails or loses the worker.         *)
(***************************************************************************)
EXTENDS Decider, TLAPS, FiniteSetTheorems, WellFoundedInduction

\* The worker's tables and the tracker are the records they are meant to be.
TablesShape(p) == DOMAIN p = {"apps", "wins", "nextWin", "elems"}

Shape ==
    /\ process # Nothing => TablesShape(process)
    /\ DOMAIN tracker = {"apps", "wins", "elems", "activeApp", "scope"}

\* The tables the next call is handled with.
Tables == IF process = Nothing THEN Fresh ELSE process

-----------------------------------------------------------------------------
(* One call *)

\* A fresh worker knows no token, so it agrees with any tracker.
LEMMA TablesAgree ==
    ASSUME Shape, TokensAgree
    PROVE  TablesShape(Tables) /\ Agree(Tables, tracker)
  BY DEF Shape, TokensAgree, Tables, Fresh, TablesShape, Agree

\* A call that leaves the tables alone and lists nothing.
LEMMA UntouchedAgree ==
    ASSUME NEW c, NEW p, NEW r, NEW t, TablesShape(p), Agree(p, t),
           DOMAIN t = {"apps", "wins", "elems", "activeApp", "scope"},
           r.process = p, ~r.ok \/ c.action \notin {"apps", "windows", "snapshot"}
    PROVE  TablesShape(r.process) /\ Agree(r.process, Refresh(t, c, r))
  BY DEF Refresh, TablesShape, Agree

\* The listing of applications is the table it was made from.
LEMMA AppsAgree ==
    ASSUME NEW c, c.action = "apps", NEW p, NEW r \in Apps(p), NEW t,
           TablesShape(p), Agree(p, t),
           DOMAIN t = {"apps", "wins", "elems", "activeApp", "scope"}
    PROVE  TablesShape(r.process) /\ Agree(r.process, Refresh(t, c, r))
<1>1. PICK apps : r = Reply([p EXCEPT !.apps = apps], TRUE, Nothing, FALSE, AppListing(apps))
  BY DEF Apps, TablesShape
<1> QED
  BY <1>1 DEF AppListing, Reply, Refresh, TablesShape, Agree

\* observeWindows replaces the windows and nothing else.
LEMMA WindowsFolded ==
    ASSUME NEW c, c.action = "windows", NEW r, r.ok, NEW t,
           DOMAIN t = {"apps", "wins", "elems", "activeApp", "scope"}
    PROVE  LET u == Refresh(t, c, r)
           IN u.wins = r.listing /\ u.apps = t.apps /\ u.elems = t.elems
<1> DEFINE u == IF c.app = 0 THEN t ELSE [t EXCEPT !.activeApp = c.app]
<1>1. /\ DOMAIN u = {"apps", "wins", "elems", "activeApp", "scope"}
      /\ u.apps = t.apps /\ u.elems = t.elems
  OBVIOUS
<1>2. Refresh(t, c, r) = [u EXCEPT !.wins = r.listing]
  BY DEF Refresh
<1> QED
  BY <1>1, <1>2

\* The new windows are those listed, if the listing succeeds.
LEMMA WindowsAgree ==
    ASSUME NEW c, c.action = "windows", NEW p, NEW n, NEW r \in Windows(p, n), NEW t,
           TablesShape(p), Agree(p, t),
           DOMAIN t = {"apps", "wins", "elems", "activeApp", "scope"}
    PROVE  TablesShape(r.process) /\ Agree(r.process, Refresh(t, c, r))
<1>1. CASE r = Failure(p)
  BY <1>1, UntouchedAgree DEF Failure, Reply
<1>2. CASE r # Failure(p)
  <2>1. PICK wins, top : r = Reply([p EXCEPT !.wins = wins, !.nextWin = top],
                                    TRUE, p.apps[n], FALSE, wins)
    BY <1>2 DEF Windows
  <2>2. /\ TablesShape(r.process) /\ r.process.wins = wins
        /\ r.process.apps = p.apps /\ r.process.elems = p.elems
    BY <2>1 DEF Reply, TablesShape
  <2>3. r.ok /\ r.listing = wins
    BY <2>1 DEF Reply
  <2>4. /\ Refresh(t, c, r).wins = wins
        /\ Refresh(t, c, r).apps = t.apps /\ Refresh(t, c, r).elems = t.elems
    BY <2>3, WindowsFolded
  <2> QED
    BY <2>2, <2>4 DEF Agree
<1> QED
  BY <1>1, <1>2

\* The text of a snapshot shows the new table of elements, or all but its last.
LEMMA SnapshotAgrees ==
    ASSUME NEW c, c.action = "snapshot", NEW p, NEW m, NEW e,
           NEW r \in Snapshot(p, m, e), NEW t, TablesShape(p), Agree(p, t),
           DOMAIN t = {"apps", "wins", "elems", "activeApp", "scope"}
    PROVE  TablesShape(r.process) /\ Agree(r.process, Refresh(t, c, r))
<1>1. CASE r = Failure(p)
  BY <1>1, UntouchedAgree DEF Failure, Reply
<1>2. CASE r # Failure(p)
  <2>0. PICK root \in Roots(p, m, e) :
            r \in UNION {Shown(p, root, elems) : elems \in Walks(root)}
    BY <1>2 DEF Snapshot
  <2>1. PICK elems \in Walks(root) : r \in Shown(p, root, elems)
    BY <2>0
  <2>2. PICK text \in Texts(elems) :
                              r = Reply([p EXCEPT !.elems = elems], TRUE, root, FALSE, text)
    BY <2>1, Zenon DEF Shown
  <2>3. \A n \in DOMAIN text \cap DOMAIN elems : text[n] = elems[n]
    BY DEF Texts
  <2> QED
    BY <2>2, <2>3 DEF Reply, Refresh, TablesShape, Agree
<1> QED
  BY <1>1, <1>2

\* A reply that succeeds is folded into the tracker as its handler left the
\* tables; one that fails leaves both as they were.
LEMMA HandledAgree ==
    ASSUME NEW c, c.action \in Actions, NEW p, NEW r \in Dispatch(p, c), NEW t,
           TablesShape(p), Agree(p, t),
           DOMAIN t = {"apps", "wins", "elems", "activeApp", "scope"}
    PROVE  TablesShape(r.process) /\ Agree(r.process, Refresh(t, c, r))
<1>1. CASE c.action = "apps"
  <2>1. r \in Apps(p)
    BY <1>1 DEF Dispatch
  <2> QED
    BY <1>1, <2>1, AppsAgree
<1>2. CASE c.action = "windows"
  <2>1. r \in Windows(p, c.app)
    BY <1>2 DEF Dispatch
  <2> QED
    BY <1>2, <2>1, WindowsAgree
<1>3. CASE c.action = "snapshot"
  <2>1. r \in Snapshot(p, c.window, c.target)
    BY <1>3 DEF Dispatch
  <2> QED
    BY <1>3, <2>1, SnapshotAgrees
<1>4. CASE c.action \notin {"apps", "windows", "snapshot"}
  <2>1. r.process = p
    BY <1>4 DEF Dispatch, Activate, Operate, Press, Screenshot, Mutation, Actions,
                Reply, Failure
  <2> QED
    BY <1>4, <2>1, UntouchedAgree
<1> QED
  BY <1>1, <1>2, <1>3, <1>4

\* A call leaves the worker, if there still is one, in agreement with the tracker
\* that has folded its reply.
LEMMA CalledAgrees ==
    ASSUME Shape, TokensAgree, NEW c, c.action \in Actions, NEW r \in Replies(c)
    PROVE  r.process # Nothing =>
               TablesShape(r.process) /\ Agree(r.process, Refresh(tracker, c, r))
<1> SUFFICES ASSUME r.process # Nothing
             PROVE  TablesShape(r.process) /\ Agree(r.process, Refresh(tracker, c, r))
  OBVIOUS
<1>1. CASE ~Parses(c)
  <2>1. r.process = process /\ ~r.ok
    BY <1>1 DEF Replies, Failure, Reply
  <2> QED
    BY <2>1, UntouchedAgree DEF Shape, TokensAgree
<1>2. CASE Parses(c)
  <2>1. r \in Dispatch(Tables, c)
    <3> DEFINE D == Dispatch(Tables, c)
    <3>1. Replies(c) = D \cup {Reply(Nothing, FALSE, q.object, q.acted, <<>>) : q \in D}
                         \cup {Failure(Nothing)}
      BY <1>2, Zenon DEF Replies, Tables
    <3> HIDE DEF D
    <3>2. \/ r \in D
          \/ \E q \in D : r = Reply(Nothing, FALSE, q.object, q.acted, <<>>)
          \/ r = Failure(Nothing)
      BY <3>1
    <3>3. ~(\E q \in D : r = Reply(Nothing, FALSE, q.object, q.acted, <<>>))
      BY DEF Reply
    <3>4. r # Failure(Nothing)
      BY DEF Failure, Reply
    <3> QED
      BY <3>2, <3>3, <3>4 DEF D
  <2> QED
    BY <2>1, TablesAgree, HandledAgree DEF Shape
<1> QED
  BY <1>1, <1>2

\* Folding a reply keeps the tracker a record of the same fields.
LEMMA RefreshShape ==
    ASSUME NEW t, NEW c, NEW r, DOMAIN t = {"apps", "wins", "elems", "activeApp", "scope"}
    PROVE  DOMAIN Refresh(t, c, r) = {"apps", "wins", "elems", "activeApp", "scope"}
  BY DEF Refresh

-----------------------------------------------------------------------------
(* Every step *)

IInv == Shape /\ TokensAgree /\ call.action \in Actions

\* A call made with the tracker's knowledge, and its reply folded, keeps the
\* invariant.
LEMMA ServedAgree ==
    ASSUME IInv, NEW c, c.action \in Actions, NEW r, Serve(c, r),
           tracker' = Refresh(tracker, c, r) \/ tracker' = NoTracker
    PROVE  Shape' /\ TokensAgree'
<1>1. r \in Replies(c) /\ process' = r.process
  BY DEF Serve
<1>2. process' # Nothing =>
          TablesShape(process') /\ Agree(process', Refresh(tracker, c, r))
  BY <1>1, CalledAgrees DEF IInv
<1>3. CASE tracker' = Refresh(tracker, c, r)
  BY <1>2, <1>3, RefreshShape DEF IInv, Shape, TokensAgree, TablesShape
<1>4. CASE tracker' = NoTracker
  BY <1>2, <1>4 DEF Shape, TokensAgree, TablesShape, NoTracker, Agree
<1> QED
  BY <1>3, <1>4

\* The tracker an instruction starts with.
Inherited(t) == \E n, m : t = [NoTracker EXCEPT !.activeApp = n, !.scope = m]

\* A step without a call only ever forgets tokens.
LEMMA ForgottenAgree ==
    ASSUME IInv, UNCHANGED process,
           UNCHANGED tracker \/ tracker' = NoTracker \/ Inherited(tracker')
    PROVE  Shape' /\ TokensAgree'
<1>1. CASE UNCHANGED tracker
  BY <1>1 DEF IInv, Shape, TokensAgree, TablesShape, Agree
<1>2. CASE tracker' = NoTracker
  BY <1>2 DEF IInv, Shape, TablesShape, NoTracker, TokensAgree, Agree
<1>3. CASE Inherited(tracker')
  <2>1. PICK n, m : tracker' = [NoTracker EXCEPT !.activeApp = n, !.scope = m]
    BY <1>3 DEF Inherited
  <2>2. /\ DOMAIN tracker' = {"apps", "wins", "elems", "activeApp", "scope"}
        /\ tracker'.apps = <<>> /\ tracker'.wins = <<>> /\ tracker'.elems = <<>>
    BY <2>1 DEF NoTracker
  <2> QED
    BY <2>2 DEF IInv, Shape, TablesShape, TokensAgree, Agree
<1> QED
  BY <1>1, <1>2, <1>3

\* The loop starts with no tokens and no worker.
LEMMA InitEstablishes == Init => IInv
  BY DEF Init, WorkerInit, IInv, Shape, TokensAgree, NoTracker, NoCall, Actions

\* Every step keeps what the tracker knows in agreement with the worker.
LEMMA StepPreserves == IInv /\ [Next]_vars => IInv'
<1> SUFFICES ASSUME IInv, [Next]_vars PROVE IInv'
  OBVIOUS
<1> USE DEF IInv
<1>1. CASE Begin
  <2>1. Inherited(tracker')
    BY <1>1 DEF Begin, Inherited
  <2> QED
    BY <1>1, <2>1, ForgottenAgree DEF Begin, worker
<1>2. CASE Loop
  BY <1>2, ForgottenAgree DEF Loop, worker
<1>3. CASE GiveUp
  BY <1>3, ForgottenAgree DEF GiveUp, Finish, worker
<1>4. CASE GatherApps
  <2>1. PICK r : Serve(NoCall, r) /\ tracker' = Refresh(tracker, NoCall, r)
    BY <1>4 DEF GatherApps
  <2>2. NoCall.action \in Actions
    BY DEF NoCall, Actions
  <2> QED
    BY <1>4, <2>1, <2>2, ServedAgree DEF GatherApps
<1>5. CASE GatherWindows
  <2> DEFINE c == [NoCall EXCEPT !.action = "windows", !.app = tracker.activeApp]
  <2>1. PICK r : Serve(c, r) /\ tracker' = Refresh(tracker, c, r)
    BY <1>5 DEF GatherWindows
  <2>2. c.action \in Actions
    BY DEF NoCall, Actions
  <2> HIDE DEF c
  <2> QED
    BY <1>5, <2>1, <2>2, ServedAgree DEF GatherWindows
<1>6. \A c \in RefreshCalls : c.action \in Actions
  BY DEF RefreshCalls, SnapshotCall, NoCall, Actions
<1>7. CASE RefreshInstruction
  <2>1. PICK c \in RefreshCalls : \E r : Serve(c, r) /\ tracker' = Refresh(tracker, c, r)
    BY <1>7 DEF RefreshInstruction
  <2>2. PICK r : Serve(c, r) /\ tracker' = Refresh(tracker, c, r)
    BY <2>1
  <2> QED
    BY <1>6, <1>7, <2>2, ServedAgree DEF RefreshInstruction
<1>8. CASE RefreshImpossible
  BY <1>8, ForgottenAgree DEF RefreshImpossible, Finish, worker
<1>9. CASE RefreshFails
  <2>1. PICK c \in RefreshCalls : \E r : Serve(c, r)
    BY <1>9 DEF RefreshFails
  <2>2. PICK r : Serve(c, r)
    BY <2>1
  <2> QED
    BY <1>6, <1>9, <2>2, ServedAgree DEF RefreshFails, Finish
<1>10. CASE AskFails
  BY <1>10, ForgottenAgree DEF AskFails, Finish, worker
<1>11. CASE Satisfied
  BY <1>11, ForgottenAgree DEF Satisfied, Finish, worker
<1>12. CASE Escalate
  BY <1>12, ForgottenAgree DEF Escalate, Finish, worker
<1>13. CASE Observe
  BY <1>13, ForgottenAgree DEF Observe, SnapshotCall, NoCall, Actions, worker
<1>14. CASE Choose
  <2>1. call'.action \in Actions
    BY <1>14 DEF Choose, Usable, Decisions, ActionArgs
  <2> QED
    BY <1>14, <2>1, ForgottenAgree DEF Choose, worker
<1>15. CASE ChooseDry
  BY <1>15, ForgottenAgree DEF ChooseDry, Finish, worker
<1>16. CASE Execute
  <2>1. PICK r : Serve(call, r) /\ tracker' = Refresh(tracker, call, r)
    BY <1>16 DEF Execute
  <2> QED
    BY <1>16, <2>1, ServedAgree DEF Execute, NoCall, Actions
<1>17. CASE Cancel
  BY <1>17, ForgottenAgree DEF Cancel, worker, control
<1>18. CASE DesktopChanges
  BY <1>18, ForgottenAgree
     DEF DesktopChanges, DesktopStep, Quit, Launch, CloseWindow, ToFront, control
<1>19. CASE UNCHANGED vars
  BY <1>19, ForgottenAgree DEF vars, worker, control
<1> QED
  BY <1>1, <1>2, <1>3, <1>4, <1>5, <1>7, <1>8, <1>9, <1>10, <1>11, <1>12, <1>13, <1>14,
     <1>15, <1>16, <1>17, <1>18, <1>19 DEF Next, DeciderStep

\* The worker and the loop agree on what every token both of them know stands
\* for, for any desktop, plan, budget, crashes and restarts.
THEOREM TokensKeepTheirMeaning == Spec => []TokensAgree
<1>1. IInv => TokensAgree
  BY DEF IInv
<1> QED
  BY InitEstablishes, StepPreserves, <1>1, PTL DEF Spec

-----------------------------------------------------------------------------
(* What a step acts on *)

\* The call names one object, which the tracker knows, or none.
OneObject(c) ==
    /\ c.target # 0 => c.target \in DOMAIN tracker.elems /\ c.action \in {"click", "fill", "type"}
    /\ c.window # 0 => c.window \in DOMAIN tracker.wins /\ c.app = 0

\* A call on its way to the tool names what the model chose.
ChosenIsNamed == pc = "execute" /\ meant # Nothing => meant = Described(call) /\ OneObject(call)

\* A handler acts on the entry its argument has in the tables.
LEMMA HandlerActsOnEntry ==
    ASSUME NEW c, c.action \in Actions, Parses(c), OneObject(c), NEW p, NEW q \in Dispatch(p, c),
           Agree(p, tracker), q.object # Nothing, Described(c) # Nothing
    PROVE  q.object = Described(c)
<1>1. CASE c.action \in {"click", "fill", "type"}
  <2>1. q \in Operate(p, c.action, c.target)
    BY <1>1 DEF Dispatch
  <2>2. c.target \in DOMAIN p.elems /\ q.object = p.elems[c.target]
    BY <2>1 DEF Operate, ElemResolves, Mutation, Failure, Reply
  <2>3. c.target # 0
    BY <1>1 DEF Parses, Requires
  <2> QED
    BY <2>2, <2>3 DEF Described, OneObject, Agree
<1>2. CASE c.action \in {"windows", "press", "activate"}
  <2>1. c.app # 0
    BY <1>2 DEF Parses, Requires
  <2>2. c.target = 0 /\ c.window = 0
    BY <1>2, <2>1 DEF OneObject
  <2>3. c.app \in DOMAIN tracker.apps /\ Described(c) = tracker.apps[c.app]
    BY <2>1, <2>2 DEF Described
  <2>4. c.app \in DOMAIN p.apps /\ q.object = p.apps[c.app]
    <3>1. CASE c.action = "windows"
      <4>1. q \in Windows(p, c.app)
        BY <3>1 DEF Dispatch
      <4>2. AppResolves(p, c.app) /\ q.object = p.apps[c.app]
        <5>1. q # Failure(p)
          BY DEF Failure, Reply
        <5>2. PICK wins, top : /\ q = Reply([p EXCEPT !.wins = wins, !.nextWin = top],
                                            TRUE, p.apps[c.app], FALSE, wins)
                               /\ AppResolves(p, c.app)
          BY <4>1, <5>1 DEF Windows
        <5> QED
          BY <5>2 DEF Reply
      <4> QED
        BY <4>2 DEF AppResolves
    <3>2. CASE c.action = "press"
      <4>1. q \in Press(p, c.app)
        BY <3>2 DEF Dispatch
      <4> QED
        BY <4>1 DEF Press, AppResolves, Mutation, Failure, Reply
    <3>3. CASE c.action = "activate"
      <4>1. q \in Activate(p, c.app, c.window)
        BY <3>3 DEF Dispatch
      <4> QED
        BY <4>1 DEF Activate, AppResolves, Mutation, Failure, Reply
    <3> QED
      BY <1>2, <3>1, <3>2, <3>3
  <2> QED
    BY <2>3, <2>4 DEF Agree
<1>3. CASE c.action \in {"snapshot", "screenshot"}
  <2>1. c.app = 0 /\ c.target = 0
    BY <1>3 DEF Parses, Allows, OneObject
  <2>2. /\ c.window # 0 /\ c.window \in DOMAIN tracker.wins
        /\ Described(c) = tracker.wins[c.window]
    BY <2>1 DEF Described, OneObject
  <2>3. q.object \in Scope(p, c.window)
    <3>1. CASE c.action = "snapshot"
      <4>1. q \in Snapshot(p, c.window, c.target)
        BY <3>1 DEF Dispatch
      <4>2. q # Failure(p)
        BY DEF Failure, Reply
      <4>3. PICK root \in Roots(p, c.window, c.target) :
                q \in UNION {Shown(p, root, elems) : elems \in Walks(root)}
        BY <4>1, <4>2 DEF Snapshot
      <4>4. PICK elems \in Walks(root) : q \in Shown(p, root, elems)
        BY <4>3
      <4>5. q.object = root
        BY <4>4 DEF Shown, Reply
      <4> QED
        BY <2>1, <4>3, <4>5 DEF Roots
    <3>2. CASE c.action = "screenshot"
      <4>1. q \in Screenshot(p, c.window)
        BY <3>2 DEF Dispatch
      <4> QED
        BY <4>1 DEF Screenshot, Failure, Reply
    <3> QED
      BY <1>3, <3>1, <3>2
  <2>4. c.window \in DOMAIN p.wins /\ q.object = p.wins[c.window]
    BY <2>2, <2>3 DEF Scope, WinResolves
  <2> QED
    BY <2>2, <2>4 DEF Agree
<1>4. CASE c.action = "apps"
  BY <1>4 DEF Parses, Allows, Described
<1> QED
  BY <1>1, <1>2, <1>3, <1>4 DEF Actions

\* A call acts on what it was said to name, if on anything.
LEMMA CallActsAsDescribed ==
    ASSUME IInv, NEW c, c.action \in Actions, OneObject(c), NEW r \in Replies(c),
           r.object # Nothing, Described(c) # Nothing
    PROVE  r.object = Described(c)
<1>1. CASE ~Parses(c)
  <2>1. r.object = Nothing
    BY <1>1 DEF Replies, Failure, Reply
  <2> QED
    BY <2>1
<1>2. CASE Parses(c)
  <2> DEFINE D == Dispatch(Tables, c)
  <2>1. Replies(c) = D \cup {Reply(Nothing, FALSE, q.object, q.acted, <<>>) : q \in D}
                       \cup {Failure(Nothing)}
    BY <1>2, Zenon DEF Replies, Tables
  <2>2. Agree(Tables, tracker)
    BY TablesAgree DEF IInv
  <2>3. \A q \in D : q.object # Nothing => q.object = Described(c)
    BY <1>2, <2>2, HandlerActsOnEntry
  <2> HIDE DEF D
  <2>4. \/ r \in D
        \/ \E q \in D : r = Reply(Nothing, FALSE, q.object, q.acted, <<>>)
        \/ r = Failure(Nothing)
    BY <2>1
  <2>5. CASE \E q \in D : r = Reply(Nothing, FALSE, q.object, q.acted, <<>>)
    BY <2>3, <2>5 DEF Reply
  <2>6. r # Failure(Nothing)
    BY DEF Failure, Reply
  <2> QED
    BY <2>3, <2>4, <2>5, <2>6
<1> QED
  BY <1>1, <1>2

\* The calls made of an action and a token that fit each other name one object.
LEMMA ChoiceNamesOne ==
    ASSUME NEW d \in Usable
    PROVE  OneObject(ActionArgs(d[1], d[2]))
<1>1. d[2] = NoToken \/ (d[2] \in Tokens /\ Matches(d[2], d[1]))
  BY DEF Usable, Unusable
<1>2. d[1] \in NeedsTarget => d[2] # NoToken
  BY DEF Usable, Unusable
<1>3. d[2] \in Tokens =>
         /\ d[2].kind = "e" => d[2].n \in DOMAIN tracker.elems
         /\ d[2].kind = "w" => d[2].n \in DOMAIN tracker.wins
  BY DEF Tokens, Token
<1>4. NoToken.kind = "none"
  BY DEF NoToken, Token
<1> QED
  BY <1>1, <1>2, <1>3, <1>4 DEF OneObject, ActionArgs, Matches, NeedsTarget

JInv == IInv /\ ChosenIsNamed /\ ActsOnWhatWasShown

\* Every step keeps the chosen call named, and the last one explained by it.
LEMMA NamedPreserved == JInv /\ [Next]_vars => JInv'
<1> SUFFICES ASSUME JInv, [Next]_vars PROVE JInv'
  OBVIOUS
<1>0. IInv'
  BY StepPreserves DEF JInv
<1>1. CASE Choose
  <2>1. PICK d \in Usable : LET c == ActionArgs(d[1], d[2])
                            IN call' = c /\ meant' = Described(c)
    BY <1>1 DEF Choose
  <2>2. OneObject(call') /\ meant' = Described(call')
    BY <2>1, ChoiceNamesOne
  <2>3. UNCHANGED <<tracker, last>>
    BY <1>1 DEF Choose
  <2> QED
    BY <1>0, <2>2, <2>3 DEF JInv, ChosenIsNamed, OneObject, Described, ActsOnWhatWasShown
<1>2. CASE Execute
  <2>1. pc' = "head"
    BY <1>2 DEF Execute
  <2>2. PICK r \in Replies(call) : last' = Did(Parses(call), meant, r.object)
    BY <1>2 DEF Execute, Serve
  <2>3. last'.meant = meant /\ last'.object = r.object
    BY <2>2 DEF Did
  <2>4. meant # Nothing => meant = Described(call) /\ OneObject(call)
    BY <1>2 DEF JInv, ChosenIsNamed, Execute
  <2>5. call.action \in Actions
    BY DEF JInv, IInv
  <2>6. meant # Nothing /\ r.object # Nothing => r.object = meant
    BY <2>4, <2>5, CallActsAsDescribed DEF JInv
  <2> QED
    BY <1>0, <2>1, <2>3, <2>6 DEF JInv, ChosenIsNamed, ActsOnWhatWasShown
<1>3. CASE Loop
  BY <1>0, <1>3 DEF Loop, JInv, ChosenIsNamed, ActsOnWhatWasShown, NothingDone, Did
<1>4. CASE Observe
  BY <1>0, <1>4 DEF Observe, JInv, ChosenIsNamed, ActsOnWhatWasShown
<1>5. CASE UNCHANGED <<pc, meant, call, tracker, last>>
  BY <1>0, <1>5 DEF JInv, ChosenIsNamed, OneObject, Described, ActsOnWhatWasShown
<1>6. CASE pc' # "execute" /\ UNCHANGED last
  BY <1>0, <1>6 DEF JInv, ChosenIsNamed, ActsOnWhatWasShown
<1>7. Cancel \/ DesktopChanges \/ UNCHANGED vars => UNCHANGED <<pc, meant, call, tracker, last>>
  BY DEF Cancel, DesktopChanges, vars, control, history
<1>8. Begin \/ GiveUp \/ AskFails \/ Satisfied \/ Escalate \/ ChooseDry =>
          pc' # "execute" /\ UNCHANGED last
  BY DEF Begin, GiveUp, AskFails, Satisfied, Escalate, ChooseDry, Finish, history
<1>9. GatherApps \/ GatherWindows \/ RefreshInstruction \/ RefreshImpossible \/ RefreshFails =>
          pc' # "execute" /\ UNCHANGED last
  BY DEF GatherApps, GatherWindows, RefreshInstruction, RefreshImpossible, RefreshFails,
         AfterGather, Finish, history
<1> QED
  BY <1>1, <1>2, <1>3, <1>4, <1>5, <1>6, <1>7, <1>8, <1>9 DEF Next, DeciderStep

\* Whatever the desktop does between the listing, the model's choice and the call,
\* and whether or not the worker was restarted, a step acts on the object the model
\* was shown, or on nothing.
THEOREM StepsActOnWhatWasShown == Spec => []ActsOnWhatWasShown
<1>1. Init => JInv
  BY InitEstablishes DEF Init, JInv, ChosenIsNamed, ActsOnWhatWasShown, NothingDone, Did
<1>2. JInv => ActsOnWhatWasShown
  BY DEF JInv
<1> QED
  BY <1>1, NamedPreserved, <1>2, PTL DEF Spec

-----------------------------------------------------------------------------
(* The budget and the evidence *)

Gathering == {"apps", "windows", "refresh"}

\* Where the loop has got to: the steps recorded for the instructions before this
\* one, which the budget leaves out, and those of this one make up the record;
\* every earlier instruction was affirmed, and unless this one is yet to be
\* looked at, a snapshot was read for it.
Progress ==
    /\ pc \in {"begin", "head", "ask", "execute", "finished"} \cup Gathering
    /\ instruction \in 1 .. N
    /\ number \in Nat \ {0}
    /\ budget \in Nat
    /\ recorded \in 0 .. MaxSteps
    /\ pc \in {"head", "ask", "execute"} \cup Gathering => recorded + budget = MaxSteps + number - 1
    /\ pc \in {"ask", "execute"} \cup Gathering => number <= budget
    /\ dryRun => instruction = 1
    /\ pc # "finished" => outcome = "none" /\ affirmed = instruction - 1
    /\ pc = "finished" /\ outcome = "done" => affirmed = N
    /\ instruction > 1 /\ pc \in {"ask", "execute"} => fresh
    /\ instruction > 1 /\ number > 1 /\ pc \in {"head"} \cup Gathering => fresh

\* Every step keeps count.
LEMMA ProgressPreserved == Progress /\ [Next]_vars => Progress'
<1> SUFFICES ASSUME Progress, [Next]_vars PROVE Progress'
  OBVIOUS
<1> USE NAssumption, MaxStepsAssumption DEF Progress, Gathering
<1>1. CASE Begin
  BY <1>1 DEF Begin, Remaining
<1>2. CASE Loop
  BY <1>2 DEF Loop
<1>3. CASE GiveUp
  BY <1>3 DEF GiveUp, Finish, history
<1>4. CASE GatherApps \/ GatherWindows
  BY <1>4 DEF GatherApps, GatherWindows, AfterGather, RefreshNeeded, history
<1>5. CASE RefreshInstruction
  BY <1>5 DEF RefreshInstruction
<1>6. CASE RefreshImpossible \/ RefreshFails
  BY <1>6 DEF RefreshImpossible, RefreshFails, Finish, history
<1>7. CASE AskFails
  BY <1>7 DEF AskFails, Finish, history
<1>8. CASE Satisfied
  BY <1>8 DEF Satisfied, Finish
<1>9. CASE Escalate \/ ChooseDry
  BY <1>9 DEF Escalate, ChooseDry, Finish, history
<1>10. CASE Observe \/ Choose
  BY <1>10 DEF Observe, Choose
<1>11. CASE Execute
  <2>1. fresh => fresh'
    BY <1>11, Zenon DEF Execute
  <2>2. /\ pc = "execute" /\ pc' = "head"
        /\ recorded' = recorded + 1 /\ number' = number + 1
        /\ UNCHANGED <<dryRun, instruction, budget, outcome, affirmed>>
    BY <1>11 DEF Execute
  <2> QED
    BY <2>1, <2>2
<1>12. CASE Cancel \/ DesktopChanges \/ UNCHANGED vars
  BY <1>12 DEF Cancel, DesktopChanges, vars, control, history
<1> QED
  BY <1>1, <1>2, <1>3, <1>4, <1>5, <1>6, <1>7, <1>8, <1>9, <1>10, <1>11, <1>12
     DEF Next, DeciderStep

\* Progress holds of every reachable state.
LEMMA ProgressHolds == Spec => []Progress
<1>1. Init => Progress
  BY NAssumption, MaxStepsAssumption DEF Init, Progress, Gathering
<1> QED
  BY <1>1, ProgressPreserved, PTL DEF Spec

\* -max-steps bounds the steps of all instructions together, for any plan.
THEOREM BudgetIsTotal == Spec => []BudgetRespected
<1>1. Progress => BudgetRespected
  BY MaxStepsAssumption DEF Progress, BudgetRespected
<1> QED
  BY <1>1, ProgressHolds, PTL

\* A plan of any length is reported done only on evidence of its own for each of
\* its instructions.
THEOREM DoneNeedsEvidence == Spec => []DoneIsEvidenced
<1>1. Progress => DoneIsEvidenced
  BY DEF Progress, DoneIsEvidenced
<1> QED
  BY <1>1, ProgressHolds, PTL

-----------------------------------------------------------------------------
(* Types: the tokens the worker deals out and the tracker takes over stand *)
(* for objects of their kind, and the loops count within their bounds.     *)

TrackerOK(t) ==
    /\ DOMAIN t = {"apps", "wins", "elems", "activeApp", "scope"}
    /\ \A n \in DOMAIN t.apps : n \in Nat /\ t.apps[n] \in App
    /\ \A n \in DOMAIN t.wins : n \in Nat /\ t.wins[n] \in Win
    /\ \A n \in DOMAIN t.elems : n \in Nat /\ t.elems[n] \in Win \cup Elem
    /\ t.activeApp \in Nat
    /\ t.scope \in Nat

\* A listing of what the action lists.
Lists(c, listing) ==
    \A n \in DOMAIN listing :
        /\ n \in Nat
        /\ c.action = "apps" => listing[n] \in App
        /\ c.action = "windows" => listing[n] \in Win
        /\ c.action = "snapshot" => listing[n] \in Win \cup Elem

ReplyOK(c, r) ==
    /\ r.process # Nothing => TablesOK(r.process)
    /\ r.object \in Object \cup {Nothing}
    /\ r.ok /\ c.action \in {"apps", "windows", "snapshot"} => Lists(c, r.listing)
    /\ r.ok /\ c.action = "activate" => r.object \in App

Desktop == running \subseteq App /\ open \subseteq Win /\ live \subseteq Elem

-----------------------------------------------------------------------------
(* Finite sets and sequences *)

\* There are as many applications as the order lists.
LEMMA AppFinite == IsFiniteSet(App)
<1>1. PICK n \in Nat : DOMAIN Order = 1 .. n
  BY OrderAssumption
<1>2. IsFiniteSet(DOMAIN Order)
  BY <1>1, FS_Interval
<1>3. Order \in Surjection(DOMAIN Order, App)
  BY OrderAssumption DEF ToSet, Surjection
<1> QED
  BY <1>2, <1>3, FS_Surjection DEF ExistsSurjection

\* An enumeration of a set is a sequence of its elements.
LEMMA EnumerationType ==
    ASSUME NEW T, IsFiniteSet(T), NEW S \in SUBSET T, NEW s \in SetToSeqs(S)
    PROVE  s \in Seq(T)
<1>1. Cardinality(S) \in Nat
  BY FS_Subset, FS_CardinalityType
<1>2. s \in [1 .. Cardinality(S) -> S]
  BY DEF SetToSeqs
<1> QED
  BY <1>1, <1>2

\* So is an enumeration of some of them.
LEMMA PermutationType ==
    ASSUME NEW T, IsFiniteSet(T), NEW S \in SUBSET T, NEW s \in SetToAllKPermutations(S)
    PROVE  s \in Seq(T)
<1>1. PICK U \in SUBSET S : s \in SetToSeqs(U)
  BY DEF SetToAllKPermutations
<1> QED
  BY <1>1, EnumerationType

\* A set of natural numbers that is not empty has a least one.
LEMMA MinType ==
    ASSUME NEW S \in SUBSET Nat, S # {}
    PROVE  Min(S) \in Nat
<1>1. PICK x \in S : \A y \in S : <<y, x>> \notin OpToRel(<, Nat)
  BY NatLessThanWellFounded, WFMin, Zenon
<1>2. ASSUME NEW y \in S PROVE x <= y
  <2> DEFINE below == {ss \in Nat \X Nat : ss[1] < ss[2]}
  <2>1. y < x => <<y, x>> \in below
    OBVIOUS
  <2>2. <<y, x>> \notin below
    BY <1>1, Zenon DEF OpToRel
  <2> QED
    BY <2>1, <2>2
<1> QED
  BY <1>2 DEF Min

-----------------------------------------------------------------------------
(* The handlers *)

\* A reply that leaves the tables alone and lists nothing.
LEMMA PlainReply ==
    ASSUME NEW c \in Call, c.action \notin {"apps", "windows", "snapshot", "activate"},
           NEW p, TablesOK(p), NEW object \in Object \cup {Nothing}, NEW ok, NEW acted
    PROVE  ReplyOK(c, Reply(p, ok, object, acted, <<>>))
BY DEF ReplyOK, Reply

\* A failure leaves the tables alone.
LEMMA FailureTyped ==
    ASSUME NEW c, NEW p, p # Nothing => TablesOK(p)
    PROVE  ReplyOK(c, Failure(p))
BY DEF ReplyOK, Failure, Reply

\* New tokens stand for running applications.
LEMMA AppsTyped ==
    ASSUME NEW c \in Call, c.action = "apps", Desktop, NEW p, TablesOK(p), NEW r \in Apps(p)
    PROVE  ReplyOK(c, r)
<1>1. PICK new \in Listings(running \ ToSet(p.apps)) :
          r = Reply([p EXCEPT !.apps = p.apps \o new], TRUE, Nothing, FALSE,
                    AppListing(p.apps \o new))
  BY DEF Apps, TablesOK
<1>2. new \in Seq(App)
  BY AppFinite, EnumerationType DEF Listings, Desktop
<1>3. PICK apps \in Seq(App) : apps = p.apps \o new
  <2>1. p.apps \in Seq(App)
    BY DEF TablesOK
  <2>2. p.apps \o new \in Seq(App)
    BY <1>2, <2>1
  <2> QED
    BY <2>2, Zenon
<1>4. r.process = [p EXCEPT !.apps = apps] /\ r.object = Nothing /\ r.listing = AppListing(apps)
  BY <1>1, <1>3 DEF Reply, TablesOK
<1>5. TablesOK(r.process)
  BY <1>4 DEF TablesOK
<1>6. Lists(c, r.listing)
  BY <1>4 DEF Lists, AppListing
<1> QED
  BY <1>4, <1>5, <1>6 DEF ReplyOK

\* New tokens, all above the older ones, stand for windows of the application.
LEMMA WindowsTyped ==
    ASSUME NEW c \in Call, c.action = "windows", Desktop, NEW p, TablesOK(p), NEW n \in Nat,
           NEW r \in Windows(p, n)
    PROVE  ReplyOK(c, r)
<1>1. CASE r = Failure(p)
  BY <1>1, FailureTyped
<1>2. CASE r # Failure(p)
  <2>1. AppResolves(p, n) /\ p.apps[n] \in App
    BY <1>2 DEF Windows, AppResolves, Desktop
  <2>2. PICK order \in SetToAllKPermutations({w \in open : Owner[w] = p.apps[n]}) :
            r = Reply([p EXCEPT !.wins = WinListing(p, order), !.nextWin = @ + Len(order)],
                      TRUE, p.apps[n], FALSE, WinListing(p, order))
    BY <1>2, <2>1 DEF Windows
  <2>3. order \in Seq(Win)
    BY FinitenessAssumption, PermutationType DEF Desktop
  <2>4. PICK top \in Nat : top = p.nextWin + Len(order)
    BY <2>3 DEF TablesOK
  <2>5. PICK wins : wins = WinListing(p, order)
    OBVIOUS
  <2>6. /\ r.process = [p EXCEPT !.wins = wins, !.nextWin = top]
        /\ r.object = p.apps[n] /\ r.listing = wins
    BY <2>2, <2>4, <2>5 DEF Reply, TablesOK
  <2>7. DOMAIN wins \subseteq 1 .. top /\ \A m \in DOMAIN wins : m \in Nat /\ wins[m] \in Win
    BY <2>3, <2>4, <2>5 DEF WinListing, TablesOK
  <2>8. TablesOK(r.process)
    BY <2>6, <2>7 DEF TablesOK
  <2>9. Lists(c, r.listing)
    BY <2>6, <2>7 DEF Lists
  <2> QED
    BY <2>1, <2>6, <2>8, <2>9 DEF ReplyOK, Object
<1> QED
  BY <1>1, <1>2

\* Roots and windows in scope are objects that exist.
LEMMA RootsTyped ==
    ASSUME Desktop, NEW p, TablesOK(p), NEW m, NEW e
    PROVE  Scope(p, m) \subseteq Win /\ Roots(p, m, e) \subseteq Win \cup Elem
BY DEF Scope, Roots, WinResolves, ElemResolves, Desktop, TablesOK

\* The tokens of a snapshot stand for its root and the elements below it.
LEMMA SnapshotTyped ==
    ASSUME NEW c \in Call, c.action = "snapshot", Desktop, NEW p, TablesOK(p), NEW m, NEW e,
           NEW r \in Snapshot(p, m, e)
    PROVE  ReplyOK(c, r)
<1>1. CASE r = Failure(p)
  BY <1>1, FailureTyped
<1>2. CASE r # Failure(p)
  <2>1. PICK root \in Roots(p, m, e) :
            r \in UNION {Shown(p, root, elems) : elems \in Walks(root)}
    BY <1>2 DEF Snapshot
  <2>2. PICK elems \in Walks(root) : r \in Shown(p, root, elems)
    BY <2>1
  <2>3. PICK text \in Texts(elems) :
            r = Reply([p EXCEPT !.elems = elems], TRUE, root, FALSE, text)
    BY <2>2, Zenon DEF Shown
  <2>4. root \in Win \cup Elem
    BY RootsTyped
  <2>5. elems \in Seq(Win \cup Elem)
    <3>1. CASE elems = <<>>
      BY <3>1
    <3>2. CASE elems # <<>>
      <4>1. PICK order \in SetToAllKPermutations({x \in live : Parent[x] = root}) :
                elems = <<root>> \o order
        BY <3>2 DEF Walks
      <4>2. order \in Seq(Elem)
        BY FinitenessAssumption, PermutationType DEF Desktop
      <4> QED
        BY <2>4, <4>1, <4>2
    <3> QED
      BY <3>1, <3>2
  <2>6. \A n \in DOMAIN text : n \in Nat /\ text[n] \in Win \cup Elem
    BY <2>5 DEF Texts
  <2>7. r.process = [p EXCEPT !.elems = elems] /\ r.object = root /\ r.listing = text
    BY <2>3 DEF Reply
  <2>8. TablesOK(r.process)
    BY <2>5, <2>7 DEF TablesOK
  <2> QED
    BY <2>4, <2>6, <2>7, <2>8 DEF ReplyOK, Lists, Object
<1> QED
  BY <1>1, <1>2

\* A successful activate concerns an application.
LEMMA ActivateTyped ==
    ASSUME NEW c \in Call, c.action = "activate", Desktop, NEW p, TablesOK(p), NEW n, NEW m,
           NEW r \in Activate(p, n, m)
    PROVE  ReplyOK(c, r)
<1>1. /\ r.process = p
      /\ r = Failure(p) \/ (AppResolves(p, n) /\ r.object = p.apps[n])
  BY DEF Activate, Mutation, Failure, Reply
<1>2. AppResolves(p, n) => p.apps[n] \in App
  BY DEF AppResolves, Desktop
<1> QED
  BY <1>1, <1>2, FailureTyped DEF ReplyOK, Object

\* The other handlers concern what their argument resolves to.
LEMMA OtherTyped ==
    ASSUME NEW c \in Call, c.action \in {"click", "fill", "type", "press", "screenshot"}, Desktop,
           NEW p, TablesOK(p), NEW r \in Dispatch(p, c)
    PROVE  ReplyOK(c, r)
<1>1. r.process = p /\ r.object \in Object \cup {Nothing}
  <2>1. CASE c.action \in {"click", "fill", "type"}
    <3>1. r \in Operate(p, c.action, c.target)
      BY <2>1 DEF Dispatch
    <3>2. ElemResolves(p, c.target) => p.elems[c.target] \in Object
      BY DEF ElemResolves, Desktop, Object
    <3> QED
      BY <3>1, <3>2 DEF Operate, Mutation, Failure, Reply
  <2>2. CASE c.action = "press"
    <3>1. r \in Press(p, c.app)
      BY <2>2 DEF Dispatch
    <3>2. AppResolves(p, c.app) => p.apps[c.app] \in Object
      BY DEF AppResolves, Desktop, Object
    <3> QED
      BY <3>1, <3>2 DEF Press, Mutation, Failure, Reply
  <2>3. CASE c.action = "screenshot"
    <3>1. r \in Screenshot(p, c.window)
      BY <2>3 DEF Dispatch
    <3> QED
      BY <3>1, RootsTyped DEF Screenshot, Failure, Reply, Object
  <2> QED
    BY <2>1, <2>2, <2>3
<1> QED
  BY <1>1 DEF ReplyOK

\* Every handler keeps the types of the tables.
LEMMA HandlerTyped ==
    ASSUME NEW c \in Call, Desktop, NEW p, TablesOK(p), NEW r \in Dispatch(p, c)
    PROVE  ReplyOK(c, r)
<1>1. /\ c.action = "apps" => r \in Apps(p)
      /\ c.action = "windows" => r \in Windows(p, c.app)
      /\ c.action = "snapshot" => r \in Snapshot(p, c.window, c.target)
      /\ c.action = "activate" => r \in Activate(p, c.app, c.window)
  BY DEF Dispatch
<1>2. c.app \in Nat /\ c.action \in Actions
  BY DEF Call
<1> QED
  BY <1>1, <1>2, AppsTyped, WindowsTyped, SnapshotTyped, ActivateTyped, OtherTyped DEF Actions

\* What the tool answers, with a worker that lives on or is lost.
LEMMA RepliesTyped ==
    ASSUME WorkerTypeOK, NEW c \in Call, NEW r \in Replies(c)
    PROVE  ReplyOK(c, r)
<1>1. CASE ~Parses(c)
  BY <1>1, FailureTyped DEF Replies, WorkerTypeOK
<1>2. CASE Parses(c)
  <2> DEFINE D == Dispatch(Tables, c)
  <2>1. Replies(c) = D \cup {Reply(Nothing, FALSE, q.object, q.acted, <<>>) : q \in D}
                       \cup {Failure(Nothing)}
    BY <1>2, Zenon DEF Replies, Tables
  <2>2. TablesOK(Tables)
    BY DEF Tables, Fresh, TablesOK, WorkerTypeOK
  <2>3. \A q \in D : ReplyOK(c, q)
    BY <2>2, HandlerTyped DEF Desktop, WorkerTypeOK
  <2> HIDE DEF D
  <2>4. \/ r \in D
        \/ \E q \in D : r = Reply(Nothing, FALSE, q.object, q.acted, <<>>)
        \/ r = Failure(Nothing)
    BY <2>1
  <2>5. CASE \E q \in D : r = Reply(Nothing, FALSE, q.object, q.acted, <<>>)
    BY <2>3, <2>5 DEF ReplyOK, Reply
  <2> QED
    BY <2>3, <2>4, <2>5, FailureTyped
<1> QED
  BY <1>1, <1>2

-----------------------------------------------------------------------------
(* The tracker and the calls *)

\* What is folded into the tracker has its types.
LEMMA RefreshTyped ==
    ASSUME NEW t, TrackerOK(t), NEW c \in Call, NEW r, ReplyOK(c, r)
    PROVE  TrackerOK(Refresh(t, c, r))
<1>1. PICK u : u = IF c.app = 0 THEN t ELSE [t EXCEPT !.activeApp = c.app]
  OBVIOUS
<1>2. TrackerOK(u)
  BY <1>1 DEF TrackerOK, Call
<1>3. CASE r.ok /\ c.action = "apps"
  BY <1>1, <1>2, <1>3 DEF Refresh, TrackerOK, ReplyOK, Lists
<1>4. CASE r.ok /\ c.action = "windows"
  BY <1>1, <1>2, <1>4 DEF Refresh, TrackerOK, ReplyOK, Lists
<1>5. CASE r.ok /\ c.action = "snapshot"
  BY <1>1, <1>2, <1>5 DEF Refresh, TrackerOK, ReplyOK, Lists
<1>6. CASE ~r.ok \/ c.action \notin {"apps", "windows", "snapshot"}
  BY <1>1, <1>2, <1>6 DEF Refresh
<1> QED
  BY <1>3, <1>4, <1>5, <1>6

\* A tracker that starts over keeps a reference to an application and an element.
LEMMA NoTrackerTyped ==
    /\ TrackerOK(NoTracker)
    /\ \A n, m \in Nat : TrackerOK([NoTracker EXCEPT !.activeApp = n, !.scope = m])
BY DEF TrackerOK, NoTracker

\* The element that is inherited has a token, or none is.
LEMMA FirstElemTyped ==
    ASSUME TrackerOK(tracker)
    PROVE  FirstElem \in Nat
<1>1. DOMAIN tracker.elems \subseteq Nat
  BY DEF TrackerOK
<1> QED
  BY <1>1, MinType DEF FirstElem

\* The calls that gather and refresh are calls.
LEMMA CallsTyped ==
    ASSUME TrackerOK(tracker)
    PROVE  /\ NoCall \in Call /\ SnapshotCall \in Call
           /\ [NoCall EXCEPT !.action = "windows", !.app = tracker.activeApp] \in Call
           /\ RefreshCalls \subseteq Call
<1>1. NoCall \in Call /\ SnapshotCall \in Call
  BY DEF NoCall, SnapshotCall, Call, Actions
<1>2. [NoCall EXCEPT !.action = "windows", !.app = tracker.activeApp] \in Call
  BY DEF NoCall, Call, Actions, TrackerOK
<1>3. \A n \in Nat : /\ [SnapshotCall EXCEPT !.target = n] \in Call
                      /\ [SnapshotCall EXCEPT !.window = n] \in Call
  BY <1>1 DEF Call
<1>4. tracker.scope \in Nat /\ \A w \in DOMAIN tracker.wins : w \in Nat
  BY DEF TrackerOK
<1>5. RefreshCalls \subseteq Call
  BY <1>1, <1>3, <1>4 DEF RefreshCalls
<1> QED
  BY <1>1, <1>2, <1>5

\* A decision is a call, meant for an object or for none.
LEMMA ChosenTyped ==
    ASSUME TrackerOK(tracker), NEW d \in Usable
    PROVE  /\ ActionArgs(d[1], d[2]) \in Call
           /\ Described(ActionArgs(d[1], d[2])) \in Object \cup {Nothing}
<1>1. d[1] \in Actions /\ d[2] \in Answers
  BY DEF Usable, Decisions
<1>2. d[2].n \in Nat
  BY <1>1 DEF Answers, Tokens, Token, NoToken, Invented, TrackerOK
<1>3. ActionArgs(d[1], d[2]) \in Call
  BY <1>1, <1>2 DEF ActionArgs, Call, TrackerOK
<1>4. PICK c \in Call : c = ActionArgs(d[1], d[2])
  BY <1>3
<1>5. OneObject(c)
  BY <1>4, ChoiceNamesOne
<1>6. Described(c) \in Object \cup {Nothing}
  BY <1>5 DEF Described, OneObject, TrackerOK, Object
<1> QED
  BY <1>3, <1>4, <1>6

-----------------------------------------------------------------------------
(* Every step *)

\* What the tool's answer to a call makes of the worker, the desktop and the tracker.
LEMMA ServedTyped ==
    ASSUME WorkerTypeOK, TrackerOK(tracker), NEW c \in Call, NEW r, Serve(c, r)
    PROVE  /\ WorkerTypeOK' /\ TrackerOK(Refresh(tracker, c, r))
           /\ r.object \in Object \cup {Nothing}
<1>1. ReplyOK(c, r)
  BY RepliesTyped DEF Serve
<1>2. /\ process' = r.process /\ UNCHANGED <<running, gone, open, live>>
      /\ front' = IF c.action = "activate" /\ r.ok THEN r.object ELSE front
  BY DEF Serve
<1>3. front' \in App \cup {Nothing}
  BY <1>1, <1>2 DEF ReplyOK, WorkerTypeOK
<1>4. process' # Nothing => TablesOK(process')
  BY <1>1, <1>2 DEF ReplyOK
<1>5. WorkerTypeOK'
  BY <1>2, <1>3, <1>4 DEF WorkerTypeOK, TablesOK
<1> QED
  BY <1>1, <1>5, RefreshTyped DEF ReplyOK

\* The counters and flags of the loop.
LoopOK ==
    /\ dryRun \in DryRuns
    /\ pc \in {"begin", "head", "apps", "windows", "refresh", "ask", "execute", "finished"}
    /\ instruction \in 1 .. N
    /\ number \in 1 .. MaxSteps + 1
    /\ budget \in 0 .. MaxSteps
    /\ recorded \in Nat
    /\ cancelled \in BOOLEAN
    /\ outcome \in {"none", "done", "stopped", "error"}
    /\ fresh \in BOOLEAN
    /\ affirmed \in 0 .. N

ChoiceOK ==
    /\ call \in Call
    /\ meant \in Object \cup {Nothing}
    /\ last \in [parsed : BOOLEAN, meant : Object \cup {Nothing}, object : Object \cup {Nothing}]

\* The types of the worker, the loop, the tracker and the choice.
LEMMA TypeParts == TypeOK <=> WorkerTypeOK /\ LoopOK /\ TrackerOK(tracker) /\ ChoiceOK
BY DEF TypeOK, LoopOK, TrackerOK, ChoiceOK

\* Every step keeps the counters within their bounds.
LEMMA LoopTyped ==
    ASSUME LoopOK, Progress, [Next]_vars
    PROVE  LoopOK'
<1> USE NAssumption, MaxStepsAssumption DEF LoopOK
<1>1. CASE Begin
  <2>1. /\ fresh' \in BOOLEAN
        /\ UNCHANGED <<dryRun, instruction, recorded, outcome, cancelled, affirmed>>
    BY <1>1, Zenon DEF Begin
  <2>2. budget' \in 0 .. MaxSteps /\ number' \in 1 .. MaxSteps + 1
    BY <1>1 DEF Begin, Remaining
  <2>3. pc' = "head"
    BY <1>1 DEF Begin
  <2> QED
    BY <2>1, <2>2, <2>3
<1>2. CASE Loop
  BY <1>2 DEF Loop
<1>3. CASE GiveUp \/ AskFails \/ RefreshImpossible \/ RefreshFails
  BY <1>3 DEF GiveUp, AskFails, RefreshImpossible, RefreshFails, Finish, history
<1>4. CASE GatherApps \/ GatherWindows
  BY <1>4 DEF GatherApps, GatherWindows, AfterGather, history
<1>5. CASE RefreshInstruction
  BY <1>5 DEF RefreshInstruction
<1>6. CASE Satisfied
  BY <1>6 DEF Satisfied, Finish, Progress
<1>7. CASE Escalate \/ ChooseDry
  BY <1>7 DEF Escalate, ChooseDry, Finish, history
<1>8. CASE Observe \/ Choose
  BY <1>8 DEF Observe, Choose
<1>9. CASE Execute
  <2>1. fresh' \in BOOLEAN
    BY <1>9, Zenon DEF Execute
  <2>2. /\ pc = "execute" /\ pc' = "head"
        /\ recorded' = recorded + 1 /\ number' = number + 1
        /\ UNCHANGED <<dryRun, instruction, budget, outcome, cancelled, affirmed>>
    BY <1>9 DEF Execute
  <2>3. number <= budget
    BY <2>2 DEF Progress
  <2> QED
    BY <2>1, <2>2, <2>3
<1>10. CASE Cancel
  BY <1>10 DEF Cancel, control, history
<1>11. CASE DesktopChanges \/ UNCHANGED vars
  BY <1>11 DEF DesktopChanges, vars, control, history
<1> QED
  BY <1>1, <1>2, <1>3, <1>4, <1>5, <1>6, <1>7, <1>8, <1>9, <1>10, <1>11 DEF Next, DeciderStep

\* The steps that make a call, and the tracker they leave.
LEMMA CallsMade ==
    ASSUME TrackerOK(tracker), call \in Call,
           GatherApps \/ GatherWindows \/ RefreshInstruction \/ RefreshFails \/ Execute
    PROVE  \E c, r : /\ c \in Call
                     /\ Serve(c, r)
                     /\ tracker' \in {Refresh(tracker, c, r), NoTracker}
<1>1. CASE GatherApps
  BY <1>1, CallsTyped DEF GatherApps
<1>2. CASE GatherWindows
  BY <1>2, CallsTyped DEF GatherWindows
<1>3. CASE RefreshInstruction
  BY <1>3, CallsTyped DEF RefreshInstruction
<1>4. CASE RefreshFails
  BY <1>4, CallsTyped DEF RefreshFails, Finish
<1>5. CASE Execute
  BY <1>5 DEF Execute
<1> QED
  BY <1>1, <1>2, <1>3, <1>4, <1>5

\* Every step keeps the types of the worker and the tracker.
LEMMA TrackerTyped ==
    ASSUME WorkerTypeOK, TrackerOK(tracker), call \in Call, [Next]_vars
    PROVE  WorkerTypeOK' /\ TrackerOK(tracker)'
<1>1. CASE GatherApps \/ GatherWindows \/ RefreshInstruction \/ RefreshFails \/ Execute
  <2>1. PICK c, r : /\ c \in Call
                    /\ Serve(c, r)
                    /\ tracker' \in {Refresh(tracker, c, r), NoTracker}
    BY <1>1, CallsMade
  <2>2. WorkerTypeOK' /\ TrackerOK(Refresh(tracker, c, r)) /\ TrackerOK(NoTracker)
    BY <2>1, ServedTyped, NoTrackerTyped
  <2>3. TrackerOK(tracker')
    BY <2>1, <2>2
  <2> QED
    BY <2>2, <2>3 DEF TrackerOK
<1>2. ASSUME UNCHANGED worker PROVE WorkerTypeOK'
  BY <1>2 DEF worker, desktop, WorkerTypeOK, TablesOK
<1>3. ASSUME tracker' \in {tracker, NoTracker} PROVE TrackerOK(tracker)'
  BY <1>3, NoTrackerTyped DEF TrackerOK
<1>4. CASE Begin
  <2>1. PICK n \in Nat, m \in Nat : tracker' = [NoTracker EXCEPT !.activeApp = n, !.scope = m]
    BY <1>4, FirstElemTyped DEF Begin, TrackerOK
  <2>2. TrackerOK(tracker')
    BY <2>1, NoTrackerTyped
  <2>3. TrackerOK(tracker)'
    BY <2>2 DEF TrackerOK
  <2> QED
    BY <1>2, <1>4, <2>3 DEF Begin
<1>5. CASE Loop \/ GiveUp \/ RefreshImpossible \/ AskFails \/ Satisfied \/ Escalate
           \/ Observe \/ Choose \/ ChooseDry \/ Cancel \/ UNCHANGED vars
  <2>1. UNCHANGED worker /\ tracker' \in {tracker, NoTracker}
    BY <1>5 DEF Loop, GiveUp, RefreshImpossible, AskFails, Satisfied, Escalate, Observe, Choose,
                ChooseDry, Cancel, Finish, vars
  <2> QED
    BY <1>2, <1>3, <2>1
<1>6. CASE DesktopChanges
  <2>1. tracker' = tracker /\ process' = process
    BY <1>6 DEF DesktopChanges, DesktopStep, Quit, Launch, CloseWindow, ToFront
  <2>2. /\ running' \subseteq App /\ gone' \subseteq App /\ open' \subseteq Win
        /\ live' \subseteq Elem /\ front' \in App \cup {Nothing}
    BY <1>6 DEF DesktopChanges, DesktopStep, Quit, Launch, CloseWindow, ToFront, WorkerTypeOK
  <2> QED
    BY <1>3, <2>1, <2>2 DEF WorkerTypeOK, TablesOK
<1> QED
  BY <1>1, <1>4, <1>5, <1>6 DEF Next, DeciderStep

\* Every step keeps the types of the call and of what it is meant for.
LEMMA ChoiceTyped ==
    ASSUME WorkerTypeOK, TrackerOK(tracker), ChoiceOK, [Next]_vars
    PROVE  ChoiceOK'
<1> USE DEF ChoiceOK
<1>1. CASE Choose
  <2>1. PICK d \in Usable : LET c == ActionArgs(d[1], d[2])
                            IN call' = c /\ meant' = Described(c)
    BY <1>1 DEF Choose
  <2>2. call' \in Call /\ meant' \in Object \cup {Nothing}
    BY <2>1, ChosenTyped
  <2> QED
    BY <1>1, <2>2 DEF Choose
<1>2. CASE Execute
  <2>1. PICK r : Serve(call, r) /\ last' = Did(Parses(call), meant, r.object)
    BY <1>2 DEF Execute
  <2>2. r.object \in Object \cup {Nothing}
    BY <2>1, ServedTyped
  <2>3. Parses(call) \in BOOLEAN
    BY DEF Parses
  <2>4. last' \in [parsed : BOOLEAN, meant : Object \cup {Nothing}, object : Object \cup {Nothing}]
    BY <2>1, <2>2, <2>3 DEF Did
  <2>5. call' = NoCall /\ meant' = Nothing
    BY <1>2 DEF Execute
  <2> QED
    BY <2>4, <2>5, CallsTyped
<1>3. CASE Observe
  BY <1>3, CallsTyped DEF Observe
<1>4. CASE Loop
  BY <1>4 DEF Loop, NothingDone, Did
<1>5. CASE UNCHANGED <<call, meant, last>>
  BY <1>5
<1>6. Begin \/ GiveUp \/ GatherApps \/ GatherWindows \/ RefreshInstruction \/ RefreshImpossible
         \/ RefreshFails \/ AskFails \/ Satisfied \/ Escalate \/ ChooseDry \/ Cancel
         \/ DesktopChanges \/ UNCHANGED vars
      => UNCHANGED <<call, meant, last>>
  BY DEF Begin, GiveUp, GatherApps, GatherWindows, RefreshInstruction, RefreshImpossible,
         RefreshFails, AskFails, Satisfied, Escalate, ChooseDry, Cancel, DesktopChanges, vars,
         control, history
<1> QED
  BY <1>1, <1>2, <1>3, <1>4, <1>5, <1>6 DEF Next, DeciderStep

\* The first state is of the types.
LEMMA InitTyped ==
    ASSUME Init
    PROVE  TypeOK
<1>1. WorkerTypeOK
  BY DEF Init, WorkerInit, WorkerTypeOK
<1>2. LoopOK
  <2>1. cancelled \in BOOLEAN /\ fresh \in BOOLEAN /\ dryRun \in DryRuns
    BY Zenon DEF Init
  <2>2. /\ instruction \in 1 .. N /\ number \in 1 .. MaxSteps + 1 /\ budget \in 0 .. MaxSteps
        /\ recorded \in Nat /\ affirmed \in 0 .. N
    BY NAssumption, MaxStepsAssumption DEF Init
  <2>3. pc = "begin" /\ outcome = "none"
    BY DEF Init
  <2> QED
    BY <2>1, <2>2, <2>3 DEF LoopOK
<1>3. TrackerOK(tracker)
  BY NoTrackerTyped DEF Init
<1>4. ChoiceOK
  BY DEF Init, ChoiceOK, NothingDone, Did, NoCall, Call, Actions
<1> QED
  BY <1>1, <1>2, <1>3, <1>4, TypeParts

\* Every variable of the worker, the desktop, the tracker and the loop keeps its type:
\* a listing names applications, windows and elements as such, and no counter leaves
\* its bounds.
THEOREM TypeCorrect == Spec => []TypeOK
<1>1. Init => TypeOK
  BY InitTyped
<1>2. TypeOK /\ Progress /\ [Next]_vars => TypeOK'
  <2> SUFFICES ASSUME TypeOK, Progress, [Next]_vars PROVE TypeOK'
    OBVIOUS
  <2>1. WorkerTypeOK /\ LoopOK /\ TrackerOK(tracker) /\ ChoiceOK
    BY TypeParts
  <2>2. WorkerTypeOK' /\ LoopOK' /\ TrackerOK(tracker)' /\ ChoiceOK'
    BY <2>1, LoopTyped, TrackerTyped, ChoiceTyped DEF ChoiceOK
  <2> QED
    BY <2>2, TypeParts, PTL
<1> QED
  BY <1>1, <1>2, ProgressHolds, PTL DEF Spec
=============================================================================
