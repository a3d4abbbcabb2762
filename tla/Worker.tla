------------------------------- MODULE Worker -------------------------------
(***************************************************************************)
(* What one call of the computer_use tool does: the token tables of the    *)
(* accessibility worker (computeruse/swift/main.swift), the desktop they   *)
(* refer to, and the argument check and worker restarts of the client      *)
(* (computeruse/computeruse.go) as its caller sees them.                   *)
(*                                                                         *)
(* A token is a kind and a number; 0 stands for an argument left out.  The *)
(* name, title or role a listing prints next to a token is abstracted to   *)
(* the object it describes, so a listing is a function from token numbers  *)
(* to objects.  A handler is one step of the desktop: what applications do *)
(* between two of its Accessibility requests is in the outcomes it may     *)
(* have, not in its steps.                                                 *)
(***************************************************************************)
EXTENDS Naturals, Sequences, FiniteSets, SequencesExt

CONSTANTS App,       \* application processes (pid and bundle: AppIdentity)
          Win,       \* windows
          Elem,      \* interface elements other than windows
          Order,     \* the order, unspecified but stable, in which they are listed
          Owner,     \* the application of each window
          Parent,    \* the window of each element
          Field,     \* the elements that take text and are not secure
          Nothing    \* no object; no process

ASSUME OrderAssumption   == Order \in Seq(App) /\ ToSet(Order) = App
ASSUME FinitenessAssumption == IsFiniteSet(Win) /\ IsFiniteSet(Elem)
ASSUME OwnerAssumption   == Owner \in [Win -> App]
ASSUME ParentAssumption  == Parent \in [Elem -> Win]
ASSUME FieldAssumption   == Field \subseteq Elem
ASSUME NothingAssumption == Nothing \notin App \cup Win \cup Elem

VARIABLES
    process,    \* the worker's token tables, Nothing while there is no worker
    running,    \* applications that are running
    gone,       \* applications that have quit: one started later is another
    open,       \* windows that exist
    live,       \* elements that exist
    front       \* the frontmost application

desktop == <<running, gone, open, live, front>>

Object == App \cup Win \cup Elem

\* appTokens (never pruned; nextAppSeq is its length), windowTokens and
\* nextWindowSeq, elementTokens.
Fresh == [apps |-> <<>>, wins |-> <<>>, nextWin |-> 0, elems |-> <<>>]

Actions == {"apps", "windows", "activate", "snapshot", "click", "fill", "type",
            "press", "screenshot"}

Call == [action : Actions, app : Nat, window : Nat, target : Nat]

TablesOK(p) ==
    /\ DOMAIN p = {"apps", "wins", "nextWin", "elems"}
    /\ p.apps \in Seq(App)
    /\ p.nextWin \in Nat
    /\ DOMAIN p.wins \subseteq 1 .. p.nextWin
    /\ \A n \in DOMAIN p.wins : p.wins[n] \in Win
    /\ p.elems \in Seq(Win \cup Elem)

WorkerTypeOK ==
    /\ process # Nothing => TablesOK(process)
    /\ running \subseteq App
    /\ gone \subseteq App
    /\ open \subseteq Win
    /\ live \subseteq Elem
    /\ front \in App \cup {Nothing}

WorkerInit ==
    /\ process = Nothing
    /\ running \in SUBSET App
    /\ gone = {}
    /\ open = {w \in Win : Owner[w] \in running}
    /\ live = {e \in Elem : Parent[e] \in open}
    /\ front \in running \cup {Nothing}

-----------------------------------------------------------------------------
(* The desktop, changed by its user and by the applications themselves *)

Quit(a) ==
    /\ a \in running
    /\ running' = running \ {a}
    /\ gone' = gone \cup {a}
    /\ open' = {w \in open : Owner[w] # a}
    /\ live' = {e \in live : Owner[Parent[e]] # a}
    /\ front' = IF front = a THEN Nothing ELSE front
    /\ UNCHANGED process

Launch(a) ==
    /\ a \notin running \cup gone
    /\ running' = running \cup {a}
    /\ open' = open \cup {w \in Win : Owner[w] = a}
    /\ live' = live \cup {e \in Elem : Owner[Parent[e]] = a}
    /\ front' = a
    /\ UNCHANGED <<process, gone>>

CloseWindow(w) ==
    /\ w \in open
    /\ open' = open \ {w}
    /\ live' = {e \in live : Parent[e] # w}
    /\ UNCHANGED <<process, running, gone, front>>

ToFront(a) ==
    /\ a \in running
    /\ a # front
    /\ front' = a
    /\ UNCHANGED <<process, running, gone, open, live>>

DesktopStep ==
    \/ \E a \in App : Quit(a) \/ Launch(a) \/ ToFront(a)
    \/ \E w \in Win : CloseWindow(w)

-----------------------------------------------------------------------------
(* Token resolution *)

AppResolves(p, n) == n \in DOMAIN p.apps /\ p.apps[n] \in running

WinResolves(p, n) == n \in DOMAIN p.wins /\ p.wins[n] \in open

ElemResolves(p, n) == n \in DOMAIN p.elems /\ p.elems[n] \in open \cup live

-----------------------------------------------------------------------------
(* The handlers.  A reply has the tables the handler leaves, whether it    *)
(* succeeded, the object it acted on or read, whether it carried out a     *)
(* change (an error may come after one), and the listing it returns.       *)

Reply(p, ok, object, acted, listing) ==
    [process |-> p, ok |-> ok, object |-> object, acted |-> acted, listing |-> listing]

Failure(p) == Reply(p, FALSE, Nothing, FALSE, <<>>)

\* The changes to an object go through, or fail before or after they are made
\* (an Accessibility request that times out may have been carried out).
Mutation(p, object) ==
    {Failure(p), Reply(p, FALSE, object, TRUE, <<>>), Reply(p, TRUE, object, TRUE, <<>>)}

\* The applications of a set in the order in which they are listed.
Before(a, b) == \E i, j \in DOMAIN Order : i < j /\ Order[i] = a /\ Order[j] = b

Listings(apps) ==
    {s \in SetToSeqs(apps) : \A i, j \in DOMAIN s : i < j => Before(s[i], s[j])}

AppListing(apps) == [n \in {m \in DOMAIN apps : apps[m] \in running} |-> apps[n]]

\* handleApps: an application keeps its token, a new one gets the next.
Apps(p) ==
    {Reply([p EXCEPT !.apps = @ \o new], TRUE, Nothing, FALSE, AppListing(p.apps \o new))
       : new \in Listings(running \ ToSet(p.apps))}

\* The listed windows get the next tokens.
WinListing(p, order) ==
    [m \in p.nextWin + 1 .. p.nextWin + Len(order) |-> order[m - p.nextWin]]

\* handleWindows: the windows of the application (one may be skipped, its role
\* unreadable) get new tokens, and the older tokens are dropped.
Windows(p, n) ==
    {Failure(p)} \cup
    {Reply([p EXCEPT !.wins = WinListing(p, order), !.nextWin = @ + Len(order)],
           TRUE, p.apps[n], FALSE, WinListing(p, order))
       : order \in IF AppResolves(p, n)
                   THEN SetToAllKPermutations({w \in open : Owner[w] = p.apps[n]})
                   ELSE {}}

\* handleActivate: the application is brought forward before the window token
\* is resolved, and success needs it frontmost.
Activate(p, n, m) ==
    IF ~AppResolves(p, n) THEN {Failure(p)}
    ELSE IF m # 0 /\ ~WinResolves(p, m) THEN {Reply(p, FALSE, p.apps[n], TRUE, <<>>)}
    ELSE Mutation(p, p.apps[n]) \ {Failure(p)}

\* scopedWindow and frontmostFocusedWindow: any window of the frontmost
\* application may be the focused one.
Scope(p, m) ==
    IF m # 0 THEN {p.wins[k] : k \in {k \in {m} : WinResolves(p, k)}}
             ELSE {w \in open : Owner[w] = front}

Roots(p, m, e) ==
    IF e # 0 THEN {p.elems[k] : k \in {k \in {e} : ElemResolves(p, k)}} ELSE Scope(p, m)

\* Mutant: elementTokens is filled during the walk, which may fail halfway.
SnapshotInPlace(p, m, e) ==
    {Failure(p)} \cup
    UNION {{Reply([p EXCEPT !.elems = <<root>>], ok, root, FALSE,
                  IF ok THEN <<root>> ELSE <<>>) : ok \in BOOLEAN} : root \in Roots(p, m, e)}

\* The root first (unless its role cannot be read), then the elements below it
\* in any order; a limit on time, elements or bytes may end the walk anywhere.
Walks(root) ==
    {<<>>} \cup
    {<<root>> \o order : order \in SetToAllKPermutations({x \in live : Parent[x] = root})}

\* Elements whose tokens are not in the text: the last one, if its line does not
\* fit, and those cut off with the end of a long line or of a long text by the
\* client (render, capToolText).
Texts(elems) == {[n \in shown |-> elems[n]] : shown \in SUBSET DOMAIN elems}

Shown(p, root, elems) ==
    {Reply([p EXCEPT !.elems = elems], TRUE, root, FALSE, text) : text \in Texts(elems)}

\* handleSnapshot
Snapshot(p, m, e) ==
    {Failure(p)} \cup
    UNION {UNION {Shown(p, root, elems) : elems \in Walks(root)} : root \in Roots(p, m, e)}

\* handleClick, handleFill, handleType: the element must be there; text goes to
\* fields only, and keystrokes to the frontmost application only.
Operate(p, action, e) ==
    {Failure(p)} \cup
    (IF /\ ElemResolves(p, e)
        /\ action \in {"fill", "type"} => p.elems[e] \in Field
        /\ action = "type" => Owner[Parent[p.elems[e]]] = front
     THEN Mutation(p, p.elems[e])
     ELSE {})

\* handlePress
Press(p, n) ==
    {Failure(p)} \cup
    (IF AppResolves(p, n) /\ p.apps[n] = front THEN Mutation(p, p.apps[n]) ELSE {})

\* handleScreenshot
Screenshot(p, m) ==
    {Failure(p)} \cup {Reply(p, TRUE, w, FALSE, <<>>) : w \in Scope(p, m)}

Dispatch(p, call) ==
    CASE call.action = "apps"       -> Apps(p)
      [] call.action = "windows"    -> Windows(p, call.app)
      [] call.action = "activate"   -> Activate(p, call.app, call.window)
      [] call.action = "snapshot"   -> Snapshot(p, call.window, call.target)
      [] call.action \in {"click", "fill", "type"} -> Operate(p, call.action, call.target)
      [] call.action = "press"      -> Press(p, call.app)
      [] call.action = "screenshot" -> Screenshot(p, call.window)

-----------------------------------------------------------------------------
(* The client *)

\* computerUseFields and computerUseRequired, for the token arguments.
Allows(action, field) ==
    CASE field = "app"    -> action \in {"windows", "activate", "press"}
      [] field = "window" -> action \in {"activate", "snapshot", "screenshot"}
      [] field = "target" -> action \in {"snapshot", "click", "fill", "type"}

Requires(action, field) ==
    CASE field = "app"    -> action \in {"windows", "activate", "press"}
      [] field = "window" -> FALSE
      [] field = "target" -> action \in {"click", "fill", "type"}

\* parseComputerUseArgs
Parses(call) ==
    \A field \in {"app", "window", "target"} :
        /\ call[field] # 0 => Allows(call.action, field)
        /\ Requires(call.action, field) => call[field] # 0

\* RunContext, called with a context that is never done: a worker is started if
\* there is none; an answer is passed on; and a worker that crashes, hangs or
\* garbles its answer, before or after it carried the request out, is dropped.
Replies(call) ==
    IF ~Parses(call) THEN {Failure(process)} ELSE
    LET handled == Dispatch(IF process = Nothing THEN Fresh ELSE process, call) IN
    handled
      \cup {Reply(Nothing, FALSE, r.object, r.acted, <<>>) : r \in handled}
      \cup {Failure(Nothing)}

\* The desktop after a call: a successful activate has verified its effect.
Serve(call, reply) ==
    /\ reply \in Replies(call)
    /\ process' = reply.process
    /\ front' = IF call.action = "activate" /\ reply.ok THEN reply.object ELSE front
    /\ UNCHANGED <<running, gone, open, live>>
=============================================================================
