---------------------------- MODULE ComputerUse ----------------------------
(***************************************************************************)
(* The Go client of the accessibility worker (computeruse/computeruse.go   *)
(* and computeruse/worker.go) and the worker process as seen through its   *)
(* pipes (the main loop of computeruse/swift/main.swift).                  *)
(*                                                                         *)
(* Goroutines call RunContext and Close concurrently.  A mutex serializes  *)
(* them onto one worker process, started on demand.  A request is one line *)
(* on the worker's stdin, a response one line on its stdout.  The worker   *)
(* may crash or hang at any moment, the caller's context may be cancelled, *)
(* and a request may time out; in each of those cases the client kills the *)
(* process group and forgets the worker.                                   *)
(*                                                                         *)
(* Worker processes are numbered 1, 2, ... in start order, 0 standing for  *)
(* Go's nil.  Each call of RunContext has its own number in Op, so a reply,*)
(* an effect on the desktop and a result can be told apart by call.        *)
(***************************************************************************)
EXTENDS Naturals, Sequences, FiniteSets

CONSTANTS Caller,     \* goroutines that use the client
          NoCaller,   \* the mutex is free
          Op,         \* the calls of RunContext, numbered from 1 (bound on calls)
          MaxGen,     \* bound on worker processes started
          Sizes       \* request sizes: {"small"} or {"small", "big"}

ASSUME NoCallerAssumption == NoCaller \notin Caller
ASSUME OpAssumption       == Op \subseteq Nat \ {0}
ASSUME MaxGenAssumption   == MaxGen \in Nat
ASSUME SizesAssumption    == Sizes \subseteq {"small", "big"}

VARIABLES
    mu,         \* ComputerUse.mu: the goroutine that holds it
    worker,     \* ComputerUse.worker: a generation, 0 for nil
    started,    \* worker processes started so far
    nextID,     \* workerProcess.nextID of each generation
    proc,       \* the operating system's view of each worker process
    stdin,      \* request lines written and not yet taken by the worker
    performed,  \* the worker has carried out the request it has in hand
    initialized,\* the worker has answered "initialize"
    lastID,     \* the worker's lastID
    stdout,     \* response lines written and not yet scanned
    pc,         \* where each goroutine is in RunContext
    op,         \* the call each goroutine is making
    size,       \* the size of its request
    using,      \* the process its request goes to
    cancelled,  \* its context is done
    outcome,    \* what RunContext returned, per call
    effects     \* how often the call's action was carried out

client == <<mu, worker, started, nextID, pc, op, size, using, outcome>>
server == <<proc, stdin, performed, initialized, lastID, stdout, effects>>
vars   == <<client, server, cancelled>>

Gen      == 1 .. MaxGen
Starting == {"start", "initWrite", "initAwait"}
Acting   == {"write", "await"}
Inside   == Starting \cup Acting
Pc       == {"idle", "lock"} \cup Inside
Proc     == {"none", "running", "wedged", "killed", "dead", "reaped"}
Outcome  == {"new", "pending", "ok", "error", "lost", "refused"}
Request  == [id : Nat, method : {"initialize", "action"}, op : Op, size : {"small", "big"}]
Reply    == [id : Nat, kind : {"ok", "alien", "error", "bad"}]

\* A process that has not been sent SIGKILL and has not exited.
Live(g) == proc[g] \in {"running", "wedged"}

\* A process that still executes instructions: SIGKILL is asynchronous, so a
\* killed worker may finish what it is doing before it dies.
Executing(g) == proc[g] \in {"running", "killed"}

Exited(g) == proc[g] \in {"dead", "reaped"}

TypeOK ==
    /\ mu \in Caller \cup {NoCaller}
    /\ worker \in Gen \cup {0}
    /\ started \in Gen \cup {0}
    /\ nextID \in [Gen -> Nat]
    /\ proc \in [Gen -> Proc]
    /\ stdin \in [Gen -> Seq(Request)]
    /\ performed \in [Gen -> BOOLEAN]
    /\ initialized \in [Gen -> BOOLEAN]
    /\ lastID \in [Gen -> Nat]
    /\ stdout \in [Gen -> Seq(Reply)]
    /\ pc \in [Caller -> Pc]
    /\ op \in [Caller -> Op \cup {0}]
    /\ size \in [Caller -> {"small", "big"}]
    /\ using \in [Caller -> Gen \cup {0}]
    /\ cancelled \in [Caller -> BOOLEAN]
    /\ outcome \in [Op -> Outcome]
    /\ effects \in [Op -> Nat]

Init ==
    /\ mu = NoCaller
    /\ worker = 0
    /\ started = 0
    /\ nextID = [g \in Gen |-> 0]
    /\ proc = [g \in Gen |-> "none"]
    /\ stdin = [g \in Gen |-> <<>>]
    /\ performed = [g \in Gen |-> FALSE]
    /\ initialized = [g \in Gen |-> FALSE]
    /\ lastID = [g \in Gen |-> 0]
    /\ stdout = [g \in Gen |-> <<>>]
    /\ pc = [c \in Caller |-> "idle"]
    /\ op = [c \in Caller |-> 0]
    /\ size = [c \in Caller |-> "small"]
    /\ using = [c \in Caller |-> 0]
    /\ cancelled = [c \in Caller |-> FALSE]
    /\ outcome = [o \in Op |-> "new"]
    /\ effects = [o \in Op |-> 0]

-----------------------------------------------------------------------------
(* Entering and leaving RunContext *)

\* The calls are numbered in the order in which they are made.
NextOp(o) == outcome[o] = "new" /\ \A p \in Op : p < o => outcome[p] # "new"

\* RunContext is entered with arguments that parse; the goroutine goes for the
\* mutex.  Its context may be done already.
Invoke(c, o) ==
    /\ pc[c] = "idle"
    /\ NextOp(o)
    /\ \E s \in Sizes : size' = [size EXCEPT ![c] = s]
    /\ \E b \in BOOLEAN : cancelled' = [cancelled EXCEPT ![c] = b]
    /\ op' = [op EXCEPT ![c] = o]
    /\ outcome' = [outcome EXCEPT ![o] = "pending"]
    /\ pc' = [pc EXCEPT ![c] = "lock"]
    /\ UNCHANGED <<mu, worker, started, nextID, using, server>>

\* The arguments do not parse, or a screenshot is asked for a model without
\* image input: RunContext returns before it takes the mutex.
Reject(c, o) ==
    /\ pc[c] = "idle"
    /\ NextOp(o)
    /\ outcome' = [outcome EXCEPT ![o] = "refused"]
    /\ UNCHANGED <<mu, worker, started, nextID, pc, op, size, using, server, cancelled>>

\* c.mu.Lock() succeeds; a retained worker is used, else one is started.
Acquire(c) ==
    /\ pc[c] = "lock"
    /\ mu = NoCaller
    /\ mu' = c
    /\ pc' = [pc EXCEPT ![c] = IF worker = 0 THEN "start" ELSE "write"]
    /\ using' = [using EXCEPT ![c] = worker]
    /\ UNCHANGED <<worker, started, nextID, op, size, outcome, server, cancelled>>

\* RunContext returns, its deferred Unlock runs, its locals are gone.
Return(c, result) ==
    /\ outcome' = [outcome EXCEPT ![op[c]] = result]
    /\ mu' = NoCaller
    /\ pc' = [pc EXCEPT ![c] = "idle"]
    /\ op' = [op EXCEPT ![c] = 0]
    /\ size' = [size EXCEPT ![c] = "small"]
    /\ using' = [using EXCEPT ![c] = 0]
    /\ cancelled' = [cancelled EXCEPT ![c] = FALSE]

-----------------------------------------------------------------------------
(* Starting and stopping worker processes *)

\* The binary cannot be resolved, or the process cannot be created.
StartFails(c) ==
    /\ pc[c] = "start"
    /\ Return(c, "refused")
    /\ UNCHANGED <<worker, started, nextID, server>>

\* cmd.Start succeeds: a fresh process with empty pipes; ComputerUse.worker is
\* still nil.
StartProcess(c) ==
    /\ pc[c] = "start"
    /\ started < MaxGen
    /\ started' = started + 1
    /\ proc' = [proc EXCEPT ![started + 1] = "running"]
    /\ using' = [using EXCEPT ![c] = started + 1]
    /\ pc' = [pc EXCEPT ![c] = "initWrite"]
    /\ UNCHANGED <<mu, worker, nextID, op, size, outcome, stdin, performed, initialized,
                   lastID, stdout, effects, cancelled>>

\* workerProcess.close: stdin is closed and SIGKILL sent to the process group.
Kill(g) == proc' = [proc EXCEPT ![g] = IF Live(g) THEN "killed" ELSE @]

\* Mutants of FailCall: startWorker returns without closing the process; the
\* worker is kept as after an ordinary error; the call is made again on a fresh
\* worker.
FailCallLeaks(c) ==
    /\ IF pc[c] \in Starting
       THEN Return(c, "refused") /\ UNCHANGED <<worker, proc>>
       ELSE Return(c, "lost") /\ worker' = 0 /\ Kill(using[c])
    /\ UNCHANGED <<started, nextID, stdin, performed, initialized, lastID, stdout, effects>>

FailCallKeepsWorker(c) ==
    /\ Return(c, IF pc[c] \in Starting THEN "refused" ELSE "error")
    /\ UNCHANGED <<worker, started, nextID, proc, stdin, performed, initialized, lastID,
                   stdout, effects>>

FailCallRetries(c) ==
    /\ Kill(using[c])
    /\ mu' = NoCaller
    /\ pc' = [pc EXCEPT ![c] = "lock"]
    /\ worker' = 0
    /\ UNCHANGED <<started, nextID, op, size, using, outcome, cancelled, stdin, performed,
                   initialized, lastID, stdout, effects>>

\* The call on the caller's process ended in a transport error (or, while the
\* worker is starting, in any error).  During initialize startWorker closes the
\* process and the worker stays nil; otherwise RunContext closes the retained
\* worker, forgets it, and tells the caller that its targets are gone.
FailCall(c) ==
    /\ Kill(using[c])
    /\ \/ /\ pc[c] \in Starting
          /\ Return(c, "refused")
          /\ UNCHANGED worker
       \/ /\ pc[c] \in Acting
          /\ Return(c, "lost")
          /\ worker' = 0
    /\ UNCHANGED <<started, nextID, stdin, performed, initialized, lastID, stdout, effects>>

\* ComputerUse.Close.  It needs the mutex, so it waits for a call in progress.
Close(c) ==
    /\ pc[c] = "idle"
    /\ mu = NoCaller
    /\ worker # 0
    /\ Kill(worker)
    /\ worker' = 0
    /\ UNCHANGED <<mu, started, nextID, pc, op, size, using, outcome, stdin, performed,
                   initialized, lastID, stdout, effects, cancelled>>

-----------------------------------------------------------------------------
(* workerProcess.call *)

\* The next request of a goroutine; initialize has no parameters.
NextRequest(c) ==
    [id     |-> nextID[using[c]] + 1,
     method |-> IF pc[c] = "initWrite" THEN "initialize" ELSE "action",
     op     |-> op[c],
     size   |-> IF pc[c] = "initWrite" THEN "small" ELSE size[c]]

\* A pipe takes a small line whole, whether or not the worker is reading; a
\* line longer than the pipe's buffer only goes through while the worker reads.
PipeAccepts(g, request) ==
    \/ proc[g] = "running"
    \/ proc[g] = "wedged" /\ request.size = "small"

\* The request gets the next id and its line is written to the worker's stdin.
Write(c) ==
    LET g == using[c] IN
    /\ pc[c] \in {"initWrite", "write"}
    /\ PipeAccepts(g, NextRequest(c))
    /\ nextID' = [nextID EXCEPT ![g] = @ + 1]
    /\ stdin' = [stdin EXCEPT ![g] = Append(@, NextRequest(c))]
    /\ pc' = [pc EXCEPT ![c] = IF @ = "initWrite" THEN "initAwait" ELSE "await"]
    /\ UNCHANGED <<mu, worker, started, op, size, using, outcome, proc, performed,
                   initialized, lastID, stdout, effects, cancelled>>

\* The worker has exited: the write ends in an error.
WriteFails(c) ==
    /\ pc[c] \in {"initWrite", "write"}
    /\ Exited(using[c])
    /\ FailCall(c)

Awaiting(c) == pc[c] \in {"initAwait", "await"}

\* decode: the frame is well formed and answers the request just written.
Decodes(c, reply) == reply.kind # "bad" /\ reply.id = nextID[using[c]]

\* A successful initialize: the worker is retained and the action follows.
ReceiveInitialized(c) ==
    LET g == using[c] IN
    /\ pc[c] = "initAwait"
    /\ stdout[g] # <<>>
    /\ Decodes(c, Head(stdout[g]))
    /\ Head(stdout[g]).kind = "ok"
    /\ stdout' = [stdout EXCEPT ![g] = Tail(@)]
    /\ worker' = g
    /\ pc' = [pc EXCEPT ![c] = "write"]
    /\ UNCHANGED <<mu, started, nextID, op, size, using, outcome, proc, stdin, performed,
                   initialized, lastID, effects, cancelled>>

\* A response to the action: its result, or the error a healthy worker reports.
ReceiveResult(c) ==
    LET g == using[c] IN
    /\ pc[c] = "await"
    /\ stdout[g] # <<>>
    /\ LET reply == Head(stdout[g]) IN
       /\ Decodes(c, reply)
       /\ Return(c, IF reply.kind = "ok" THEN "ok" ELSE "error")
    /\ stdout' = [stdout EXCEPT ![g] = Tail(@)]
    /\ UNCHANGED <<worker, started, nextID, proc, stdin, performed, initialized, lastID,
                   effects>>

\* A frame decode refuses, or an initialize that fails or names another server.
ReceiveRefused(c) ==
    /\ Awaiting(c)
    /\ stdout[using[c]] # <<>>
    /\ LET reply == Head(stdout[using[c]]) IN
         \/ ~Decodes(c, reply)
         \/ pc[c] = "initAwait" /\ reply.kind # "ok"
    /\ FailCall(c)

\* Clean or unclean end of the worker's stdout.
ReadFails(c) ==
    /\ Awaiting(c)
    /\ Exited(using[c])
    /\ stdout[using[c]] = <<>>
    /\ FailCall(c)

\* <-ctx.Done() or <-time.After(callTimeout); select picks any ready case, so
\* either may win over a response that is there.
CtxDone(c) ==
    /\ Awaiting(c)
    /\ cancelled[c]
    /\ FailCall(c)

\* Mutant: the timer guards the handshake only.
TimeoutOfHandshake(c) ==
    /\ pc[c] = "initAwait"
    /\ FailCall(c)

Timeout(c) ==
    /\ Awaiting(c)
    /\ FailCall(c)

-----------------------------------------------------------------------------
(* The worker process *)

\* dispatch: ids increase, initialize comes once and first.
Dispatches(g, m) ==
    /\ m.id > lastID[g]
    /\ (m.method = "initialize") # initialized[g]

\* The action of the request in hand is carried out.
Perform(g) ==
    /\ Executing(g)
    /\ stdin[g] # <<>>
    /\ LET m == Head(stdin[g]) IN
       /\ Dispatches(g, m)
       /\ m.method = "action"
       /\ ~performed[g]
       /\ effects' = [effects EXCEPT ![m.op] = @ + 1]
    /\ performed' = [performed EXCEPT ![g] = TRUE]
    /\ UNCHANGED <<client, proc, stdin, initialized, lastID, stdout, cancelled>>

\* Mutant: the worker may answer with an empty line.
ReplyKindsWithEmpty(g, m) == {"error", "empty"}

\* A success needs the action carried out; an error is reported before or after
\* it was (activate brings the application forward before it resolves the
\* window).  "alien" is a success with an identity that is not this worker's;
\* "bad" is a frame the decoder refuses.
ReplyKinds(g, m) ==
    {"error", "bad"}
      \cup (IF Dispatches(g, m) /\ m.method = "initialize" THEN {"ok", "alien"} ELSE {})
      \cup (IF Dispatches(g, m) /\ performed[g] THEN {"ok"} ELSE {})

\* The worker answers the request in hand and reads the next line.
Respond(g) ==
    /\ Executing(g)
    /\ stdin[g] # <<>>
    /\ LET m == Head(stdin[g]) IN
       /\ \E k \in ReplyKinds(g, m) :
            stdout' = [stdout EXCEPT ![g] = Append(@, [id |-> m.id, kind |-> k])]
       /\ lastID' = [lastID EXCEPT ![g] = IF m.id > @ THEN m.id ELSE @]
       /\ initialized' = [initialized EXCEPT ![g] =
                            @ \/ (Dispatches(g, m) /\ m.method = "initialize")]
    /\ stdin' = [stdin EXCEPT ![g] = Tail(@)]
    /\ performed' = [performed EXCEPT ![g] = FALSE]
    /\ UNCHANGED <<client, proc, effects, cancelled>>

\* The line exceeds 1 MiB: the worker answers with id 0 and exits.
RejectFrame(g) ==
    /\ Executing(g)
    /\ stdin[g] # <<>>
    /\ ~performed[g]
    /\ Head(stdin[g]).size = "big"
    /\ stdout' = [stdout EXCEPT ![g] = Append(@, [id |-> 0, kind |-> "error"])]
    /\ stdin' = [stdin EXCEPT ![g] = Tail(@)]
    /\ proc' = [proc EXCEPT ![g] = "dead"]
    /\ UNCHANGED <<client, performed, initialized, lastID, effects, cancelled>>

\* The process dies: of a signal just sent, or of itself at any moment.
Exit(g) ==
    /\ proc[g] \in {"running", "wedged", "killed"}
    /\ proc' = [proc EXCEPT ![g] = "dead"]
    /\ UNCHANGED <<client, stdin, performed, initialized, lastID, stdout, effects, cancelled>>

\* The process stops making progress without exiting.
Wedge(g) ==
    /\ proc[g] = "running"
    /\ proc' = [proc EXCEPT ![g] = "wedged"]
    /\ UNCHANGED <<client, stdin, performed, initialized, lastID, stdout, effects, cancelled>>

\* cmd.Wait, in its own goroutine, reaps the process and closes the pipe's read
\* end: a response not scanned yet is lost.
Reap(g) ==
    /\ proc[g] = "dead"
    /\ proc' = [proc EXCEPT ![g] = "reaped"]
    /\ stdout' = [stdout EXCEPT ![g] = <<>>]
    /\ UNCHANGED <<client, stdin, performed, initialized, lastID, effects, cancelled>>

\* The caller's context is cancelled (Ctrl-C in the command).
Cancel(c) ==
    /\ pc[c] # "idle"
    /\ ~cancelled[c]
    /\ cancelled' = [cancelled EXCEPT ![c] = TRUE]
    /\ UNCHANGED <<client, server>>

-----------------------------------------------------------------------------
CallerStep(c) ==
    \/ \E o \in Op : Invoke(c, o) \/ Reject(c, o)
    \/ Acquire(c) \/ StartFails(c) \/ StartProcess(c)
    \/ Write(c) \/ WriteFails(c)
    \/ ReceiveInitialized(c) \/ ReceiveResult(c) \/ ReceiveRefused(c)
    \/ ReadFails(c) \/ CtxDone(c) \/ Timeout(c)
    \/ Close(c) \/ Cancel(c)

WorkerStep(g) ==
    \/ Perform(g) \/ Respond(g) \/ RejectFrame(g)
    \/ Exit(g) \/ Wedge(g) \/ Reap(g)

Next == (\E c \in Caller : CallerStep(c)) \/ (\E g \in Gen : WorkerStep(g))

Spec == Init /\ [][Next]_vars

\* Go's mutex is starvation free; a goroutine that can take a step takes it; the
\* timer of callTimeout fires; a killed process dies.  Nothing is assumed of the
\* worker answering, or of a live worker at all.
Fairness ==
    /\ \A c \in Caller :
         /\ SF_vars(Acquire(c))
         /\ WF_vars(StartFails(c) \/ StartProcess(c))
         /\ WF_vars(Write(c) \/ WriteFails(c))
         /\ WF_vars(ReceiveInitialized(c) \/ ReceiveResult(c) \/ ReceiveRefused(c)
                      \/ ReadFails(c) \/ CtxDone(c) \/ Timeout(c))
    /\ \A g \in Gen : WF_vars(proc[g] = "killed" /\ Exit(g))

FairSpec == Spec /\ Fairness

-----------------------------------------------------------------------------
(* Correctness *)

\* No worker process is leaked: one that has not been killed is the retained
\* worker, or the one the holder of the mutex is initializing (startWorker and
\* RunContext close a process on every path that does not retain it).
NoOrphan ==
    \A g \in Gen : Live(g) =>
        \/ g = worker
        \/ \E c \in Caller : mu = c /\ pc[c] \in {"initWrite", "initAwait"} /\ using[c] = g

\* The retained worker never has more than one request or response in its
\* pipes, and none while no call awaits it: no call can read what an earlier
\* call left behind ("calls are serialized onto one worker process").
OneInFlight ==
    worker # 0 =>
        Len(stdin[worker]) + Len(stdout[worker])
            <= IF \E c \in Caller : pc[c] = "await" THEN 1 ELSE 0

\* Once a call has returned a result, an ordinary error or a refusal, its action
\* takes no effect any more; only a call reported as lost may still act late.
SettledIsFinal ==
    [][\A o \in Op : outcome[o] \in {"ok", "error", "refused"} => effects'[o] = effects[o]]_vars

\* Every call, seen from its caller, is a call of the serialized tool that
\* SerialTool describes: in its turn, at most once, and done when it says ok.
Tool == INSTANCE SerialTool WITH
            status  <- outcome,
            turn    <- IF mu = NoCaller THEN 0 ELSE op[mu],
            effects <- effects

ImplementsSerialTool == Tool!Spec

\* RunContext returns, whatever the worker does: callTimeout guards against a
\* wedged process.
Returns == \A c \in Caller : pc[c] # "idle" ~> pc[c] = "idle"

\* A request that does not fit the pipe of a worker that reads no more.
Blocked(c) ==
    /\ pc[c] \in {"initWrite", "write"}
    /\ proc[using[c]] = "wedged"
    /\ ~PipeAccepts(using[c], NextRequest(c))

\* Every call returns whatever the worker does, for the timer and not the worker
\* ends the wait, unless a call is blocked in the write before its timer starts:
\* nothing else, of its own or of those before it at the mutex, keeps a call waiting.
ReturnsUnlessBlocked ==
    \A c \in Caller : pc[c] # "idle" ~> (pc[c] = "idle" \/ \E d \in Caller : Blocked(d))
=============================================================================
