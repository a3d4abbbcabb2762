------------------------- MODULE ComputerUse_proofs -------------------------
(***************************************************************************)
(* Theorems about ComputerUse for any number of goroutines, calls and      *)
(* worker processes: its invariants, and that it implements SerialTool;    *)
(* and about CompileCache, where it finds its worker, for any number of    *)
(* processes of the program.                                               *)
(***************************************************************************)
EXTENDS ComputerUse, CompileCache, SequenceTheorems, TLAPS

-----------------------------------------------------------------------------
(* The inductive invariant *)

\* A goroutine that is in RunContext makes a call.
CallsKnown == \A c \in Caller : pc[c] # "idle" => op[c] \in Op

\* Exactly the holder of the mutex is past c.mu.Lock().
Locked == \A c \in Caller : pc[c] \in Inside <=> mu = c

\* A starting goroutine works on the newest process while the worker is nil; an
\* acting one works on the retained worker.
UsesWorker ==
    /\ \A c \in Caller :
         /\ pc[c] \in Starting => worker = 0
         /\ pc[c] \in {"initWrite", "initAwait"} => using[c] \in Gen /\ using[c] = started
         /\ pc[c] \in Acting => worker \in Gen /\ using[c] = worker
    /\ worker <= started

\* Nothing is known of processes not started yet.
NotStarted ==
    \A g \in Gen : g > started => proc[g] = "none" /\ stdin[g] = <<>> /\ stdout[g] = <<>>

\* The process calls go to, retained or being initialized.
Current(g) ==
    \/ g = worker
    \/ \E c \in Caller : pc[c] \in {"initWrite", "initAwait"} /\ using[c] = g

Expected(g) == \E c \in Caller : pc[c] \in {"initAwait", "await"} /\ using[c] = g

\* The current process has a request or a response in its pipes only while a
\* call awaits it, and then at most one.
Quiet ==
    \A g \in Gen : Current(g) =>
        /\ ~Expected(g) => stdin[g] = <<>> /\ stdout[g] = <<>>
        /\ stdin[g] = <<>> \/ stdout[g] = <<>>
        /\ Len(stdin[g]) <= 1
        /\ Len(stdout[g]) <= 1

IInv ==
    /\ TypeOK
    /\ CallsKnown
    /\ Locked
    /\ UsesWorker
    /\ NotStarted
    /\ NoOrphan
    /\ Quiet

-----------------------------------------------------------------------------
(* Type correctness *)

USE NoCallerAssumption, OpAssumption, MaxGenAssumption, SizesAssumption

\* A call that fails changes no types, whatever it fails of.
LEMMA FailCallType ==
    ASSUME TypeOK, NEW c \in Caller, FailCall(c)
    PROVE  TypeOK'
<1>1. mu' \in Caller \cup {NoCaller} /\ worker' \in Gen \cup {0}
  BY DEF TypeOK, FailCall, Return
<1>2. proc' \in [Gen -> Proc]
  BY DEF TypeOK, FailCall, Kill, Proc
<1>3. outcome' \in [Op -> Outcome]
  BY DEF TypeOK, FailCall, Return, Outcome
<1>4. /\ pc' \in [Caller -> Pc] /\ op' \in [Caller -> Op \cup {0}]
      /\ size' \in [Caller -> {"small", "big"}] /\ using' \in [Caller -> Gen \cup {0}]
      /\ cancelled' \in [Caller -> BOOLEAN]
  BY DEF TypeOK, FailCall, Return, Pc
<1> QED
  BY <1>1, <1>2, <1>3, <1>4 DEF TypeOK, FailCall

\* Taking a line from a pipe, and adding one.
LEMMA PipeType ==
    ASSUME NEW T, NEW pipe \in [Gen -> Seq(T)], NEW g \in Gen
    PROVE  /\ pipe[g] # <<>> => /\ Head(pipe[g]) \in T
                                /\ [pipe EXCEPT ![g] = Tail(@)] \in [Gen -> Seq(T)]
           /\ \A line \in T : [pipe EXCEPT ![g] = Append(@, line)] \in [Gen -> Seq(T)]
<1>1. pipe[g] # <<>> => Head(pipe[g]) \in T /\ Tail(pipe[g]) \in Seq(T)
  OBVIOUS
<1>2. \A line \in T : Append(pipe[g], line) \in Seq(T)
  OBVIOUS
<1> QED
  BY <1>1, <1>2

\* Every step preserves the type invariant.
LEMMA TypeStep ==
    ASSUME TypeOK, CallsKnown, UsesWorker, [Next]_vars
    PROVE  TypeOK'
<1> USE DEF TypeOK, Proc, Pc, Outcome, Inside, Starting, Acting
<1>1. ASSUME NEW c \in Caller, NEW o \in Op, Invoke(c, o) \/ Reject(c, o) PROVE TypeOK'
  <2>1. CASE Invoke(c, o)
    BY <2>1 DEF Invoke, server
  <2>2. CASE Reject(c, o)
    BY <2>2 DEF Reject, server
  <2> QED
    BY <1>1, <2>1, <2>2
<1>2. ASSUME NEW c \in Caller, Acquire(c) PROVE TypeOK'
  BY <1>2 DEF Acquire, server
<1>3. ASSUME NEW c \in Caller, StartFails(c) PROVE TypeOK'
  BY <1>3 DEF StartFails, Return, server
<1>4. ASSUME NEW c \in Caller, StartProcess(c) PROVE TypeOK'
  <2>1. started + 1 \in Gen
    BY <1>4 DEF StartProcess, Gen
  <2> QED
    BY <1>4, <2>1 DEF StartProcess
<1>5. ASSUME NEW c \in Caller, Write(c) PROVE TypeOK'
  <2>1. using[c] \in Gen
    BY <1>5 DEF Write, UsesWorker
  <2>2. NextRequest(c) \in Request
    BY <1>5, <2>1 DEF Write, NextRequest, Request, CallsKnown
  <2>3. stdin' \in [Gen -> Seq(Request)]
    BY <1>5, <2>1, <2>2, PipeType DEF Write
  <2>4. nextID' \in [Gen -> Nat]
    BY <1>5, <2>1 DEF Write
  <2>5. pc' \in [Caller -> Pc]
    BY <1>5 DEF Write
  <2> QED
    BY <1>5, <2>3, <2>4, <2>5 DEF Write
<1>6. ASSUME NEW c \in Caller, WriteFails(c) PROVE TypeOK'
  BY <1>6, FailCallType DEF WriteFails
<1>7. ASSUME NEW c \in Caller, ReceiveInitialized(c) PROVE TypeOK'
  <2>1. using[c] \in Gen
    BY <1>7 DEF ReceiveInitialized, UsesWorker
  <2>2. stdout' \in [Gen -> Seq(Reply)]
    BY <1>7, <2>1, PipeType DEF ReceiveInitialized
  <2> QED
    BY <1>7, <2>2 DEF ReceiveInitialized
<1>8. ASSUME NEW c \in Caller, ReceiveResult(c) PROVE TypeOK'
  <2>1. using[c] \in Gen
    BY <1>8 DEF ReceiveResult, UsesWorker
  <2>2. stdout' \in [Gen -> Seq(Reply)]
    BY <1>8, <2>1, PipeType DEF ReceiveResult
  <2>4. \E result \in {"ok", "error"} : Return(c, result)
    BY <1>8 DEF ReceiveResult
  <2>5. /\ mu' \in Caller \cup {NoCaller} /\ pc' \in [Caller -> Pc]
        /\ op' \in [Caller -> Op \cup {0}] /\ size' \in [Caller -> {"small", "big"}]
        /\ using' \in [Caller -> Gen \cup {0}] /\ cancelled' \in [Caller -> BOOLEAN]
    BY <2>4 DEF Return
  <2>6. outcome' \in [Op -> Outcome]
    BY <2>4 DEF Return
  <2> QED
    BY <1>8, <2>2, <2>5, <2>6 DEF ReceiveResult
<1>9. ASSUME NEW c \in Caller, ReceiveRefused(c) PROVE TypeOK'
  BY <1>9, FailCallType DEF ReceiveRefused
<1>10. ASSUME NEW c \in Caller, ReadFails(c) PROVE TypeOK'
  BY <1>10, FailCallType DEF ReadFails
<1>11. ASSUME NEW c \in Caller, CtxDone(c) PROVE TypeOK'
  BY <1>11, FailCallType DEF CtxDone
<1>12. ASSUME NEW c \in Caller, Timeout(c) PROVE TypeOK'
  BY <1>12, FailCallType DEF Timeout
<1>13. ASSUME NEW c \in Caller, Close(c) PROVE TypeOK'
  BY <1>13 DEF Close, Kill, Live
<1>14. ASSUME NEW c \in Caller, Cancel(c) PROVE TypeOK'
  BY <1>14 DEF Cancel, client, server
<1>15. ASSUME NEW g \in Gen, Perform(g) PROVE TypeOK'
  <2>1. Head(stdin[g]) \in Request
    BY <1>15, PipeType DEF Perform
  <2> DEFINE o == Head(stdin[g]).op
  <2>4. o \in Op /\ effects' = [effects EXCEPT ![o] = @ + 1]
    BY <1>15, <2>1 DEF Perform, Request
  <2> HIDE DEF o
  <2>2. effects' \in [Op -> Nat]
    BY <2>4
  <2>3. performed' \in [Gen -> BOOLEAN]
    BY <1>15 DEF Perform
  <2> QED
    BY <1>15, <2>2, <2>3 DEF Perform, client
<1>16. ASSUME NEW g \in Gen, Respond(g) PROVE TypeOK'
  <2>1. Head(stdin[g]) \in Request /\ stdin' \in [Gen -> Seq(Request)]
    BY <1>16, PipeType DEF Respond
  <2>2. \A k \in ReplyKinds(g, Head(stdin[g])) : [id |-> Head(stdin[g]).id, kind |-> k] \in Reply
    BY <2>1 DEF ReplyKinds, Request, Reply
  <2>3. stdout' \in [Gen -> Seq(Reply)]
    BY <1>16, <2>2, PipeType DEF Respond
  <2>4. lastID' \in [Gen -> Nat]
    BY <1>16, <2>1 DEF Respond, Request
  <2>5. initialized' \in [Gen -> BOOLEAN] /\ performed' \in [Gen -> BOOLEAN]
    BY <1>16 DEF Respond, Dispatches
  <2> QED
    BY <1>16, <2>1, <2>3, <2>4, <2>5 DEF Respond, client
<1>17. ASSUME NEW g \in Gen, RejectFrame(g) PROVE TypeOK'
  <2>1. stdin' \in [Gen -> Seq(Request)]
    BY <1>17, PipeType DEF RejectFrame
  <2>2. [id |-> 0, kind |-> "error"] \in Reply
    BY DEF Reply
  <2>3. stdout' \in [Gen -> Seq(Reply)]
    BY <1>17, <2>2, PipeType DEF RejectFrame
  <2> QED
    BY <1>17, <2>1, <2>3 DEF RejectFrame, client
<1>18. ASSUME NEW g \in Gen, Exit(g) PROVE TypeOK'
  BY <1>18 DEF Exit, client
<1>19. ASSUME NEW g \in Gen, Wedge(g) PROVE TypeOK'
  BY <1>19 DEF Wedge, client
<1>20. ASSUME NEW g \in Gen, Reap(g) PROVE TypeOK'
  BY <1>20 DEF Reap, client
<1>21. CASE UNCHANGED vars
  BY <1>21 DEF vars, client, server
<1> QED
  BY <1>1, <1>2, <1>3, <1>4, <1>5, <1>6, <1>7, <1>8, <1>9, <1>10, <1>11, <1>12, <1>13, <1>14,
     <1>15, <1>16, <1>17, <1>18, <1>19, <1>20, <1>21 DEF Next, CallerStep, WorkerStep

-----------------------------------------------------------------------------
(* Who holds the mutex and which process it uses *)

Control == CallsKnown /\ Locked /\ UsesWorker

\* Returning with the mutex held, the worker kept or forgotten.
LEMMA ReturnControl ==
    ASSUME TypeOK, Control, NEW c \in Caller, NEW result, pc[c] \in Inside,
           Return(c, result), worker' \in {0, worker}, started' = started
    PROVE  Control'
<1>1. /\ mu' = NoCaller
      /\ pc' = [pc EXCEPT ![c] = "idle"]
      /\ op' = [op EXCEPT ![c] = 0]
  BY DEF Return
<1>2. \A d \in Caller : pc'[d] = IF d = c THEN "idle" ELSE pc[d]
  BY <1>1 DEF TypeOK
<1>3. \A d \in Caller : d # c => op'[d] = op[d]
  BY <1>1 DEF TypeOK
<1>4. CallsKnown'
  BY <1>2, <1>3 DEF Control, CallsKnown
<1>5. \A d \in Caller : pc'[d] \notin Inside
  BY <1>2 DEF Control, Locked, Inside, Starting, Acting
<1>6. Locked'
  BY <1>1, <1>5 DEF Locked
<1>7. worker' <= started'
  BY <1>1 DEF TypeOK, Control, UsesWorker, Gen
<1>8. UsesWorker'
  BY <1>5, <1>7 DEF UsesWorker, Inside, Starting, Acting
<1> QED
  BY <1>4, <1>6, <1>8 DEF Control

\* Every step keeps the callers, the mutex and the retained worker consistent.
LEMMA ControlStep ==
    ASSUME TypeOK, Control, [Next]_vars
    PROVE  Control'
<1> USE DEF TypeOK, Control, CallsKnown, Locked, UsesWorker, Inside, Starting, Acting, Gen
<1>1. ASSUME NEW c \in Caller, NEW o \in Op, Invoke(c, o) PROVE Control'
  BY <1>1 DEF Invoke
<1>2. ASSUME NEW c \in Caller, NEW o \in Op, Reject(c, o) PROVE Control'
  BY <1>2 DEF Reject
<1>3. ASSUME NEW c \in Caller, Acquire(c) PROVE Control'
  BY <1>3 DEF Acquire
<1>4. ASSUME NEW c \in Caller, StartFails(c) PROVE Control'
  BY <1>4, ReturnControl DEF StartFails
<1>5. ASSUME NEW c \in Caller, StartProcess(c) PROVE Control'
  BY <1>5 DEF StartProcess
<1>6. ASSUME NEW c \in Caller, Write(c) PROVE Control'
  BY <1>6 DEF Write
<1>7. ASSUME NEW c \in Caller, FailCall(c) PROVE Control'
  BY <1>7, ReturnControl DEF FailCall
<1>8. ASSUME NEW c \in Caller, ReceiveInitialized(c) PROVE Control'
  <2>1. CallsKnown' /\ Locked'
    BY <1>8 DEF ReceiveInitialized
  <2>2. worker' \in Gen /\ worker' = using[c] /\ worker' = started'
    BY <1>8 DEF ReceiveInitialized
  <2>3. \A d \in Caller : d # c => pc'[d] \notin Inside
    BY <1>8 DEF ReceiveInitialized
  <2>4. UsesWorker'
    BY <1>8, <2>2, <2>3 DEF ReceiveInitialized
  <2> QED
    BY <2>1, <2>4
<1>9. ASSUME NEW c \in Caller, ReceiveResult(c) PROVE Control'
  <2>1. \E result : Return(c, result)
    BY <1>9 DEF ReceiveResult
  <2>2. pc[c] \in Inside /\ worker' = worker /\ started' = started
    BY <1>9 DEF ReceiveResult
  <2> QED
    BY <2>1, <2>2, ReturnControl
<1>10. ASSUME NEW c \in Caller, Close(c) PROVE Control'
  <2>1. worker' = 0 /\ UNCHANGED <<mu, started, pc, op, using, outcome>>
    BY <1>10 DEF Close
  <2>2. \A d \in Caller : pc[d] \notin Inside
    BY <1>10 DEF Close
  <2>3. UsesWorker'
    BY <2>1, <2>2
  <2> QED
    BY <2>1, <2>3
<1>11. ASSUME UNCHANGED client PROVE Control'
  BY <1>11 DEF client
<1>12. CASE \E c \in Caller : CallerStep(c)
  BY <1>1, <1>2, <1>3, <1>4, <1>5, <1>6, <1>7, <1>8, <1>9, <1>10, <1>11, <1>12
     DEF CallerStep, WriteFails, ReceiveRefused, ReadFails, CtxDone, Timeout, Cancel
<1>13. CASE \E g \in Gen : WorkerStep(g)
  BY <1>11, <1>13 DEF WorkerStep, Perform, Respond, RejectFrame, Exit, Wedge, Reap
<1>14. CASE UNCHANGED vars
  BY <1>11, <1>14 DEF vars
<1> QED
  BY <1>12, <1>13, <1>14 DEF Next

-----------------------------------------------------------------------------
(* Worker processes and their pipes *)

\* close() kills the one process it is called on, if it still runs.
LEMMA KillEffect ==
    ASSUME TypeOK, NEW g \in Gen \cup {0}, Kill(g)
    PROVE  \A h \in Gen : proc'[h] = IF h = g /\ Live(h) THEN "killed" ELSE proc[h]
BY DEF TypeOK, Kill

\* Every step leaves the processes not yet started, and their pipes, untouched.
LEMMA NotStartedStep ==
    ASSUME TypeOK, Control, NotStarted, [Next]_vars
    PROVE  NotStarted'
<1> USE DEF TypeOK, NotStarted
<1>1. ASSUME NEW c \in Caller, StartProcess(c) PROVE NotStarted'
  <2>1. /\ started' = started + 1 /\ started + 1 \in Gen /\ started \in Nat
        /\ UNCHANGED <<stdin, stdout>>
    BY <1>1 DEF StartProcess, Gen
  <2>2. \A h \in Gen : h # started + 1 => proc'[h] = proc[h]
    BY <1>1 DEF StartProcess
  <2>3. \A h \in Gen : h > started + 1 => h > started /\ h # started + 1
    BY <2>1 DEF Gen
  <2> QED
    BY <2>1, <2>2, <2>3
<1>2. ASSUME NEW c \in Caller, Write(c) PROVE NotStarted'
  <2>1. using[c] \in Gen /\ ~(using[c] > started)
    <3>1. CASE pc[c] = "initWrite"
      BY <3>1 DEF Control, UsesWorker, Gen
    <3>2. CASE pc[c] = "write"
      BY <3>2 DEF Control, UsesWorker, Acting, Gen
    <3> QED
      BY <1>2, <3>1, <3>2 DEF Write
  <2>2. /\ UNCHANGED <<started, proc, stdout>>
        /\ \A h \in Gen : h # using[c] => stdin'[h] = stdin[h]
    BY <1>2 DEF Write
  <2> QED
    BY <2>1, <2>2
<1>3. ASSUME NEW g \in Gen \cup {0}, Kill(g), UNCHANGED <<started, stdin, stdout>>
      PROVE  NotStarted'
  <2>1. \A h \in Gen : proc[h] = "none" => proc'[h] = "none"
    BY <1>3, KillEffect DEF Live
  <2> QED
    BY <1>3, <2>1
<1>4. ASSUME NEW c \in Caller, FailCall(c) PROVE NotStarted'
  BY <1>3, <1>4 DEF FailCall
<1>5. ASSUME NEW c \in Caller, ReceiveInitialized(c) \/ ReceiveResult(c) PROVE NotStarted'
  <2>1. stdout' = [stdout EXCEPT ![using[c]] = Tail(@)] /\ stdout[using[c]] # <<>>
    BY <1>5 DEF ReceiveInitialized, ReceiveResult
  <2>2. UNCHANGED <<started, proc, stdin>>
    BY <1>5 DEF ReceiveInitialized, ReceiveResult
  <2> QED
    BY <2>1, <2>2
<1>6. ASSUME NEW c \in Caller, Close(c) PROVE NotStarted'
  BY <1>3, <1>6 DEF Close
<1>7. ASSUME NEW g \in Gen, Perform(g) \/ Exit(g) \/ Wedge(g) \/ Reap(g) PROVE NotStarted'
  BY <1>7 DEF Perform, Exit, Wedge, Reap, client
<1>8. ASSUME NEW g \in Gen, Respond(g) \/ RejectFrame(g) PROVE NotStarted'
  <2>1. /\ stdin[g] # <<>> /\ started' = started
        /\ \A h \in Gen : h # g => /\ proc'[h] = proc[h]
                                   /\ stdin'[h] = stdin[h]
                                   /\ stdout'[h] = stdout[h]
    BY <1>8 DEF Respond, RejectFrame, client
  <2> QED
    BY <2>1
<1>9. ASSUME UNCHANGED <<started, proc, stdin, stdout>> PROVE NotStarted'
  BY <1>9
<1>10. CASE \E c \in Caller : CallerStep(c)
  BY <1>1, <1>2, <1>4, <1>5, <1>6, <1>9, <1>10
     DEF CallerStep, Invoke, Reject, Acquire, StartFails, WriteFails, ReceiveRefused, ReadFails,
         CtxDone, Timeout, Cancel, client, server
<1>11. CASE \E g \in Gen : WorkerStep(g)
  BY <1>7, <1>8, <1>11 DEF WorkerStep
<1>12. CASE UNCHANGED vars
  BY <1>9, <1>12 DEF vars, client, server
<1> QED
  BY <1>10, <1>11, <1>12 DEF Next

\* The current process is what NoOrphan, Quiet and the pipes are about; a step
\* that leaves the client's variables alone leaves it, and who awaits it, alone.
LEMMA CurrentSame ==
    ASSUME UNCHANGED client
    PROVE  \A g \in Gen : (Current(g)' <=> Current(g)) /\ (Expected(g)' <=> Expected(g))
BY DEF client, Current, Expected

\* NoOrphan in terms of the current process.
LEMMA OrphanCurrent ==
    ASSUME Locked
    PROVE  NoOrphan <=> \A g \in Gen : Live(g) => Current(g)
BY DEF NoOrphan, Current, Locked, Inside, Starting

\* When the mutex is held, the holder's process is the only current one; when
\* the holder's call ends without a worker, none is.
LEMMA CurrentOfHolder ==
    ASSUME TypeOK, Control, NEW c \in Caller, pc[c] \in Inside, NEW g \in Gen, Current(g)
    PROVE  g = using[c] /\ pc[c] # "start"
<1>1. \A d \in Caller : pc[d] \in Inside => d = c
  BY DEF Control, Locked
<1>2. CASE g = worker
  <2>1. pc[c] \notin Starting
    BY <1>2 DEF Control, UsesWorker, Gen
  <2>2. pc[c] \in Acting
    BY <2>1 DEF Inside
  <2> QED
    BY <1>2, <2>2 DEF Control, UsesWorker, Acting
<1>3. CASE \E d \in Caller : pc[d] \in {"initWrite", "initAwait"} /\ using[d] = g
  BY <1>1, <1>3 DEF Inside, Starting
<1> QED
  BY <1>2, <1>3 DEF Current

\* Every step keeps live processes current: each process that stops being
\* current is killed in the same step.
LEMMA OrphanStep ==
    ASSUME TypeOK, Control, NotStarted, NoOrphan, [Next]_vars, Locked'
    PROVE  NoOrphan'
<1> DEFINE Owned == \A g \in Gen : Live(g) => Current(g)
<1>0. Owned /\ (NoOrphan' <=> Owned')
  BY OrphanCurrent, PTL DEF Control
<1> SUFFICES Owned'
  BY <1>0
<1>1. ASSUME NEW c \in Caller, StartProcess(c) PROVE Owned'
  <2>1. \A g \in Gen : ~Live(g)
    BY <1>0, <1>1, CurrentOfHolder DEF StartProcess, Inside, Starting
  <2>2. \A g \in Gen : Live(g)' => g = started + 1
    BY <1>1, <2>1 DEF StartProcess, Live, TypeOK
  <2>3. pc'[c] = "initWrite" /\ using'[c] = started + 1
    BY <1>1 DEF StartProcess, TypeOK
  <2> QED
    BY <2>2, <2>3 DEF Current
<1>2. ASSUME NEW c \in Caller, FailCall(c) PROVE Owned'
  <2>1. pc[c] \in Inside /\ Kill(using[c]) /\ using[c] \in Gen \cup {0}
    BY <1>2 DEF FailCall, Inside, TypeOK
  <2>2. \A g \in Gen : Live(g) => g = using[c]
    BY <1>0, <2>1, CurrentOfHolder
  <2>3. \A g \in Gen : ~Live(g)'
    BY <2>1, <2>2, KillEffect DEF Live
  <2> QED
    BY <2>3
<1>3. ASSUME NEW c \in Caller, Close(c) PROVE Owned'
  <2>1. \A d \in Caller : pc[d] \notin Inside
    BY <1>3, NoCallerAssumption DEF Close, Control, Locked
  <2>2. \A g \in Gen : Live(g) => g = worker
    BY <1>0, <2>1 DEF Current, Inside, Starting
  <2>3. \A g \in Gen : ~Live(g)'
    BY <1>3, <2>2, KillEffect DEF Live, Close, TypeOK
  <2> QED
    BY <2>3
<1>4. ASSUME NEW c \in Caller, ReceiveInitialized(c) PROVE Owned'
  <2>1. \A g \in Gen : Live(g)' => g = using[c]
    BY <1>0, <1>4, CurrentOfHolder DEF ReceiveInitialized, Inside, Starting, Live
  <2> QED
    BY <1>4, <2>1 DEF ReceiveInitialized, Current
<1>5. ASSUME NEW c \in Caller, StartFails(c) PROVE Owned'
  BY <1>0, <1>5, CurrentOfHolder DEF StartFails, server, Live, Inside, Starting
<1>6. ASSUME NEW c \in Caller, Write(c) \/ ReceiveResult(c) \/ Acquire(c) PROVE Owned'
  <2>1. UNCHANGED <<worker, proc>>
    BY <1>6 DEF Write, ReceiveResult, Acquire, server
  <2>2. \A d \in Caller : pc[d] \in {"initWrite", "initAwait"} =>
           pc'[d] \in {"initWrite", "initAwait"} /\ using'[d] = using[d]
    BY <1>6 DEF Write, ReceiveResult, Return, Acquire, TypeOK
  <2> QED
    BY <1>0, <2>1, <2>2 DEF Current, Live
<1>7. ASSUME NEW c \in Caller, NEW o \in Op, Invoke(c, o) \/ Reject(c, o) PROVE Owned'
  <2>1. UNCHANGED <<worker, proc, using>>
    BY <1>7 DEF Invoke, Reject, server
  <2>2. \A d \in Caller : pc[d] \in {"initWrite", "initAwait"} => pc'[d] = pc[d]
    BY <1>7 DEF Invoke, Reject, TypeOK
  <2> QED
    BY <1>0, <2>1, <2>2 DEF Current, Live
<1>8. ASSUME UNCHANGED client, \A g \in Gen : Live(g)' => Live(g) PROVE Owned'
  BY <1>0, <1>8, CurrentSame
<1>9. CASE \E c \in Caller : CallerStep(c)
  BY <1>1, <1>2, <1>3, <1>4, <1>5, <1>6, <1>7, <1>8, <1>9
     DEF CallerStep, WriteFails, ReceiveRefused, ReadFails, CtxDone, Timeout, Cancel, server, Live
<1>10. ASSUME NEW g \in Gen, WorkerStep(g) PROVE Owned'
  <2>1. UNCHANGED client /\ proc' \in {proc, [proc EXCEPT ![g] = "dead"],
                                       [proc EXCEPT ![g] = "reaped"],
                                       [proc EXCEPT ![g] = "wedged"]}
    BY <1>10 DEF WorkerStep, Perform, Respond, RejectFrame, Exit, Wedge, Reap
  <2>2. proc' = [proc EXCEPT ![g] = "wedged"] => Live(g) \/ proc' = proc
    BY <1>10 DEF WorkerStep, Perform, Respond, RejectFrame, Exit, Wedge, Reap, Live, TypeOK
  <2>3. \A h \in Gen : Live(h)' => Live(h)
    BY <2>1, <2>2 DEF Live, TypeOK
  <2> QED
    BY <1>8, <2>1, <2>3
<1>11. CASE UNCHANGED vars
  BY <1>8, <1>11 DEF vars, server, Live
<1> QED
  BY <1>9, <1>10, <1>11 DEF Next

\* Adding a line to an empty pipe, and taking the only one.
LEMMA OneLine ==
    ASSUME NEW T, NEW s \in Seq(T), NEW line \in T
    PROVE  /\ s = <<>> => Len(Append(s, line)) <= 1
           /\ Len(s) <= 1 /\ s # <<>> => Tail(s) = <<>>
OBVIOUS

\* What Quiet says of one process.
QuietAt(g) ==
    /\ ~Expected(g) => stdin[g] = <<>> /\ stdout[g] = <<>>
    /\ stdin[g] = <<>> \/ stdout[g] = <<>>
    /\ Len(stdin[g]) <= 1
    /\ Len(stdout[g]) <= 1

\* Every step keeps the current process's pipes quiet.
LEMMA QuietStep ==
    ASSUME TypeOK, Control, NotStarted, Quiet, [Next]_vars
    PROVE  Quiet'
<1>0. /\ \A g \in Gen : Current(g) => QuietAt(g)
      /\ Quiet' <=> \A g \in Gen : Current(g)' => QuietAt(g)'
  BY DEF Quiet, QuietAt
<1> SUFFICES ASSUME NEW g \in Gen, Current(g)' PROVE QuietAt(g)'
  BY <1>0
<1>1. ASSUME NEW c \in Caller, FailCall(c) \/ StartFails(c) \/ Close(c) PROVE FALSE
  <2>1. worker' = 0
    BY <1>1 DEF FailCall, StartFails, Close, Control, UsesWorker, Starting
  <2>2. \A d \in Caller : pc'[d] \notin Inside
    <3>1. CASE FailCall(c) \/ StartFails(c)
      <4>1. \A d \in Caller : d # c => pc[d] \notin Inside
        BY <3>1 DEF FailCall, StartFails, Control, Locked, Inside, Starting
      <4>2. pc' = [pc EXCEPT ![c] = "idle"]
        BY <3>1 DEF FailCall, StartFails, Return
      <4> QED
        BY <4>1, <4>2 DEF TypeOK, Inside, Starting, Acting
    <3>2. CASE Close(c)
      BY <3>2, NoCallerAssumption DEF Close, Control, Locked
    <3> QED
      BY <1>1, <3>1, <3>2
  <2>3. ~Current(g)'
    BY <2>1, <2>2 DEF Current, Inside, Starting, Gen
  <2> QED
    BY <2>3
<1>2. ASSUME NEW c \in Caller, StartProcess(c) PROVE QuietAt(g)'
  <2>1. \A d \in Caller : d # c => pc[d] \notin Inside
    BY <1>2 DEF StartProcess, Control, Locked, Inside, Starting
  <2>2. /\ pc' = [pc EXCEPT ![c] = "initWrite"]
        /\ using' = [using EXCEPT ![c] = started + 1]
        /\ UNCHANGED <<stdin, stdout, worker>>
        /\ worker = 0
    BY <1>2 DEF StartProcess, Control, UsesWorker, Starting
  <2>3. g = started + 1
    BY <2>1, <2>2 DEF Current, TypeOK, Inside, Starting, Gen
  <2>4. stdin[g] = <<>> /\ stdout[g] = <<>>
    BY <2>3 DEF NotStarted, TypeOK, Gen
  <2> QED
    BY <2>2, <2>4 DEF QuietAt
<1>3. ASSUME NEW c \in Caller, Write(c) PROVE QuietAt(g)'
  <2>1. \A d \in Caller : d # c => pc[d] \notin Inside
    BY <1>3 DEF Write, Control, Locked, Inside, Starting, Acting
  <2>2. Current(g) /\ pc[c] \in Inside
    BY <1>3 DEF Write, Current, TypeOK, Inside, Starting, Acting
  <2>3. g = using[c]
    BY <2>2, CurrentOfHolder
  <2>4. ~Expected(g)
    BY <1>3, <2>1 DEF Write, Expected, Inside, Starting, Acting
  <2>5. stdin[g] = <<>> /\ stdout[g] = <<>>
    BY <1>0, <2>2, <2>4 DEF QuietAt
  <2>6. stdin'[g] = Append(stdin[g], NextRequest(c)) /\ stdout'[g] = <<>>
    BY <1>3, <2>3, <2>5 DEF Write, TypeOK
  <2>7. Expected(g)'
    BY <1>3, <2>3 DEF Write, Expected, TypeOK
  <2> QED
    BY <2>5, <2>6, <2>7, OneLine DEF QuietAt
<1>4. ASSUME NEW c \in Caller, ReceiveInitialized(c) \/ ReceiveResult(c) PROVE QuietAt(g)'
  <2>1. /\ pc[c] \in {"initAwait", "await"} /\ stdout[using[c]] # <<>>
        /\ stdout' = [stdout EXCEPT ![using[c]] = Tail(@)] /\ stdin' = stdin
    BY <1>4 DEF ReceiveInitialized, ReceiveResult
  <2>2. worker' = using[c]
    BY <1>4, <2>1 DEF ReceiveInitialized, ReceiveResult, Control, UsesWorker, Acting
  <2>3. \A d \in Caller : pc'[d] \notin {"initWrite", "initAwait"}
    <3>1. \A d \in Caller : d # c => pc[d] \notin Inside
      BY <2>1 DEF Control, Locked, Inside, Starting, Acting
    <3>2. pc' \in {[pc EXCEPT ![c] = "write"], [pc EXCEPT ![c] = "idle"]}
      BY <1>4 DEF ReceiveInitialized, ReceiveResult, Return
    <3> QED
      BY <3>1, <3>2 DEF TypeOK, Inside, Starting
  <2>4. g = using[c]
    BY <2>2, <2>3 DEF Current
  <2>5. Current(g)
    BY <2>1, <2>4 DEF Current, Control, UsesWorker, Acting
  <2>6. stdin'[g] = <<>> /\ stdout'[g] = <<>>
    <3>1. stdin[g] = <<>> /\ Len(stdout[g]) <= 1
      BY <1>0, <2>1, <2>4, <2>5 DEF QuietAt
    <3>2. stdout'[g] = Tail(stdout[g])
      BY <2>1, <2>4 DEF TypeOK
    <3>3. Head(stdout[g]) \in Reply /\ stdout[g] \in Seq(Reply)
      BY <2>1, <2>4, PipeType DEF TypeOK
    <3> QED
      BY <2>1, <2>4, <3>1, <3>2, <3>3, OneLine
  <2> QED
    BY <2>6 DEF QuietAt
<1>5. ASSUME NEW c \in Caller, Acquire(c) PROVE QuietAt(g)'
  <2>1. /\ UNCHANGED <<worker, stdin, stdout>>
        /\ \A d \in Caller : d # c => pc'[d] = pc[d] /\ using'[d] = using[d]
        /\ pc[c] = "lock" /\ pc'[c] \in {"start", "write"}
    BY <1>5 DEF Acquire, server, TypeOK
  <2> QED
    BY <1>0, <2>1 DEF Current, Expected, QuietAt
<1>6. ASSUME NEW c \in Caller, NEW o \in Op, Invoke(c, o) \/ Reject(c, o) PROVE QuietAt(g)'
  <2>1. /\ UNCHANGED <<worker, using, stdin, stdout>>
        /\ \A d \in Caller : d # c => pc'[d] = pc[d]
        /\ pc[c] = "idle" /\ pc'[c] \in {"idle", "lock"}
    BY <1>6 DEF Invoke, Reject, server, TypeOK
  <2> QED
    BY <1>0, <2>1 DEF Current, Expected, QuietAt
<1>7. ASSUME UNCHANGED client, UNCHANGED <<stdin, stdout>> PROVE QuietAt(g)'
  BY <1>0, <1>7, CurrentSame DEF QuietAt
<1>8. ASSUME NEW h \in Gen, Respond(h) \/ RejectFrame(h) PROVE QuietAt(g)'
  <2>1. UNCHANGED client /\ stdin[h] # <<>>
    BY <1>8 DEF Respond, RejectFrame
  <2>2. Current(g) /\ (Expected(g)' <=> Expected(g))
    BY <2>1, CurrentSame
  <2>3. CASE g # h
    <3>1. stdin'[g] = stdin[g] /\ stdout'[g] = stdout[g]
      BY <1>8, <2>3 DEF Respond, RejectFrame, TypeOK
    <3> QED
      BY <1>0, <2>2, <3>1 DEF QuietAt
  <2>4. CASE g = h
    <3>1. stdout[g] = <<>> /\ Len(stdin[g]) <= 1 /\ Expected(g)
      BY <1>0, <2>1, <2>2, <2>4 DEF QuietAt
    <3>2. /\ stdin'[g] = Tail(stdin[g])
          /\ \E line \in Reply : stdout'[g] = Append(stdout[g], line)
      <4>1. Head(stdin[g]) \in Request
        BY <2>1, <2>4, PipeType DEF TypeOK
      <4>2. \A k \in ReplyKinds(g, Head(stdin[g])) :
                [id |-> Head(stdin[g]).id, kind |-> k] \in Reply
        BY <4>1 DEF ReplyKinds, Request, Reply
      <4>3. CASE Respond(g)
        BY <4>2, <4>3 DEF Respond, TypeOK
      <4>4. CASE RejectFrame(g)
        <5>1. [id |-> 0, kind |-> "error"] \in Reply
          BY DEF Reply
        <5> QED
          BY <4>4, <5>1 DEF RejectFrame, TypeOK
      <4> QED
        BY <1>8, <2>4, <4>3, <4>4
    <3>3. stdin[g] \in Seq(Request) /\ Head(stdin[g]) \in Request
      BY <2>1, <2>4, PipeType DEF TypeOK
    <3>4. stdin'[g] = <<>>
      BY <2>1, <2>4, <3>1, <3>2, <3>3, OneLine
    <3>5. Len(stdout'[g]) <= 1
      BY <3>1, <3>2, OneLine DEF TypeOK
    <3> QED
      BY <2>2, <3>1, <3>4, <3>5 DEF QuietAt
  <2> QED
    BY <2>3, <2>4
<1>9. ASSUME NEW h \in Gen, Reap(h) PROVE QuietAt(g)'
  <2>1. UNCHANGED client /\ stdin' = stdin /\ stdout'[g] \in {stdout[g], <<>>}
    BY <1>9 DEF Reap, TypeOK
  <2>2. Current(g) /\ (Expected(g)' <=> Expected(g))
    BY <2>1, CurrentSame
  <2> QED
    BY <1>0, <2>1, <2>2 DEF QuietAt
<1>10. CASE \E c \in Caller : CallerStep(c)
  BY <1>1, <1>2, <1>3, <1>4, <1>5, <1>6, <1>7, <1>10
     DEF CallerStep, WriteFails, ReceiveRefused, ReadFails, CtxDone, Timeout, Cancel, server
<1>11. CASE \E h \in Gen : WorkerStep(h)
  BY <1>7, <1>8, <1>9, <1>11 DEF WorkerStep, Perform, Exit, Wedge
<1>12. CASE UNCHANGED vars
  BY <1>7, <1>12 DEF vars, server
<1> QED
  BY <1>10, <1>11, <1>12 DEF Next

-----------------------------------------------------------------------------
(* The theorems *)

\* Every reachable state satisfies the inductive invariant.
THEOREM Inductive == Spec => []IInv
<1>1. Init => IInv
  <2> SUFFICES ASSUME Init PROVE IInv
    OBVIOUS
  <2>1. TypeOK
    BY DEF Init, TypeOK, Gen, Proc, Pc, Outcome
  <2>2. CallsKnown /\ Locked /\ UsesWorker
    BY DEF Init, CallsKnown, Locked, UsesWorker, Inside, Starting, Acting
  <2>3. NotStarted /\ NoOrphan /\ Quiet
    BY DEF Init, NotStarted, NoOrphan, Quiet, Live
  <2> QED
    BY <2>1, <2>2, <2>3 DEF IInv
<1>2. IInv /\ [Next]_vars => IInv'
  <2> SUFFICES ASSUME IInv, [Next]_vars PROVE IInv'
    OBVIOUS
  <2>1. TypeOK /\ Control /\ NotStarted /\ NoOrphan /\ Quiet
    BY DEF IInv, Control
  <2>2. TypeOK'
    BY <2>1, TypeStep DEF Control
  <2>3. Control'
    BY <2>1, ControlStep
  <2>4. NotStarted'
    BY <2>1, NotStartedStep
  <2>5. NoOrphan'
    BY <2>1, <2>3, OrphanStep DEF Control
  <2>6. Quiet'
    BY <2>1, QuietStep
  <2> QED
    BY <2>2, <2>3, <2>4, <2>5, <2>6 DEF IInv, Control
<1> QED
  BY <1>1, <1>2, PTL DEF Spec

\* Every variable of the client and of its workers keeps its type.
THEOREM TypeCorrect == Spec => []TypeOK
<1>1. IInv => TypeOK
  BY DEF IInv
<1> QED
  BY <1>1, Inductive, PTL

\* No worker process is ever left running that the client no longer knows.
THEOREM WorkersAreNeverLeaked == Spec => []NoOrphan
<1>1. IInv => NoOrphan
  BY DEF IInv
<1> QED
  BY <1>1, Inductive, PTL

\* Calls are serialized onto the worker: at most one request or response is in
\* the pipes of the retained worker, and only while a call awaits it.
THEOREM CallsAreSerialized == Spec => []OneInFlight
<1>1. IInv => OneInFlight
  <2> SUFFICES ASSUME IInv, worker # 0 PROVE OneInFlight
    BY DEF OneInFlight
  <2>1. worker \in Gen /\ Current(worker)
    BY DEF IInv, TypeOK, Current
  <2>2. QuietAt(worker)
    BY <2>1 DEF IInv, Quiet, QuietAt
  <2>3. Expected(worker) => \E c \in Caller : pc[c] = "await"
    BY DEF IInv, UsesWorker, Expected, Starting
  <2>4. stdin[worker] \in Seq(Request) /\ stdout[worker] \in Seq(Reply)
    BY <2>1 DEF IInv, TypeOK
  <2> DEFINE asked == Len(stdin[worker])
             answered == Len(stdout[worker])
  <2>5. /\ asked \in Nat /\ answered \in Nat
        /\ stdin[worker] = <<>> => asked = 0
        /\ stdout[worker] = <<>> => answered = 0
    BY <2>4, EmptySeq
  <2>6. asked <= 1 /\ answered <= 1 /\ (asked = 0 \/ answered = 0)
    BY <2>2, <2>5 DEF QuietAt
  <2>7. ~Expected(worker) => asked = 0 /\ answered = 0
    BY <2>2, <2>5 DEF QuietAt
  <2> HIDE DEF asked, answered
  <2>8. asked + answered <= IF \E c \in Caller : pc[c] = "await" THEN 1 ELSE 0
    BY <2>3, <2>5, <2>6, <2>7
  <2> QED
    BY <2>8 DEF OneInFlight, asked, answered
<1> QED
  BY <1>1, Inductive, PTL

-----------------------------------------------------------------------------
(***************************************************************************)
(* ComputerUse implements SerialTool, and what it says of a call is final. *)
(* The invariant follows a request from the goroutine that writes it to    *)
(* the worker that carries it out, past the moment the call is given up.   *)
(***************************************************************************)


\* The worker g has an action to carry out, or has just done so.
InHand(g) == stdin[g] # <<>> /\ Head(stdin[g]).method = "action"
Asked(g) == Head(stdin[g]).op

\* A call is made by one goroutine, and pending until it returns.
CallsApart ==
    /\ \A c \in Caller : pc[c] # "idle" => outcome[op[c]] = "pending"
    /\ \A c, d \in Caller : pc[c] # "idle" /\ pc[d] # "idle" /\ c # d => op[c] # op[d]

\* A process never has more than one request, whether it is current or not.
OneRequest == \A g \in Gen : Len(stdin[g]) <= 1

\* The call of a request waits for its answer or has been given up.
RequestAt(g) ==
    /\ ~InHand(g) => ~performed[g]
    /\ InHand(g) =>
         /\ performed[g] => effects[Asked(g)] = 1
         /\ ~performed[g] => effects[Asked(g)] = 0
         /\ \/ outcome[Asked(g)] = "lost"
            \/ \E c \in Caller : pc[c] = "await" /\ op[c] = Asked(g) /\ using[c] = g
Requests ==
    /\ \A g \in Gen : RequestAt(g)
    /\ \A g, h \in Gen : g # h /\ InHand(g) /\ InHand(h) => Asked(g) # Asked(h)

\* A call whose request is not written has no effect.
Unwritten == {"lock", "start", "initWrite", "initAwait", "write"}
Untouched ==
    /\ \A o \in Op : outcome[o] = "new" => effects[o] = 0
    /\ \A c \in Caller : pc[c] \in Unwritten => effects[op[c]] = 0

\* The request or the answer that a call finds in the pipes is its own, and it is
\* told of success only after the effect.
AwaitedBy(c) ==
    pc[c] = "await" =>
        /\ stdin[using[c]] # <<>> => InHand(using[c]) /\ Asked(using[c]) = op[c]
        /\ stdout[using[c]] # <<>> /\ Head(stdout[using[c]]).kind = "ok" => effects[op[c]] = 1
Awaited == \A c \in Caller : AwaitedBy(c)

RInv == CallsApart /\ OneRequest /\ Requests /\ Untouched /\ Awaited

-----------------------------------------------------------------------------
\* The first line of a pipe.
LEMMA OneAppended ==
    ASSUME NEW T, NEW s \in Seq(T), s = <<>>, NEW line \in T
    PROVE  Append(s, line) # <<>> /\ Head(Append(s, line)) = line /\ Len(Append(s, line)) = 1
OBVIOUS

\* A request names a call.
LEMMA AskedIsCall ==
    ASSUME IInv, NEW g \in Gen, InHand(g)
    PROVE  Asked(g) \in Op
<1>1. Head(stdin[g]) \in Request
  BY PipeType DEF InHand, IInv, TypeOK
<1> QED
  BY <1>1 DEF Asked, Request

\* The call of a request in hand is a pending one only if it awaits its answer.
LEMMA AskedBy ==
    ASSUME IInv, RInv, NEW g \in Gen, InHand(g), NEW c \in Caller, pc[c] # "idle", op[c] = Asked(g)
    PROVE  pc[c] = "await" /\ using[c] = g
<1>1. outcome[op[c]] = "pending"
  BY DEF RInv, CallsApart
<1>2. PICK d \in Caller : pc[d] = "await" /\ op[d] = Asked(g) /\ using[d] = g
  BY <1>1 DEF RInv, Requests, RequestAt
<1>3. d = c
  BY <1>2 DEF RInv, CallsApart
<1> QED
  BY <1>2, <1>3

\* Only one goroutine is past the mutex.
LEMMA OnlyHolder ==
    ASSUME IInv, NEW c \in Caller, pc[c] \in Inside, NEW d \in Caller, d # c
    PROVE  pc[d] \notin Inside
BY DEF IInv, Locked

\* A step that leaves alone all that the invariant is about.
LEMMA SameR ==
    ASSUME RInv, UNCHANGED <<pc, op, using, outcome, effects, stdin, performed>>,
           \A c \in Caller : pc[c] = "await" => stdout'[using[c]] \in {stdout[using[c]], <<>>}
    PROVE  RInv'
<1>1. CallsApart' /\ OneRequest' /\ Untouched'
  BY DEF RInv, CallsApart, OneRequest, Untouched
<1>2. \A g \in Gen : (InHand(g)' <=> InHand(g)) /\ Asked(g)' = Asked(g)
  BY DEF InHand, Asked
<1>3. Requests'
  BY <1>2 DEF RInv, Requests, RequestAt
<1>4. Awaited'
  BY DEF RInv, Awaited, AwaitedBy, InHand, Asked
<1> QED
  BY <1>1, <1>3, <1>4 DEF RInv

\* A call that is made or refused is new to every process.
LEMMA EnterR ==
    ASSUME IInv, RInv, NEW c \in Caller, NEW o \in Op, Invoke(c, o) \/ Reject(c, o)
    PROVE  RInv'
<1>1. /\ outcome[o] = "new" /\ pc[c] = "idle"
      /\ \E s \in {"pending", "refused"} : outcome' = [outcome EXCEPT ![o] = s]
      /\ UNCHANGED <<using, stdin, performed, effects, stdout>>
      /\ pc'[c] = "idle" \/ (pc'[c] = "lock" /\ op'[c] = o /\ outcome'[o] = "pending")
      /\ \A d \in Caller : d # c => pc'[d] = pc[d] /\ op'[d] = op[d]
      /\ pc'[c] = "idle" => op'[c] = op[c]
  BY DEF Invoke, Reject, NextOp, server, IInv, TypeOK
<1>2. \A p \in Op : p # o => outcome'[p] = outcome[p]
  BY <1>1 DEF IInv, TypeOK
<1>3. \A d \in Caller : pc[d] # "idle" => op[d] \in Op /\ op[d] # o
  BY <1>1 DEF IInv, CallsKnown, RInv, CallsApart
<1>4. CallsApart'
  BY <1>1, <1>2, <1>3 DEF RInv, CallsApart
<1>5. OneRequest'
  BY <1>1 DEF RInv, OneRequest
<1>6. \A g \in Gen : (InHand(g)' <=> InHand(g)) /\ Asked(g)' = Asked(g)
  BY <1>1 DEF InHand, Asked
<1>7. ASSUME NEW g \in Gen, InHand(g) PROVE Asked(g) \in Op /\ Asked(g) # o
  <2>2. Asked(g) \in Op
    BY <1>7, AskedIsCall
  <2> QED
    BY <1>1, <1>3, <1>7, <2>2 DEF RInv, Requests, RequestAt
<1>8. Requests'
  <2>1. ASSUME NEW g \in Gen PROVE RequestAt(g)'
    BY <1>1, <1>2, <1>6, <1>7, <2>1 DEF RInv, Requests, RequestAt
  <2> QED
    BY <1>6, <2>1 DEF RInv, Requests
<1>9. Untouched'
  <2>1. \A p \in Op : outcome'[p] = "new" => effects'[p] = 0
    BY <1>1, <1>2 DEF RInv, Untouched, IInv, TypeOK
  <2>2. effects[o] = 0
    BY <1>1 DEF RInv, Untouched
  <2>3. \A d \in Caller : pc'[d] \in Unwritten => effects'[op'[d]] = 0
    BY <1>1, <2>2 DEF RInv, Untouched, Unwritten
  <2> QED
    BY <2>1, <2>3 DEF Untouched
<1>10. Awaited'
  BY <1>1 DEF RInv, Awaited, AwaitedBy, InHand, Asked
<1> QED
  BY <1>4, <1>5, <1>8, <1>9, <1>10 DEF RInv

\* A goroutine that gets nearer to its request, which is still not written.
LEMMA AdvanceR ==
    ASSUME IInv, RInv, NEW c \in Caller, pc[c] \in Unwritten, NEW s \in Unwritten,
           pc' = [pc EXCEPT ![c] = s], \A d \in Caller : d # c => using'[d] = using[d],
           UNCHANGED <<op, outcome, effects, stdin, performed>>,
           \A d \in Caller : pc[d] = "await" => stdout'[using[d]] = stdout[using[d]]
    PROVE  RInv'
<1>1. \A d \in Caller : pc'[d] = IF d = c THEN s ELSE pc[d]
  BY DEF IInv, TypeOK
<1>2. \A g \in Gen : (InHand(g)' <=> InHand(g)) /\ Asked(g)' = Asked(g)
  BY DEF InHand, Asked
<1>3. CallsApart' /\ OneRequest' /\ Untouched'
  BY <1>1 DEF RInv, CallsApart, OneRequest, Untouched, Unwritten
<1>4. Requests'
  <2>1. ASSUME NEW g \in Gen PROVE RequestAt(g)'
    BY <1>1, <1>2, <2>1 DEF RInv, Requests, RequestAt, Unwritten
  <2> QED
    BY <1>2, <2>1 DEF RInv, Requests
<1>5. Awaited'
  BY <1>1 DEF RInv, Awaited, AwaitedBy, InHand, Asked, Unwritten
<1> QED
  BY <1>3, <1>4, <1>5 DEF RInv

\* A call that returns is lost, or leaves no request behind.
LEMMA ReturnR ==
    ASSUME IInv, RInv, NEW c \in Caller, pc[c] \in Inside,
           NEW result \in {"ok", "error", "refused", "lost"}, Return(c, result),
           UNCHANGED <<effects, stdin, performed>>,
           result = "lost" \/ \A g \in Gen : InHand(g) => Asked(g) # op[c]
    PROVE  RInv'
<1>1. /\ outcome' = [outcome EXCEPT ![op[c]] = result] /\ op[c] \in Op
      /\ \A d \in Caller : pc'[d] = IF d = c THEN "idle" ELSE pc[d]
      /\ \A d \in Caller : d # c => op'[d] = op[d] /\ using'[d] = using[d]
      /\ outcome[op[c]] = "pending"
  BY DEF Return, IInv, TypeOK, CallsKnown, RInv, CallsApart, Inside, Starting, Acting
<1>2. \A d \in Caller : pc'[d] \notin Inside
  BY <1>1, OnlyHolder DEF Inside, Starting, Acting
<1>3. /\ outcome'[op[c]] = result
      /\ \A o \in Op : o # op[c] => outcome'[o] = outcome[o]
  BY <1>1 DEF IInv, TypeOK
<1>4. \A g \in Gen : (InHand(g)' <=> InHand(g)) /\ Asked(g)' = Asked(g)
  BY DEF InHand, Asked
<1>5. CallsApart'
  <2>1. \A d \in Caller :
           pc'[d] # "idle" => d # c /\ pc[d] # "idle" /\ op[d] \in Op /\ op[d] # op[c]
    BY <1>1 DEF IInv, CallsKnown, RInv, CallsApart, Inside, Starting, Acting
  <2> QED
    BY <1>1, <1>3, <2>1 DEF RInv, CallsApart
<1>6. OneRequest'
  BY DEF RInv, OneRequest
<1>7. ASSUME NEW g \in Gen PROVE RequestAt(g)'
  <2>1. ~InHand(g)' => ~performed'[g]
    BY <1>4 DEF RInv, Requests, RequestAt
  <2> SUFFICES ASSUME InHand(g) PROVE RequestAt(g)'
    BY <1>4, <2>1 DEF RequestAt
  <2>2. Asked(g) \in Op
    BY AskedIsCall
  <2>3. (performed[g] => effects[Asked(g)] = 1) /\ (~performed[g] => effects[Asked(g)] = 0)
    BY DEF RInv, Requests, RequestAt
  <2>4. CASE outcome[Asked(g)] = "lost"
    <3>1. Asked(g) # op[c]
      BY <1>1, <2>4
    <3> QED
      BY <1>3, <1>4, <2>2, <2>3, <2>4, <3>1 DEF RequestAt
  <2>5. CASE outcome[Asked(g)] # "lost"
    <3>1. PICK d \in Caller : pc[d] = "await" /\ op[d] = Asked(g)
      BY <2>5 DEF RInv, Requests, RequestAt
    <3>2. d = c
      BY <3>1, OnlyHolder DEF Inside, Acting
    <3>3. result = "lost"
      BY <3>1, <3>2
    <3> QED
      BY <1>3, <1>4, <2>3, <3>1, <3>2, <3>3 DEF RequestAt
  <2> QED
    BY <2>4, <2>5
<1>8. Requests'
  BY <1>4, <1>7 DEF RInv, Requests
<1>9. Untouched'
  <2>1. \A o \in Op : outcome'[o] = "new" => effects'[o] = 0
    BY <1>3 DEF RInv, Untouched
  <2>2. \A d \in Caller : pc'[d] \in Unwritten => effects'[op'[d]] = 0
    BY <1>1 DEF RInv, Untouched, Unwritten
  <2> QED
    BY <2>1, <2>2 DEF Untouched
<1>10. Awaited'
  BY <1>2 DEF Awaited, AwaitedBy, Inside, Acting
<1> QED
  BY <1>5, <1>6, <1>8, <1>9, <1>10 DEF RInv

\* A call that fails while it starts has no request; one that fails later is lost.
LEMMA FailCallR ==
    ASSUME IInv, RInv, NEW c \in Caller, FailCall(c)
    PROVE  RInv' /\ (pc[c] \in Starting => effects[op[c]] = 0)
<1>1. UNCHANGED <<effects, stdin, performed>> /\ pc[c] \in Inside
  BY DEF FailCall, Inside
<1>2. CASE pc[c] \in Starting /\ Return(c, "refused")
  <2>1. \A g \in Gen : InHand(g) => Asked(g) # op[c]
    BY <1>2, AskedBy DEF Starting
  <2>2. effects[op[c]] = 0
    BY <1>2 DEF RInv, Untouched, Unwritten, Starting
  <2> QED
    BY <1>1, <1>2, <2>1, <2>2, ReturnR
<1>3. CASE pc[c] \in Acting /\ Return(c, "lost")
  BY <1>1, <1>3, ReturnR DEF Acting, Starting
<1> QED
  BY <1>2, <1>3 DEF FailCall

\* An answer ends the call whose request has left the pipe.
LEMMA ReceiveResultR ==
    ASSUME IInv, RInv, NEW c \in Caller, ReceiveResult(c)
    PROVE  /\ RInv'
           /\ \/ Return(c, "error")
              \/ Return(c, "ok") /\ effects[op[c]] = 1
<1>1. /\ pc[c] = "await" /\ stdout[using[c]] # <<>> /\ UNCHANGED <<effects, stdin, performed>>
      /\ IF Head(stdout[using[c]]).kind = "ok" THEN Return(c, "ok") ELSE Return(c, "error")
  BY DEF ReceiveResult
<1>2. using[c] \in Gen /\ Current(using[c])
  BY <1>1 DEF IInv, UsesWorker, Acting, Current
<1>3. stdin[using[c]] = <<>>
  BY <1>1, <1>2 DEF IInv, Quiet
<1>4. \A g \in Gen : InHand(g) => Asked(g) # op[c]
  BY <1>1, <1>3, AskedBy DEF InHand
<1>5. Head(stdout[using[c]]).kind = "ok" => effects[op[c]] = 1
  BY <1>1 DEF RInv, Awaited, AwaitedBy
<1>6. pc[c] \in Inside
  BY <1>1 DEF Inside, Acting
<1>7. ASSUME NEW result \in {"ok", "error"}, Return(c, result) PROVE RInv'
  BY <1>1, <1>4, <1>6, <1>7, ReturnR
<1> QED
  BY <1>1, <1>5, <1>7

\* The request that is written is the only one of its process.
LEMMA WriteR ==
    ASSUME IInv, RInv, NEW c \in Caller, Write(c)
    PROVE  RInv'
<1>a. /\ pc[c] \in {"initWrite", "write"}
      /\ stdin' = [stdin EXCEPT ![using[c]] = Append(@, NextRequest(c))]
      /\ pc' = [pc EXCEPT ![c] = IF pc[c] = "initWrite" THEN "initAwait" ELSE "await"]
      /\ UNCHANGED <<mu, op, using, outcome, performed, stdout, effects>>
  BY DEF Write
<1>b. using[c] \in Gen /\ Current(using[c])
  BY <1>a DEF IInv, UsesWorker, Acting, Current
<1>c. NextRequest(c) \in Request
  <2>1. op[c] \in Op
    BY <1>a DEF IInv, CallsKnown
  <2> QED
    BY <1>b, <2>1 DEF NextRequest, Request, IInv, TypeOK
<1>d. NextRequest(c).op = op[c] /\ (NextRequest(c).method = "action" <=> pc[c] = "write")
  BY <1>a DEF NextRequest
<1>e. PICK g \in Gen : g = using[c]
  BY <1>b
<1>f. PICK m \in Request : m = NextRequest(c)
  BY <1>c
<1>g. PICK s : s = IF pc[c] = "initWrite" THEN "initAwait" ELSE "await"
  OBVIOUS
<1>1. /\ pc[c] \in {"initWrite", "write"} /\ pc[c] \in Inside
      /\ Current(g) /\ using[c] = g
      /\ s = IF pc[c] = "initWrite" THEN "initAwait" ELSE "await"
      /\ pc' = [pc EXCEPT ![c] = s]
      /\ UNCHANGED <<mu, op, using, outcome, performed, stdout, effects>>
  BY <1>a, <1>b, <1>e, <1>g DEF Inside, Starting, Acting
<1>2. /\ m.op = op[c] /\ (m.method = "action" <=> pc[c] = "write")
      /\ stdin' = [stdin EXCEPT ![g] = Append(@, m)]
  BY <1>a, <1>d, <1>e, <1>f
<1>3. \A d \in Caller : d # c => pc[d] \notin Inside
  BY <1>1, OnlyHolder
<1>4. stdin[g] = <<>> /\ stdout[g] = <<>>
  <2>1. ~Expected(g)
    BY <1>1, <1>3 DEF Expected, Inside, Starting, Acting
  <2> QED
    BY <1>1, <2>1 DEF IInv, Quiet
<1>7. /\ stdin'[g] # <<>> /\ Head(stdin'[g]) = m /\ Len(stdin'[g]) = 1
      /\ \A h \in Gen : h # g => stdin'[h] = stdin[h]
  <2>1. stdin'[g] = Append(stdin[g], m) /\ stdin[g] \in Seq(Request)
    BY <1>2 DEF IInv, TypeOK
  <2>2. \A h \in Gen : h # g => stdin'[h] = stdin[h]
    BY <1>2 DEF IInv, TypeOK
  <2> QED
    BY <1>4, <2>1, <2>2, OneAppended
<1>8. \A d \in Caller : pc'[d] = IF d = c THEN s ELSE pc[d]
  BY <1>1 DEF IInv, TypeOK
<1>9. /\ \A h \in Gen : h # g => (InHand(h)' <=> InHand(h)) /\ Asked(h)' = Asked(h)
      /\ ~InHand(g)
      /\ InHand(g)' <=> pc[c] = "write"
      /\ Asked(g)' = op[c]
  BY <1>2, <1>4, <1>7 DEF InHand, Asked
<1>10. CallsApart'
  BY <1>1, <1>8 DEF RInv, CallsApart
<1>11. OneRequest'
  <2>1. ASSUME NEW h \in Gen PROVE Len(stdin'[h]) <= 1
    <3>1. CASE h = g
      <4>1. Len(stdin'[h]) = 1
        BY <1>7, <3>1, Zenon
      <4> QED
        BY <4>1
    <3>2. CASE h # g
      BY <1>7, <3>2 DEF RInv, OneRequest
    <3> QED
      BY <3>1, <3>2
  <2> QED
    BY <2>1 DEF OneRequest
<1>12. ~performed[g] /\ effects[op[c]] = 0
  BY <1>1, <1>9 DEF RInv, Requests, RequestAt, Untouched, Unwritten
<1>13. RequestAt(g)'
  <2>1. InHand(g)' => pc'[c] = "await" /\ op'[c] = Asked(g)' /\ using'[c] = g
    BY <1>1, <1>8, <1>9
  <2> QED
    BY <1>1, <1>9, <1>12, <2>1 DEF RequestAt
<1>14. ASSUME NEW h \in Gen, h # g PROVE RequestAt(h)' /\ (InHand(h)' => Asked(h)' # op[c])
  <2>1. RequestAt(h)'
    BY <1>1, <1>8, <1>9, <1>14 DEF RInv, Requests, RequestAt
  <2>2. InHand(h) => Asked(h) # op[c]
    BY <1>1, AskedBy
  <2> QED
    BY <1>9, <1>14, <2>1, <2>2
<1>15. Requests'
  <2>1. \A h \in Gen : RequestAt(h)'
    BY <1>13, <1>14
  <2>2. ASSUME NEW h \in Gen, NEW k \in Gen, h # k, InHand(h)', InHand(k)'
        PROVE  Asked(h)' # Asked(k)'
    <3>1. CASE h = g
      BY <1>9, <1>14, <2>2, <3>1
    <3>2. CASE k = g
      BY <1>9, <1>14, <2>2, <3>2
    <3>3. CASE h # g /\ k # g
      BY <1>9, <2>2, <3>3 DEF RInv, Requests
    <3> QED
      BY <3>1, <3>2, <3>3
  <2> QED
    BY <2>1, <2>2 DEF Requests
<1>16. Untouched'
  BY <1>1, <1>8 DEF RInv, Untouched, Unwritten
<1>17. Awaited'
  <2>1. \A d \in Caller : pc'[d] = "await" => d = c
    BY <1>3, <1>8 DEF Inside, Acting
  <2>2. AwaitedBy(c)'
    BY <1>1, <1>4, <1>8, <1>9 DEF AwaitedBy
  <2> QED
    BY <2>1, <2>2 DEF Awaited, AwaitedBy
<1> QED
  BY <1>10, <1>11, <1>15, <1>16, <1>17 DEF RInv

\* An action is carried out once, for a call that awaits it or was given up.
LEMMA PerformR ==
    ASSUME IInv, RInv, NEW g \in Gen, Perform(g)
    PROVE  /\ RInv'
           /\ effects[Asked(g)] = 0 /\ effects' = [effects EXCEPT ![Asked(g)] = 1]
           /\ \/ outcome[Asked(g)] = "lost"
              \/ \E c \in Caller : pc[c] = "await" /\ op[c] = Asked(g) /\ using[c] = g
<1> DEFINE o == Asked(g)
<1>1. /\ InHand(g) /\ ~performed[g] /\ effects' = [effects EXCEPT ![o] = @ + 1]
      /\ performed' = [performed EXCEPT ![g] = TRUE]
      /\ UNCHANGED <<pc, op, using, outcome, stdin, stdout>>
  BY DEF Perform, InHand, Asked, client
<1>2. o \in Op
  BY <1>1, AskedIsCall
<1>3. /\ effects[o] = 0
      /\ \/ outcome[o] = "lost"
         \/ \E c \in Caller : pc[c] = "await" /\ op[c] = o /\ using[c] = g
  BY <1>1 DEF RInv, Requests, RequestAt
<1> HIDE DEF o
<1>4. /\ effects' = [effects EXCEPT ![o] = 1]
      /\ \A p \in Op : effects'[p] = IF p = o THEN 1 ELSE effects[p]
      /\ \A h \in Gen : performed'[h] = IF h = g THEN TRUE ELSE performed[h]
  BY <1>1, <1>2, <1>3 DEF IInv, TypeOK
<1>5. \A h \in Gen : (InHand(h)' <=> InHand(h)) /\ Asked(h)' = Asked(h)
  BY <1>1 DEF InHand, Asked
<1>6. CallsApart' /\ OneRequest'
  BY <1>1 DEF RInv, CallsApart, OneRequest
<1>7. ASSUME NEW h \in Gen PROVE RequestAt(h)'
  <2>1. CASE h = g
    BY <1>1, <1>2, <1>3, <1>4, <1>5, <2>1 DEF RequestAt, o
  <2>2. CASE h # g
    <3>1. InHand(h) => Asked(h) \in Op /\ Asked(h) # o
      BY <1>1, <2>2, AskedIsCall DEF RInv, Requests, o
    <3>2. /\ ~InHand(h) => ~performed[h]
          /\ InHand(h) =>
                /\ performed[h] => effects[Asked(h)] = 1
                /\ ~performed[h] => effects[Asked(h)] = 0
                /\ \/ outcome[Asked(h)] = "lost"
                   \/ \E c \in Caller : pc[c] = "await" /\ op[c] = Asked(h) /\ using[c] = h
      BY DEF RInv, Requests, RequestAt
    <3> QED
      BY <1>1, <1>4, <1>5, <2>2, <3>1, <3>2 DEF RequestAt
  <2> QED
    BY <2>1, <2>2
<1>8. Requests'
  BY <1>5, <1>7 DEF RInv, Requests
<1>9. \A c \in Caller : pc[c] # "idle" /\ op[c] = o => pc[c] = "await" /\ using[c] = g
  BY <1>1, AskedBy DEF o
<1>10. Untouched'
  <2>1. outcome[o] # "new"
    BY <1>3 DEF RInv, CallsApart
  <2>2. \A c \in Caller : pc[c] \in Unwritten => op[c] # o /\ op[c] \in Op
    BY <1>9 DEF Unwritten, IInv, CallsKnown
  <2> QED
    BY <1>1, <1>4, <2>1, <2>2 DEF RInv, Untouched, Unwritten
<1>11. Awaited'
  <2> SUFFICES ASSUME NEW c \in Caller, pc[c] = "await" PROVE AwaitedBy(c)'
    BY <1>1 DEF Awaited, AwaitedBy
  <2>1. op[c] \in Op
    BY DEF IInv, CallsKnown
  <2>2. effects[op[c]] = 1 => effects'[op[c]] = 1
    BY <1>4, <2>1
  <2> QED
    BY <1>1, <2>2 DEF RInv, Awaited, AwaitedBy, InHand, Asked
<1> QED
  BY <1>3, <1>4, <1>6, <1>8, <1>10, <1>11 DEF RInv, o

\* An answer takes the request from the process; it says ok only of an action that
\* was carried out.
LEMMA AnswerR ==
    ASSUME IInv, RInv, NEW g \in Gen, Respond(g) \/ RejectFrame(g)
    PROVE  RInv'
<1>1. /\ UNCHANGED <<pc, op, using, outcome, effects>>
      /\ stdin[g] # <<>>
      /\ stdin' = [stdin EXCEPT ![g] = Tail(@)]
  BY DEF Respond, RejectFrame, client
<1>2. /\ ~performed'[g]
      /\ \A h \in Gen : h # g => performed'[h] = performed[h] /\ stdout'[h] = stdout[h]
                                /\ stdin'[h] = stdin[h]
  BY DEF Respond, RejectFrame, IInv, TypeOK
<1>3. Head(stdin[g]) \in Request
  BY <1>1, PipeType DEF IInv, TypeOK
<1>4. stdin'[g] = <<>>
  <2>1. stdin[g] \in Seq(Request) /\ stdin'[g] = Tail(stdin[g])
    BY <1>1 DEF IInv, TypeOK
  <2>2. Len(stdin[g]) <= 1
    BY DEF RInv, OneRequest
  <2> QED
    BY <1>1, <1>3, <2>1, <2>2, OneLine
<1>5. PICK line \in Reply :
         /\ stdout'[g] = Append(stdout[g], line)
         /\ InHand(g) /\ line.kind = "ok" => performed[g]
  <2>1. ASSUME NEW k \in ReplyKinds(g, Head(stdin[g]))
        PROVE  /\ [id |-> Head(stdin[g]).id, kind |-> k] \in Reply
               /\ InHand(g) /\ k = "ok" => performed[g]
    BY <1>3 DEF ReplyKinds, Request, Reply, InHand
  <2>2. CASE Respond(g)
    <3>1. PICK k \in ReplyKinds(g, Head(stdin[g])) :
              stdout' = [stdout EXCEPT ![g] = Append(@, [id |-> Head(stdin[g]).id, kind |-> k])]
      BY <2>2 DEF Respond
    <3>2. stdout'[g] = Append(stdout[g], [id |-> Head(stdin[g]).id, kind |-> k])
      BY <3>1 DEF IInv, TypeOK
    <3> QED
      BY <2>1, <3>2
  <2>3. CASE RejectFrame(g)
    <3>1. [id |-> 0, kind |-> "error"] \in Reply
      BY DEF Reply
    <3> QED
      BY <2>3, <3>1 DEF RejectFrame, IInv, TypeOK
  <2> QED
    BY <2>2, <2>3
<1>6. CallsApart' /\ Untouched'
  BY <1>1 DEF RInv, CallsApart, Untouched
<1>7. OneRequest'
  <2>1. ASSUME NEW h \in Gen PROVE Len(stdin'[h]) <= 1
    <3>1. CASE h = g
      <4>1. Len(stdin'[h]) = 0
        BY <1>4, <3>1
      <4> QED
        BY <4>1
    <3>2. CASE h # g
      BY <1>2, <3>2 DEF RInv, OneRequest
    <3> QED
      BY <3>1, <3>2
  <2> QED
    BY <2>1 DEF OneRequest
<1>8. /\ ~InHand(g)'
      /\ \A h \in Gen : h # g => (InHand(h)' <=> InHand(h)) /\ Asked(h)' = Asked(h)
  BY <1>2, <1>4 DEF InHand, Asked
<1>9. Requests'
  <2>1. ASSUME NEW h \in Gen PROVE RequestAt(h)'
    BY <1>1, <1>2, <1>8 DEF RInv, Requests, RequestAt
  <2> QED
    BY <1>8, <2>1 DEF RInv, Requests
<1>10. ASSUME NEW c \in Caller, pc[c] = "await" PROVE AwaitedBy(c)'
  <2>1. using[c] \in Gen /\ Current(using[c])
    BY <1>10 DEF IInv, UsesWorker, Acting, Current
  <2>2. CASE using[c] # g
    BY <1>1, <1>2, <1>8, <1>10, <2>1, <2>2 DEF RInv, Awaited, AwaitedBy
  <2>3. CASE using[c] = g
    <3>1. InHand(g) /\ Asked(g) = op[c]
      BY <1>1, <1>10, <2>3 DEF RInv, Awaited, AwaitedBy
    <3>2. stdout[g] = <<>> /\ stdout[g] \in Seq(Reply)
      BY <1>1, <2>1, <2>3 DEF IInv, Quiet, TypeOK
    <3>3. Head(stdout'[g]) = line
      <4>1. stdout'[g] = Append(stdout[g], line)
        BY <1>5
      <4>2. Head(Append(stdout[g], line)) = line
        BY <3>2, OneAppended
      <4> QED
        BY <4>1, <4>2
    <3>4. performed[g] => effects[op[c]] = 1
      BY <3>1 DEF RInv, Requests, RequestAt
    <3>5. line.kind = "ok" => effects[op[c]] = 1
      BY <1>5, <3>1, <3>4
    <3> QED
      <4>1. using'[c] = g /\ effects'[op'[c]] = effects[op[c]]
        BY <1>1, <2>3
      <4> QED
        BY <1>4, <3>3, <3>5, <4>1 DEF AwaitedBy
  <2> QED
    BY <2>2, <2>3
<1>11. Awaited'
  BY <1>1, <1>10 DEF Awaited, AwaitedBy
<1> QED
  BY <1>6, <1>7, <1>9, <1>11 DEF RInv

\* Getting the mutex, starting a process and its handshake come before the request.
LEMMA StartR ==
    ASSUME IInv, RInv, NEW c \in Caller, Acquire(c) \/ StartProcess(c) \/ ReceiveInitialized(c)
    PROVE  RInv'
<1>1. /\ pc[c] \in Unwritten
      /\ \E s \in Unwritten : pc' = [pc EXCEPT ![c] = s]
      /\ \A d \in Caller : d # c => using'[d] = using[d]
      /\ UNCHANGED <<op, outcome, effects, stdin, performed>>
  BY DEF Acquire, StartProcess, ReceiveInitialized, Unwritten, server, IInv, TypeOK
<1>2. ASSUME NEW d \in Caller, pc[d] = "await" PROVE stdout'[using[d]] = stdout[using[d]]
  <2>1. CASE Acquire(c) \/ StartProcess(c)
    BY <2>1 DEF Acquire, StartProcess, server
  <2>2. CASE ReceiveInitialized(c)
    <3>1. pc[c] \in Inside /\ pc[d] \in Inside /\ pc[c] # "await"
      BY <1>2, <2>2 DEF ReceiveInitialized, Inside, Starting, Acting
    <3> QED
      BY <1>2, <3>1, OnlyHolder
  <2> QED
    BY <2>1, <2>2
<1> QED
  BY <1>1, <1>2, AdvanceR

\* A process that cannot be started leaves no request.
LEMMA StartFailsR ==
    ASSUME IInv, RInv, NEW c \in Caller, StartFails(c)
    PROVE  RInv' /\ effects[op[c]] = 0
<1>1. /\ pc[c] = "start" /\ pc[c] \in Inside
      /\ Return(c, "refused") /\ UNCHANGED <<effects, stdin, performed>>
  BY DEF StartFails, server, Inside, Starting
<1>2. \A g \in Gen : InHand(g) => Asked(g) # op[c]
  BY <1>1, AskedBy
<1>3. effects[op[c]] = 0
  BY <1>1 DEF RInv, Untouched, Unwritten
<1> QED
  BY <1>1, <1>2, <1>3, ReturnR

\* What neither a call's progress nor a request depends on.
Besides ==
    \/ \E c \in Caller : Close(c) \/ Cancel(c)
    \/ \E g \in Gen : Exit(g) \/ Wedge(g) \/ Reap(g)
    \/ UNCHANGED vars

\* None of these steps touches a call, a request or an effect; reaping empties a pipe.
LEMMA BesidesSame ==
    ASSUME IInv, Besides
    PROVE  /\ UNCHANGED <<mu, pc, op, using, outcome, effects, stdin, performed>>
           /\ \A g \in Gen : stdout'[g] \in {stdout[g], <<>>}
<1>1. ASSUME NEW c \in Caller, Close(c) \/ Cancel(c)
      PROVE  UNCHANGED <<mu, pc, op, using, outcome, effects, stdin, performed, stdout>>
  BY <1>1 DEF Close, Cancel, client, server
<1>2. ASSUME NEW g \in Gen, Exit(g) \/ Wedge(g) \/ Reap(g)
      PROVE  /\ UNCHANGED <<mu, pc, op, using, outcome, effects, stdin, performed>>
             /\ stdout' \in {stdout, [stdout EXCEPT ![g] = <<>>]}
  BY <1>2 DEF Exit, Wedge, Reap, client
<1> QED
  BY <1>1, <1>2 DEF Besides, vars, client, server, IInv, TypeOK

\* So they keep the invariant.
LEMMA BesidesR ==
    ASSUME IInv, RInv, Besides
    PROVE  RInv'
<1>1. \A c \in Caller : pc[c] = "await" => using[c] \in Gen
  BY DEF IInv, UsesWorker, Acting
<1> QED
  BY <1>1, BesidesSame, SameR

\* The steps of the system, grouped by what they are to its callers.
LEMMA Steps ==
    ASSUME [Next]_vars
    PROVE  \/ \E c \in Caller :
                \/ \E o \in Op : Invoke(c, o) \/ Reject(c, o)
                \/ Acquire(c) \/ StartProcess(c) \/ ReceiveInitialized(c)
                \/ StartFails(c) \/ Write(c) \/ ReceiveResult(c) \/ FailCall(c)
           \/ \E g \in Gen : Perform(g) \/ Respond(g) \/ RejectFrame(g)
           \/ Besides
BY DEF Next, CallerStep, WorkerStep, WriteFails, ReceiveRefused, ReadFails, CtxDone, Timeout,
       Besides

\* Every step keeps requests and calls paired.
LEMMA StepR ==
    ASSUME IInv, RInv, [Next]_vars
    PROVE  RInv'
BY Steps, EnterR, StartR, StartFailsR, WriteR, ReceiveResultR, FailCallR, PerformR, AnswerR,
   BesidesR

\* At first there are no requests.
LEMMA InitR ==
    ASSUME Init
    PROVE  RInv
<1>1. \A g \in Gen : stdin[g] = <<>> /\ ~performed[g] /\ ~InHand(g)
  BY DEF Init, InHand
<1>2. OneRequest
  <2>1. ASSUME NEW g \in Gen PROVE Len(stdin[g]) = 0
    BY <1>1
  <2> QED
    BY <2>1 DEF OneRequest
<1> QED
  BY <1>1, <1>2 DEF Init, RInv, CallsApart, Requests, RequestAt, Untouched, Unwritten, Awaited,
                    AwaitedBy

\* Requests and calls stay paired in every reachable state.
THEOREM RequestsPaired == Spec => [](IInv /\ RInv)
<1>1. IInv /\ RInv /\ [Next]_vars => RInv'
  BY StepR
<1>2. Init => RInv
  BY InitR
<1> QED
  BY <1>1, <1>2, Inductive, PTL DEF Spec

-----------------------------------------------------------------------------
(* The theorems *)

\* A call that is over has no effect any more, unless it was reported lost.
THEOREM NoLateEffect == Spec => SettledIsFinal
<1>1. ASSUME IInv, RInv, [Next]_vars,
             NEW o \in Op, outcome[o] \in {"ok", "error", "refused"}
      PROVE  effects'[o] = effects[o]
  <2>1. ASSUME NEW g \in Gen, Perform(g) PROVE effects'[o] = effects[o]
    <3>1. Asked(g) # o
      <4>1. \A c \in Caller : pc[c] = "await" => outcome[op[c]] = "pending"
        BY <1>1 DEF RInv, CallsApart
      <4> QED
        BY <1>1, <2>1, <4>1, PerformR
    <3>2. effects' = [effects EXCEPT ![Asked(g)] = 1]
      BY <1>1, <2>1, PerformR
    <3> QED
      BY <1>1, <3>1, <3>2 DEF IInv, TypeOK
  <2>2. CASE ~\E g \in Gen : Perform(g)
    <3>1. UNCHANGED effects
      BY <1>1, <2>2, Steps, BesidesSame
         DEF Invoke, Reject, Acquire, StartProcess, ReceiveInitialized, StartFails, Write,
             ReceiveResult, FailCall, Respond, RejectFrame, server
    <3> QED
      BY <3>1
  <2> QED
    BY <2>1, <2>2
<1>2. IInv /\ RInv /\ [Next]_vars =>
        [\A o \in Op : outcome[o] \in {"ok", "error", "refused"} => effects'[o] = effects[o]]_vars
  BY <1>1
<1> QED
  BY <1>2, RequestsPaired, PTL DEF Spec, SettledIsFinal

-----------------------------------------------------------------------------
(* The refinement *)

\* The first state shows no call made, nobody's turn and no effect.
LEMMA InitRefines ==
    ASSUME Init
    PROVE  Tool!Init
BY DEF Init, Tool!Init

\* The turn belongs to the goroutine that holds the mutex.
LEMMA Turn ==
    ASSUME IInv, NEW c \in Caller, pc[c] \in Inside
    PROVE  mu = c /\ mu # NoCaller /\ op[c] \in Op
BY NoCallerAssumption DEF IInv, Locked, CallsKnown, Inside, Starting, Acting

\* A call that returns ends its turn with a result the tool may give.
LEMMA ReturnRefines ==
    ASSUME IInv, RInv, NEW c \in Caller, pc[c] \in Inside,
           NEW result \in {"ok", "error", "refused", "lost"}, Return(c, result),
           UNCHANGED effects,
           result = "ok" => effects[op[c]] = 1,
           result = "refused" => effects[op[c]] = 0
    PROVE  Tool!Next
<1>1. op[c] \in Op /\ mu = c /\ mu # NoCaller /\ mu' = NoCaller
  BY Turn DEF Return
<1>2. Tool!Finish(op[c], result)
  BY <1>1 DEF Tool!Finish, Return
<1> QED
  BY <1>1, <1>2 DEF Tool!Next, Tool!Results

\* Every step is a step of the serialized tool or leaves what it shows alone.
LEMMA StepRefines ==
    ASSUME IInv, RInv, [Next]_vars
    PROVE  [Tool!Next]_(Tool!vars)
<1>1. ASSUME NEW c \in Caller, NEW o \in Op, Invoke(c, o) \/ Reject(c, o) PROVE Tool!Next
  <2>1. (IF mu' = NoCaller THEN 0 ELSE op'[mu']) = IF mu = NoCaller THEN 0 ELSE op[mu]
    <3>1. mu' = mu /\ pc[c] = "idle" /\ \A d \in Caller : d # c => op'[d] = op[d]
      BY <1>1 DEF Invoke, Reject, IInv, TypeOK
    <3>2. mu # NoCaller => mu \in Caller /\ mu # c
      BY <3>1 DEF IInv, TypeOK, Locked, Inside, Starting, Acting
    <3> QED
      BY <3>1, <3>2
  <2>2. Tool!Call(o) \/ Tool!Refuse(o)
    BY <1>1, <2>1 DEF Invoke, Reject, NextOp, server, Tool!Call, Tool!Refuse
  <2> QED
    BY <2>2 DEF Tool!Next
<1>2. ASSUME NEW c \in Caller, Acquire(c) PROVE Tool!Next
  <2>1. op[c] \in Op /\ outcome[op[c]] = "pending"
    BY <1>2 DEF Acquire, IInv, CallsKnown, RInv, CallsApart
  <2>2. mu = NoCaller /\ mu' = c /\ UNCHANGED <<op, outcome, effects>>
    BY <1>2 DEF Acquire, server
  <2>3. (IF mu' = NoCaller THEN 0 ELSE op'[mu']) = op[c]
    BY <2>2, NoCallerAssumption
  <2>4. Tool!Begin(op[c])
    BY <2>1, <2>2, <2>3 DEF Tool!Begin
  <2> QED
    BY <2>1, <2>4 DEF Tool!Next
<1>3. ASSUME NEW c \in Caller, StartFails(c) PROVE Tool!Next
  BY <1>3, StartFailsR, ReturnRefines DEF StartFails, server, Inside, Starting
<1>4. ASSUME NEW c \in Caller, FailCall(c) PROVE Tool!Next
  <2>1. UNCHANGED effects /\ pc[c] \in Inside
    BY <1>4 DEF FailCall, Inside
  <2>2. CASE pc[c] \in Starting /\ Return(c, "refused")
    BY <1>4, <2>1, <2>2, FailCallR, ReturnRefines
  <2>3. CASE Return(c, "lost")
    BY <2>1, <2>3, ReturnRefines
  <2> QED
    BY <1>4, <2>2, <2>3 DEF FailCall
<1>5. ASSUME NEW c \in Caller, ReceiveResult(c) PROVE Tool!Next
  <2>1. UNCHANGED effects /\ pc[c] \in Inside
    BY <1>5 DEF ReceiveResult, Inside, Acting
  <2> QED
    BY <1>5, <2>1, ReceiveResultR, ReturnRefines
<1>6. ASSUME NEW g \in Gen, Perform(g) PROVE Tool!Next
  <2>1. PICK o \in Op : o = Asked(g)
    BY <1>6, AskedIsCall DEF Perform, InHand
  <2>2. /\ effects[o] = 0 /\ effects' = [effects EXCEPT ![o] = 1]
        /\ \/ outcome[o] = "lost"
           \/ \E c \in Caller : pc[c] = "await" /\ op[c] = o
    BY <1>6, <2>1, PerformR
  <2>3. UNCHANGED <<mu, op, outcome>>
    BY <1>6 DEF Perform, client
  <2>4. outcome[o] = "lost" \/ (mu # NoCaller /\ op[mu] = o)
    BY <2>2, Turn DEF Inside, Acting
  <2>5. Tool!Act(o)
    BY <2>2, <2>3, <2>4 DEF Tool!Act
  <2> QED
    BY <2>5 DEF Tool!Next
<1>7. ASSUME UNCHANGED <<mu, op, outcome, effects>> PROVE UNCHANGED Tool!vars
  BY <1>7 DEF Tool!vars
<1>8. ASSUME NEW c \in Caller, StartProcess(c) \/ ReceiveInitialized(c) \/ Write(c)
      PROVE  UNCHANGED Tool!vars
  BY <1>7, <1>8 DEF StartProcess, ReceiveInitialized, Write
<1>9. ASSUME NEW g \in Gen, Respond(g) \/ RejectFrame(g) PROVE UNCHANGED Tool!vars
  BY <1>7, <1>9 DEF Respond, RejectFrame, client
<1>10. CASE Besides
  BY <1>7, <1>10, BesidesSame
<1> QED
  BY <1>1, <1>2, <1>3, <1>4, <1>5, <1>6, <1>8, <1>9, <1>10, Steps

\* The client and its worker implement the serialized tool.
THEOREM Refines == Spec => ImplementsSerialTool
<1>1. Init => Tool!Init
  BY InitRefines
<1>2. IInv /\ RInv /\ [Next]_vars => [Tool!Next]_(Tool!vars)
  BY StepRefines
<1> QED
  BY <1>1, <1>2, RequestsPaired, PTL DEF Spec, ImplementsSerialTool, Tool!Spec

-----------------------------------------------------------------------------
(* The build cache of the worker *)

\* What a process has read and staged, by where it is: a staging file that is
\* about to be published was finished by the compiler.
StagedOK ==
    \A p \in Process : phase[p] = "publish" => staged[p] \in {"broken", "good"}

\* While no two processes have overlapped, only one is active, and what it
\* compiles is what it wrote.
AloneOK ==
    ~overlapped =>
        /\ \A p, q \in Process : Active(p) /\ Active(q) => p = q
        /\ \A p \in Process :
             /\ phase[p] = "compile" => source = "full"
             /\ phase[p] = "link" => read[p] = "full"
             /\ phase[p] = "publish" => staged[p] = "good"
        /\ binary # "broken"

\* The inductive invariant.
CacheInv == CacheTypeOK /\ StagedOK /\ NeverPartial /\ AloneOK

\* The initial states satisfy the invariant.
LEMMA InitCacheInv == CacheInit => CacheInv
  BY DEF CacheInit, CacheInv, CacheTypeOK, StagedOK, NeverPartial, AloneOK, Active, Source, Binary

\* Every step keeps it; a stuttering step too.
LEMMA StepCacheInv == CacheInv /\ [CacheNext]_cacheVars => CacheInv'
<1> SUFFICES ASSUME CacheInv, [CacheNext]_cacheVars PROVE CacheInv'
  OBVIOUS
<1> USE DEF CacheInv, CacheTypeOK, StagedOK, NeverPartial, AloneOK, Active, Source, Binary, Goto, Slot
<1>1. ASSUME NEW p \in Process, Enter(p) PROVE CacheInv'
  BY <1>1 DEF Enter
<1>2. ASSUME NEW p \in Process, Hit(p) PROVE CacheInv'
  BY <1>2 DEF Hit
<1>3. ASSUME NEW p \in Process, Miss(p) PROVE CacheInv'
  BY <1>3 DEF Miss
<1>4. ASSUME NEW p \in Process, Truncate(p) PROVE CacheInv'
  BY <1>4 DEF Truncate
<1>5. ASSUME NEW p \in Process, WriteSource(p) PROVE CacheInv'
  BY <1>5 DEF WriteSource
<1>6. ASSUME NEW p \in Process, Compile(p) PROVE CacheInv'
  BY <1>6 DEF Compile
<1>7. ASSUME NEW p \in Process, Link(p) PROVE CacheInv'
  BY <1>7 DEF Link, Built
<1>8. ASSUME NEW p \in Process, Publish(p) PROVE CacheInv'
  BY <1>8 DEF Publish
<1>9. ASSUME NEW p \in Process, Fail(p) PROVE CacheInv'
  BY <1>9 DEF Fail
<1>10. ASSUME NEW p \in Process, Leave(p) PROVE CacheInv'
  BY <1>10 DEF Leave
<1>11. CASE UNCHANGED cacheVars
  BY <1>11 DEF cacheVars
<1> QED
  BY <1>1, <1>2, <1>3, <1>4, <1>5, <1>6, <1>7, <1>8, <1>9, <1>10, <1>11 DEF CacheNext

\* The invariant holds in every reachable state.
THEOREM CacheInductive == CacheSpec => []CacheInv
  BY InitCacheInv, StepCacheInv, PTL DEF CacheSpec

\* CacheTypeOK holds in every reachable state.
THEOREM CacheTypeCorrect == CacheSpec => []CacheTypeOK
<1>1. CacheInv => CacheTypeOK
  BY DEF CacheInv
<1> QED
  BY <1>1, CacheInductive, PTL

\* Whatever crashes or overlaps, the published worker (os.Rename of a staging
\* file with the process id in its name) is one the compiler finished.
THEOREM PublishedIsComplete == CacheSpec => []NeverPartial
<1>1. CacheInv => NeverPartial
  BY DEF CacheInv
<1> QED
  BY <1>1, CacheInductive, PTL

\* Crashes alone never publish a worker built of a torn source: the source is
\* written again by every process that compiles it.
THEOREM CrashesAreHarmless == CacheSpec => []SoundUnlessConcurrent
<1>1. CacheInv => SoundUnlessConcurrent
  BY DEF CacheInv, AloneOK, SoundUnlessConcurrent
<1> QED
  BY <1>1, CacheInductive, PTL
=============================================================================
