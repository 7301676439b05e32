---------------------------- MODULE ParallelTools ----------------------------
(***************************************************************************)
(* One round of read-only tool calls run side by side:                     *)
(* _try_execute_read_only_parallel_tools (llm_tools.py), the plan of       *)
(* tool_scheduler.py over tool_graph.py, the executor of                   *)
(* parallel_execution.py and the workers of trusted_runner_pool.py, which  *)
(* other requests share.                                                   *)
(*                                                                         *)
(* A call has two tasks: the invocation, which waits for the pool and is   *)
(* cancelled with its batch, and the handler, which a worker runs and      *)
(* cancels.  Whichever knows the outcome first writes the trace of the     *)
(* call, under one lock and at most once.                                  *)
(***************************************************************************)
EXTENDS Integers, FiniteSets, Sequences, SequencesExt

CONSTANTS
  RoundTools,       \* the tools called, a set of naturals: the order of names
  Graphs,           \* [needs, beside]: who depends on whom, who may run with whom
  Workers           \* TrustedRunnerPoolPolicy.worker_count

VARIABLES
  graph,
  phase,      \* of the round: "ready", "batch", "unwind", "settle", or its end
  batch,      \* the batch that runs
  why,        \* what the batch is unwound for
  calls,      \* per tool its invocation, handler, trace and outcome
  pool,       \* "running", "closing", "closed"
  late,       \* the shared deadline is over
  line        \* who waits for trace_lock; the first one may hold it

toolVars == <<graph, phase, batch, why, calls, pool, late, line>>

ASSUME ToolAssumption ==
  RoundTools \subseteq Nat /\ Workers \in Nat /\ Workers >= Cardinality(RoundTools)

NoCall == [task    |-> "none",    \* the invocation
           cancel  |-> FALSE,     \* a cancellation of it is under way
           item    |-> "none",    \* in the pool
           reason  |-> "none",    \* why the item is cancelled
           result  |-> "none",    \* the future of the item
           does    |-> "none",    \* how the handler ended
           says    |-> "none",    \* how the invocation or the round calls it
           writer  |-> "none",    \* who is writing the trace
           trace   |-> "none",    \* "lost": tried, stored or not
           outcome |-> "none"]

Statuses == {"completed", "failed", "cancelled", "skipped"}
ToolEnds == {"replied", "raised", "cancelled"}

-----------------------------------------------------------------------------
(* ToolGraph and ReadOnlyParallelToolScheduler.plan *)

Needs(g, t)   == {u \in RoundTools : <<t, u>> \in g.needs}
ReadyIn(g, R) == {t \in R : Needs(g, t) \cap R = {}}
LeastOf(S)    == CHOOSE t \in S : \A u \in S : t <= u

TopologicalOrder(g) ==
  LET order[R \in SUBSET RoundTools] ==
        IF ReadyIn(g, R) = {} THEN <<>>
        ELSE LET t == LeastOf(ReadyIn(g, R)) IN <<t>> \o order[R \ {t}]
  IN  order[RoundTools]

\* In the order, each ready tool that may run beside all those taken before it.
Index(g, t)    == CHOOSE i \in DOMAIN TopologicalOrder(g) : TopologicalOrder(g)[i] = t
Earlier(g, b, t) == {u \in b : Index(g, u) < Index(g, t)}
MayJoin(g, b, t) ==
  /\ Cardinality(Earlier(g, b, t)) < Workers
  /\ \A u \in Earlier(g, b, t) : {t, u} \in g.beside
NextBatch(g, R) ==
  UNION {b \in SUBSET ReadyIn(g, R) : \A t \in ReadyIn(g, R) : t \in b <=> MayJoin(g, b, t)}

Schedule(g) ==
  LET plan[R \in SUBSET RoundTools] ==
        IF R = {} THEN <<>>
        ELSE LET b == NextBatch(g, R) IN <<b>> \o plan[R \ b]
  IN  plan[RoundTools]

\* ToolGraph.__post_init__ refuses a cycle and two relations of one pair;
\* _prepare_read_only_parallel_batch a plan without anything in parallel.
Schedulable(g) ==
  /\ Len(TopologicalOrder(g)) = Cardinality(RoundTools)
  /\ \A p \in g.needs : {p[1], p[2]} \notin g.beside
RunsInParallel(g) ==
  Schedulable(g) /\ \E i \in 1 .. Len(Schedule(g)) : Cardinality(Schedule(g)[i]) > 1

ToolTypeOK ==
  /\ phase \in {"ready", "batch", "unwind", "settle"} \cup ToolEnds
  /\ batch \subseteq RoundTools
  /\ Cardinality({t \in RoundTools : calls[t].writer # "none"}) <= 1
  /\ \A t \in RoundTools :
       /\ {calls[t].trace, calls[t].outcome} \subseteq Statuses \cup {"none", "lost"}
       /\ calls[t].writer # "none" => calls[t].trace = "lost"

ToolInit ==
  /\ graph \in {g \in Graphs : RunsInParallel(g)}
  /\ phase = "ready" /\ batch = {} /\ why = "none"
  /\ calls = [t \in RoundTools |-> NoCall]
  /\ pool = "running" /\ late = FALSE /\ line = <<>>

\* Who wants the lock for a call; it goes round in the order of asking.
Wants(call) == (IF call.item = "ended" THEN {"handler"} ELSE {})
                 \cup (IF call.task = "tracing" THEN {"invocation"} ELSE {})
Set(t, call) ==
  /\ calls' = [calls EXCEPT ![t] = call]
  /\ line' = SelectSeq(line, LAMBDA e : e[1] # t \/ e[2] \in Wants(call))
               \o SetToSeq({t} \X (Wants(call) \ Wants(calls[t])))
Planned == {t \in RoundTools : calls[t].task = "none"}
TaskOver(t)   == calls[t].task \in {"returned", "failed", "stopped"}
InWorker  == {t \in RoundTools : calls[t].item \in {"running", "ended", "handled"}}
InPool    == {t \in RoundTools : calls[t].item \in {"queued", "running", "ended", "handled"}}
Stays == UNCHANGED <<graph, phase, batch, why, pool, late>>

-----------------------------------------------------------------------------
(* _execute_batch *)

Launch ==
  /\ phase' = "batch" /\ batch' = NextBatch(graph, Planned)
  /\ calls' = [t \in RoundTools |-> IF t \in NextBatch(graph, Planned)
                 THEN [calls[t] EXCEPT !.task = "created"] ELSE calls[t]]

StartRound ==
  /\ phase = "ready"
  /\ Launch
  /\ UNCHANGED <<graph, why, pool, late, line>>

BatchReturns ==
  /\ phase = "batch" /\ \A t \in batch : calls[t].task = "returned"
  /\ IF Planned # {} THEN Launch ELSE phase' = "settle" /\ UNCHANGED <<batch, calls>>
  /\ UNCHANGED <<graph, why, pool, late, line>>

\* The rest of the batch is cancelled and waited for; a second cancellation is
\* passed on to what is still there.
Unwind(reason) ==
  /\ phase' = "unwind" /\ why' = reason
  /\ calls' = [t \in RoundTools |-> IF t \in batch /\ ~TaskOver(t)
                 THEN [calls[t] EXCEPT !.cancel = TRUE] ELSE calls[t]]
  /\ UNCHANGED <<graph, batch, pool, late, line>>

CallFails ==
  /\ phase = "batch" /\ \E t \in batch : calls[t].task \in {"failed", "stopped"}
  /\ Unwind("failed")

DeadlineFires ==
  /\ late /\ \/ phase = "batch"
             \/ phase = "unwind" /\ why = "failed"
  /\ Unwind("late")

UserCancels ==
  /\ phase \in {"batch", "unwind"} /\ why # "cancelled"
  /\ Unwind("cancelled")

Unwound ==
  /\ phase = "unwind" /\ \A t \in batch : TaskOver(t)
  /\ phase' = IF why = "cancelled" THEN "cancelled"
              ELSE IF \E t \in RoundTools : calls[t].trace = "lost"
                     THEN "raised" ELSE "settle"
  /\ UNCHANGED <<graph, batch, why, calls, pool, late, line>>

-----------------------------------------------------------------------------
(* record_once *)

Unlocked == \A t \in RoundTools : calls[t].writer = "none"

Said(call) == IF call.writer = "handler" THEN call.does ELSE call.says

\* What the caller of record_once does with the outcome it wrote, or with an
\* error, which ends the task that called it.
Told(call) == [call EXCEPT !.outcome = Said(call)]
Unlock(call) ==
  [call EXCEPT
     !.writer = "none",
     !.item = IF call.writer = "handler" THEN "handled" ELSE @,
     !.task = IF call.writer = "invocation" THEN "failed" ELSE @,
     !.says = IF call.writer = "handler" THEN @ ELSE "none"]

\* Mutant: a call that was traced is traced again.
BeginTrace_Again(call, writer) == [call EXCEPT !.writer = writer, !.trace = "lost"]

\* Under the lock: nothing to do, refused, or tried for the first time.
BeginTrace(call, writer) ==
  CASE call.trace = "none" -> [call EXCEPT !.writer = writer, !.trace = "lost"]
    [] call.trace = "lost" -> Unlock([call EXCEPT !.writer = writer])
    [] OTHER               -> Unlock(Told([call EXCEPT !.writer = writer]))

Trace(t) ==
  /\ Unlocked /\ line # <<>>
  /\ \E who \in Wants(calls[t]) :
       Head(line) = <<t, who>> /\ Set(t, BeginTrace(calls[t], who))
  /\ Stays

Traced(t) ==
  /\ calls[t].writer # "none"
  /\ Set(t, Unlock([Told(calls[t]) EXCEPT !.trace = Said(calls[t])]))
  /\ Stays

\* The repository failed, or the task was cancelled there.
TraceBreaks(t) ==
  /\ calls[t].writer # "none"
  /\ Set(t, Unlock(calls[t]))
  /\ phase' = IF calls[t].writer = "round" THEN "raised" ELSE phase
  /\ UNCHANGED <<graph, batch, why, pool, late>>

-----------------------------------------------------------------------------
(* The invocation *)

\* A failure the handler did not trace is traced here.
Fails(call, status) ==
  IF call.trace # "none" THEN [call EXCEPT !.task = "failed"]
  ELSE [call EXCEPT !.task = "tracing", !.says = status]

\* The trust decision changed, the pool is closed or full, or it is too late.
Submit(t) ==
  LET call == calls[t]
  IN  /\ call.task = "created" /\ ~call.cancel
      /\ \/ Set(t, Fails(call, "failed"))
         \/ /\ pool = "running" /\ ~late
            /\ Set(t, [call EXCEPT !.task = "waiting", !.item = "queued"])
      /\ Stays

Wake(t) ==
  LET call == calls[t]
      woken == [call EXCEPT !.result = "none"]
  IN  /\ call.task = "waiting" /\ ~call.cancel
      /\ \/ call.result = "ok" /\ Set(t, [woken EXCEPT !.task = "returned"])
         \/ call.result = "error" /\ Set(t, Fails(woken, "failed"))
      /\ Stays

\* _cancel_and_drain: an item still queued is taken out; a worker is told, and
\* waited for.
Drained(call, reason) ==
  [call EXCEPT !.reason = IF call.item = "queued" THEN "none"
                          ELSE IF @ = "none" THEN reason ELSE @,
               !.result = IF @ = "none" /\ call.item # "queued" THEN "dropped" ELSE "none",
               !.item = IF @ = "queued" THEN "finished" ELSE @,
               !.cancel = FALSE,
               !.task = "draining",
               !.says = IF reason = "timeout" THEN "failed" ELSE "cancelled"]

TimeoutInPool(t) ==
  /\ late /\ calls[t].task = "waiting" /\ calls[t].result = "none"
  /\ Set(t, Drained(calls[t], "timeout"))
  /\ Stays

AfterDrain(t) ==
  /\ calls[t].task = "draining" /\ calls[t].item = "finished" /\ ~calls[t].cancel
  /\ Set(t, Fails(calls[t], calls[t].says))
  /\ Stays

\* The cancellation reaches the invocation where it waits: a second one ends the
\* wait for the worker.
Stopped(t) ==
  LET call == [calls[t] EXCEPT !.cancel = FALSE]
      stop == [call EXCEPT !.task = "stopped", !.says = "none"]
  IN  /\ calls[t].cancel
      /\ \/ call.task = "created" /\ Set(t, stop)
         \/ call.task = "waiting" /\ Set(t, Drained(call, "caller"))
         \/ call.task = "draining" /\ Set(t, Fails(call, "cancelled"))
         \/ call.task = "tracing"
            /\ Set(t, IF call.writer = "invocation" THEN Unlock(call) ELSE stop)
      /\ Stays

-----------------------------------------------------------------------------
(* Workers and handlers; the items of other requests are not modelled: a     *)
(* worker is free sooner or later, and the pool full when it likes.          *)

TakeUp(t) ==
  /\ calls[t].item = "queued" /\ Cardinality(InWorker) < Workers
  /\ Set(t, IF late
       THEN [calls[t] EXCEPT !.item = "finished", !.result = "error"]
       ELSE [calls[t] EXCEPT !.item = "running"])
  /\ Stays

\* execute_custom_tool returns, or fails, is refused or runs out of its time.
HandlerEnds(t) ==
  /\ calls[t].item = "running"
  /\ \E s \in {"completed", "failed"} :
       Set(t, [calls[t] EXCEPT !.item = "ended", !.does = s])
  /\ Stays

\* The worker cancels it: told to, or because its own deadline is over.
HandlerCancelled(t) ==
  LET call == [calls[t] EXCEPT !.reason = IF @ = "none" THEN "timeout" ELSE @]
  IN  /\ calls[t].reason # "none" \/ late
      /\ \/ call.item = "running"
            /\ Set(t, [call EXCEPT !.item = "ended", !.does = "cancelled"])
         \/ /\ call.item = "ended"            \* waiting for the lock, or writing
            /\ Set(t, IF call.writer = "handler" THEN Unlock(call)
                      ELSE [call EXCEPT !.item = "handled"])
      /\ Stays

\* The future is set unless the caller has dropped it.
FinishItem(t) ==
  LET call == calls[t]
      good == call.reason = "none" /\ call.outcome = "completed"
  IN  /\ call.item = "handled"
      /\ Set(t, [call EXCEPT !.item = "finished", !.reason = "none", !.does = "none",
           !.result = IF @ = "dropped" THEN "none"
                      ELSE IF good THEN "ok" ELSE "error"])
      /\ Stays

ClosePool ==
  /\ pool = "running" /\ pool' = "closing"
  /\ calls' = [t \in RoundTools |->
       IF calls[t].item = "queued"
         THEN [calls[t] EXCEPT !.item = "finished", !.result = "error"]
       ELSE IF t \in InWorker /\ calls[t].reason = "none"
         THEN [calls[t] EXCEPT !.reason = "close"] ELSE calls[t]]
  /\ UNCHANGED <<graph, phase, batch, why, late, line>>

PoolClosed ==
  /\ pool = "closing" /\ InPool = {}
  /\ pool' = "closed"
  /\ UNCHANGED <<graph, phase, batch, why, calls, late, line>>

DeadlinePasses ==
  /\ ~late /\ late' = TRUE
  /\ UNCHANGED <<graph, phase, batch, why, calls, pool, line>>

-----------------------------------------------------------------------------
(* After the executor *)

\* A call without an outcome was skipped or cut off: traced as such, or the
\* round fails if its trace was tried before.
SettleCall(t) ==
  /\ phase = "settle" /\ Unlocked /\ \A u \in RoundTools : Wants(calls[u]) = {}
  /\ calls[t].outcome = "none"
  /\ \A u \in RoundTools : u < t => calls[u].outcome # "none"
  /\ Set(t, BeginTrace([calls[t] EXCEPT !.says = "skipped"], "round"))
  /\ phase' = IF calls[t].trace = "lost" THEN "raised" ELSE phase
  /\ UNCHANGED <<graph, batch, why, pool, late>>

Reply ==
  /\ phase = "settle" /\ \A t \in RoundTools : calls[t].outcome # "none"
  /\ phase' = "replied"
  /\ UNCHANGED <<graph, batch, why, calls, pool, late, line>>

\* The event loop passes a cancellation on, to the invocation and by the worker
\* to the handler, before anything else happens.
Delivered ==
  \A t \in RoundTools :
    /\ ~calls[t].cancel
    /\ calls[t].reason # "none" =>
         /\ calls[t].item # "running"
         /\ calls[t].item = "ended" => calls[t].does = "cancelled"

ToolNext ==
  \/ \E t \in RoundTools : Stopped(t) \/ HandlerCancelled(t)
  \/ /\ Delivered /\ phase \notin ToolEnds
     /\ \/ StartRound \/ BatchReturns \/ CallFails \/ DeadlineFires
        \/ UserCancels \/ Unwound \/ Reply \/ DeadlinePasses
  \/ /\ Delivered
     /\ \/ ClosePool \/ PoolClosed
        \/ \E t \in RoundTools :
             \/ Trace(t) \/ Traced(t) \/ TraceBreaks(t) \/ SettleCall(t)
             \/ Submit(t) \/ Wake(t) \/ TimeoutInPool(t) \/ AfterDrain(t)
             \/ TakeUp(t) \/ HandlerEnds(t) \/ FinishItem(t)

-----------------------------------------------------------------------------
\* What the model is told of a round is what the traces say of it, one trace
\* for each call, whatever failed, was cut off or cancelled twice; nothing runs
\* before what it depends on, nor in a pool that was closed.
ToldAsTraced ==
  [][/\ phase # "replied" /\ phase' = "replied" =>
          \A t \in RoundTools : calls[t].outcome = calls[t].trace
     /\ \A t \in RoundTools : calls[t].trace \in Statuses => calls'[t].trace = calls[t].trace
     /\ \A t \in InWorker' : \A u \in Needs(graph, t) : calls'[u].outcome = "completed"
     /\ pool' = "closed" => InWorker' = {}]_toolVars
=============================================================================
