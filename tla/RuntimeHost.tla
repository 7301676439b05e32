---------------------------- MODULE RuntimeHost ----------------------------
(***************************************************************************)
(* The generations of runtime resources (runtime_resources.py) and their   *)
(* host (RuntimeResourceHost in agent_context_runtime.py).                 *)
(*                                                                         *)
(* A generation owns an ordered list of ports (database, Redis, queues,    *)
(* spool, runner).  The manager holds one active generation; a request     *)
(* takes a lease on it and keeps it to its end.  The first request that    *)
(* arrives with a newer snapshot reloads the manager: it starts the new    *)
(* generation, hands over, waits until the leases of the old one are back  *)
(* and closes it, all under the host's synchronisation lock, on which      *)
(* everybody else waits in FIFO order.                                     *)
(*                                                                         *)
(* The manager's condition is never held across an await, so what runs     *)
(* under it is one step, and a caller that gets the synchronisation lock   *)
(* without having to start anything takes its lease in the same step.      *)
(***************************************************************************)
EXTENDS Integers, FiniteSets, SequencesExt

CONSTANTS
  Requests,     \* users of leases: chat requests and commands
  Confirmers,   \* those of them that are confirmation commands
  MaxGen,       \* bound: generations the reloader publishes
  Settings,     \* the settings the builder was made with
  MayFail       \* the ports whose start or close may raise

Boot     == "boot"        \* _startup_tasks
Shutdown == "shutdown"    \* _close_http_session
Actors   == Requests \cup {Boot, Shutdown}
Gens     == 1 .. MaxGen
None     == 0

\* RuntimeResourceBuilder.build: a component without the manager it stands on
\* is a configuration error.
Buildable ==
  /\ {"pending", "cooldown", "admission", "redis-history"} \cap Settings # {}
       => "redis" \in Settings
  /\ "spool" \in Settings => "database" \in Settings

\* The order in which build appends the managed ports of a generation; the
\* usage and the audit queue, which every generation has, count as one port.
PortOrder ==
  <<"database", "redis", "queues", "spool", "runner", "extra">>
PortSet == {p \in ToSet(PortOrder) : p \in Settings \cup {"queues"}}
Before(p, q) ==
  \E i, j \in DOMAIN PortOrder : i < j /\ PortOrder[i] = p /\ PortOrder[j] = q
\* Ports start in this order; _close_ports goes through them in reverse.
FirstOf(p, S) == p \in S /\ \A q \in S : ~Before(q, p)
LastOf(p, S)  == p \in S /\ \A q \in S : ~Before(p, q)

ASSUME HostAssumption ==
  /\ MaxGen \in Nat \ {0}
  /\ Requests \cap {Boot, Shutdown} = {} /\ Confirmers \subseteq Requests
  /\ MayFail \subseteq PortSet /\ IsFiniteSet(Requests)

VARIABLES
  published,   \* runtime_snapshots.current(): generation of the current snapshot
  closed,      \* RuntimeResourceHost._closed
  queue,       \* RuntimeResourceHost._sync_lock: its holder, then its waiters
  mstate,      \* RuntimeResourceManager._state
  active,      \* RuntimeResourceManager._active
  retired,     \* RuntimeResourceManager._retired
  leases,      \* RuntimeResourceManager._leases
  res,         \* each generation's state and the ports it has open
  op,          \* what the holder of the lock is in the middle of
  pc, snap,    \* each actor: where it is, and the snapshot it was bound to
  answer       \* how its synchronisation ended

hostVars == <<published, closed, queue, mstate, active, retired, leases, res, op,
              pc, snap, answer>>

NoOp == [phase |-> "none", cand |-> None, prev |-> None, todo |-> {},
         rest |-> {}, cancelled |-> FALSE]

Phases == {"none", "start", "unwind", "discard", "drain", "retire", "quiesce", "shut"}
Answers == {"none", "served", "behind", "refused", "failed", "cancelled"}

Places  == {"idle", "bound", "waiting", "leased", "done"}
GenRecords ==
  [state : {"created", "starting", "running", "closing", "failed", "closed"},
   open  : SUBSET PortSet]
OpRecords ==
  [phase : Phases, cand : Gens \cup {None}, prev : Gens \cup {None},
   todo : SUBSET PortSet, rest : SUBSET Gens, cancelled : BOOLEAN]

HostTypeOK ==
  /\ published \in Gens /\ closed \in BOOLEAN
  /\ queue \in Seq(Actors)
  /\ mstate \in {"created", "starting", "running", "reloading", "closing", "failed", "closed"}
  /\ active \in Gens \cup {None} /\ retired \subseteq Gens
  /\ leases \in [Gens -> Nat]
  /\ res \in [Gens -> GenRecords] /\ op \in OpRecords
  /\ pc \in [Actors -> Places]
  /\ snap \in [Actors -> Gens \cup {None}]
  /\ answer \in [Actors -> Answers]

HostInit ==
  /\ published = 1 /\ closed = FALSE
  /\ queue = <<>> /\ mstate = "created" /\ active = None /\ retired = {}
  /\ leases = [g \in Gens |-> 0]
  /\ res = [g \in Gens |-> [state |-> "created", open |-> {}]]
  /\ op = NoOp
  /\ pc = [a \in Actors |-> "idle"] /\ snap = [a \in Actors |-> None]
  /\ answer = [a \in Actors |-> "none"]

-----------------------------------------------------------------------------
(* Arrivals. *)

\* The reloader publishes the next snapshot (RuntimeReload models how).
Publish ==
  /\ published < MaxGen
  /\ published' = published + 1
  /\ UNCHANGED <<closed, queue, mstate, active, retired, leases, res, op, pc, snap, answer>>

\* Mutant: whoever asks last goes first behind the holder of the lock.
Bind_Lifo(a) ==
  /\ pc[a] = "idle"
  /\ pc' = [pc EXCEPT ![a] = "waiting"]
  /\ snap' = [snap EXCEPT ![a] = published]
  /\ queue' = IF queue = <<>> THEN <<a>> ELSE <<Head(queue), a>> \o Tail(queue)
  /\ UNCHANGED <<published, closed, mstate, active, retired, leases, res, op, answer>>

\* A caller binds the current snapshot and asks for the lock, with no await in
\* between; a confirmation command asks the pending protocol actions first.
Bind(a) ==
  /\ pc[a] = "idle"
  /\ snap' = [snap EXCEPT ![a] = published]
  /\ \/ /\ a \in Confirmers
        /\ pc' = [pc EXCEPT ![a] = "bound"] /\ UNCHANGED queue
     \/ /\ a \notin Confirmers
        /\ pc' = [pc EXCEPT ![a] = "waiting"] /\ queue' = Append(queue, a)
  /\ UNCHANGED <<published, closed, mstate, active, retired, leases, res, op, answer>>

Enqueue(a) ==
  /\ pc[a] = "bound"
  /\ pc' = [pc EXCEPT ![a] = "waiting"] /\ queue' = Append(queue, a)
  /\ UNCHANGED <<published, closed, mstate, active, retired, leases, res, op, snap, answer>>

\* Cancelling a waiter that does not hold the lock only takes it out of line.
LeaveLine(a) ==
  /\ pc[a] = "waiting" /\ a \in Requests \ Confirmers
  /\ \E i \in 2 .. Len(queue) : queue[i] = a /\ queue' = RemoveAt(queue, i)
  /\ pc' = [pc EXCEPT ![a] = "done"]
  /\ answer' = [answer EXCEPT ![a] = "cancelled"]
  /\ UNCHANGED <<published, closed, mstate, active, retired, leases, res, op, snap>>

-----------------------------------------------------------------------------
(* The holder of the lock. *)

Holds(a, phase) == /\ queue # <<>> /\ Head(queue) = a
                   /\ pc[a] = "waiting" /\ op.phase = phase

\* synchronize raises: the lock goes to the next in line.
Raise(a, why) ==
  /\ pc' = [pc EXCEPT ![a] = "done"]
  /\ answer' = [answer EXCEPT ![a] = why]
  /\ queue' = Tail(queue) /\ op' = NoOp

\* Mutant: a caller that was cancelled meanwhile leaves without its lease.
Return_Leaks(a, g) ==
  /\ answer' = [answer EXCEPT ![a] = IF op.cancelled THEN "cancelled" ELSE "served"]
  /\ pc' = [pc EXCEPT ![a] = IF op.cancelled \/ a = Boot THEN "done" ELSE "leased"]
  /\ leases' = IF a = Boot THEN leases ELSE [leases EXCEPT ![g] = @ + 1]
  /\ queue' = Tail(queue) /\ op' = NoOp

\* synchronize returns generation g: a request leaves with a lease on it, the
\* start-up task without one.  The cancellation of a caller that was settling
\* a hand-over reaches it only now.
Return(a, g) ==
  /\ answer' = [answer EXCEPT ![a] = IF op.cancelled THEN "cancelled" ELSE "served"]
  /\ LET leaves == op.cancelled \/ a = Boot
     IN  /\ pc' = [pc EXCEPT ![a] = IF leaves THEN "done" ELSE "leased"]
         /\ leases' = IF leaves THEN leases ELSE [leases EXCEPT ![g] = @ + 1]
  /\ queue' = Tail(queue) /\ op' = NoOp

\* synchronize: the cases that need no work on resources.
Answer(a) ==
  /\ Holds(a, "none") /\ a # Shutdown
  /\ \/ /\ closed \/ mstate \notin {"created", "running"}
        /\ Raise(a, "refused") /\ UNCHANGED leases
     \/ /\ ~closed /\ mstate = "running" /\ snap[a] = active
        /\ Return(a, active)
     \/ /\ ~closed /\ mstate = "running" /\ snap[a] < active
        /\ Raise(a, "behind") /\ UNCHANGED leases
     \/ /\ ~closed /\ ~Buildable
        /\ mstate = "created" \/ (mstate = "running" /\ snap[a] > active)
        /\ Raise(a, "failed") /\ UNCHANGED leases
  /\ UNCHANGED <<published, closed, mstate, active, retired, res, snap>>

\* RuntimeResourceManager.start, or reload for a snapshot newer than the active
\* generation: build the candidate and start its ports one after the other.
BeginStart(a) ==
  /\ Holds(a, "none") /\ a # Shutdown /\ ~closed /\ Buildable
  /\ \/ mstate = "created"
     \/ mstate = "running" /\ snap[a] > active
  /\ mstate' = IF mstate = "created" THEN "starting" ELSE "reloading"
  /\ res' = [res EXCEPT ![snap[a]] = [state |-> "starting", open |-> {}]]
  /\ op' = [NoOp EXCEPT !.phase = "start", !.cand = snap[a], !.prev = active, !.todo = PortSet]
  /\ UNCHANGED <<published, closed, queue, active, retired, leases, pc, snap, answer>>

\* One port starts.
StartPort(a) ==
  /\ Holds(a, "start")
  /\ \E p \in PortSet :
       /\ FirstOf(p, op.todo)
       /\ res' = [res EXCEPT ![op.cand].open = @ \cup {p}]
       /\ op' = [op EXCEPT !.todo = @ \ {p}]
  /\ UNCHANGED <<published, closed, queue, mstate, active, retired, leases, pc, snap, answer>>

\* A port fails to start, or its caller is cancelled meanwhile: the failing port
\* counts as started, and all of them are closed in reverse order.
StartFails(a, cancelled) ==
  /\ Holds(a, "start")
  /\ \E p \in PortSet :
       /\ FirstOf(p, op.todo) /\ (~cancelled => p \in MayFail)
       /\ res' = [res EXCEPT ![op.cand].open = @ \cup {p}]
       /\ op' = [op EXCEPT !.phase = "unwind", !.cancelled = cancelled,
                           !.todo = res[op.cand].open \cup {p}]
  /\ UNCHANGED <<published, closed, queue, mstate, active, retired, leases, pc, snap, answer>>

\* All ports are up.  A first start is done; a reload makes the candidate
\* active, retires the previous generation and waits for its leases.
Started(a) ==
  /\ Holds(a, "start") /\ op.todo = {}
  /\ res' = [res EXCEPT ![op.cand].state = "running"]
  /\ active' = op.cand
  /\ \/ /\ op.prev = None
        /\ mstate' = "running"
        /\ Return(a, op.cand)
        /\ UNCHANGED retired
     \/ /\ op.prev # None
        /\ retired' = retired \cup {op.prev}
        /\ op' = [op EXCEPT !.phase = "drain"]
        /\ UNCHANGED <<mstate, leases, queue, pc, answer>>
  /\ UNCHANGED <<published, closed, snap>>

\* The caller is cancelled while the hand-over is settled: it is remembered.
CancelHolder(a) ==
  /\ a \in Requests \ Confirmers
  /\ Holds(a, "drain") \/ Holds(a, "retire")
  /\ ~op.cancelled
  /\ op' = [op EXCEPT !.cancelled = TRUE]
  /\ UNCHANGED <<published, closed, queue, mstate, active, retired, leases, res, pc, snap, answer>>

\* Mutant: the previous generation is closed without waiting for its leases.
Drained_Early(a) ==
  /\ Holds(a, "drain")
  /\ res' = [res EXCEPT ![op.prev].state = "closing"]
  /\ op' = [op EXCEPT !.phase = "retire", !.todo = res[op.prev].open]
  /\ UNCHANGED <<published, closed, queue, mstate, active, retired, leases, pc, snap, answer>>

\* _finish_reload: the last lease of the previous generation came back.
Drained(a) ==
  /\ Holds(a, "drain") /\ leases[op.prev] = 0
  /\ res' = [res EXCEPT ![op.prev].state = "closing"]
  /\ op' = [op EXCEPT !.phase = "retire", !.todo = res[op.prev].open]
  /\ UNCHANGED <<published, closed, queue, mstate, active, retired, leases, pc, snap, answer>>

\* The generation whose ports the holder is closing.
Closing == CASE op.phase \in {"unwind", "discard"} -> op.cand
             [] op.phase \in {"retire", "shut"}    -> op.prev

\* _close_ports: every port is tried, one that raises stays open.
ClosePort(a, fails) ==
  /\ \E phase \in {"unwind", "discard", "retire", "shut"} : Holds(a, phase)
  /\ \E p \in PortSet :
       /\ LastOf(p, op.todo) /\ (fails => p \in MayFail)
       /\ res' = IF fails THEN res ELSE [res EXCEPT ![Closing].open = @ \ {p}]
       /\ op' = [op EXCEPT !.todo = @ \ {p}]
  /\ UNCHANGED <<published, closed, queue, mstate, active, retired, leases, pc, snap, answer>>

\* RuntimeGenerationResources.start rolled back: the manager's own rollback
\* closes the candidate once more, which retries the ports that failed.
Unwound(a) ==
  /\ Holds(a, "unwind") /\ op.todo = {}
  /\ res' = [res EXCEPT ![op.cand].state = "closing"]
  /\ op' = [op EXCEPT !.phase = "discard", !.todo = res[op.cand].open]
  /\ UNCHANGED <<published, closed, queue, mstate, active, retired, leases, pc, snap, answer>>

\* How close leaves a generation once all its ports were tried.
After(g) == IF res[g].open = {} THEN "closed" ELSE "failed"

\* Mutant: a candidate whose rollback failed is forgotten.
Discarded_Forgotten(a) ==
  /\ Holds(a, "discard") /\ op.todo = {}
  /\ res' = [res EXCEPT ![op.cand].state = After(op.cand)]
  /\ mstate' = IF op.prev = None THEN "created" ELSE "running"
  /\ Raise(a, IF op.cancelled THEN "cancelled" ELSE "failed")
  /\ UNCHANGED <<published, closed, active, retired, leases, snap>>

\* _finish_start_rollback, _finish_reload_candidate_rollback: a candidate that
\* cannot be closed is kept among the retired and fails the manager.  A
\* candidate that closed can be built anew from the same snapshot.
Discarded(a) ==
  /\ Holds(a, "discard") /\ op.todo = {}
  /\ res' = [res EXCEPT ![op.cand].state = After(op.cand)]
  /\ retired' = IF After(op.cand) = "closed" THEN retired ELSE retired \cup {op.cand}
  /\ mstate' = CASE After(op.cand) = "failed" -> "failed"
                 [] op.prev = None            -> "created"
                 [] OTHER                     -> "running"
  /\ Raise(a, IF op.cancelled THEN "cancelled" ELSE "failed")
  /\ UNCHANGED <<published, closed, active, leases, snap>>

\* _finish_reload after previous.close(): done, or the manager has failed.
Retired(a) ==
  /\ Holds(a, "retire") /\ op.todo = {}
  /\ res' = [res EXCEPT ![op.prev].state = After(op.prev)]
  /\ \/ /\ After(op.prev) = "closed"
        /\ retired' = retired \ {op.prev} /\ mstate' = "running"
        /\ Return(a, op.cand)
     \/ /\ After(op.prev) = "failed"
        /\ mstate' = "failed"
        /\ Raise(a, IF op.cancelled THEN "cancelled" ELSE "failed")
        /\ UNCHANGED <<retired, leases>>
  /\ UNCHANGED <<published, closed, active, snap>>

-----------------------------------------------------------------------------
(* RuntimeResourceHost.close and RuntimeResourceManager.close. *)

\* Nothing was ever started, or nothing is left: closed at once.
CloseEmpty ==
  /\ Holds(Shutdown, "none")
  /\ active = None /\ retired = {}
  /\ mstate' = "closed" /\ closed' = TRUE
  /\ Raise(Shutdown, "served")
  /\ UNCHANGED <<published, active, retired, leases, res, snap>>

\* _finish_close: no new lease from here on, then wait for those given out.
BeginClose ==
  /\ Holds(Shutdown, "none")
  /\ active # None \/ retired # {}
  /\ mstate' = "closing" /\ active' = None
  /\ op' = [NoOp EXCEPT !.phase = "quiesce", !.prev = active,
                        !.rest = retired \cup ({active} \ {None})]
  /\ UNCHANGED <<published, closed, queue, retired, leases, res, pc, snap, answer>>

\* The active generation is closed first, then the retired in their order.
GoesNext(g) ==
  /\ g \in op.rest
  /\ IF op.phase = "quiesce" /\ op.prev # None THEN g = op.prev
                                               ELSE \A h \in op.rest : g <= h

CloseNext(g) ==
  op' = [op EXCEPT !.phase = "shut", !.prev = g, !.rest = @ \ {g}, !.todo = res[g].open]

Quiesced ==
  /\ Holds(Shutdown, "quiesce")
  /\ \A g \in op.rest : leases[g] = 0
  /\ \E g \in Gens : /\ GoesNext(g) /\ CloseNext(g)
                    /\ res' = [res EXCEPT ![g].state = "closing"]
  /\ UNCHANGED <<published, closed, queue, mstate, active, retired, leases, pc, snap, answer>>

\* One generation is done with: close the next, or end.  Those that failed
\* stay retired, and the host is not closed.
ShutOne ==
  /\ Holds(Shutdown, "shut") /\ op.todo = {}
  /\ retired' = IF After(op.prev) = "closed" THEN retired \ {op.prev}
                                             ELSE retired \cup {op.prev}
  /\ \/ \E g \in Gens :
          /\ GoesNext(g) /\ CloseNext(g)
          /\ res' = [res EXCEPT ![op.prev].state = After(op.prev), ![g].state = "closing"]
          /\ UNCHANGED <<mstate, closed, queue, pc, answer>>
     \/ /\ op.rest = {}
        /\ res' = [res EXCEPT ![op.prev].state = After(op.prev)]
        /\ mstate' = IF retired' = {} THEN "closed" ELSE "failed"
        /\ closed' = (retired' = {})
        /\ Raise(Shutdown, IF retired' = {} THEN "served" ELSE "failed")
  /\ UNCHANGED <<published, active, leases, snap>>

-----------------------------------------------------------------------------
\* Mutant: a lease that is given back twice.
Release_Twice(r) ==
  /\ pc[r] = "leased"
  /\ leases' = [leases EXCEPT ![snap[r]] = @ - 2]
  /\ pc' = [pc EXCEPT ![r] = "done"]
  /\ UNCHANGED <<published, closed, queue, mstate, active, retired, res, op, snap, answer>>

\* The end of a request gives its lease back, whatever happens to the caller.
Release(r) ==
  /\ pc[r] = "leased"
  /\ leases' = [leases EXCEPT ![snap[r]] = @ - 1]
  /\ pc' = [pc EXCEPT ![r] = "done"]
  /\ UNCHANGED <<published, closed, queue, mstate, active, retired, res, op, snap, answer>>

\* Steps that end with the actor holding a lease.
Grant(a) == Answer(a) \/ Started(a) \/ Retired(a)

\* The other steps of the holder of the lock.
Work(a) ==
  \/ BeginStart(a) \/ StartPort(a) \/ StartFails(a, FALSE)
  \/ Drained(a) \/ ClosePort(a, FALSE) \/ ClosePort(a, TRUE)
  \/ Unwound(a) \/ Discarded(a)
CloseWork == CloseEmpty \/ BeginClose \/ Quiesced \/ ShutOne

Disturb(a) ==
  \/ LeaveLine(a) \/ CancelHolder(a)
  \/ a \in Requests \ Confirmers /\ StartFails(a, TRUE)
=============================================================================
