----------------------------- MODULE UsageSpool -----------------------------
(***************************************************************************)
(* The durable path of usage and audit records: usage_batch.py and         *)
(* audit_batch.py (bounded in-memory queues), local_spool.py (one file per *)
(* append, leased by an atomic rename) and spool_worker.py (two pumps from *)
(* queue to spool, one flusher from spool to PostgreSQL, a supervisor).    *)
(*                                                                         *)
(* Everything runs on one event loop, but every spool operation runs in a  *)
(* worker thread (asyncio.to_thread) under one asyncio lock.  Cancelling   *)
(* the awaiting task frees the lock and leaves the thread running: such an *)
(* operation is in "orphans".  A crash keeps files and database rows only. *)
(***************************************************************************)
EXTENDS Naturals, Sequences, FiniteSets, SequencesExt

CONSTANTS
    Usage,          \* usage records (model values)
    Audit,          \* audit records (model values)
    Queued,         \* the records that go through a queue; the others are handed
                    \* to the worker directly
    MaxBatch,       \* max_batch_size of both queues
    MaxOutstanding, \* max_outstanding_records of both queues
    MaxFiles,       \* max_ready_files of the spool
    MaxAppends,     \* bound: files ever created
    MaxFaults,      \* bound: disk and database failures
    MaxCrashes,     \* bound: process crashes
    MaxCancels,     \* bound: cancelled requests and event-loop teardowns
    MaxCloses       \* bound: calls of close()

Records == Usage \union Audit
Kinds == {"usage", "audit"}
KindOf(r) == IF r \in Usage THEN "usage" ELSE "audit"
Other(k) == IF k = "usage" THEN "audit" ELSE "usage"

\* The tasks that call the spool: a pump per kind, the flusher and, for every
\* record, the request that hands it over directly (enqueue_usage).
Tasks == Kinds \union {"flusher"} \union Records
FileIds == 1..MaxAppends

ASSUME SpoolAssumption ==
    /\ Usage \intersect Audit = {} /\ Queued \subseteq Records
    /\ Records \intersect (Kinds \union {"flusher"}) = {}
    /\ MaxBatch \in Nat \ {0}
    /\ MaxOutstanding \in Nat \ {0}
    /\ MaxFiles \in Nat \ {0}
    /\ {MaxAppends, MaxFaults, MaxCrashes, MaxCancels, MaxCloses} \subseteq Nat

VARIABLES
    queue,      \* per kind: state, pending records, records of the active lease
    files,      \* the spool directory: id -> stage, kind, records
    made,       \* files ever created (a file name is never used twice)
    temp,       \* a crash left a temporary file in the spool directory
    written,    \* the database: how often each record has been committed
    spool,      \* LocalUsageAuditSpool._state
    worker,     \* UsageAuditSpoolWorker._state
    closing,    \* _closing_event
    ingestDone, \* _ingest_done
    flushEvent, \* _flush_event
    pump,       \* per kind: where _pump_usage and _pump_audit are
    flusher,    \* where _flush_loop is, the kinds left to scan, its lease
    nextKind,   \* _next_kind
    supervisor, \* where _supervise is
    request,    \* per record: what became of it in the process that made it
    io,         \* per task: its spool operation in a worker thread
    orphans,    \* operations whose task was cancelled, thread still running
    ambiguous,  \* records whose append or commit outcome a task never learnt
    faults, crashes, cancels, closes

disk == <<files, made, temp, written>>
events == <<closing, ingestDone, flushEvent>>
counters == <<faults, crashes, cancels, closes>>
vars == <<queue, disk, spool, worker, events, pump, flusher, nextKind,
          supervisor, request, io, orphans, ambiguous, counters>>

NoOp == [do |-> "none"]
AppendOp(k, rs) == [do |-> "append", kind |-> k, recs |-> rs, out |-> "running"]
LeaseOp(k)      == [do |-> "lease", kind |-> k, id |-> 0, out |-> "running"]
MoveOp(d, i)    == [do |-> d, id |-> i, out |-> "running"]

IdleFlusher(todo) == [at |-> "scan", todo |-> todo, id |-> 0, recs |-> <<>>]
FreshQueue == [state |-> "open", pending |-> <<>>, lease |-> <<>>]
EmptyIo == [t \in Tasks |-> NoOp]

Init ==
    /\ queue = [k \in Kinds |-> FreshQueue]
    /\ files = <<>> /\ made = 0 /\ temp = FALSE
    /\ written = [r \in Records |-> 0]
    /\ spool = "created" /\ worker = "created"
    /\ closing = FALSE /\ ingestDone = FALSE /\ flushEvent = FALSE
    /\ pump = [k \in Kinds |-> "none"]
    /\ flusher = [IdleFlusher(<<>>) EXCEPT !.at = "none"]
    /\ nextKind = "usage" /\ supervisor = "none"
    /\ request = [r \in Records |-> "new"]
    /\ io = EmptyIo /\ orphans = <<>> /\ ambiguous = {}
    /\ faults = 0 /\ crashes = 0 /\ cancels = 0 /\ closes = 0

At(stage) == {i \in DOMAIN files : files[i].stage = stage}
InFiles == UNION {ToSet(files[i].recs) : i \in DOMAIN files}
\* Mutant of LockFree: the spool operations take no lock.
LockFree_Ignored == TRUE

LockFree == \A t \in Tasks : io[t] = NoOp

(***************************************************************************)
(* The batch queues (usage_batch.py, audit_batch.py: the same code twice). *)
(***************************************************************************)
Outstanding(q) == Len(q.pending) + Len(q.lease)

\* _finish_close_if_empty.
FinishClose(q) ==
    IF q.state = "closing" /\ Outstanding(q) = 0 THEN [q EXCEPT !.state = "closed"] ELSE q

\* _lease_ready_locked: the oldest records, at most a batch of them.
LeaseBatch(q) ==
    LET n == IF Len(q.pending) < MaxBatch THEN Len(q.pending) ELSE MaxBatch
    IN  [q EXCEPT !.lease = SubSeq(q.pending, 1, n),
                  !.pending = SubSeq(q.pending, n + 1, Len(q.pending))]

Acknowledge(q) == FinishClose([q EXCEPT !.lease = <<>>])
\* Mutant of ReleaseUnwritten: the batch is dropped instead of put back.
ReleaseUnwritten_Dropped(q) == [q EXCEPT !.lease = <<>>]

ReleaseUnwritten(q) == [q EXCEPT !.pending = q.lease \o q.pending, !.lease = <<>>]
BeginClose(q) == FinishClose([q EXCEPT !.state = IF @ = "open" THEN "closing" ELSE @])

\* put: a full queue makes the caller wait, a closed one refuses the record.
Put(r) ==
    /\ r \in Queued /\ request[r] = "new"
    /\ worker # "created"
    /\ LET k == KindOf(r) IN
         \/ /\ queue[k].state = "open"
            /\ Outstanding(queue[k]) < MaxOutstanding
            /\ queue' = [queue EXCEPT ![k].pending = Append(@, r)]
            /\ request' = [request EXCEPT ![r] = "queued"]
         \/ /\ queue[k].state # "open"
            /\ request' = [request EXCEPT ![r] = "refused"]
            /\ UNCHANGED queue
    /\ UNCHANGED <<disk, spool, worker, events, pump, flusher, nextKind,
                   supervisor, io, orphans, ambiguous, counters>>

(***************************************************************************)
(* Worker threads (local_spool.py).                                        *)
(***************************************************************************)
\* A failure of the disk or of the database.  A spool operation also fails when
\* its scan of the directory meets the temporary file of an append that goes on
\* after its task was cancelled (_children_sync accepts spool files only).
Fault == faults < MaxFaults /\ faults' = faults + 1

Full == Cardinality(At("ready") \union At("leased")) >= MaxFiles

\* _append_sync: one new ready file, or none; a failure after the rename (the
\* directory fsync, the last refresh) is reported although the file is there.
AppendEffect(op, res) ==
    LET create == /\ ~Full /\ made < MaxAppends
                  /\ made' = made + 1
                  /\ files' = [i \in DOMAIN files \union {made + 1} |->
                                 IF i = made + 1
                                   THEN [stage |-> "ready", kind |-> op.kind, recs |-> op.recs]
                                   ELSE files[i]]
    IN  \/ /\ create
           /\ res = [op EXCEPT !.out = "ok"]
           /\ UNCHANGED <<faults, ambiguous>>
        \/ /\ create /\ Fault
           /\ res = [op EXCEPT !.out = "failed"]
           /\ ambiguous' = ambiguous \union ToSet(op.recs)
        \/ /\ \/ Full /\ UNCHANGED faults
              \/ Fault
           /\ res = [op EXCEPT !.out = "failed"]
           /\ UNCHANGED <<files, made, ambiguous>>

SetStage(i, stage) == files' = [files EXCEPT ![i].stage = stage]

\* The files lease_next may hand out, oldest name first.
Leasable(k) == {i \in At("ready") : files[i].kind = k}

\* _lease_sync: rename the oldest ready file of the kind, or find none.
LeaseEffect(op, res) ==
    /\ \/ /\ Leasable(op.kind) = {}
          /\ res = [op EXCEPT !.out = "ok"]
          /\ UNCHANGED <<files, faults>>
       \/ /\ Leasable(op.kind) # {}
          /\ LET i == Min(Leasable(op.kind)) IN
               /\ SetStage(i, "leased")
               /\ \/ res = [op EXCEPT !.out = "ok", !.id = i] /\ UNCHANGED faults
                  \/ res = [op EXCEPT !.out = "failed"] /\ Fault
       \/ /\ Fault
          /\ res = [op EXCEPT !.out = "failed"]
          /\ UNCHANGED files
    /\ UNCHANGED <<made, ambiguous>>

\* _ack_sync and _rename_lease_sync: only a file that is still leased.
MoveEffect(op, res) ==
    /\ \/ /\ op.id \in At("leased")
          /\ CASE op.do = "ack" ->
                    files' = [i \in DOMAIN files \ {op.id} |-> files[i]]
               [] op.do = "mark" -> SetStage(op.id, "unknown")
               [] OTHER -> SetStage(op.id, "ready")
          /\ \/ res = [op EXCEPT !.out = "ok"] /\ UNCHANGED faults
             \/ res = [op EXCEPT !.out = "failed"] /\ Fault
       \/ /\ Fault
          /\ res = [op EXCEPT !.out = "failed"]
          /\ UNCHANGED files
    /\ UNCHANGED <<made, ambiguous>>

Effect(op, res) ==
    \/ op.do = "append" /\ AppendEffect(op, res)
    \/ op.do = "lease" /\ LeaseEffect(op, res)
    \/ op.do \in {"ack", "release", "mark"} /\ MoveEffect(op, res)

Busy(t) == io[t] # NoOp /\ io[t].out = "running"
Ended(t) == io[t] # NoOp /\ io[t].out # "running"
Outcomes(op) ==
    {[op EXCEPT !.out = o] : o \in {"ok", "failed"}}
      \union (IF op.do = "lease" THEN {[op EXCEPT !.out = "ok", !.id = i] : i \in FileIds} ELSE {})

\* A thread of a waiting task ends.
ThreadEnds(t) ==
    /\ Busy(t)
    /\ \E res \in Outcomes(io[t]) : Effect(io[t], res) /\ io' = [io EXCEPT ![t] = res]
    /\ UNCHANGED <<queue, temp, written, spool, worker, events, pump, flusher, nextKind,
                   supervisor, request, orphans, crashes, cancels, closes>>

\* A thread nobody waits for any more ends.
OrphanEnds ==
    /\ \E j \in DOMAIN orphans :
         /\ \E res \in Outcomes(orphans[j]) : Effect(orphans[j], res)
         /\ orphans' = RemoveAt(orphans, j)
    /\ UNCHANGED <<queue, temp, written, spool, worker, events, pump, flusher, nextKind,
                   supervisor, request, io, crashes, cancels, closes>>

\* The operations that go on when the tasks T are cancelled.
LeftRunning(T) == orphans \o SetToSeq({io[t] : t \in {u \in T : Busy(u)}})
ForgetIo(T) == [t \in Tasks |-> IF t \in T THEN NoOp ELSE io[t]]

(***************************************************************************)
(* The pumps (_pump_usage, _pump_audit).                                   *)
(***************************************************************************)
PumpOver == {"done", "failed", "cancelled"}

\* wait_for_lease: a full batch, an old record or a closing queue is ready.
\* The age of a record is abstracted: a non-empty queue may be ready any time.
PumpLease(k) ==
    /\ pump[k] = "wait"
    /\ queue[k].pending # <<>> /\ queue[k].lease = <<>>
    /\ queue' = [queue EXCEPT ![k] = LeaseBatch(@)]
    /\ pump' = [pump EXCEPT ![k] = "lock"]
    /\ UNCHANGED <<disk, spool, worker, events, flusher, nextKind,
                   supervisor, request, io, orphans, ambiguous, counters>>

\* The queue is closed and empty: the pump returns; the second one to return
\* sets ingest_done and wakes the flusher (_run_ingesters).
PumpReturns(k) ==
    /\ pump[k] = "wait"
    /\ FinishClose(queue[k]).state = "closed"
    /\ queue' = [queue EXCEPT ![k] = FinishClose(@)]
    /\ pump' = [pump EXCEPT ![k] = "done"]
    /\ ingestDone' = (ingestDone \/ pump[Other(k)] = "done")
    /\ flushEvent' = (flushEvent \/ pump[Other(k)] = "done")
    /\ UNCHANGED <<disk, spool, worker, closing, flusher, nextKind,
                   supervisor, request, io, orphans, ambiguous, counters>>

PumpAppend(k) ==
    /\ pump[k] = "lock" /\ LockFree /\ spool = "running"
    /\ io' = [io EXCEPT ![k] = AppendOp(k, queue[k].lease)]
    /\ pump' = [pump EXCEPT ![k] = "append"]
    /\ UNCHANGED <<queue, disk, spool, worker, events, flusher, nextKind,
                   supervisor, request, orphans, ambiguous, counters>>

\* _append_* wakes the flusher, then the queue forgets the batch.
PumpAppended(k) ==
    /\ pump[k] = "append" /\ Ended(k) /\ io[k].out = "ok"
    /\ queue' = [queue EXCEPT ![k] = Acknowledge(@)]
    /\ flushEvent' = TRUE
    /\ io' = [io EXCEPT ![k] = NoOp]
    /\ pump' = [pump EXCEPT ![k] = "wait"]
    /\ UNCHANGED <<disk, spool, worker, closing, ingestDone, flusher, nextKind,
                   supervisor, request, orphans, ambiguous, counters>>

\* Pumps K end with the given status: every one puts its batch back at the head
\* of its queue, also when the thread goes on and will create the file.
StopPumps(K, status, lost) ==
    /\ queue' = [k \in Kinds |-> IF k \in K THEN ReleaseUnwritten(queue[k]) ELSE queue[k]]
    /\ pump' = [k \in Kinds |-> IF k \in K THEN status[k] ELSE pump[k]]
    /\ ambiguous' = ambiguous \union lost \union
           UNION {ToSet(io[k].recs) : k \in {j \in K : io[j] # NoOp /\ io[j].out # "failed"}}
    /\ ingestDone' = TRUE /\ flushEvent' = TRUE

Live(K) == {k \in K : pump[k] \notin PumpOver}

\* An append fails, or the spool refuses it: gather cancels the other pump.
PumpFails(k) ==
    /\ \/ pump[k] = "append" /\ Ended(k) /\ io[k].out = "failed"
       \/ pump[k] = "lock" /\ LockFree /\ spool # "running"
    /\ StopPumps(Live(Kinds), [j \in Kinds |-> IF j = k THEN "failed" ELSE "cancelled"], {})
    /\ orphans' = LeftRunning({Other(k)})
    /\ io' = ForgetIo(Kinds)
    /\ UNCHANGED <<disk, spool, worker, closing, flusher, nextKind,
                   supervisor, request, counters>>

(***************************************************************************)
(* The flusher (_flush_loop, _flush_lease, _retry_or_stop) and the writer's *)
(* transaction (PostgresSpoolRecordWriter._write).                         *)
(***************************************************************************)
FlusherOver == {"none", "done", "failed", "failed_unknown", "cancelled"}
BothKinds == <<nextKind, Other(nextKind)>>
FlusherAt(at) == flusher' = [flusher EXCEPT !.at = at]

FlushWake ==
    /\ flusher.at = "idle" /\ flushEvent
    /\ flushEvent' = FALSE
    /\ flusher' = IdleFlusher(BothKinds)
    /\ UNCHANGED <<queue, disk, spool, worker, closing, ingestDone, pump, nextKind,
                   supervisor, request, io, orphans, ambiguous, counters>>

FlushScan ==
    /\ flusher.at = "scan" /\ LockFree
    /\ \/ /\ spool = "running"
          /\ io' = [io EXCEPT !["flusher"] = LeaseOp(Head(flusher.todo))]
          /\ FlusherAt("scanning")
       \/ /\ spool # "running"
          /\ FlusherAt("failed")
          /\ UNCHANGED io
    /\ UNCHANGED <<queue, disk, spool, worker, events, pump, nextKind,
                   supervisor, request, orphans, ambiguous, counters>>

\* What lease_next returned.  ingest_done is read after the last scan only: a
\* file appended between the two scans is not seen.
FlushScanned ==
    LET op == io["flusher"]
        rest == Tail(flusher.todo)
    IN  /\ flusher.at = "scanning" /\ Ended("flusher")
        /\ \/ /\ op.out = "failed"
              /\ FlusherAt("failed")
              /\ UNCHANGED nextKind
           \/ /\ op.out = "ok" /\ op.id # 0
              /\ flusher' = [at |-> "write", todo |-> <<>>, id |-> op.id,
                             recs |-> files[op.id].recs]
              /\ nextKind' = Other(op.kind)
           \/ /\ op.out = "ok" /\ op.id = 0
              /\ flusher' = [IdleFlusher(rest) EXCEPT
                               !.at = CASE rest # <<>> -> "scan"
                                        [] rest = <<>> /\ ingestDone -> "done"
                                        [] OTHER -> "idle"]
              /\ UNCHANGED nextKind
        /\ io' = [io EXCEPT !["flusher"] = NoOp]
        /\ UNCHANGED <<queue, disk, spool, worker, events, pump,
                       supervisor, request, orphans, ambiguous, counters>>

\* The transaction: the rows are appended or the transaction is rolled back
\* (SpoolWriteUnwrittenError); the commit lands or does not; its answer arrives
\* or is lost (SpoolWriteResultUnknownError); then the session is closed.
Transaction ==
    /\ \/ /\ flusher.at = "write"
          /\ \/ FlusherAt("commit") /\ UNCHANGED faults
             \/ FlusherAt("release") /\ Fault
          /\ UNCHANGED written
       \/ /\ flusher.at = "commit"
          /\ \/ /\ FlusherAt("landed") /\ UNCHANGED faults
                /\ written' = [r \in Records |->
                                 written[r] + (IF r \in ToSet(flusher.recs) THEN 1 ELSE 0)]
             \/ FlusherAt("mark") /\ Fault /\ UNCHANGED written
       \/ /\ flusher.at = "landed"
          /\ \/ FlusherAt("cleanup") /\ UNCHANGED faults
             \/ FlusherAt("mark") /\ Fault
          /\ UNCHANGED written
       \/ /\ flusher.at = "cleanup"
          /\ FlusherAt("ack")
          /\ UNCHANGED <<written, faults>>
    /\ UNCHANGED <<queue, files, made, temp, spool, worker, events, pump, nextKind,
                   supervisor, request, io, orphans, ambiguous, crashes, cancels, closes>>

\* acknowledge_committed, release_unwritten or mark_result_unknown of the spool.
FlushMove ==
    /\ flusher.at \in {"ack", "release", "release_cancel", "mark"}
    /\ LockFree /\ spool = "running"
    /\ io["flusher"] = NoOp
    /\ io' = [io EXCEPT !["flusher"] =
                MoveOp(IF flusher.at = "release_cancel" THEN "release" ELSE flusher.at,
                       flusher.id)]
    /\ UNCHANGED <<queue, disk, spool, worker, events, pump, flusher, nextKind,
                   supervisor, request, orphans, ambiguous, counters>>

FlushMoved ==
    /\ Ended("flusher")
    /\ \/ /\ flusher.at = "ack" /\ io["flusher"].out = "ok"
          /\ flusher' = IdleFlusher(BothKinds) /\ flushEvent' = FALSE
          /\ UNCHANGED spool
       \/ /\ flusher.at = "release" /\ io["flusher"].out = "ok"
          /\ FlusherAt(IF closing THEN "failed" ELSE "retry")
          /\ UNCHANGED <<spool, flushEvent>>
       \/ /\ flusher.at = "release_cancel"
          /\ FlusherAt("cancelled")
          /\ UNCHANGED <<spool, flushEvent>>
       \/ /\ flusher.at = "mark" /\ io["flusher"].out = "ok"
          /\ FlusherAt("failed_unknown") /\ spool' = "result_unknown"
          /\ UNCHANGED flushEvent
       \/ /\ flusher.at \in {"ack", "release", "mark"} /\ io["flusher"].out = "failed"
          /\ FlusherAt("failed")
          /\ UNCHANGED <<spool, flushEvent>>
    /\ io' = [io EXCEPT !["flusher"] = NoOp]
    /\ UNCHANGED <<queue, disk, worker, closing, ingestDone, pump, nextKind,
                   supervisor, request, orphans, ambiguous, counters>>

\* _retry_or_stop: the delay passes, or close() interrupts it.
FlushRetry ==
    /\ flusher.at = "retry"
    /\ \/ /\ closing
          /\ FlusherAt("failed")
          /\ UNCHANGED flushEvent
       \/ /\ ~closing
          /\ flusher' = IdleFlusher(BothKinds) /\ flushEvent' = FALSE
    /\ UNCHANGED <<queue, disk, spool, worker, closing, ingestDone, pump, nextKind,
                   supervisor, request, io, orphans, ambiguous, counters>>

\* CancelledError where the flusher waits.  Before the commit the transaction
\* is rolled back; during it the result is unknown; while the session of a
\* committed transaction is closed it takes the path of a rolled back one.
AfterCancel(at) ==
    CASE at = "write" -> "release_cancel"
      [] at \in {"commit", "landed"} -> "mark"
      [] at = "cleanup" -> "release_cancel"
      [] at \in FlusherOver -> at
      [] OTHER -> "cancelled"

CommittedThenReleased(at) ==
    IF at = "cleanup" THEN ToSet(flusher.recs) ELSE {}

(***************************************************************************)
(* The supervisor (_supervise) and the life of the worker.                 *)
(***************************************************************************)
\* The flusher failed first: the pumps are cancelled and awaited.
SupervisorStopsPumps ==
    /\ supervisor = "running"
    /\ flusher.at \in {"failed", "failed_unknown"}
    /\ StopPumps(Live(Kinds), [k \in Kinds |-> "cancelled"], {})
    /\ orphans' = LeftRunning(Kinds)
    /\ io' = ForgetIo(Kinds)
    /\ supervisor' = "ended"
    /\ worker' = IF flusher.at = "failed_unknown" THEN "result_unknown" ELSE "failed"
    /\ UNCHANGED <<disk, spool, closing, flusher, nextKind, request, counters>>

\* A pump failed first: the flusher is cancelled ...
SupervisorStopsFlusher ==
    /\ supervisor = "running"
    /\ \E k \in Kinds : pump[k] = "failed"
    /\ FlusherAt(AfterCancel(flusher.at))
    /\ ambiguous' = ambiguous \union CommittedThenReleased(flusher.at)
    /\ orphans' = LeftRunning({"flusher"})
    /\ io' = ForgetIo({"flusher"})
    /\ supervisor' = "stopping"
    /\ UNCHANGED <<queue, disk, spool, worker, events, pump, nextKind, request, counters>>

\* ... and awaited; what it raises is dropped.
SupervisorStopped ==
    /\ supervisor = "stopping" /\ flusher.at \in FlusherOver
    /\ supervisor' = "ended" /\ worker' = "failed"
    /\ UNCHANGED <<queue, disk, spool, events, pump, flusher, nextKind,
                   request, io, orphans, ambiguous, counters>>

SupervisorReturns ==
    /\ supervisor = "running"
    /\ flusher.at = "done" /\ \A k \in Kinds : pump[k] = "done"
    /\ supervisor' = "done"
    /\ UNCHANGED <<queue, disk, spool, worker, events, pump, flusher, nextKind,
                   request, io, orphans, ambiguous, counters>>

\* Mutant of Recover: a leased file is made ready again by a restart.
Recover_Replays(fs) ==
    [i \in DOMAIN fs |-> IF fs[i].stage = "leased" THEN [fs[i] EXCEPT !.stage = "ready"]
                                                   ELSE fs[i]]

\* Mutant of Recover: a restart gives quarantined files another try.
Recover_Retries(fs) ==
    [i \in DOMAIN fs |-> [fs[i] EXCEPT !.stage = IF @ = "unknown" THEN "ready" ELSE @]]

\* _start_sync: a leased file of an interrupted process is quarantined.
Recover(fs) ==
    [i \in DOMAIN fs |-> IF fs[i].stage = "leased" THEN [fs[i] EXCEPT !.stage = "unknown"]
                                                   ELSE fs[i]]

\* The supervisor task with its pumps and its flusher.
Supervise ==
    /\ supervisor' = "running"
    /\ pump' = [k \in Kinds |-> "wait"]
    /\ flusher' = [IdleFlusher(<<>>) EXCEPT !.at = "idle"]
    /\ ingestDone' = FALSE /\ flushEvent' = TRUE

Start ==
    /\ worker = "created"
    /\ \/ /\ temp
          /\ worker' = "failed"
          /\ UNCHANGED <<files, spool, closing, ingestDone, flushEvent, pump, flusher,
                         supervisor>>
       \/ /\ ~temp
          /\ files' = Recover(files)
          /\ spool' = IF \E i \in DOMAIN files' : files'[i].stage = "unknown"
                      THEN "result_unknown" ELSE "running"
          /\ worker' = "running" /\ closing' = FALSE
          /\ Supervise
    /\ UNCHANGED <<queue, made, temp, written, nextKind, request, io, orphans,
                   ambiguous, counters>>

\* close() of a running worker, and its retry after a failure.
Close ==
    /\ worker \in {"running", "failed"} /\ supervisor \notin {"none", "cancelled", "gone"}
    /\ closes < MaxCloses /\ closes' = closes + 1
    /\ closing' = TRUE
    /\ queue' = [k \in Kinds |-> BeginClose(queue[k])]
    /\ worker' = "closing"
    /\ \/ /\ worker = "running"
          /\ flushEvent' = TRUE
          /\ UNCHANGED <<ingestDone, pump, flusher, supervisor>>
       \/ /\ worker = "failed"
          /\ Supervise
    /\ UNCHANGED <<disk, spool, nextKind, request, io, orphans, ambiguous,
                   faults, crashes, cancels>>

\* close() of a worker whose start failed raises after it has changed the state.
CloseUnstarted ==
    /\ worker = "failed" /\ supervisor = "none"
    /\ worker' = "closing"
    /\ UNCHANGED <<queue, disk, spool, events, pump, flusher, nextKind, supervisor,
                   request, io, orphans, ambiguous, counters>>

\* Mutant of Undrained: close() forgets the leased files.
Undrained_ReadyOnly == At("ready")

Undrained == At("ready") \union At("leased")

\* The end of close(): LocalUsageAuditSpool.close refuses while files remain.
CloseSpool ==
    /\ worker = "closing" /\ supervisor = "done" /\ LockFree
    /\ \/ /\ spool = "result_unknown" \/ At("unknown") # {}
          /\ spool' = "result_unknown" /\ worker' = "failed"
       \/ /\ spool = "running" /\ At("unknown") = {} /\ Undrained # {}
          /\ worker' = "failed"
          /\ UNCHANGED spool
       \/ /\ spool = "running" /\ At("unknown") = {} /\ Undrained = {}
          /\ spool' = "closed" /\ worker' = "closed"
    /\ UNCHANGED <<queue, disk, events, pump, flusher, nextKind, supervisor,
                   request, io, orphans, ambiguous, counters>>

(***************************************************************************)
(* Requests that hand a record to the worker (enqueue_usage, enqueue_audit) *)
(***************************************************************************)
Enqueue(r) ==
    /\ r \notin Queued /\ request[r] = "new" /\ worker = "running"
    /\ request' = [request EXCEPT ![r] = "lock"]
    /\ UNCHANGED <<queue, disk, spool, worker, events, pump, flusher, nextKind,
                   supervisor, io, orphans, ambiguous, counters>>

EnqueueAppend(r) ==
    /\ request[r] = "lock" /\ LockFree
    /\ \/ /\ spool = "running"
          /\ io' = [io EXCEPT ![r] = AppendOp(KindOf(r), <<r>>)]
          /\ request' = [request EXCEPT ![r] = "append"]
       \/ /\ spool # "running"
          /\ request' = [request EXCEPT ![r] = "refused"]
          /\ UNCHANGED io
    /\ UNCHANGED <<queue, disk, spool, worker, events, pump, flusher, nextKind,
                   supervisor, orphans, ambiguous, counters>>

Enqueued(r) ==
    /\ request[r] = "append" /\ Ended(r)
    /\ \/ /\ io[r].out = "ok"
          /\ request' = [request EXCEPT ![r] = "stored"]
          /\ flushEvent' = TRUE
       \/ /\ io[r].out = "failed"
          /\ request' = [request EXCEPT ![r] = "refused"]
          /\ UNCHANGED flushEvent
    /\ io' = [io EXCEPT ![r] = NoOp]
    /\ UNCHANGED <<queue, disk, spool, worker, closing, ingestDone, pump, flusher,
                   nextKind, supervisor, orphans, ambiguous, counters>>

CancelRequest(r) ==
    /\ request[r] \in {"lock", "append"} /\ cancels < MaxCancels
    /\ request' = [request EXCEPT ![r] = "refused"]
    /\ ambiguous' = IF io[r] = NoOp THEN ambiguous ELSE ambiguous \union {r}
    /\ orphans' = LeftRunning({r})
    /\ io' = ForgetIo({r})
    /\ cancels' = cancels + 1
    /\ UNCHANGED <<queue, disk, spool, worker, events, pump, flusher, nextKind,
                   supervisor, faults, crashes, closes>>

(***************************************************************************)
(* The end of the process.                                                 *)
(***************************************************************************)
\* The event loop shuts down without close(): every task is cancelled ...
Teardown ==
    /\ supervisor \in {"running", "stopping"} /\ cancels < MaxCancels
    /\ StopPumps(Live(Kinds), [k \in Kinds |-> "cancelled"], CommittedThenReleased(flusher.at))
    /\ FlusherAt(AfterCancel(flusher.at))
    /\ orphans' = LeftRunning(Kinds \union {"flusher"})
    /\ io' = ForgetIo(Kinds \union {"flusher"})
    /\ supervisor' = "cancelled" /\ cancels' = cancels + 1
    /\ UNCHANGED <<disk, spool, worker, closing, nextKind, request, faults, crashes,
                   closes>>

\* ... and the supervisor, cancelled too, cancels the flusher once more.
TeardownFlusher ==
    /\ supervisor = "cancelled"
    /\ FlusherAt(AfterCancel(flusher.at))
    /\ orphans' = LeftRunning({"flusher"})
    /\ io' = ForgetIo({"flusher"})
    /\ supervisor' = "gone"
    /\ UNCHANGED <<queue, disk, spool, worker, events, pump, nextKind, request,
                   ambiguous, counters>>

InMemory == {"queued", "lock", "append"}

\* The process stops; an append cut short may leave its temporary file.
Crash ==
    /\ worker # "created" /\ crashes < MaxCrashes
    /\ crashes' = crashes + 1
    /\ temp' \in {temp} \union
         (IF \/ \E t \in Tasks : Busy(t) /\ io[t].do = "append"
             \/ \E j \in DOMAIN orphans : orphans[j].do = "append"
          THEN {TRUE} ELSE {})
    /\ queue' = [k \in Kinds |-> FreshQueue]
    /\ spool' = "created" /\ worker' = "created"
    /\ closing' = FALSE /\ ingestDone' = FALSE /\ flushEvent' = FALSE
    /\ pump' = [k \in Kinds |-> "none"]
    /\ flusher' = [IdleFlusher(<<>>) EXCEPT !.at = "none"]
    /\ nextKind' = "usage" /\ supervisor' = "none"
    /\ request' = [r \in Records |->
                     CASE request[r] \notin InMemory -> request[r]
                       [] r \in InFiles \/ written[r] > 0 -> "stored"
                       [] OTHER -> "lost"]
    /\ io' = EmptyIo /\ orphans' = <<>>
    /\ UNCHANGED <<files, made, written, ambiguous, faults, cancels, closes>>

Next ==
    \/ \E r \in Records :
         Put(r) \/ Enqueue(r) \/ EnqueueAppend(r) \/ Enqueued(r) \/ CancelRequest(r)
    \/ \E t \in Tasks : ThreadEnds(t)
    \/ OrphanEnds
    \/ \E k \in Kinds :
         PumpLease(k) \/ PumpReturns(k) \/ PumpAppend(k) \/ PumpAppended(k) \/ PumpFails(k)
    \/ FlushWake \/ FlushScan \/ FlushScanned \/ Transaction
    \/ FlushMove \/ FlushMoved \/ FlushRetry
    \/ SupervisorStopsPumps \/ SupervisorStopsFlusher
    \/ SupervisorStopped \/ SupervisorReturns
    \/ Start \/ Close \/ CloseUnstarted \/ CloseSpool
    \/ Teardown \/ TeardownFlusher \/ Crash

Spec == Init /\ [][Next]_vars

(***************************************************************************)
(* Properties.                                                             *)
(***************************************************************************)
FileSet == [stage : {"ready", "leased", "unknown"}, kind : Kinds, recs : Seq(Records)]

\* Types and bounds: a queue never holds more than max_outstanding_records and
\* never leases more than a batch, a file holds records of its kind, a record
\* of at most one batch is in flight.
TypeOK ==
    /\ \A k \in Kinds :
         /\ queue[k].state \in {"open", "closing", "closed"}
         /\ Outstanding(queue[k]) <= MaxOutstanding
         /\ Len(queue[k].lease) <= MaxBatch
    /\ DOMAIN files \subseteq 1..made /\ made \in 0..MaxAppends
    /\ \A i \in DOMAIN files :
         /\ files[i] \in FileSet
         /\ files[i].recs # <<>>
         /\ \A r \in ToSet(files[i].recs) : KindOf(r) = files[i].kind
    /\ spool \in {"created", "running", "closed", "result_unknown"}
    /\ worker \in {"created", "running", "closing", "closed", "failed", "result_unknown"}
    /\ \A k \in Kinds : pump[k] \in PumpOver \union {"none", "wait", "lock", "append"}
    /\ Cardinality({t \in Tasks : io[t] # NoOp}) <= 1
    /\ ambiguous \subseteq Records

\* The database gets every record at most once through crashes, restarts, lost
\* answers, failed writes and retries, except a record whose append or commit
\* was cut off from the task that waited for it (spool_worker.py: unknown
\* results are never replayed, rolled back batches are).
AtMostOnce == \A r \in Records : written[r] > 1 => r \in ambiguous

\* No record is lost silently: one accepted by a queue is in it, in the spool
\* or in the database; one the spool confirmed is in the spool or in the
\* database, whatever crashed or failed since.
Accounted ==
    \A r \in Records :
      /\ request[r] = "queued" =>
           \/ r \in ToSet(queue[KindOf(r)].pending \o queue[KindOf(r)].lease)
           \/ r \in InFiles \/ written[r] > 0
      /\ request[r] = "stored" => r \in InFiles \/ written[r] > 0

\* A worker reports CLOSED only when its queues are empty and no file is left,
\* but for files of appends that went on after their task was cancelled.
ClosedIsDrained ==
    worker = "closed" =>
      /\ \A k \in Kinds : Outstanding(queue[k]) = 0
      /\ InFiles \subseteq ambiguous

\* A quarantined file is never leased, changed or removed again, by no retry,
\* close or restart.
QuarantineHolds ==
    [][\A i \in DOMAIN files :
         files[i].stage = "unknown" => i \in DOMAIN files' /\ files'[i] = files[i]]_vars

\* The claim of docs/规划/05-plan2-plan3-completion-audit.md:105 (a flush
\* protocol that provably never repeats a write): no record is written twice.
NeverWrittenTwice == \A r \in Records : written[r] <= 1

\* The claim of docs/规划/14-implementation-backlog.md:1577 (the worker closes
\* before queue and database and drains): with no disk or database failure, no
\* crash and no cancellation, close() does not fail.
UndisturbedCloseDrains == worker # "failed"
=============================================================================
