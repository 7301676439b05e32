---------------------------- MODULE RuntimeReload ----------------------------
(***************************************************************************)
(* How several Bot processes that share one configuration directory turn   *)
(* what is on disk into the runtime snapshot their requests use            *)
(* (runtime_reload.py, runtime_snapshot.py), and how a change of the       *)
(* generated-tool lifecycle is made durable first                          *)
(* (LifecycleStore in generated_tool_lifecycle.py,                         *)
(* GeneratedToolStore._commit_prepared_internal in generated_tools.py).    *)
(*                                                                         *)
(* A lifecycle state is the sequence of changes that led to it: its length *)
(* is the revision and the sequence itself the state digest.  A            *)
(* configuration is the number of edits seen of every watched file; the    *)
(* order of all edits is kept in `edits`.                                  *)
(*                                                                         *)
(* Each process runs at most one reload or change at a time (the asyncio   *)
(* lock of RuntimeReloader) and a watcher beside it.  Every await between  *)
(* two reads or writes of shared state is a step boundary.                 *)
(***************************************************************************)
EXTENDS Integers, Sequences, FiniteSets, SequencesExt

CONSTANTS
  Procs,       \* Bot processes
  Others,      \* whether more processes than Procs use the directory
  Files,       \* watched configuration files
  None,        \* no snapshot, no fingerprint, no lock holder
  MaxChanges,  \* bound: lifecycle changes
  MaxEdits,    \* bound: configuration edits
  MaxFaults    \* bound: crashes and failed reads, writes or candidate builds

ASSUME ConstantsAssumption ==
  /\ None \notin Procs \cup Nat
  /\ Others \in BOOLEAN
  /\ MaxChanges \in Nat
  /\ MaxEdits \in Nat
  /\ MaxFaults \in Nat

VARIABLES
  visible,   \* lifecycle_state.json as every process reads it
  durable,   \* the lifecycle state that survives a host crash
  flock,     \* holder of the exclusive .lifecycle.lock while it writes
  edits,     \* order in which the watched files were edited
  pub,       \* process -> published RuntimeSnapshot or None
  fp,        \* process -> RuntimeReloader._fingerprint; None is ()
  op,        \* process -> the reload or change that holds the asyncio lock
  watch,     \* process -> where its watcher task is
  acked,     \* lifecycle states an administrator was told are in force
  faults,    \* faults so far
  missed     \* history: process -> a first fingerprint that was newer than what it served

disk  == <<visible, durable, flock, edits>>
local == <<pub, fp, op, watch>>
vars  == <<visible, durable, flock, edits, pub, fp, op, watch, acked, faults, missed>>

-----------------------------------------------------------------------------
Kinds     == {"load", "command", "change"}
Steps     == {"source", "build", "observe", "verify", "publish",
              "replace", "fsync", "resolve", "project", "recheck", "refingerprint"}
WatchPcs  == {"down", "startup", "init", "watching", "due"}

Versions(n) == [f \in Files |-> Cardinality({i \in 1..n : edits[i] = f})]
ConfigNow   == Versions(Len(edits))

\* What the configuration was at some moment.
Coherent(config) == \E n \in 0..Len(edits) : config = Versions(n)

\* No process is writing: a shared or exclusive lock can be had.
Unlocked == flock = None

Idle(p) == op[p] = None

\* The operation p starts, on the lifecycle state it has read; `current` says
\* that the published snapshot is still the one it captured as expected.
Started(kind, life) ==
  [kind |-> kind, step |-> "source", life |-> life, source |-> None,
   candidate |-> [f \in Files |-> None], current |-> TRUE]

At(p, step) == op[p] # None /\ op[p].step = step

Goto(p, step) == op' = [op EXCEPT ![p].step = step]

\* The operation of p ends; a watcher that waited for it watches again.
End(p) ==
  /\ op' = [op EXCEPT ![p] = None]
  /\ watch' = [watch EXCEPT ![p] = IF op[p].kind = "load" /\ @ = "due" THEN "watching" ELSE @]

\* The operation raises: a failed change forces the watcher to look again.
Abort(p) ==
  /\ End(p)
  /\ fp' = [fp EXCEPT ![p] = IF op[p].kind = "change" THEN None ELSE @]
  /\ UNCHANGED pub

\* plan.after_state of the change that p carries out.
After(p) == Append(op[p].life, p)

Init ==
  /\ visible = << >> /\ durable = << >> /\ flock = None
  /\ edits = << >>
  /\ pub = [p \in Procs |-> None]
  /\ fp = [p \in Procs |-> None]
  /\ op = [p \in Procs |-> None]
  /\ watch = [p \in Procs |-> "down"]
  /\ acked = {}
  /\ faults = 0
  /\ missed = [p \in Procs |-> None]

-----------------------------------------------------------------------------
(* Starting, reloading and changing. *)

\* _startup_tasks: the first reload runs before the watcher exists.
Boot(p) ==
  /\ watch[p] = "down"
  /\ Unlocked
  /\ watch' = [watch EXCEPT ![p] = "startup"]
  /\ op' = [op EXCEPT ![p] = Started("load", visible)]
  /\ UNCHANGED <<disk, pub, fp, acked, faults, missed>>

StartWatcher(p) ==
  /\ watch[p] = "startup"
  /\ Idle(p)
  /\ watch' = [watch EXCEPT ![p] = IF fp[p] = None THEN "init" ELSE "watching"]
  /\ UNCHANGED <<disk, pub, fp, op, acked, faults, missed>>

\* watch() without a published fingerprint takes the present one as its own, also
\* when a command has published an older state since the task began.
InitFingerprint(p) ==
  /\ watch[p] = "init"
  /\ Unlocked
  /\ fp' = [fp EXCEPT ![p] = [life |-> visible, config |-> ConfigNow]]
  /\ missed' = [missed EXCEPT ![p] =
                  IF pub[p] # None /\ pub[p].life # visible THEN fp'[p] ELSE None]
  /\ watch' = [watch EXCEPT ![p] = "watching"]
  /\ UNCHANGED <<disk, pub, op, acked, faults>>

\* _watch_once up to the reload it decides on.
Notice(p) ==
  /\ watch[p] = "watching"
  /\ Unlocked
  /\ fp[p] # [life |-> visible, config |-> ConfigNow]
  /\ watch' = [watch EXCEPT ![p] = "due"]
  /\ UNCHANGED <<disk, pub, fp, op, acked, faults, missed>>

BeginReload(p) ==
  /\ watch[p] = "due"
  /\ Idle(p)
  /\ Unlocked
  /\ op' = [op EXCEPT ![p] = Started("load", visible)]
  /\ UNCHANGED <<disk, pub, fp, watch, acked, faults, missed>>

\* An administrator's refresh command, or the refresh of models in the
\* background of the start.
CommandReload(p) ==
  /\ watch[p] # "down"
  /\ Idle(p)
  /\ Unlocked
  /\ op' = [op EXCEPT ![p] = Started("command", visible)]
  /\ UNCHANGED <<disk, pub, fp, watch, acked, faults, missed>>

\* An administrator's command: prepare_* plans on the present state and
\* apply_generated_change takes the lock.  A plan that is stale when it gets
\* there fails without effect on the disk.
BeginChange(p) ==
  /\ watch[p] \in {"watching", "due"}
  /\ Idle(p)
  /\ Unlocked
  /\ \E plan \in 0..Len(visible) :
       IF plan = Len(visible)
         THEN /\ Len(visible) < MaxChanges
              /\ op' = [op EXCEPT ![p] = Started("change", visible)]
              /\ UNCHANGED fp
         ELSE /\ fp' = [fp EXCEPT ![p] = None]
              /\ UNCHANGED op
  /\ UNCHANGED <<disk, pub, watch, acked, faults, missed>>

\* source_fingerprint, read after the lifecycle state.
Source(p) ==
  /\ At(p, "source")
  /\ op' = [op EXCEPT ![p].source = ConfigNow, ![p].step = "build"]
  /\ UNCHANGED <<disk, pub, fp, watch, acked, faults, missed>>

\* Mutant: the candidate is taken as complete when the first file is read.
Build_FirstCompleted(p) ==
  /\ At(p, "build")
  /\ \E f \in Files :
       op' = [op EXCEPT ![p].candidate[f] = ConfigNow[f], ![p].step = "observe"]
  /\ UNCHANGED <<disk, pub, fp, watch, acked, faults, missed>>

\* _build_candidate: asyncio.gather reads the files in any order.
Build(p) ==
  /\ At(p, "build")
  /\ \E f \in Files :
       /\ op[p].candidate[f] = None
       /\ op' = [op EXCEPT ![p].candidate[f] = ConfigNow[f],
                          ![p].step = IF \E g \in Files \ {f} : op[p].candidate[g] = None
                                        THEN "build" ELSE "observe"]
  /\ UNCHANGED <<disk, pub, fp, watch, acked, faults, missed>>

\* observed_state or observed_before
Observe(p) ==
  /\ At(p, "observe")
  /\ Unlocked
  /\ IF visible = op[p].life
       THEN Goto(p, "verify") /\ UNCHANGED <<pub, fp, watch>>
       ELSE Abort(p)
  /\ UNCHANGED <<disk, acked, faults, missed>>

\* Mutant: the second fingerprint is not compared.
Verify_NoComparison(p) ==
  /\ At(p, "verify")
  /\ Goto(p, IF op[p].kind = "change" THEN "replace" ELSE "publish")
  /\ UNCHANGED <<disk, pub, fp, watch, acked, faults, missed>>

\* The second fingerprint must equal the first one.
Verify(p) ==
  /\ At(p, "verify")
  /\ IF ConfigNow = op[p].source
       THEN /\ Goto(p, IF op[p].kind = "change" THEN "replace" ELSE "publish")
            /\ UNCHANGED <<pub, fp, watch>>
       ELSE Abort(p)
  /\ UNCHANGED <<disk, acked, faults, missed>>

\* Mutant: the published snapshot is replaced whatever it is by now.
PublishReload_NoCompare(p) ==
  /\ At(p, "publish") /\ op[p].kind # "change"
  /\ pub' = [pub EXCEPT ![p] = [life |-> op[p].life, config |-> op[p].candidate]]
  /\ fp' = [fp EXCEPT ![p] = [life |-> op[p].life, config |-> op[p].source]]
  /\ End(p)
  /\ UNCHANGED <<disk, acked, faults, missed>>

\* _commit for a reload: compare-and-swap on the snapshot object; the
\* fingerprint read by Verify is stored with it.
PublishReload(p) ==
  /\ At(p, "publish") /\ op[p].kind # "change"
  /\ IF op[p].current
       THEN /\ pub' = [pub EXCEPT ![p] = [life |-> op[p].life, config |-> op[p].candidate]]
            /\ fp' = [fp EXCEPT ![p] = [life |-> op[p].life, config |-> op[p].source]]
            /\ End(p)
       ELSE Abort(p)
  /\ UNCHANGED <<disk, acked, faults, missed>>

\* Mutant: a conflict of the plan is taken for a commit.
Replace_ConflictIsSuccess(p) ==
  /\ At(p, "replace")
  /\ Unlocked
  /\ IF visible = op[p].life
       THEN visible' = After(p) /\ flock' = p /\ Goto(p, "fsync")
       ELSE Goto(p, "project") /\ UNCHANGED <<visible, flock>>
  /\ UNCHANGED <<durable, edits, pub, fp, watch, acked, faults, missed>>

\* _commit_plan_internal: under the exclusive lock the plan's precondition is
\* checked and the new file replaces the old one.
Replace(p) ==
  /\ At(p, "replace")
  /\ Unlocked
  /\ IF visible = op[p].life
       THEN /\ visible' = After(p)
            /\ flock' = p
            /\ Goto(p, "fsync")
            /\ UNCHANGED <<pub, fp, watch>>
       ELSE Abort(p) /\ UNCHANGED <<visible, flock>>
  /\ UNCHANGED <<durable, edits, acked, faults, missed>>

\* The directory fsync and the read-back, then the lock is released.
Fsync(p) ==
  /\ At(p, "fsync")
  /\ durable' = visible
  /\ flock' = None
  /\ Goto(p, "project")
  /\ UNCHANGED <<visible, edits, pub, fp, watch, acked, faults, missed>>

\* Mutant: a failed directory fsync is ignored.
FsyncFails_Ignored(p) ==
  /\ At(p, "fsync")
  /\ faults < MaxFaults
  /\ faults' = faults + 1
  /\ flock' = None
  /\ Goto(p, "project")
  /\ UNCHANGED <<visible, durable, edits, pub, fp, watch, acked, missed>>

\* Every attempt of the directory fsync failed: what is visible may not be
\* durable and the commit stays uncertain.
FsyncFails(p) ==
  /\ At(p, "fsync")
  /\ faults < MaxFaults
  /\ faults' = faults + 1
  /\ flock' = None
  /\ Abort(p)
  /\ UNCHANGED <<visible, durable, edits, acked, missed>>

\* The directory fsync succeeded and the read-back failed: the commit is
\* resolved by reading the canonical state once more.
ReadBackFails(p) ==
  /\ At(p, "fsync")
  /\ faults < MaxFaults
  /\ faults' = faults + 1
  /\ durable' = visible
  /\ flock' = None
  /\ Goto(p, "resolve")
  /\ UNCHANGED <<visible, edits, pub, fp, watch, acked, missed>>

\* _commit_lifecycle_plan: only the exact after state counts as success.
Resolve(p) ==
  /\ At(p, "resolve")
  /\ Unlocked
  /\ IF visible = After(p)
       THEN Goto(p, "project") /\ UNCHANGED <<pub, fp, watch>>
       ELSE Abort(p)
  /\ UNCHANGED <<disk, acked, faults, missed>>

\* _repair_legacy_projections takes the exclusive lock once more.
Project(p) ==
  /\ At(p, "project")
  /\ Unlocked
  /\ Goto(p, "publish")
  /\ UNCHANGED <<disk, pub, fp, watch, acked, faults, missed>>

\* _commit for a change; from here on the administrator is told of success.
PublishChange(p) ==
  /\ At(p, "publish") /\ op[p].kind = "change"
  /\ IF op[p].current
       THEN /\ pub' = [pub EXCEPT ![p] = [life |-> After(p), config |-> op[p].candidate]]
            /\ acked' = acked \cup {After(p)}
            /\ Goto(p, "recheck")
            /\ UNCHANGED <<fp, watch>>
       ELSE Abort(p) /\ UNCHANGED acked
  /\ UNCHANGED <<disk, faults, missed>>

\* converged: is the committed state still the canonical one?
Recheck(p) ==
  /\ At(p, "recheck")
  /\ Unlocked
  /\ IF visible = After(p)
       THEN Goto(p, "refingerprint") /\ UNCHANGED <<fp, watch>>
       ELSE End(p) /\ fp' = [fp EXCEPT ![p] = None]
  /\ UNCHANGED <<disk, pub, acked, faults, missed>>

\* Mutant: the lifecycle state of the fingerprint is the one on disk by now.
Refingerprint_Present(p) ==
  /\ At(p, "refingerprint")
  /\ fp' = [fp EXCEPT ![p] = [life |-> visible, config |-> ConfigNow]]
  /\ End(p)
  /\ UNCHANGED <<disk, pub, acked, faults, missed>>

\* The lifecycle state is the committed one; the files are read as they are now.
Refingerprint(p) ==
  /\ At(p, "refingerprint")
  /\ fp' = [fp EXCEPT ![p] = [life |-> After(p), config |-> ConfigNow]]
  /\ End(p)
  /\ UNCHANGED <<disk, pub, acked, faults, missed>>

-----------------------------------------------------------------------------
(* Edits, changes made outside the reloader, faults. *)

\* An operator, or another program, edits a watched file.
Edit(f) ==
  /\ Len(edits) < MaxEdits
  /\ edits' = Append(edits, f)
  /\ UNCHANGED <<visible, durable, flock, local, acked, faults, missed>>

\* ConfigParser.set_config, ModelSelector._write_config and
\* TemperamentManager.set_temperament_dict write their file and patch the
\* published snapshot in place.
Patch(p, f) ==
  /\ watch[p] # "down"
  /\ pub[p] # None
  /\ Len(edits) < MaxEdits
  /\ edits' = Append(edits, f)
  /\ pub' = [pub EXCEPT ![p].config[f] = Versions(Len(edits))[f] + 1]
  /\ op' = [op EXCEPT ![p] = IF Idle(p) THEN None ELSE [@ EXCEPT !.current = FALSE]]
  /\ UNCHANGED <<visible, durable, flock, fp, watch, acked, faults, missed>>

\* create_draft and the draft pipeline commit without publishing anything.  All
\* that p sees of a change made by one of the other processes is such a commit.
DraftCommit(p) ==
  /\ Others \/ watch[p] \in {"watching", "due"}
  /\ Unlocked
  /\ Len(visible) < MaxChanges
  /\ visible' = Append(visible, None)
  /\ durable' = visible'
  /\ UNCHANGED <<flock, edits, local, acked, faults, missed>>

\* A read, a lock or a candidate build fails, or a check raises.
OperationFails(p) ==
  /\ op[p] # None
  /\ op[p].step \notin {"fsync", "publish", "recheck", "refingerprint"}
  /\ faults < MaxFaults
  /\ faults' = faults + 1
  /\ Abort(p)
  /\ UNCHANGED <<disk, acked, missed>>

\* The trailing scan of a published change fails: the watcher has to look again.
RecheckFails(p) ==
  /\ op[p] # None
  /\ op[p].step \in {"recheck", "refingerprint"}
  /\ faults < MaxFaults
  /\ faults' = faults + 1
  /\ fp' = [fp EXCEPT ![p] = None]
  /\ End(p)
  /\ UNCHANGED <<disk, pub, acked, missed>>

\* A process dies and forgets everything; the system releases its lock.
ProcessCrash(p) ==
  /\ watch[p] # "down"
  /\ faults < MaxFaults
  /\ faults' = faults + 1
  /\ watch' = [watch EXCEPT ![p] = "down"]
  /\ op' = [op EXCEPT ![p] = None]
  /\ pub' = [pub EXCEPT ![p] = None]
  /\ fp' = [fp EXCEPT ![p] = None]
  /\ missed' = [missed EXCEPT ![p] = None]
  /\ flock' = IF flock = p THEN None ELSE flock
  /\ UNCHANGED <<visible, durable, edits, acked>>

\* The host goes down: a replaced file whose directory entry was not synced
\* may or may not be there afterwards.
HostCrash ==
  /\ faults < MaxFaults
  /\ faults' = faults + 1
  /\ visible' \in {visible, durable}
  /\ durable' = visible'
  /\ flock' = None
  /\ watch' = [p \in Procs |-> "down"]
  /\ op' = [p \in Procs |-> None]
  /\ pub' = [p \in Procs |-> None]
  /\ fp' = [p \in Procs |-> None]
  /\ missed' = [p \in Procs |-> None]
  /\ UNCHANGED <<edits, acked>>

Proceed(p) ==
  \/ Source(p) \/ Build(p) \/ Observe(p) \/ Verify(p) \/ PublishReload(p)
  \/ Replace(p) \/ Fsync(p) \/ Resolve(p) \/ Project(p) \/ PublishChange(p)
  \/ Recheck(p) \/ Refingerprint(p)

Watcher(p) == StartWatcher(p) \/ InitFingerprint(p) \/ Notice(p) \/ BeginReload(p)

Next ==
  \/ \E p \in Procs :
       \/ Boot(p) \/ Proceed(p) \/ Watcher(p)
       \/ CommandReload(p) \/ BeginChange(p) \/ DraftCommit(p)
       \/ FsyncFails(p) \/ ReadBackFails(p) \/ OperationFails(p) \/ RecheckFails(p)
       \/ ProcessCrash(p)
       \/ \E f \in Files : Patch(p, f)
  \/ \E f \in Files : Edit(f)
  \/ HostCrash

\* The event loop of a running process keeps going: operations proceed, the
\* watcher task gets its turn, and the asyncio lock is handed to it when it
\* waits often enough.
Fairness ==
  \A p \in Procs : /\ WF_vars(Proceed(p))
                   /\ WF_vars(StartWatcher(p))
                   /\ SF_vars(InitFingerprint(p))
                   /\ SF_vars(Notice(p))
                   /\ SF_vars(BeginReload(p))

Spec == Init /\ [][Next]_vars /\ Fairness

-----------------------------------------------------------------------------
(* Properties. *)

Life   == Seq(Procs \cup {None})
Config == [Files -> Nat]

Snapshot  == [life : Life, config : Config]
Operation == [kind : Kinds, step : Steps, life : Life, source : Config \cup {None},
              candidate : [Files -> Nat \cup {None}], current : BOOLEAN]

\* Every variable holds a value of its type.
TypeOK ==
  /\ visible \in Life /\ durable \in Life /\ acked \subseteq Life
  /\ flock \in Procs \cup {None}
  /\ edits \in Seq(Files)
  /\ pub \in [Procs -> Snapshot \cup {None}]
  /\ fp \in [Procs -> Snapshot \cup {None}]
  /\ op \in [Procs -> Operation \cup {None}]
  /\ watch \in [Procs -> WatchPcs]
  /\ faults \in 0..MaxFaults
  /\ missed \in [Procs -> Snapshot \cup {None}]

\* A change that an administrator was told is in force survives every crash of
\* processes and host, and no later change of any process drops it.
AckedSurvives == \A life \in acked : IsPrefix(life, durable) /\ IsPrefix(life, visible)

\* A process only serves lifecycle states that were committed: the candidate
\* built from plan.after_state is never published when its commit failed or
\* conflicted.
OnlyCommittedServed == \A p \in Procs : pub[p] # None => IsPrefix(pub[p].life, visible)

\* A candidate that passed the second fingerprint is a configuration that was
\* on disk at one moment, although its files were read at different times.
NoTornCandidate ==
  \A p \in Procs :
    op[p] # None /\ op[p].step \in {"replace", "fsync", "resolve", "project", "publish"}
      => Coherent(op[p].candidate)

\* A publish never takes a process back to an older lifecycle state or an older
\* version of a file, although reloads, changes and in-place patches of the
\* snapshot interleave.
NeverBackwards ==
  [][\A p \in Procs : pub[p] # None /\ pub'[p] # None =>
        /\ IsPrefix(pub[p].life, pub'[p].life)
        /\ \A f \in Files : pub[p].config[f] <= pub'[p].config[f]]_vars

Serving(p) == watch[p] # "down" /\ pub[p] # None

\* The watcher of p began with a fingerprint newer than the state p served, and
\* nothing has replaced that fingerprint since.
Missed(p) == missed[p] # None /\ fp[p] = missed[p]

\* When changes stop, every serving process ends up with the canonical lifecycle
\* state, whichever process committed it, except where the first fingerprint of
\* its watcher hid a change: a process whose first reload failed and that was
\* reloaded by a command before its watcher had looked once (runtime_reload.py:846).
LifecycleConverges ==
  \A p \in Procs : <>[](Serving(p) => pub[p].life = visible \/ Missed(p))

\* docs/configuration.md: an edited configuration file is picked up by the
\* watcher without any command.
ConfigConverges ==
  \A p \in Procs : <>[](Serving(p) => pub[p].config = ConfigNow)
=============================================================================
