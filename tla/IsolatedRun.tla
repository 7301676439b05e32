----------------------------- MODULE IsolatedRun -----------------------------
(***************************************************************************)
(* How a custom tool is executed: execute_custom_tool (tool_execution.py)  *)
(* calls a coroutine, a thread or, for a tool kept in a file, the runner   *)
(* (generated_tool_runner.py), which runs one process at a time behind the *)
(* launcher (generated_tool_isolation.py) and the worker                   *)
(* (generated_tool_worker.py).                                             *)
(***************************************************************************)
EXTENDS Integers, Sequences, FiniteSets, SequencesExt

CONSTANTS
  Runs,        \* calls of execute_custom_tool
  Loads,       \* the tools they may be for, records [how, mutating, caps, generated]
  MaxWaiting   \* generated_tool_max_pending

NoRun == "none"

ASSUME RunAssumption == NoRun \notin Runs /\ MaxWaiting \in Nat

VARIABLES
  runs,     \* each call: where it is, its tool, how it ended
  procs,    \* the process of each call: whether it lives, the fences that are
            \* up, whether the tool's code runs, what it left behind
  slot,     \* the call that holds the semaphore, or none
  queue,    \* the calls that wait for it, in order
  spaces,   \* the calls whose working directory exists
  threads   \* the calls whose function still runs in a thread

runVars == <<runs, procs, slot, queue, spaces, threads>>

NoProc == [is |-> "none", up |-> {}, code |-> FALSE, disk |-> "ok", loud |-> FALSE, said |-> "nothing"]

\* What the launcher and the worker put up before they load the tool, in order.
FenceRank == [namespaces |-> 1, mounts |-> 2, files |-> 3, sockets |-> 4, user |-> 5,
              processes |-> 6, imports |-> 7]
Fences(tool) ==
  {f \in DOMAIN FenceRank :
     /\ f = "files" => "host_filesystem" \notin tool.caps
     /\ f = "processes" => "process" \notin tool.caps
     /\ f = "imports" => tool.generated}
Worker == {"user", "processes", "imports"}

RunTypeOK ==
  /\ slot \in Runs \cup {NoRun} /\ Range(queue) \subseteq Runs
  /\ spaces \subseteq Runs /\ threads \subseteq Runs
  /\ \A c \in Runs :
       /\ runs[c].at \in {"idle", "awaits", "thread", "queued", "prepare", "start",
                          "runs", "closing", "ended"}
       /\ runs[c].end \in {"none", "ok", "refused", "busy", "failed", "timeout", "cancelled"}
       /\ procs[c].is \in {"none", "alive", "killed", "exited"}

RunInit ==
  /\ \E t \in Loads :
       runs = [c \in Runs |-> [at |-> "idle", tool |-> t[c], end |-> "none"]]
  /\ procs = [c \in Runs |-> NoProc]
  /\ slot = NoRun /\ queue = <<>> /\ spaces = {} /\ threads = {}

----------------------------------------------------------------------------
(* The call. *)

Moves(c, at)  == runs' = [runs EXCEPT ![c].at = at]
Closes(c, end) == [runs EXCEPT ![c].at = "closing", ![c].end = end]
Concludes(c, end) == [runs EXCEPT ![c].at = "ended", ![c].end = end]

\* mutant: a function that changes things may run in a thread
Cancellable_Any(tool) == TRUE
\* ensure_cancellable_mutating_handler
Cancellable(tool) == tool.mutating => tool.how # "thread"

\* _prepare_custom_tool_call
Accepts(tool, confirmed) == Cancellable(tool) /\ (tool.mutating => confirmed)

Refuses(c) ==
  /\ runs[c].at = "idle" /\ \E confirmed \in BOOLEAN : ~Accepts(runs[c].tool, confirmed)
  /\ runs' = Concludes(c, "refused")
  /\ UNCHANGED <<procs, slot, queue, spaces, threads>>

CallsFunction(c) ==
  LET tool == runs[c].tool
  IN  /\ runs[c].at = "idle" /\ tool.how # "isolated" /\ Accepts(tool, TRUE)
      /\ Moves(c, IF tool.how = "thread" THEN "thread" ELSE "awaits")
      /\ threads' = IF tool.how = "thread" THEN threads \cup {c} ELSE threads
      /\ UNCHANGED <<procs, slot, queue, spaces>>

FunctionEnds(c, end) ==
  /\ runs[c].at \in {"awaits", "thread"}
  /\ runs' = Concludes(c, end)
  /\ threads' = IF end \in {"ok", "failed"} THEN threads \ {c} ELSE threads
  /\ UNCHANGED <<procs, slot, queue, spaces>>

\* What was abandoned to its thread ends some time.
ThreadEnds(c) ==
  /\ c \in threads /\ runs[c].at = "ended" /\ threads' = threads \ {c}
  /\ UNCHANGED <<runs, procs, slot, queue, spaces>>

----------------------------------------------------------------------------
(* The slot. *)

Enters(c) ==
  /\ runs[c].at = "idle" /\ runs[c].tool.how = "isolated" /\ Accepts(runs[c].tool, TRUE)
  /\ IF slot = NoRun
     THEN slot' = c /\ Moves(c, "prepare") /\ UNCHANGED queue
     ELSE /\ UNCHANGED slot
          /\ IF Len(queue) >= MaxWaiting
             THEN runs' = Concludes(c, "busy") /\ UNCHANGED queue
             ELSE Moves(c, "queued") /\ queue' = Append(queue, c)
  /\ UNCHANGED <<procs, spaces, threads>>

\* The semaphore goes to the first that waits.
Passes(ended) ==
  IF queue = <<>> THEN slot' = NoRun /\ runs' = ended /\ UNCHANGED queue
  ELSE /\ slot' = Head(queue) /\ queue' = Tail(queue)
       /\ runs' = [ended EXCEPT ![Head(queue)].at = "prepare"]

LeavesQueue(c, end) ==
  /\ runs[c].at = "queued"
  /\ runs' = Concludes(c, end)
  /\ \E i \in DOMAIN queue : queue[i] = c /\ queue' = RemoveAt(queue, i)
  /\ UNCHANGED <<procs, slot, spaces, threads>>

----------------------------------------------------------------------------
(* The process. *)

\* _prepare_workspace runs in a thread, which a cancellation does not stop.
Prepares(c) ==
  /\ runs[c].at = "prepare" /\ spaces' = spaces \cup {c} /\ Moves(c, "start")
  /\ UNCHANGED <<procs, slot, queue, threads>>

Abandons(c, end) ==
  /\ runs[c].at = "prepare" /\ spaces' = spaces \cup {c} /\ Passes(Concludes(c, end))
  /\ UNCHANGED <<procs, threads>>

Spawns(c) ==
  /\ runs[c].at = "start" /\ procs' = [procs EXCEPT ![c].is = "alive"] /\ Moves(c, "runs")
  /\ UNCHANGED <<slot, queue, spaces, threads>>

\* asyncio kills a process whose creation is cancelled.
SpawnFails(c, end) ==
  /\ runs[c].at = "start" /\ runs' = Closes(c, end)
  /\ UNCHANGED <<procs, slot, queue, spaces, threads>>

Proc(c, p) ==
  /\ procs[c].is = "alive" /\ procs' = [procs EXCEPT ![c] = p]
  /\ UNCHANGED <<runs, slot, queue, spaces, threads>>

\* One fence after the other; the launcher dies silently if one fails, the
\* worker reports it.
Missing(c) == Fences(runs[c].tool) \ procs[c].up
IsNext(c, f) == f \in Missing(c) /\ \A g \in Missing(c) : FenceRank[f] <= FenceRank[g]
Raises(c, f) == Proc(c, [procs[c] EXCEPT !.up = @ \cup {f}])
Launches(c) ==
  \E f \in DOMAIN FenceRank \ Worker :
    IsNext(c, f) /\ (Raises(c, f) \/ Proc(c, [procs[c] EXCEPT !.is = "exited"]))
Confines(c) ==
  \E f \in Worker :
    /\ IsNext(c, f)
    /\ Raises(c, f) \/ Proc(c, [procs[c] EXCEPT !.is = "exited", !.said = "error"])

LoadsTool(c) == Missing(c) = {} /\ ~procs[c].code /\ Proc(c, [procs[c] EXCEPT !.code = TRUE])

\* The tool fills its directory or empties it, prints, and the worker answers.
\* It may also die, or answer with what does not belong to the call.
ToolActs(c) ==
  /\ procs[c].code
  /\ \/ Proc(c, [procs[c] EXCEPT !.disk = IF @ = "ok" THEN "over" ELSE "ok"])
     \/ ~procs[c].loud /\ Proc(c, [procs[c] EXCEPT !.loud = TRUE])
     \/ \E said \in {"nothing", "mine", "other", "error"} :
          Proc(c, [procs[c] EXCEPT !.is = "exited", !.said = said])

Killed(c) == [procs EXCEPT ![c].is = IF @ = "alive" THEN "killed" ELSE @]

\* The readers see too much output, the watcher a directory over its limits.
Stops(c) ==
  /\ runs[c].at = "runs" /\ (procs[c].loud \/ procs[c].disk = "over")
  /\ procs' = Killed(c) /\ runs' = Closes(c, "failed")
  /\ UNCHANGED <<slot, queue, spaces, threads>>

\* The time of the runner or of the call is over, or the request is cancelled.
Interrupts(c, end) ==
  /\ runs[c].at = "runs" /\ end \in {"timeout", "cancelled"}
  /\ procs' = Killed(c) /\ runs' = Closes(c, end)
  /\ UNCHANGED <<slot, queue, spaces, threads>>

\* mutant: the directory is not looked at again after the process has ended
Good_NoFinalScan(p) == ~p.loud /\ p.said = "mine"
Good(p) == p.disk = "ok" /\ ~p.loud /\ p.said = "mine"

\* The process has ended: final scan, rest of the output, _parse_protocol.
Collects(c) ==
  /\ runs[c].at = "runs" /\ procs[c].is = "exited"
  /\ runs' = Closes(c, IF Good(procs[c]) THEN "ok" ELSE "failed")
  /\ UNCHANGED <<procs, slot, queue, spaces, threads>>

\* The call drops what a process that is gone left behind.
Forget(c) == [procs EXCEPT ![c] = IF @.is = "alive" THEN @ ELSE NoProc]

Removes(c) ==
  /\ runs[c].at = "closing" /\ spaces' = spaces \ {c} /\ Passes(Concludes(c, runs[c].end))
  /\ procs' = Forget(c) /\ UNCHANGED threads

\* A cancellation while the rest is cleared away may leave the directory.
BreaksOff(c) ==
  /\ runs[c].at = "closing" /\ Passes(Concludes(c, "cancelled"))
  /\ \E left \in {spaces, spaces \ {c}} : spaces' = left
  /\ procs' = Forget(c) /\ UNCHANGED threads

RunNext ==
  \E c \in Runs :
    \/ Refuses(c) \/ CallsFunction(c) \/ ThreadEnds(c) \/ Enters(c)
    \/ Prepares(c) \/ Spawns(c) \/ Launches(c) \/ Confines(c) \/ LoadsTool(c) \/ ToolActs(c)
    \/ Stops(c) \/ Collects(c) \/ Removes(c) \/ BreaksOff(c)
    \/ \E end \in {"ok", "failed", "timeout", "cancelled"} : FunctionEnds(c, end)
    \/ \E end \in {"timeout", "cancelled"} :
         LeavesQueue(c, end) \/ Abandons(c, end) \/ Interrupts(c, end)
    \/ \E end \in {"failed", "timeout", "cancelled"} : SpawnFails(c, end)

RunSpec == RunInit /\ [][RunNext]_runVars

----------------------------------------------------------------------------
(* At most one tool process lives, that of the call which holds the slot,   *)
(* and its code runs behind every fence its capabilities call for.  When a  *)
(* call has ended nothing of it can change anything any more: its process   *)
(* is gone and only a thread that may not change things runs on.  A result  *)
(* is the answer of a process that ended by itself within its limits.  The  *)
(* slot is never lost and its queue never too long, and a directory stays   *)
(* behind only where a call was interrupted                                 *)
(* (generated_tool_runner.py:545, tool_execution.py:30).                    *)
ToolsContained ==
  /\ \A c \in Runs :
       LET t == runs[c]
           p == procs[c]
       IN  /\ p.is = "alive" => slot = c /\ t.at = "runs"
           /\ p.code => Fences(t.tool) \subseteq p.up
           /\ c \in threads /\ t.tool.mutating => t.at # "ended"
           /\ t.at = "closing" /\ t.end = "ok" =>
                p.is = "exited" /\ p.code /\ p.disk = "ok" /\ ~p.loud /\ p.said = "mine"
           /\ c \in spaces /\ t.at = "ended" => t.end \in {"timeout", "cancelled"}
           /\ slot = c <=> t.at \in {"prepare", "start", "runs", "closing"}
           /\ t.at = "queued" <=> c \in Range(queue)
  /\ Len(queue) <= MaxWaiting /\ (queue # <<>> => slot # NoRun)
=============================================================================
