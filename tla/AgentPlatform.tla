--------------------------- MODULE AgentPlatform ---------------------------
(***************************************************************************)
(* Requests on generations: each chat request takes a lease on the         *)
(* generation of its snapshot (RuntimeHost), runs its agent run under it   *)
(* (AgentRun) and gives the lease back when the run's handler is over.     *)
(* A confirmation command takes a lease too but has no run.                *)
(***************************************************************************)
EXTENDS RuntimeHost, AgentRun

ASSUME PlatformAssumption == Chats = Requests \ Confirmers

vars == <<hostVars, runVars>>

Init == HostInit /\ RunInit

\* A chat request that gets its lease enters AgentRequestRuntime.begin.
GrantStep(a) ==
  /\ Grant(a)
  /\ IF a \in Chats /\ pc'[a] = "leased" THEN Admit(a) ELSE UNCHANGED runVars

HolderStep(a) == Work(a) /\ UNCHANGED runVars
CloseStep(a)  == a = Shutdown /\ CloseWork /\ UNCHANGED runVars
QueueStep(a)  == Enqueue(a) /\ UNCHANGED runVars

RunStep(r) ==
  /\ pc[r] = "leased" /\ r \in Chats
  /\ Progress(r)
  /\ UNCHANGED hostVars

ReleaseStep(r) ==
  /\ Release(r)
  /\ IF r \in Chats THEN Forget(r) ELSE UNCHANGED runVars

\* What the task of an actor does next.
TaskStep(a) ==
  \/ GrantStep(a) \/ HolderStep(a) \/ CloseStep(a) \/ QueueStep(a)
  \/ RunStep(a) \/ ReleaseStep(a)

\* What need not happen: arrivals, publications, cancellations.
Environment ==
  /\ Publish \/ \E a \in Actors : Bind(a) \/ Disturb(a)
  /\ UNCHANGED runVars

Done == /\ \A a \in Actors : pc[a] = "done"
        /\ UNCHANGED vars

Next == Environment \/ Done \/ \E a \in Actors : TaskStep(a)

\* The event loop runs every task that can go on; the body of a run comes to an
\* end because its rounds are bounded and its deadline cancels it.
Fairness == \A a \in Actors : WF_vars(TaskStep(a))

Spec == Init /\ [][Next]_vars /\ Fairness
-----------------------------------------------------------------------------
(* Properties. *)

TypeOK == HostTypeOK /\ RunTypeOK

\* A request never works on ports that are closed or being closed: while it has
\* its lease, the generation it was bound to is running with every port open,
\* whatever is reloaded or closed meanwhile.
LeasedIsOpen ==
  \A r \in Requests : pc[r] = "leased" =>
    res[snap[r]] = [state |-> "running", open |-> PortSet]

\* No port is lost: what is open belongs to the active generation, to one being
\* started or closed, or to a retired one that the close of the host still
\* knows; and a host that says it is closed has nothing open and nothing leased.
NothingLeaks ==
  /\ \A g \in Gens : res[g].open # {} =>
       g \in {active, op.cand, op.prev} \cup retired
  /\ closed => \A g \in Gens : res[g].open = {} /\ leases[g] = 0

\* A chat request is never refused for having the older snapshot: those bound
\* before a newer one are also ahead in the line for the lock.
NeverBehind == \A r \in Chats : answer[r] # "behind"

\* The memory of a request trails its row by at most one transition, so a
\* compare-and-swap that fails has exactly one cause, a lost answer.
MemoryTrails ==
  \A r \in Chats : stage[r] # "gone" =>
    \/ stored[r] = run[r]
    \/ run[r] = "none" /\ stored[r] = "created"
    \/ run[r] # "none" /\ stored[r] \in Allowed(run[r])

\* One transaction that is rolled back, or one cancellation in the body of a
\* request, leaves no run behind: the row is terminal when the handler is over,
\* unless an answer was lost or nothing was left to catch the exception.
EndedUnlessLost ==
  \A r \in Chats : stage[r] \in {"over", "gone"} /\ ~lost[r] => stored[r] \in Terminal

\* The row only moves along the state machine, and a terminal row is final.
StoredForward ==
  [][\A r \in Chats : stored'[r] # stored[r] =>
       \/ stored[r] = "none" /\ stored'[r] = "created"
       \/ stored[r] # "none" /\ stored'[r] \in Allowed(stored[r])]_vars

\* Everybody who asks is answered and comes to an end: no reload waits for a
\* lease that waits for the reload, and the close of the host comes to an end.
\* (Every actor asks once, so this is the same as each request leading to an end.)
EveryoneLeaves == <>[](\A a \in Actors : pc[a] \in {"idle", "done"})

\* docs/runtime-architecture.md:52: timeout, stop and exception all take the run
\* to a terminal state (chat_runtime.py:181).
EveryRunEnds ==
  \A r \in Chats : stage[r] = "over" => stored[r] \in Terminal \cup {"none"}
=============================================================================
