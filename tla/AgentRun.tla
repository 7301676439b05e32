------------------------------ MODULE AgentRun ------------------------------
(***************************************************************************)
(* The durable life of one chat request: the run's state machine           *)
(* (agent_runtime.py), the transaction that moves the stored row           *)
(* (agent_context_runtime.py, postgres_agent_repository.py) and the        *)
(* request handler that drives it to an end (chat_runtime.py, moe_llm.py). *)
(*                                                                         *)
(* A request keeps the run in memory and writes every transition with a    *)
(* compare-and-swap on the stored state.  The memory moves only when the   *)
(* whole transaction returned, so a commit whose answer is lost leaves the *)
(* row one step ahead of it, and every later write of this run conflicts.  *)
(***************************************************************************)
EXTENDS Integers, Sequences

CONSTANTS
  Chats,         \* the requests that run an agent
  MaxRounds      \* bound: confirmations one request waits for

ASSUME RunAssumption == MaxRounds \in Nat

Exceptional == {"failed", "cancelled", "timed_out", "rejected"}
Terminal    == Exceptional \cup {"completed"}
Usual == [created              |-> {"admitted"},
          admitted             |-> {"classifying"},
          classifying          |-> {"planning"},
          planning             |-> {"executing"},
          executing            |-> {"waiting_confirmation", "summarizing"},
          waiting_confirmation |-> {"executing", "summarizing"},
          summarizing          |-> {"completed"}]
States == DOMAIN Usual \cup Terminal
\* _AGENT_RUN_TRANSITIONS
Allowed(s) == IF s \in Terminal THEN {} ELSE Usual[s] \cup Exceptional

VARIABLES
  run,       \* AgentRequestRuntime.run.state, "none" before begin has built it
  stored,    \* the status column of its row
  stage,     \* which part of execute_bound_agent the request is in
  goal,      \* the exceptional state finish_exception is to record
  rounds,    \* confirmations so far
  lost       \* history: a commit whose answer was lost, or an exception or a
             \* cancellation where nothing catches it any more

runVars == <<run, stored, stage, goal, rounds, lost>>

RunTypeOK ==
  /\ run    \in [Chats -> States \cup {"none"}]
  /\ stored \in [Chats -> States \cup {"none"}]
  /\ stage  \in [Chats -> {"idle", "begin", "body", "asked", "finish", "reject", "fail", "settle", "over", "gone"}]
  /\ goal   \in [Chats -> Exceptional \cup {"none"}]
  /\ rounds \in [Chats -> 0 .. MaxRounds]
  /\ lost \in [Chats -> BOOLEAN]

RunInit ==
  /\ run    = [r \in Chats |-> "none"] /\ stored = [r \in Chats |-> "none"]
  /\ stage  = [r \in Chats |-> "idle"] /\ goal   = [r \in Chats |-> "none"]
  /\ rounds = [r \in Chats |-> 0]
  /\ lost   = [r \in Chats |-> FALSE]

-----------------------------------------------------------------------------
(* One transaction (PostgresTransactionFactory._execute_unobserved). *)

\* How it can end.  "clock" is the record's own refusal of a finish time that
\* lies before the start, raised before the transaction begins.
Outcomes == {"ok", "clock", "rolledback", "unknown", "unclean",
             "cancelled", "commitcancelled", "interrupted"}
\* Those that raise a CancelledError into the caller.
ByCancel == {"cancelled", "commitcancelled", "interrupted"}
\* Committed for certain; and those of which the caller cannot know.
Durable  == {"ok", "unclean", "interrupted"}
InDoubt  == {"unknown", "commitcancelled"}

\* Mutant: the update does not compare the stored state.
Write_Blind(r, before, target, outcome) ==
  \/ outcome \in Durable \cup InDoubt
     /\ stored' = [stored EXCEPT ![r] = target]
  \/ outcome \notin Durable
     /\ UNCHANGED stored

\* The row of r is moved to target, or not.  AgentRunRepository.replace matches
\* the expected state, so nothing is written when the row is not at `before`.
Write(r, before, target, outcome) ==
  \/ outcome \in Durable \cup InDoubt /\ stored[r] = before
     /\ stored' = [stored EXCEPT ![r] = target]
  \/ outcome \notin Durable
     /\ UNCHANGED stored

\* Where no handler is left.
Uncaught(r) == stage[r] \in {"begin", "fail", "settle"}

\* Mutant: finish_exception is not tried again after it failed for a rejection.
Caught_OnceOnly(r, cancelled) ==
  /\ \/ /\ Uncaught(r) \/ stage[r] = "reject"
        /\ stage' = [stage EXCEPT ![r] = "over"]
        /\ UNCHANGED goal
     \/ /\ stage[r] \in {"body", "asked", "finish"}
        /\ stage' = [stage EXCEPT ![r] = IF cancelled THEN "settle" ELSE "fail"]
        /\ goal' = [goal EXCEPT ![r] = IF cancelled THEN "cancelled" ELSE "failed"]

\* What the request does with an exception or a cancellation, by stage: begin
\* has no handler; get_llm_chat and finish_success fall into the two handlers
\* around them; an exception inside a handler ends the request.
Caught(r, cancelled) ==
  /\ \/ /\ Uncaught(r)
        /\ stage' = [stage EXCEPT ![r] = "over"]
        /\ UNCHANGED goal
     \/ /\ stage[r] \in {"body", "asked", "finish", "reject"} /\ ~cancelled
        /\ stage' = [stage EXCEPT ![r] = "fail"]
        /\ goal' = [goal EXCEPT ![r] = "failed"]
     \/ /\ stage[r] \in {"body", "asked", "finish", "reject"} /\ cancelled
        /\ stage' = [stage EXCEPT ![r] = "settle"]
        /\ \E g \in {"timed_out", "cancelled"} : goal' = [goal EXCEPT ![r] = g]

\* Mutant: the memory moves before the transaction has returned.
Advance_MemoryFirst(r, target, outcome, next) ==
  /\ target \in Allowed(run[r])
  /\ Write(r, run[r], target, outcome)
  /\ run' = [run EXCEPT ![r] = target]
  /\ lost' = [lost EXCEPT ![r] = @ \/ outcome # "ok"]
  /\ IF outcome = "ok"
     THEN stage' = [stage EXCEPT ![r] = next] /\ UNCHANGED goal
     ELSE Caught(r, outcome \in ByCancel)

\* AgentRequestRuntime.advance: move the row, then the memory, then go on to
\* `next`.  settle_awaitable keeps cancellations out of the settled handler.
Advance(r, target, outcome, next) ==
  /\ target \in Allowed(run[r])
  /\ outcome = "clock" => target \in Terminal
  /\ outcome \in ByCancel => stage[r] # "settle"
  /\ Write(r, run[r], target, outcome)
  /\ IF outcome = "ok"
     THEN /\ run' = [run EXCEPT ![r] = target]
          /\ stage' = [stage EXCEPT ![r] = next]
          /\ UNCHANGED <<goal, lost>>
     ELSE /\ Caught(r, outcome \in ByCancel)
          /\ lost' = [lost EXCEPT ![r] = @ \/ Uncaught(r) \/ stored'[r] # stored[r]]
          /\ UNCHANGED run

-----------------------------------------------------------------------------
(* AgentRequestRuntime.begin. *)

\* initialize_request: the row, its user and its conversation in one
\* transaction; the request object exists only if that returned.
Create(r, outcome) ==
  /\ stage[r] = "begin" /\ run[r] = "none" /\ outcome # "clock"
  /\ Write(r, "none", "created", outcome)
  /\ IF outcome = "ok"
     THEN /\ run' = [run EXCEPT ![r] = "created"]
          /\ UNCHANGED <<stage, goal, lost>>
     ELSE /\ Caught(r, outcome \in ByCancel)
          /\ lost' = [lost EXCEPT ![r] = @ \/ Uncaught(r) \/ stored'[r] # stored[r]]
          /\ UNCHANGED run
  /\ UNCHANGED rounds

Begin(r, outcome) ==
  /\ stage[r] = "begin"
  /\ \/ run[r] = "created"  /\ Advance(r, "admitted", outcome, "begin")
     \/ run[r] = "admitted" /\ Advance(r, "classifying", outcome, "body")
  /\ UNCHANGED rounds

-----------------------------------------------------------------------------
(* MoeLlm.get_llm_chat, as far as the run's state is concerned. *)

Plan(r, outcome) ==
  /\ stage[r] = "body"
  /\ \/ run[r] = "classifying" /\ Advance(r, "planning", outcome, "body")
     \/ run[r] = "planning"    /\ Advance(r, "executing", outcome, "body")
  /\ UNCHANGED rounds

\* A dangerous tool asks for confirmation and the loop goes on.  Both
\* transitions happen inside handlers that turn an exception into the result of
\* the tool: unless it is a cancellation, a failed one is passed over.
Confirm(r, target, outcome, next) ==
  /\ outcome # "clock"
  /\ \/ outcome \in ByCancel \cup {"ok"} /\ Advance(r, target, outcome, next)
     \/ /\ outcome \notin ByCancel \cup {"ok"}
        /\ Write(r, run[r], target, outcome)
        /\ stage' = [stage EXCEPT ![r] = "body"]
        /\ lost' = [lost EXCEPT ![r] = @ \/ stored'[r] # stored[r]]
        /\ UNCHANGED <<run, goal>>

AskConfirmation(r, outcome) ==
  /\ stage[r] = "body" /\ run[r] = "executing" /\ rounds[r] < MaxRounds
  /\ rounds' = [rounds EXCEPT ![r] = @ + 1]
  /\ Confirm(r, "waiting_confirmation", outcome, "asked")

Resume(r, outcome) ==
  /\ stage[r] = "asked"
  /\ Confirm(r, "executing", outcome, "body")
  /\ UNCHANGED rounds

\* Anything else the body awaits raises, or is cancelled.
BodyRaises(r, cancelled) ==
  /\ stage[r] \in {"body", "finish"} \/ (stage[r] = "asked" /\ cancelled)
  /\ Caught(r, cancelled)
  /\ UNCHANGED <<run, stored, rounds, lost>>

\* The loop ends with an answer, or with a text that says why there is none.
BodyEnds(r) ==
  /\ stage[r] = "body"
  /\ \/ /\ run[r] \in {"executing", "waiting_confirmation"}
        /\ stage' = [stage EXCEPT ![r] = "finish"] /\ UNCHANGED goal
     \/ /\ stage' = [stage EXCEPT ![r] = "reject"]
        /\ goal' = [goal EXCEPT ![r] = "failed"]
  /\ UNCHANGED <<run, stored, rounds, lost>>

-----------------------------------------------------------------------------
(* The ends. *)

FinishSuccess(r, outcome) ==
  /\ stage[r] = "finish"
  /\ \/ /\ run[r] \in {"executing", "waiting_confirmation"}
        /\ Advance(r, "summarizing", outcome, "finish")
     \/ run[r] = "summarizing" /\ Advance(r, "completed", outcome, "over")
  /\ UNCHANGED rounds

FinishException(r, outcome) ==
  /\ stage[r] \in {"reject", "fail", "settle"}
  /\ Advance(r, goal[r], outcome, "over")
  /\ UNCHANGED rounds

\* The handler of an exception writes the usage first and can be cancelled there.
HandlerCancelled(r) ==
  /\ stage[r] \in {"reject", "fail"}
  /\ Caught(r, TRUE)
  /\ lost' = [lost EXCEPT ![r] = @ \/ stage[r] = "fail"]
  /\ UNCHANGED <<run, stored, rounds>>

\* execute_bound_agent is entered.
Admit(r) ==
  /\ stage[r] = "idle"
  /\ stage' = [stage EXCEPT ![r] = "begin"]
  /\ UNCHANGED <<run, stored, goal, rounds, lost>>

\* The handler returned: its locals are gone, the row stays.
Forget(r) ==
  /\ stage[r] = "over"
  /\ stage'   = [stage EXCEPT ![r] = "gone"]
  /\ run'     = [run EXCEPT ![r] = "none"] /\ goal' = [goal EXCEPT ![r] = "none"]
  /\ rounds'  = [rounds EXCEPT ![r] = 0]
  /\ UNCHANGED <<stored, lost>>

Progress(r) ==
  \/ \E outcome \in Outcomes :
       \/ Create(r, outcome) \/ Begin(r, outcome) \/ Plan(r, outcome)
       \/ AskConfirmation(r, outcome) \/ Resume(r, outcome)
       \/ FinishSuccess(r, outcome) \/ FinishException(r, outcome)
  \/ \E cancelled \in BOOLEAN : BodyRaises(r, cancelled)
  \/ BodyEnds(r) \/ HandlerCancelled(r)
=============================================================================
