------------------------------ MODULE ToolTurn ------------------------------
(***************************************************************************)
(* The conversation of one request with the model: the rounds and retries  *)
(* of get_llm_chat (moe_llm.py) over stream_llm_chat and                   *)
(* none_stream_llm_chat (llm_api.py), the payload of llm_payload.py, and   *)
(* _execute_tools (llm_tools.py), which runs one tool call of a round, or  *)
(* read-only ones side by side, and answers all of them.                   *)
(*                                                                         *)
(* How a round side by side runs is the subject of ParallelTools; what     *)
(* becomes of the stored run, of AgentRun.                                 *)
(***************************************************************************)
EXTENDS Integers, FiniteSets, Sequences

CONSTANTS
  Called,       \* [tool, args]: tools and arguments the model may call
  RouteOf,      \* of each tool: "read", "mutating", "protocol" or "plugin"
  MaxRounds,    \* max_tool_rounds and max_agent_steps
  MaxTries,     \* max_retry_times
  MaxRepeats    \* max_repeated_tool_calls

ASSUME TurnAssumption ==
  MaxRounds \in Nat /\ MaxTries \in Nat \ {0} /\ MaxRepeats \in Nat

VARIABLES
  turn,         \* where get_llm_chat is, its round and try, the payload, and whether
                \* nothing, a part (of a try that failed) or an answer was sent
  wanted,       \* tool calls of the round
  answers,      \* how many tool messages each of them has
  attempts,     \* _tool_call_fingerprints: what the last attempt forbids
  blocked,      \* _tool_retry_blocked_tools
  usage,        \* _current_tool_fingerprint_usage
  ran,          \* history: how often each call was carried out
  burnt,        \* history: calls that failed or found nothing
  doubtful      \* history: tools whose effect is unknown or partial

turnVars == <<turn, wanted, answers, attempts, blocked, usage, ran, burnt, doubtful>>

\* A name the payload does not offer, and arguments that do not validate.
Ghost     == [tool |-> "ghost", args |-> 0]
Malformed == [tool |-> "malformed", args |-> 0]

Scripts ==
  {<<c>> : c \in Called \cup {Ghost, Malformed}}
    \cup ((Called \cup {Ghost}) \X (Called \cup {Ghost}))

TurnTypeOK ==
  /\ turn.round \in 0 .. MaxRounds /\ turn.try \in 0 .. MaxTries - 1
  /\ wanted \in Scripts \cup {<<>>} /\ Len(answers) = Len(wanted)
  /\ attempts \in [Called -> {"none", "allow", "forbid"}]
  /\ \A c \in Called : ran[c] <= usage[c]

TurnInit ==
  /\ turn \in [at : {"ask"}, round : {0}, try : {0}, tools : BOOLEAN,
               stream : BOOLEAN, sent : {"nothing"}]
  /\ turn.tools => ~turn.stream       \* _build_payload
  /\ wanted = <<>> /\ answers = <<>>
  /\ attempts = [c \in Called |-> "none"] /\ blocked = {}
  /\ usage = [c \in Called |-> 0] /\ ran = [c \in Called |-> 0]
  /\ burnt = {} /\ doubtful = {}

Remembered == <<attempts, blocked, usage, ran, burnt, doubtful>>
Goto(at)   == turn' = [turn EXCEPT !.at = at]

-----------------------------------------------------------------------------
(* The model *)

LastRound == turn.round = MaxRounds
\* In the last round the payload offers no tools.
Payload == [turn EXCEPT !.tools = turn.tools /\ ~LastRound]
Offers(c) == turn.tools /\ c \in Called \cup {Malformed}

\* A stream sends its segments while they come, within the try.
Speaks ==
  /\ turn' = IF turn.stream THEN [Payload EXCEPT !.at = "store", !.sent = "answer"]
                            ELSE [Payload EXCEPT !.at = "speak"]
  /\ UNCHANGED <<wanted, answers>>

\* Mutant: the tool calls of a stream are kept.
WantsTools_OfStream ==
  IF LastRound
    THEN turn' = [Payload EXCEPT !.at = "summary"] /\ UNCHANGED <<wanted, answers>>
    ELSE \E script \in Scripts :
           /\ wanted' = script /\ answers' = [i \in 1 .. Len(script) |-> 0]
           /\ turn' = [Payload EXCEPT !.at = "round"]

\* Tool calls, also such as were not offered; those of a stream are dropped, and
\* none are carried out in the last round, whose empty text is summarised.
WantsTools ==
  /\ ~turn.stream
  /\ IF LastRound
       THEN turn' = [Payload EXCEPT !.at = "summary"] /\ UNCHANGED <<wanted, answers>>
       ELSE \E script \in Scripts :
              /\ wanted' = script /\ answers' = [i \in 1 .. Len(script) |-> 0]
              /\ turn' = [Payload EXCEPT !.at = "round"]

\* Nothing visible: summarised if there were tool results, or nothing is said.
Silent ==
  /\ turn' \in {[Payload EXCEPT !.at = at] : at \in {"summary", "store"}}
  /\ UNCHANGED <<wanted, answers>>

\* An error, of the model or, in a stream, of a send: whatever was sent, the try
\* is repeated, unless the error names the content of the request.
ModelFails ==
  /\ \E sent \in {turn.sent} \cup (IF turn.stream THEN {"part"} ELSE {}) :
       \/ turn.try + 1 < MaxTries /\ turn' = [Payload EXCEPT !.try = @ + 1, !.sent = sent]
       \/ turn' = [Payload EXCEPT !.at = "over", !.sent = sent]
  /\ UNCHANGED <<wanted, answers>>

AskModel ==
  /\ turn.at = "ask"
  /\ Speaks \/ WantsTools \/ Silent \/ ModelFails
  /\ UNCHANGED Remembered

\* _request_tool_summary_retry: one more request, or a fixed sentence.
Summarise ==
  /\ turn.at = "summary" /\ Goto("speak")
  /\ UNCHANGED <<wanted, answers, Remembered>>

\* The answer is sent, or its send fails and the turn breaks; then only the
\* history is written.
Speak ==
  /\ turn.at = "speak"
  /\ turn' = [turn EXCEPT !.at = "store", !.sent = "answer"]
  /\ UNCHANGED <<wanted, answers, Remembered>>

Store ==
  /\ turn.at = "store" /\ Goto("over")
  /\ UNCHANGED <<wanted, answers, Remembered>>

\* A cancellation, the deadline, a failing repository or a call without an id.
TurnBreaks ==
  /\ turn.at # "over" /\ Goto("over")
  /\ wanted' = <<>> /\ answers' = <<>>
  /\ UNCHANGED Remembered

-----------------------------------------------------------------------------
(* _execute_tools *)

Owed      == {i \in 1 .. Len(wanted) : answers[i] = 0}
Next1     == CHOOSE i \in Owed : \A j \in Owed : i <= j
Answer(I) == answers' = [i \in 1 .. Len(wanted) |-> answers[i] + (IF i \in I THEN 1 ELSE 0)]

\* _retry_rejection and the repeat limit.
Forbidden(c) ==
  \/ c.tool \in blocked
  \/ attempts[c] = "forbid"
  \/ usage[c] + 1 > MaxRepeats

Uses(C) == usage' = [c \in Called |-> usage[c] + (IF c \in C THEN 1 ELSE 0)]

Failures == {"failed", "timed_out", "not_matched", "empty"}
Doubts   == {"unknown", "partial"}

\* _remember_tool_attempt
Verdict(status) == IF status \in Failures THEN "forbid" ELSE "allow"
\* Mutant: an unknown effect bars the same call, not its tool.
Remember_LastOnly(c, status) ==
  /\ attempts' = [attempts EXCEPT ![c] = Verdict(status)]
  /\ UNCHANGED blocked
Remember(c, status) ==
  /\ attempts' = [attempts EXCEPT ![c] = Verdict(status)]
  /\ blocked' = IF status \in Doubts THEN blocked \cup {c.tool} ELSE blocked

Happened(c, status) ==
  /\ burnt' = IF status \in Failures THEN burnt \cup {c} ELSE burnt
  /\ doubtful' = IF status \in Doubts THEN doubtful \cup {c.tool} ELSE doubtful

\* _prepare_read_only_parallel_batch; the plan may still leave nothing parallel.
SideBySide ==
  /\ Len(wanted) > 1
  /\ \A i \in 1 .. Len(wanted) :
       /\ Offers(wanted[i]) /\ wanted[i] \in Called
       /\ RouteOf[wanted[i].tool] = "read" /\ ~Forbidden(wanted[i])
  /\ wanted[1].tool # wanted[2].tool

BeginBatch ==
  /\ turn.at = "round" /\ Owed = 1 .. Len(wanted) /\ SideBySide
  /\ Uses({wanted[1], wanted[2]})
  /\ ran' = [c \in Called |-> ran[c] + (IF c \in {wanted[1], wanted[2]} THEN 1 ELSE 0)]
  /\ Goto("batch")
  /\ UNCHANGED <<wanted, answers, attempts, blocked, burnt, doubtful>>

\* Completed, failed or out of time, or skipped because another failed.
EndBatch ==
  /\ turn.at = "batch"
  /\ \E status \in [1 .. Len(wanted) -> {"completed", "failed", "timed_out", "skipped"}] :
       LET StatusOf(c) == status[CHOOSE i \in 1 .. Len(wanted) : wanted[i] = c]
           ofBatch == {wanted[i] : i \in 1 .. Len(wanted)}
       IN  /\ attempts' = [c \in Called |->
                IF c \in ofBatch THEN Verdict(StatusOf(c)) ELSE attempts[c]]
           /\ burnt' = burnt \cup {c \in ofBatch : StatusOf(c) \in Failures}
  /\ Answer(1 .. Len(wanted)) /\ Goto("images")
  /\ UNCHANGED <<wanted, blocked, usage, ran, doubtful>>

\* _reject_call_outside_active_schema: it counts as a failed attempt.
RejectOutside(i) ==
  LET c == wanted[i]
  IN  /\ ~Offers(c)
      /\ Uses({c})
      /\ IF c \in Called THEN Remember(c, "failed") ELSE UNCHANGED <<attempts, blocked>>
      /\ Answer({i}) /\ Goto("rest")
      /\ UNCHANGED <<wanted, ran, burnt, doubtful>>

\* Invalid arguments, a forbidden repetition, or no longer in the catalogue, not
\* trusted, not permitted.
Refuse(i) ==
  /\ Offers(wanted[i])
  /\ Answer({i}) /\ Goto("rest")
  /\ UNCHANGED <<wanted, Remembered>>

Start(i) ==
  LET c == wanted[i]
  IN  /\ Offers(c) /\ c \in Called /\ ~Forbidden(c)
      /\ Uses({c}) /\ ran' = [ran EXCEPT ![c] = @ + 1]
      /\ Goto("running")
      /\ UNCHANGED <<wanted, answers, attempts, blocked, burnt, doubtful>>

\* Only the first call of a round that does not run side by side is carried out.
BeginCall ==
  /\ turn.at = "round" /\ Owed = 1 .. Len(wanted)
  /\ RejectOutside(1) \/ Refuse(1) \/ Start(1)

Plain == {"completed", "rejected", "failed", "timed_out"}

Finished(c, status) == Remember(c, status) /\ Happened(c, status)

\* builtin search, and custom tools that only read
ReadEnds(c) ==
  /\ RouteOf[c.tool] = "read"
  /\ \E status \in Plain : Finished(c, status)

\* A custom tool that changes something is only stored for a confirmation; that
\* it waits, and that it was refused, is not remembered.
AwaitsConfirmation(c) ==
  /\ RouteOf[c.tool] \in {"mutating", "protocol"}
  /\ UNCHANGED <<attempts, blocked, burnt, doubtful>>

\* The broker carries it out, and may not know whether: the tool is remembered
\* twice then, as of unknown result and as failed.
ProtocolEnds(c) ==
  /\ RouteOf[c.tool] = "protocol"
  /\ \/ \E status \in Plain : Finished(c, status)
     \/ /\ attempts' = [attempts EXCEPT ![c] = "forbid"] /\ blocked' = blocked \cup {c.tool}
        /\ burnt' = burnt \cup {c} /\ doubtful' = doubtful \cup {c.tool}

\* event_simulator: matched or not, with or without output.
PluginEnds(c) ==
  /\ RouteOf[c.tool] = "plugin"
  /\ \E status \in Plain \cup Failures \cup Doubts : Finished(c, status)

EndCall ==
  /\ turn.at = "running"
  /\ LET c == wanted[1]
     IN  ReadEnds(c) \/ AwaitsConfirmation(c) \/ ProtocolEnds(c) \/ PluginEnds(c)
  /\ Answer({1}) /\ Goto("rest")
  /\ UNCHANGED <<wanted, usage, ran>>

Skip(i) ==
  /\ Offers(wanted[i])
  /\ Answer({i})
  /\ UNCHANGED <<turn, wanted, Remembered>>

SkipRest ==
  /\ turn.at = "rest"
  /\ IF Owed = {} THEN Goto("images") /\ UNCHANGED <<wanted, answers, Remembered>>
     ELSE RejectOutside(Next1) \/ Skip(Next1)

\* Images of a result move the conversation to the vision model, if there is
\* one; its own stream and no_tools settings hold from then on.
NextRound ==
  LET again == [turn EXCEPT !.at = "ask", !.round = @ + 1, !.try = 0]
  IN  /\ turn.at = "images"
      /\ \/ turn' = again
         \/ \E stream, noTools \in BOOLEAN :
              turn' = [again EXCEPT !.stream = stream, !.tools = @ /\ ~noTools]
         \/ Goto("over")
      /\ wanted' = <<>> /\ answers' = <<>>
      /\ UNCHANGED Remembered

TurnNext ==
  \/ AskModel \/ Summarise \/ Speak \/ Store \/ TurnBreaks
  \/ BeginBatch \/ EndBatch \/ BeginCall \/ EndCall \/ SkipRest \/ NextRound

-----------------------------------------------------------------------------
\* Whatever the model asks for, in whatever order, alone or side by side: a tool
\* with an unknown or partial effect is not carried out again, a call that failed
\* is not repeated as it was, no call more often than the limit, none the payload
\* did not offer, and none after the user was sent any part of an answer, even by
\* a stream that failed and is tried again; and the model is asked again only
\* when each of its calls has exactly one answer.
AnsweredOnce ==
  [][/\ \A c \in Called : ran'[c] # ran[c] =>
          /\ turn.tools /\ turn.sent = "nothing" /\ c.tool \notin doubtful /\ c \notin burnt
          /\ ran'[c] = ran[c] + 1 /\ ran[c] < MaxRepeats
     /\ turn.at = "images" /\ turn'.at = "ask" =>
          \A i \in 1 .. Len(answers) : answers[i] = 1]_turnVars
=============================================================================
