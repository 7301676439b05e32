------------------------- MODULE AgentPlatformProofs -------------------------
(***************************************************************************)
(* What AgentPlatform promises of the stored rows, for every set of        *)
(* requests, every number of generations and of confirmations, and however *)
(* the transactions end.                                                   *)
(*                                                                         *)
(* The inductive invariant RowInv says of one chat where its row can be    *)
(* when its memory is where it is: nowhere else, unless an answer was lost *)
(* (the row is then one transition ahead) or the request is gone.  Only    *)
(* the steps of a run and the two ends of its lease touch it, so the host  *)
(* enters the argument in one lemma, RunMoves.                             *)
(***************************************************************************)
EXTENDS RuntimeHostProofs

\* What the stage of a chat says of its memory and of the goal of its handler.
StageInv(r) ==
  /\ stage[r] = "idle" => run[r] = "none" /\ stored[r] = "none"
  /\ stage[r] \in {"body", "asked", "finish"} => run[r] # "none"
  /\ stage[r] = "asked" => run[r] = "waiting_confirmation"
  /\ stage[r] \in {"reject", "fail", "settle"} =>
       goal[r] \in Exceptional /\ run[r] # "none"

\* The row is where the memory is, or one transition ahead when an answer was
\* lost; a run whose handler is over has ended unless something was lost.
RowInv(r) ==
  /\ stage[r] # "gone" =>
       \/ stored[r] = run[r]
       \/ lost[r] /\ run[r] = "none" /\ stored[r] = "created"
       \/ lost[r] /\ run[r] # "none" /\ stored[r] \in Allowed(run[r])
  /\ stage[r] \in {"over", "gone"} /\ ~lost[r] => stored[r] \in Terminal

IInv == RunTypeOK /\ \A r \in Chats : StageInv(r) /\ RowInv(r)

\* The ways in which the variables of the runs can change.
RunMove ==
  \/ \E r \in Chats : Progress(r) \/ Admit(r) \/ Forget(r)
  \/ UNCHANGED runVars

\* Every step of the platform moves one run or none.
LEMMA RunMoves == [Next]_vars => RunMove
<1>. SUFFICES ASSUME [Next]_vars PROVE RunMove
  OBVIOUS
<1>1. CASE Environment
  BY <1>1 DEF Environment, RunMove
<1>2. CASE Done \/ UNCHANGED vars
  BY <1>2 DEF Done, vars, RunMove
<1>3. ASSUME NEW a \in Actors, TaskStep(a) PROVE RunMove
  <2>1. CASE GrantStep(a)
    BY <2>1 DEF GrantStep, RunMove
  <2>2. CASE HolderStep(a) \/ CloseStep(a) \/ QueueStep(a)
    BY <2>2 DEF HolderStep, CloseStep, QueueStep, RunMove
  <2>3. CASE RunStep(a)
    BY <2>3 DEF RunStep, RunMove
  <2>4. CASE ReleaseStep(a)
    BY <2>4 DEF ReleaseStep, RunMove
  <2>. QED
    BY <1>3, <2>1, <2>2, <2>3, <2>4 DEF TaskStep
<1>. QED
  BY <1>1, <1>2, <1>3 DEF Next

-----------------------------------------------------------------------------
(* The parts of a transition. *)

\* A transaction leaves the row alone, or moves it from where it was expected.
LEMMA WriteMoves ==
  ASSUME NEW r \in Chats, NEW before, NEW target, NEW outcome,
         RunTypeOK, Write(r, before, target, outcome)
  PROVE  /\ \/ stored' = stored /\ outcome \notin Durable
            \/ stored[r] = before /\ stored' = [stored EXCEPT ![r] = target]
BY DEF Write, RunTypeOK, Durable, InDoubt

\* Whoever catches an exception, the request is over or has a goal to record.
LEMMA CaughtMoves ==
  ASSUME NEW r \in Chats, NEW cancelled, RunTypeOK, Caught(r, cancelled)
  PROVE  /\ stage' = [stage EXCEPT ![r] = stage'[r]]
         /\ goal' = [goal EXCEPT ![r] = goal'[r]]
         /\ \/ stage'[r] = "over" /\ Uncaught(r) /\ goal'[r] \in Exceptional \cup {"none"}
            \/ stage'[r] \in {"fail", "settle"} /\ goal'[r] \in Exceptional
               /\ stage[r] \in {"body", "asked", "finish", "reject"}
<1>1. CASE Uncaught(r) /\ stage' = [stage EXCEPT ![r] = "over"] /\ UNCHANGED goal
  BY <1>1 DEF RunTypeOK
<1>2. CASE /\ stage[r] \in {"body", "asked", "finish", "reject"} /\ ~cancelled
           /\ stage' = [stage EXCEPT ![r] = "fail"]
           /\ goal' = [goal EXCEPT ![r] = "failed"]
  BY <1>2 DEF RunTypeOK, Exceptional
<1>3. CASE /\ stage[r] \in {"body", "asked", "finish", "reject"} /\ cancelled
           /\ stage' = [stage EXCEPT ![r] = "settle"]
           /\ \E g \in {"timed_out", "cancelled"} : goal' = [goal EXCEPT ![r] = g]
  BY <1>3 DEF RunTypeOK, Exceptional
<1>. QED
  BY <1>1, <1>2, <1>3 DEF Caught

\* The values of one chat after a step that leaves the others alone.
Others(r) ==
  \A q \in Chats \ {r} :
    /\ run'[q] = run[q] /\ stored'[q] = stored[q] /\ stage'[q] = stage[q]
    /\ goal'[q] = goal[q] /\ lost'[q] = lost[q]

\* It is enough to look at the chat that moves.
LEMMA OneMoves ==
  ASSUME IInv, NEW r \in Chats, RunTypeOK', Others(r), StageInv(r)', RowInv(r)'
  PROVE  IInv'
<1>1. ASSUME NEW q \in Chats \ {r} PROVE StageInv(q)' /\ RowInv(q)'
  BY <1>1 DEF IInv, Others, StageInv, RowInv
<1>. QED
  BY <1>1 DEF IInv

\* One transition, from any stage but the first and the last two.
LEMMA AdvanceMoves ==
  ASSUME IInv, NEW r \in Chats, NEW target \in States, NEW outcome \in Outcomes, NEW next,
         Advance(r, target, outcome, next), rounds' \in [Chats -> 0 .. MaxRounds],
         run[r] # "none", stage[r] \notin {"idle", "over", "gone"},
         \/ next \in {"begin", "body", "finish"}
         \/ next = "asked" /\ target = "waiting_confirmation"
         \/ next = "over" /\ target \in Terminal
  PROVE  IInv'
<1>t. RunTypeOK
  BY DEF IInv
<1>a. /\ target \in Allowed(run[r])
      /\ Write(r, run[r], target, outcome)
      /\ outcome = "ok" \/ Caught(r, outcome \in ByCancel)
  BY DEF Advance
<1>w. \/ stored' = stored /\ outcome \notin Durable
      \/ stored[r] = run[r] /\ stored' = [stored EXCEPT ![r] = target]
  BY <1>a, <1>t, WriteMoves
<1>p. StageInv(r) /\ RowInv(r)
  BY DEF IInv
<1>n. target # "none" /\ "none" \notin Terminal
  BY DEF States, Usual, Terminal, Exceptional
<1>1. CASE outcome = "ok"
  <2>1. /\ stored[r] = run[r] /\ stored' = [stored EXCEPT ![r] = target]
        /\ run' = [run EXCEPT ![r] = target] /\ stage' = [stage EXCEPT ![r] = next]
        /\ UNCHANGED <<goal, lost>>
    BY <1>1, <1>w DEF Advance, Durable
  <2>2. RunTypeOK'
    BY <2>1, <1>t DEF RunTypeOK
  <2>3. Others(r)
    BY <2>1, <1>t DEF Others, RunTypeOK
  <2>4. run'[r] = target /\ stored'[r] = target /\ stage'[r] = next
    BY <2>1, <1>t DEF RunTypeOK
  <2>5. StageInv(r)' /\ RowInv(r)'
    BY <2>4, <1>n DEF StageInv, RowInv
  <2>. QED
    BY <2>2, <2>3, <2>5, OneMoves
<1>2. CASE outcome # "ok"
  <2>1. /\ Caught(r, outcome \in ByCancel)
        /\ lost' = [lost EXCEPT ![r] = lost[r] \/ Uncaught(r) \/ stored'[r] # stored[r]]
        /\ UNCHANGED run
    BY <1>2 DEF Advance
  <2>2. /\ stage' = [stage EXCEPT ![r] = stage'[r]]
        /\ goal' = [goal EXCEPT ![r] = goal'[r]]
        /\ \/ stage'[r] = "over" /\ Uncaught(r) /\ goal'[r] \in Exceptional \cup {"none"}
           \/ stage'[r] \in {"fail", "settle"} /\ goal'[r] \in Exceptional
    BY <2>1, <1>t, CaughtMoves
  <2>3. RunTypeOK'
    BY <2>1, <2>2, <1>w, <1>t DEF RunTypeOK
  <2>4. Others(r)
    BY <2>1, <2>2, <1>w, <1>t DEF Others, RunTypeOK
  <2>5. lost'[r] = (lost[r] \/ Uncaught(r) \/ stored'[r] # stored[r]) /\ run'[r] = run[r]
    BY <2>1, <1>t DEF RunTypeOK
  <2>6. \/ stored'[r] = stored[r]
        \/ stored[r] = run[r] /\ stored'[r] = target
    BY <1>w, <1>t DEF RunTypeOK
  <2>7. StageInv(r)'
    BY <2>2, <2>5 DEF StageInv
  <2>8. RowInv(r)'
    <3>1. CASE stored'[r] = stored[r]
      BY <3>1, <2>2, <2>5, <1>p DEF RowInv
    <3>2. CASE stored'[r] # stored[r]
      BY <3>2, <2>2, <2>5, <2>6, <1>a DEF RowInv
    <3>. QED
      BY <3>1, <3>2
  <2>. QED
    BY <2>3, <2>4, <2>7, <2>8, OneMoves
<1>. QED
  BY <1>1, <1>2

-----------------------------------------------------------------------------
(* The actions of a run. *)

\* The insertion of the row: nothing catches what goes wrong here.
LEMMA CreateMoves ==
  ASSUME IInv, NEW r \in Chats, NEW outcome \in Outcomes, Create(r, outcome)
  PROVE  IInv'
<1>t. RunTypeOK /\ StageInv(r) /\ RowInv(r)
  BY DEF IInv
<1>a. stage[r] = "begin" /\ run[r] = "none" /\ rounds' = rounds
  BY DEF Create
<1>w. \/ stored' = stored /\ outcome \notin Durable
      \/ stored[r] = "none" /\ stored' = [stored EXCEPT ![r] = "created"]
  BY <1>t, WriteMoves DEF Create
<1>s. "created" \in States
  BY DEF States, Usual
<1>1. CASE outcome = "ok"
  <2>1. /\ stored' = [stored EXCEPT ![r] = "created"]
        /\ run' = [run EXCEPT ![r] = "created"]
        /\ UNCHANGED <<stage, goal, lost>>
    BY <1>1, <1>w DEF Create, Durable
  <2>2. RunTypeOK' /\ Others(r)
    BY <2>1, <1>t, <1>a, <1>s DEF RunTypeOK, Others
  <2>3. run'[r] = "created" /\ stored'[r] = "created" /\ stage'[r] = "begin"
    BY <2>1, <1>t, <1>a DEF RunTypeOK
  <2>4. StageInv(r)' /\ RowInv(r)'
    BY <2>3 DEF StageInv, RowInv
  <2>. QED
    BY <2>2, <2>4, OneMoves
<1>2. CASE outcome # "ok"
  <2>1. /\ Caught(r, outcome \in ByCancel)
        /\ lost' = [lost EXCEPT ![r] = lost[r] \/ Uncaught(r) \/ stored'[r] # stored[r]]
        /\ UNCHANGED run
    BY <1>2 DEF Create
  <2>2. stage' = [stage EXCEPT ![r] = "over"] /\ UNCHANGED goal /\ Uncaught(r)
    BY <2>1, <1>a DEF Caught, Uncaught
  <2>3. RunTypeOK' /\ Others(r)
    BY <2>1, <2>2, <1>w, <1>t, <1>a, <1>s DEF RunTypeOK, Others
  <2>4. stage'[r] = "over" /\ lost'[r] /\ run'[r] = "none"
    BY <2>1, <2>2, <1>t, <1>a DEF RunTypeOK
  <2>5. stored'[r] = stored[r] \/ stored'[r] = "created"
    BY <1>w, <1>t DEF RunTypeOK
  <2>6. StageInv(r)' /\ RowInv(r)'
    BY <2>4, <2>5, <1>t, <1>a DEF StageInv, RowInv
  <2>. QED
    BY <2>3, <2>6, OneMoves
<1>. QED
  BY <1>1, <1>2

\* A step that leaves the memory and the row alone and takes the handler of an
\* exception, or passes a failed confirmation over.
LEMMA StageMoves ==
  ASSUME IInv, NEW r \in Chats, RunTypeOK', Others(r),
         run'[r] = run[r], stored'[r] = stored[r], lost[r] => lost'[r],
         stage[r] \notin {"idle", "over", "gone"},
         stage'[r] \in {"body", "finish", "reject", "fail", "settle", "over"},
         stage'[r] \in {"body", "finish"} => run[r] # "none",
         stage'[r] \in {"reject", "fail", "settle"} =>
           goal'[r] \in Exceptional /\ run[r] # "none",
         stage'[r] = "over" => lost'[r]
  PROVE  IInv'
<1>1. StageInv(r)'
  BY DEF StageInv
<1>2. RowInv(r)'
  BY DEF IInv, RowInv
<1>. QED
  BY <1>1, <1>2, OneMoves

\* A confirmation: a transition, or one whose failure is passed over.
LEMMA ConfirmMoves ==
  ASSUME IInv, NEW r \in Chats, NEW target \in States, NEW outcome \in Outcomes, NEW next,
         Confirm(r, target, outcome, next), rounds' \in [Chats -> 0 .. MaxRounds],
         \A q \in Chats \ {r} : rounds'[q] = rounds[q],
         stage[r] \in {"body", "asked"}, target \in Allowed(run[r]),
         \/ next = "body"
         \/ next = "asked" /\ target = "waiting_confirmation"
  PROVE  IInv'
<1>t. RunTypeOK /\ StageInv(r) /\ RowInv(r)
  BY DEF IInv
<1>n. run[r] # "none" /\ stage[r] \notin {"idle", "over", "gone"}
  BY <1>t DEF StageInv
<1>1. CASE Advance(r, target, outcome, next)
  BY <1>1, <1>n, AdvanceMoves
<1>2. CASE /\ Write(r, run[r], target, outcome)
           /\ stage' = [stage EXCEPT ![r] = "body"]
           /\ lost' = [lost EXCEPT ![r] = lost[r] \/ stored'[r] # stored[r]]
           /\ UNCHANGED <<run, goal>>
  <2>1. \/ stored' = stored
        \/ stored[r] = run[r] /\ stored' = [stored EXCEPT ![r] = target]
    BY <1>2, <1>t, WriteMoves
  <2>2. RunTypeOK' /\ Others(r)
    BY <1>2, <2>1, <1>t DEF RunTypeOK, Others
  <2>3. /\ stage'[r] = "body" /\ run'[r] = run[r]
        /\ lost'[r] = (lost[r] \/ stored'[r] # stored[r])
        /\ \/ stored'[r] = stored[r]
           \/ stored[r] = run[r] /\ stored'[r] = target
    BY <1>2, <2>1, <1>t DEF RunTypeOK
  <2>4. StageInv(r)'
    BY <2>3, <1>n DEF StageInv
  <2>5. CASE stored'[r] = stored[r]
    BY <2>2, <2>3, <2>4, <2>5, <1>t, <1>n, OneMoves DEF RowInv
  <2>6. CASE stored'[r] # stored[r]
    <3>1. RowInv(r)'
      BY <2>3, <2>6, <1>n DEF RowInv
    <3>. QED
      BY <2>2, <2>4, <3>1, OneMoves
  <2>. QED
    BY <2>5, <2>6
<1>. QED
  BY <1>1, <1>2 DEF Confirm

\* What Caught leaves is a stage and a goal that fit each other.
LEMMA RaiseMoves ==
  ASSUME IInv, NEW r \in Chats, NEW cancelled, Caught(r, cancelled),
         run' = run, stored' = stored, rounds' = rounds,
         \/ lost' = lost /\ stage[r] \in {"body", "asked", "finish"}
         \/ lost' = [lost EXCEPT ![r] = lost[r] \/ stage[r] = "fail"] /\ stage[r] \in {"reject", "fail"}
  PROVE  IInv'
<1>t. RunTypeOK /\ StageInv(r)
  BY DEF IInv
<1>1. /\ stage' = [stage EXCEPT ![r] = stage'[r]]
      /\ goal' = [goal EXCEPT ![r] = goal'[r]]
      /\ \/ stage'[r] = "over" /\ Uncaught(r) /\ goal'[r] \in Exceptional \cup {"none"}
         \/ stage'[r] \in {"fail", "settle"} /\ goal'[r] \in Exceptional
            /\ stage[r] \in {"body", "asked", "finish", "reject"}
  BY <1>t, CaughtMoves
<1>l. lost' \in [Chats -> BOOLEAN] /\ \A q \in Chats \ {r} : lost'[q] = lost[q]
  BY <1>t DEF RunTypeOK
<1>g. goal' \in [Chats -> Exceptional \cup {"none"}]
  BY <1>1, <1>t DEF RunTypeOK
<1>2. RunTypeOK' /\ Others(r)
  BY <1>1, <1>l, <1>g, <1>t DEF RunTypeOK, Others
<1>3. stage'[r] = "over" => lost'[r]
  BY <1>1, <1>t DEF RunTypeOK, Uncaught
<1>4. run[r] # "none" /\ stage[r] \notin {"idle", "over", "gone"} /\ (lost[r] => lost'[r])
  BY <1>t DEF StageInv, RunTypeOK
<1>. QED
  BY <1>1, <1>2, <1>3, <1>4, StageMoves

\* Every action of the handler of one request.
LEMMA ProgressMoves ==
  ASSUME IInv, NEW r \in Chats, Progress(r)
  PROVE  IInv'
<1>t. RunTypeOK /\ StageInv(r)
  BY DEF IInv
<1>n. "none" \notin States /\ Terminal \subseteq States
  BY DEF States, Usual, Terminal, Exceptional
<1>s. {"admitted", "classifying", "planning", "executing", "waiting_confirmation",
       "summarizing", "completed"} \subseteq States
  BY DEF States, Usual, Terminal
<1>1. ASSUME NEW outcome \in Outcomes, Create(r, outcome) PROVE IInv'
  BY <1>1, CreateMoves
<1>2. ASSUME NEW outcome \in Outcomes, Begin(r, outcome) PROVE IInv'
  <2>1. rounds' \in [Chats -> 0 .. MaxRounds] /\ stage[r] = "begin"
    BY <1>2, <1>t DEF Begin, RunTypeOK
  <2>2. CASE run[r] = "created" /\ Advance(r, "admitted", outcome, "begin")
    BY <2>1, <2>2, <1>s, AdvanceMoves
  <2>3. CASE run[r] = "admitted" /\ Advance(r, "classifying", outcome, "body")
    BY <2>1, <2>3, <1>s, AdvanceMoves
  <2>. QED
    BY <1>2, <2>2, <2>3 DEF Begin
<1>3. ASSUME NEW outcome \in Outcomes, Plan(r, outcome) PROVE IInv'
  <2>1. rounds' \in [Chats -> 0 .. MaxRounds] /\ stage[r] = "body"
    BY <1>3, <1>t DEF Plan, RunTypeOK
  <2>2. CASE run[r] = "classifying" /\ Advance(r, "planning", outcome, "body")
    BY <2>1, <2>2, <1>s, AdvanceMoves
  <2>3. CASE run[r] = "planning" /\ Advance(r, "executing", outcome, "body")
    BY <2>1, <2>3, <1>s, AdvanceMoves
  <2>. QED
    BY <1>3, <2>2, <2>3 DEF Plan
<1>4. ASSUME NEW outcome \in Outcomes, AskConfirmation(r, outcome) PROVE IInv'
  <2>1. /\ stage[r] = "body" /\ run[r] = "executing"
        /\ Confirm(r, "waiting_confirmation", outcome, "asked")
    BY <1>4 DEF AskConfirmation
  <2>2. /\ rounds' \in [Chats -> 0 .. MaxRounds]
        /\ \A q \in Chats \ {r} : rounds'[q] = rounds[q]
    BY <1>4, <1>t, RunAssumption DEF AskConfirmation, RunTypeOK
  <2>3. "waiting_confirmation" \in Allowed(run[r])
    BY <2>1 DEF Allowed, Usual, Terminal, Exceptional
  <2>. QED
    BY <2>1, <2>2, <2>3, <1>s, ConfirmMoves
<1>5. ASSUME NEW outcome \in Outcomes, Resume(r, outcome) PROVE IInv'
  <2>1. /\ stage[r] = "asked" /\ run[r] = "waiting_confirmation"
        /\ Confirm(r, "executing", outcome, "body")
    BY <1>5, <1>t DEF Resume, StageInv
  <2>2. rounds' \in [Chats -> 0 .. MaxRounds] /\ rounds' = rounds
    BY <1>5, <1>t DEF Resume, RunTypeOK
  <2>3. "executing" \in Allowed(run[r])
    BY <2>1 DEF Allowed, Usual, Terminal, Exceptional
  <2>. QED
    BY <2>1, <2>2, <2>3, <1>s, ConfirmMoves
<1>6. ASSUME NEW outcome \in Outcomes, FinishSuccess(r, outcome) PROVE IInv'
  <2>1. /\ rounds' \in [Chats -> 0 .. MaxRounds] /\ stage[r] = "finish"
        /\ run[r] # "none" /\ "completed" \in Terminal
    BY <1>6, <1>t DEF FinishSuccess, RunTypeOK, StageInv, Terminal
  <2>2. CASE Advance(r, "summarizing", outcome, "finish")
    BY <2>1, <2>2, <1>s, AdvanceMoves
  <2>3. CASE Advance(r, "completed", outcome, "over")
    BY <2>1, <2>3, <1>s, AdvanceMoves
  <2>. QED
    BY <1>6, <2>2, <2>3 DEF FinishSuccess
<1>7. ASSUME NEW outcome \in Outcomes, FinishException(r, outcome) PROVE IInv'
  <2>1. /\ rounds' \in [Chats -> 0 .. MaxRounds]
        /\ stage[r] \in {"reject", "fail", "settle"} /\ run[r] # "none"
        /\ goal[r] \in States /\ goal[r] \in Terminal
        /\ Advance(r, goal[r], outcome, "over")
    BY <1>7, <1>t, <1>n DEF FinishException, RunTypeOK, StageInv, Terminal
  <2>. QED
    BY <2>1, AdvanceMoves
<1>8. ASSUME NEW cancelled, BodyRaises(r, cancelled) PROVE IInv'
  BY <1>8, RaiseMoves DEF BodyRaises
<1>9. CASE BodyEnds(r)
  <2>1. /\ stage[r] = "body" /\ run' = run /\ stored' = stored
        /\ rounds' = rounds /\ lost' = lost /\ run[r] # "none"
    BY <1>9, <1>t DEF BodyEnds, StageInv
  <2>2. \/ stage' = [stage EXCEPT ![r] = "finish"] /\ goal' = goal
        \/ stage' = [stage EXCEPT ![r] = "reject"] /\ goal' = [goal EXCEPT ![r] = "failed"]
    BY <1>9 DEF BodyEnds
  <2>3. RunTypeOK' /\ Others(r)
    BY <2>1, <2>2, <1>t DEF RunTypeOK, Others, Exceptional
  <2>4. \/ stage'[r] = "finish"
        \/ stage'[r] = "reject" /\ goal'[r] \in Exceptional
    BY <2>2, <1>t DEF RunTypeOK, Exceptional
  <2>. QED
    BY <2>1, <2>3, <2>4, StageMoves
<1>10. CASE HandlerCancelled(r)
  BY <1>10, RaiseMoves DEF HandlerCancelled
<1>. QED
  BY <1>1, <1>2, <1>3, <1>4, <1>5, <1>6, <1>7, <1>8, <1>9, <1>10 DEF Progress

-----------------------------------------------------------------------------
(* The invariant. *)

\* At the start nothing is stored and nothing remembered.
LEMMA InitHolds == Init => IInv
<1>. SUFFICES ASSUME RunInit PROVE IInv
  BY DEF Init
<1>1. RunTypeOK
  BY RunAssumption DEF RunInit, RunTypeOK
<1>. QED
  BY <1>1 DEF RunInit, IInv, StageInv, RowInv

\* A run moves, a lease is granted or given back, or nothing happens to the runs.
LEMMA StepHolds == IInv /\ [Next]_vars => IInv'
<1>. SUFFICES ASSUME IInv, RunMove PROVE IInv'
  BY RunMoves
<1>t. RunTypeOK
  BY DEF IInv
<1>1. ASSUME NEW r \in Chats, Progress(r) PROVE IInv'
  BY <1>1, ProgressMoves
<1>2. ASSUME NEW r \in Chats, Admit(r) PROVE IInv'
  <2>1. /\ stage[r] = "idle" /\ stage' = [stage EXCEPT ![r] = "begin"]
        /\ UNCHANGED <<run, stored, goal, rounds, lost>>
    BY <1>2 DEF Admit
  <2>2. RunTypeOK' /\ Others(r)
    BY <2>1, <1>t DEF RunTypeOK, Others
  <2>3. stage'[r] = "begin" /\ run'[r] = "none" /\ stored'[r] = "none"
    BY <2>1, <1>t DEF RunTypeOK, IInv, StageInv
  <2>4. StageInv(r)' /\ RowInv(r)'
    BY <2>3 DEF StageInv, RowInv
  <2>. QED
    BY <2>2, <2>4, OneMoves
<1>3. ASSUME NEW r \in Chats, Forget(r) PROVE IInv'
  <2>1. /\ stage[r] = "over" /\ stage' = [stage EXCEPT ![r] = "gone"]
        /\ run' = [run EXCEPT ![r] = "none"] /\ goal' = [goal EXCEPT ![r] = "none"]
        /\ rounds' = [rounds EXCEPT ![r] = 0]
        /\ UNCHANGED <<stored, lost>>
    BY <1>3 DEF Forget
  <2>2. RunTypeOK' /\ Others(r)
    BY <2>1, <1>t, RunAssumption DEF RunTypeOK, Others
  <2>3. /\ stage'[r] = "gone" /\ stored'[r] = stored[r] /\ lost'[r] = lost[r]
    BY <2>1, <1>t DEF RunTypeOK
  <2>4. StageInv(r)' /\ RowInv(r)'
    BY <2>1, <2>3 DEF IInv, StageInv, RowInv
  <2>. QED
    BY <2>2, <2>4, OneMoves
<1>4. CASE UNCHANGED runVars
  BY <1>4 DEF runVars, IInv, RunTypeOK, StageInv, RowInv
<1>. QED
  BY <1>1, <1>2, <1>3, <1>4 DEF RunMove

\* Everything the rows and the memories do keeps the invariant.
LEMMA AlwaysIInv == Spec => []IInv
  BY InitHolds, StepHolds, PTL DEF Spec

\* A row is where the memory of its request is, or one transition ahead of it
\* (agent_context_runtime.py:826): whatever transactions fail, are cancelled or
\* lose their answer, a conflict of the compare-and-swap has only that cause.
THEOREM RowsFollowMemory == Spec => []MemoryTrails
<1>1. IInv => MemoryTrails
  BY DEF IInv, RowInv, MemoryTrails
<1>. QED
  BY <1>1, AlwaysIInv, PTL

\* A run is terminal when its handler is over, unless an answer was lost or an
\* exception found no handler (chat_runtime.py:163).
THEOREM RunsEnd == Spec => []EndedUnlessLost
<1>1. IInv => EndedUnlessLost
  BY DEF IInv, RowInv, EndedUnlessLost
<1>. QED
  BY <1>1, AlwaysIInv, PTL

\* The host and the runs keep their types: among them, that no lease is given
\* back more often than it was taken (runtime_resources.py, _finish_lease_release).
THEOREM PlatformTyped == Spec => []TypeOK
<1>1. IInv /\ HInv => TypeOK
  BY DEF IInv, HInv, TypeOK
<1>. QED
  BY <1>1, AlwaysIInv, AlwaysHInv, PTL

-----------------------------------------------------------------------------
(* The row of a run only moves forward. *)

RowMove(r) ==
  \/ stored' = stored
  \/ stored[r] = "none" /\ stored' = [stored EXCEPT ![r] = "created"]
  \/ run[r] # "none" /\ stored[r] = run[r]
     /\ \E target \in Allowed(run[r]) : stored' = [stored EXCEPT ![r] = target]

\* Only a transition writes, and it writes where the memory may go.
LEMMA ProgressWrites ==
  ASSUME IInv, NEW r \in Chats, Progress(r)
  PROVE  RowMove(r)
<1>t. RunTypeOK /\ StageInv(r)
  BY DEF IInv
<1>a. ASSUME NEW target, NEW outcome, NEW next, Advance(r, target, outcome, next),
             run[r] # "none"
      PROVE  RowMove(r)
  <2>1. target \in Allowed(run[r]) /\ Write(r, run[r], target, outcome)
    BY <1>a DEF Advance
  <2>. QED
    BY <2>1, <1>a, <1>t, WriteMoves DEF RowMove
<1>c. ASSUME NEW target, NEW outcome, NEW next, Confirm(r, target, outcome, next),
             run[r] # "none", target \in Allowed(run[r])
      PROVE  RowMove(r)
  <2>1. CASE Write(r, run[r], target, outcome)
    BY <2>1, <1>c, <1>t, WriteMoves DEF RowMove
  <2>. QED
    BY <2>1, <1>a, <1>c DEF Confirm
<1>1. ASSUME NEW outcome \in Outcomes, Create(r, outcome) PROVE RowMove(r)
  BY <1>1, <1>t, WriteMoves DEF Create, RowMove
<1>2. ASSUME NEW outcome \in Outcomes, Begin(r, outcome) PROVE RowMove(r)
  BY <1>2, <1>a DEF Begin
<1>3. ASSUME NEW outcome \in Outcomes, Plan(r, outcome) PROVE RowMove(r)
  BY <1>3, <1>a DEF Plan
<1>4. ASSUME NEW outcome \in Outcomes, AskConfirmation(r, outcome) PROVE RowMove(r)
  <2>1. run[r] = "executing" /\ Confirm(r, "waiting_confirmation", outcome, "asked")
    BY <1>4 DEF AskConfirmation
  <2>2. "waiting_confirmation" \in Allowed(run[r])
    BY <2>1 DEF Allowed, Usual, Terminal, Exceptional
  <2>. QED
    BY <2>1, <2>2, <1>c
<1>5. ASSUME NEW outcome \in Outcomes, Resume(r, outcome) PROVE RowMove(r)
  <2>1. run[r] = "waiting_confirmation" /\ Confirm(r, "executing", outcome, "body")
    BY <1>5, <1>t DEF Resume, StageInv
  <2>2. "executing" \in Allowed(run[r])
    BY <2>1 DEF Allowed, Usual, Terminal, Exceptional
  <2>. QED
    BY <2>1, <2>2, <1>c
<1>6. ASSUME NEW outcome \in Outcomes, FinishSuccess(r, outcome) PROVE RowMove(r)
  BY <1>6, <1>a, <1>t DEF FinishSuccess, StageInv
<1>7. ASSUME NEW outcome \in Outcomes, FinishException(r, outcome) PROVE RowMove(r)
  BY <1>7, <1>a, <1>t DEF FinishException, StageInv
<1>8. ASSUME NEW cancelled, BodyRaises(r, cancelled) PROVE RowMove(r)
  BY <1>8 DEF BodyRaises, RowMove
<1>9. CASE BodyEnds(r) \/ HandlerCancelled(r)
  BY <1>9 DEF BodyEnds, HandlerCancelled, RowMove
<1>. QED
  BY <1>1, <1>2, <1>3, <1>4, <1>5, <1>6, <1>7, <1>8, <1>9 DEF Progress

\* What StoredForward says of one step.
Forward ==
  \A r \in Chats : stored'[r] # stored[r] =>
    \/ stored[r] = "none" /\ stored'[r] = "created"
    \/ stored[r] # "none" /\ stored'[r] \in Allowed(stored[r])

\* Every step moves the rows forward or leaves them.
LEMMA StepForward == IInv /\ [Next]_vars => Forward
<1>. SUFFICES ASSUME IInv, RunMove PROVE Forward
  BY RunMoves
<1>1. ASSUME NEW r \in Chats, Progress(r) PROVE Forward
  <2>1. RowMove(r)
    BY <1>1, ProgressWrites
  <2>. QED
    BY <2>1 DEF RowMove, Forward, IInv, RunTypeOK
<1>2. CASE stored' = stored
  BY <1>2 DEF Forward
<1>. QED
  BY <1>1, <1>2 DEF RunMove, Admit, Forget, runVars

\* A stored row never goes back, skips a state or leaves a terminal one
\* (postgres_agent_repository.py, AgentRunRepository.replace), whoever writes it
\* from however old a memory.
THEOREM RowsMoveForward == Spec => StoredForward
<1>1. IInv /\ [Next]_vars => [Forward]_vars
  BY StepForward
<1>2. Spec => [][Forward]_vars
  BY <1>1, AlwaysIInv, PTL DEF Spec
<1>. QED
  BY <1>2 DEF StoredForward, Forward
=============================================================================
