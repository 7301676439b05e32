--------------------------- MODULE PlatformServices ---------------------------
(***************************************************************************)
(* The services of the plugin that share no state with one another, side   *)
(* by side: the generated-tool lifecycle, the history cache, confirmed     *)
(* actions, the Redis gate, parallel tools, the turn of a conversation,    *)
(* the offer of tools, shared answers, the choice of a model and isolated  *)
(* runs.                                                                   *)
(*                                                                         *)
(* A step of one changes no variable of another, so that what each of them *)
(* guarantees does not depend on how their steps interleave.  A behaviour  *)
(* therefore exercises one service, the focus, and keeps the others at one *)
(* of their initial states: every behaviour of every service is among      *)
(* them.                                                                   *)
(***************************************************************************)
EXTENDS ToolLifecycle, HistoryCache, ConfirmedActions, RedisGate, ParallelTools,
        ToolTurn, ToolOffer, SharedAnswers, ModelChoice, IsolatedRun

VARIABLE focus   \* the service that this behaviour exercises

Services0 == {"lifecycle", "history", "actions", "gate", "parallel", "turn", "offer",
              "answers", "models", "runs"}

serviceVars == <<vars, historyVars, actionVars, gateVars, toolVars, turnVars, offerVars,
                 answerVars, choiceVars, runVars, focus>>

\* What is open in the initial state of a service is open only in its focus.
OpenIn(name, pin) == focus = name \/ pin
First(S) == CHOOSE x \in S : TRUE

ServicesInit ==
  /\ focus \in Services0
  /\ Init
  /\ HistoryInit /\ OpenIn("history", backend = "memory")
  /\ ActionInit /\ OpenIn("actions", store = "memory")
  /\ GateInit /\ OpenIn("gate", ~fallback)
  /\ ToolInit /\ OpenIn("parallel", graph = First({g \in Graphs : RunsInParallel(g)}))
  /\ TurnInit /\ OpenIn("turn", turn.tools)
  /\ OfferInit /\ OpenIn("offer",
       /\ catalogs = <<First({v \in DOMAIN Inventories : Publishable(Inventories[v])})>>
       /\ \A f \in DOMAIN First(Settings) : current[f] = First(Settings)[f])
  /\ AnswersInit /\ OpenIn("answers", service = "class")
  /\ ChoiceInit /\ OpenIn("models", disk = [models |-> First(Lists), conf |-> First(Files)])
  /\ RunInit /\ OpenIn("runs", \A c \in Runs : runs[c].tool = First(Loads)[c])

\* All the others stand still.
Rest(name) ==
  /\ UNCHANGED focus
  /\ name # "lifecycle" => UNCHANGED vars
  /\ name # "history" => UNCHANGED historyVars
  /\ name # "actions" => UNCHANGED actionVars
  /\ name # "gate" => UNCHANGED gateVars
  /\ name # "parallel" => UNCHANGED toolVars
  /\ name # "turn" => UNCHANGED turnVars
  /\ name # "offer" => UNCHANGED offerVars
  /\ name # "answers" => UNCHANGED answerVars
  /\ name # "models" => UNCHANGED choiceVars
  /\ name # "runs" => UNCHANGED runVars

ServicesNext ==
  \/ focus = "lifecycle" /\ Next /\ Rest("lifecycle")
  \/ focus = "history" /\ HistoryNext /\ Rest("history")
  \/ focus = "actions" /\ ActionNext /\ Rest("actions")
  \/ focus = "gate" /\ GateNext /\ Rest("gate")
  \/ focus = "parallel" /\ ToolNext /\ Rest("parallel")
  \/ focus = "turn" /\ TurnNext /\ Rest("turn")
  \/ focus = "offer" /\ OfferNext /\ Rest("offer")
  \/ focus = "answers" /\ AnswersNext /\ Rest("answers")
  \/ focus = "models" /\ ChoiceNext /\ Rest("models")
  \/ focus = "runs" /\ RunNext /\ Rest("runs")

ServicesSpec == ServicesInit /\ [][ServicesNext]_serviceVars

-----------------------------------------------------------------------------
(* Every service keeps its variables in their types; the caches, the queues  *)
(* and the stores of codes never grow beyond their limits                    *)
(* (history_hot_cache.py:448, pending_actions.py:346, redis_admission.py:534, *)
(* tool_schema_cache.py:507).                                                *)
ServicesTypeOK ==
  CASE focus = "history" -> HistoryTypeOK
    [] focus = "actions" -> ActionTypeOK
    [] focus = "gate" -> GateTypeOK
    [] focus = "parallel" -> ToolTypeOK
    [] focus = "turn" -> TurnTypeOK
    [] focus = "offer" -> OfferTypeOK
    [] focus = "answers" -> AnswersTypeOK
    [] focus = "models" -> ChoiceTypeOK
    [] focus = "runs" -> RunTypeOK
    [] OTHER -> TRUE
=============================================================================
