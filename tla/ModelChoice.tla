----------------------------- MODULE ModelChoice -----------------------------
(***************************************************************************)
(* Which model answers a request: ModelSelector (model_selector.py), the   *)
(* capability routing it may use (model_routing.py,                        *)
(* model_routing_runtime.py) and LlmPayloadMixin._prepare_model_info.      *)
(*                                                                         *)
(* Commands refresh the list of models, reload the configuration and pin a *)
(* model to a role while requests keep the settings they were admitted     *)
(* with.                                                                   *)
(***************************************************************************)
EXTENDS Integers, FiniteSets

CONSTANTS
  Chats,      \* requests
  Models,     \* positive integers, in the order get_sorted_model_names gives
  About,      \* what the operator states of each model
  Lists,      \* lists of models the services may report
  Files,      \* what an operator may write into model_config.json
  MaxSteps    \* bound: commands, refreshes and edits

Roles   == {"selected", "category", "vision", "moe"}
Nobody0 == 0

Modes   == {"off", "fixed_only", "fixed_preferred", "capability"}
Config  == [roles : [Roles -> Models \cup {Nobody0}], moe : BOOLEAN, tools : BOOLEAN,
            degraded : BOOLEAN, mode : Modes]

ASSUME ModelsAssumption ==
  Models \subseteq Nat \ {Nobody0} /\ Lists \subseteq (SUBSET Models) \ {{}} /\ Files \subseteq Config

ASSUME StepsAssumption == MaxSteps \in Nat

ASSUME AboutAssumption ==
  \A m \in Models : /\ {About[m].quality, About[m].latency, About[m].cost} \subseteq Nat
                    /\ About[m].quality <= 1000000

VARIABLES
  listed,   \* ModelSelector.models
  conf,     \* ModelSelector.model_config
  disk,     \* model_cache.json and model_config.json
  shown,    \* model_state of the current snapshot
  reload,   \* the candidate of the reload that runs, or Idle0
  commands, \* bound
  chats     \* each request

choiceVars == <<listed, conf, disk, shown, reload, commands, chats>>

Idle0 == [on |-> FALSE]

----------------------------------------------------------------------------
(* The configuration. *)

FirstOf(S) == CHOOSE m \in S : \A o \in S : m <= o

Main(models, c) == IF c.roles["selected"] \in models THEN c.roles["selected"] ELSE FirstOf(models)

\* mutant: a category model that is gone stays configured
Validated_KeepCategory(models, c) ==
  [c EXCEPT !.roles = [role \in Roles |->
     IF c.roles[role] \in models \/ role = "category" THEN c.roles[role]
     ELSE IF role = "vision" THEN Nobody0 ELSE Main(models, c)]]

\* validate_model_config: what names no model falls back or is emptied.
Validated(models, c) ==
  [c EXCEPT !.roles = [role \in Roles |->
     IF c.roles[role] \in models THEN c.roles[role]
     ELSE IF role = "vision" THEN Nobody0 ELSE Main(models, c)]]

\* `mixed` is a history bit: the list comes from a refresh that no reload has
\* validated yet.
Published(models, c, mixed) == [models |-> models, conf |-> c, mixed |-> mixed]

\* patch_current: a reload that runs no longer finds the snapshot it expects.
Patched0 ==
  /\ shown' = Published(listed, conf', shown.mixed \/ listed # shown.models)
  /\ reload' = IF reload.on THEN [reload EXCEPT !.expected = FALSE] ELSE reload

ChoiceTypeOK ==
  /\ listed \subseteq Models /\ listed # {} /\ shown.models # {} /\ commands \in 0 .. MaxSteps
  /\ \A r \in Chats : chats[r].at \in {"idle", "asked", "classified", "chosen", "refused", "failed"}

ChoiceInit ==
  /\ \E models \in Lists, c \in Files :
       /\ listed = models /\ disk = [models |-> models, conf |-> c]
       /\ conf = Validated(models, c)
       /\ shown = Published(models, conf, FALSE)
  /\ reload = Idle0 /\ commands = 0
  /\ chats = [r \in Chats |-> [at |-> "idle", pin |-> shown, caps |-> {}, model |-> Nobody0]]

Command0 == commands < MaxSteps /\ commands' = commands + 1

\* fetch_models_from_providers: the list changes under the current snapshot.
Refresh(models) ==
  /\ Command0 /\ listed' = models /\ disk' = [disk EXCEPT !.models = models]
  /\ UNCHANGED <<conf, shown, reload, chats>>

EditFile(c) ==
  /\ Command0 /\ disk' = [disk EXCEPT !.conf = c]
  /\ UNCHANGED <<listed, conf, shown, reload, chats>>

\* set_chat_model and the other setters: the name is looked up in the current
\* snapshot, the whole configuration is written, and what the selector holds
\* at that moment becomes the state of the snapshot.
SetRole(role, m) ==
  /\ Command0 /\ m \in shown.models /\ conf.roles[role] # m
  /\ conf' = [conf EXCEPT !.roles[role] = m]
  /\ disk' = [disk EXCEPT !.conf = conf']
  /\ Patched0
  /\ UNCHANGED <<listed, chats>>

\* set_moe
SetMoe ==
  /\ Command0
  /\ conf' = [conf EXCEPT !.moe = ~@]
  /\ disk' = [disk EXCEPT !.conf = conf']
  /\ Patched0
  /\ UNCHANGED <<listed, chats>>

BuildModels ==
  /\ ~reload.on
  /\ reload' = [on |-> TRUE, read |-> disk, expected |-> TRUE]
  /\ UNCHANGED <<listed, conf, disk, shown, commands, chats>>

\* The files and the current snapshot have to be those the reload began with.
CommitModels ==
  /\ reload.on /\ reload' = Idle0
  /\ IF reload.read = disk /\ reload.expected
     THEN /\ listed' = disk.models /\ conf' = Validated(disk.models, disk.conf)
          /\ shown' = Published(listed', conf', FALSE)
     ELSE UNCHANGED <<listed, conf, shown>>
  /\ UNCHANGED <<disk, commands, chats>>

----------------------------------------------------------------------------
(* Choosing. *)

Catalog0(k) == {m \in k.models : About[m].trusted}
Eligible(k, caps) ==
  {m \in Catalog0(k) :
     /\ caps \subseteq About[m].caps
     /\ About[m].fits
     /\ About[m].up \in {"available", "degraded"}
     /\ About[m].up = "degraded" => k.conf.degraded}

Rank(m) == <<IF About[m].up = "available" THEN 0 ELSE 1, -About[m].quality,
             About[m].latency, About[m].cost, m>>
Before0(x, y) == \E i \in 1 .. 5 : x[i] < y[i] /\ \A j \in 1 .. i - 1 : x[j] = y[j]
Best(S) == CHOOSE m \in S : \A o \in S \ {m} : Before0(Rank(m), Rank(o))

Routed(k, role, caps) ==
  LET fit == Eligible(k, caps)
      fixed == k.conf.roles[role]
  IN  IF k.conf.mode # "capability" /\ fixed \in fit THEN fixed
      ELSE IF k.conf.mode = "fixed_only" \/ fit = {} THEN Nobody0 ELSE Best(fit)

Pinned(k, role) == IF k.conf.roles[role] \in k.models THEN k.conf.roles[role] ELSE Nobody0
Model(k, role, caps) == IF k.conf.mode = "off" THEN Pinned(k, role) ELSE Routed(k, role, caps)

----------------------------------------------------------------------------
(* A request. *)

SetChat(r, t) ==
  /\ chats' = [chats EXCEPT ![r] = t]
  /\ UNCHANGED <<listed, conf, disk, shown, reload, commands>>

Admit0(r) == chats[r].at = "idle" /\ SetChat(r, [chats[r] EXCEPT !.at = "asked", !.pin = shown])

\* Only with MoE, tools or web search on is there a classification; its answer
\* may ask for vision and for tools, an image in the message asks for vision.
Classify(r, caps) ==
  LET t == chats[r]
      role == IF t.pin.conf.moe THEN "category" ELSE "selected"
      asks == t.pin.conf.moe \/ t.pin.conf.tools
  IN  /\ t.at = "asked"
      /\ "tools" \in caps => t.pin.conf.tools
      /\ SetChat(r, IF asks /\ Model(t.pin, role, {"json"}) = Nobody0
                    THEN [t EXCEPT !.at = "failed"]
                    ELSE [t EXCEPT !.at = "classified", !.caps = caps])

\* An image goes to the vision model before anything else.
RoleOf(t) == IF "vision" \in t.caps THEN "vision" ELSE IF t.pin.conf.moe THEN "moe" ELSE "selected"
ChooseModel(r) ==
  LET t == chats[r]
      first == Model(t.pin, RoleOf(t), t.caps)
      model == IF first = Nobody0 /\ RoleOf(t) = "moe" /\ t.pin.conf.mode = "off"
               THEN Pinned(t.pin, "selected") ELSE first
      none == IF RoleOf(t) = "vision" THEN "refused" ELSE "failed"
  IN  /\ t.at = "classified"
      /\ SetChat(r, [t EXCEPT !.at = IF model = Nobody0 THEN none ELSE "chosen",
                                !.model = model])

ChoiceNext ==
  \/ SetMoe \/ BuildModels \/ CommitModels
  \/ \E models \in Lists : Refresh(models)
  \/ \E c \in Files : EditFile(c)
  \/ \E role \in Roles, m \in Models : SetRole(role, m)
  \/ \E r \in Chats :
       \/ Admit0(r) \/ ChooseModel(r)
       \/ \E caps \in SUBSET {"vision", "tools"} : Classify(r, caps)

ChoiceSpec == ChoiceInit /\ [][ChoiceNext]_choiceVars

----------------------------------------------------------------------------
(* The model that answers a request is one its own snapshot lists.  Under   *)
(* capability routing it can do what the request needs and no other model   *)
(* that can is up while it is degraded, or as available and better, unless  *)
(* it is the one pinned to the role.  And without routing no request fails  *)
(* for want of a model, whatever was removed from the lists and the files,  *)
(* unless its settings carry a refreshed list that no reload has validated; *)
(* one that needs vision may be refused                                     *)
(* (model_selector.py:422, model_selector.py:527, model_routing.py:698).    *)
FitModel ==
  \A r \in Chats :
    LET t == chats[r]
        k == t.pin
        mine == About[t.model]
    IN  /\ t.at = "chosen" =>
             /\ t.model \in k.models
             /\ k.conf.mode # "off" =>
                  /\ t.caps \subseteq mine.caps /\ mine.fits /\ mine.trusted
                  /\ k.conf.mode = "fixed_only" => t.model = k.conf.roles[RoleOf(t)]
                  /\ \/ k.conf.mode # "capability" /\ t.model = k.conf.roles[RoleOf(t)]
                     \/ \A o \in Eligible(k, t.caps) :
                          /\ mine.up = "degraded" => About[o].up = "degraded"
                          /\ About[o].up = mine.up => About[o].quality <= mine.quality
             /\ k.conf.mode = "off" /\ "vision" \in t.caps => t.model = k.conf.roles["vision"]
        /\ t.at = "failed" => k.mixed \/ k.conf.mode # "off"
=============================================================================
