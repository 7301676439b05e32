-------------------------- MODULE ConfirmedActions --------------------------
(***************************************************************************)
(* Dangerous actions wait for a confirmation code: PendingActionStore      *)
(* (pending_actions.py) for tools, in memory or in Redis                   *)
(* (redis_pending_actions.py), and ProtocolPendingActionStore with its     *)
(* broker and rate limiter (protocol_broker.py) for protocol actions.      *)
(*                                                                         *)
(* A code is an id here; 24 random bits are taken not to repeat.  Each     *)
(* caller has one tool, so that caller is the slot of which only the       *)
(* newest arguments may be confirmed.  An operation on Redis reads TIME in *)
(* one step and commits its WATCH/MULTI transaction in a later one, whose  *)
(* answer may be lost; the stores in memory do both in one step.           *)
(*                                                                         *)
(* The limiter keys its windows by bot, actor, scene, tool, target and the *)
(* UTC date, so that a window ends at midnight.  Fewer keys than it can    *)
(* hold (_MAX_RATE_KEYS) are used, and every call counts as one.           *)
(***************************************************************************)
EXTENDS Integers, FiniteSets, Sequences

CONSTANTS
  Handlers,     \* tasks: tool calls and the two commands
  Callers,      \* bot, adapter, user, group, and the tool
  Effects,      \* those whose tool changes something
  Actors,       \* bound: those who ask for a protocol action
  Arguments,    \* arguments; for a protocol action, its target
  MaxEntries, MaxFailures, TTL, Window,  \* the settings of the stores
  RateLimit,    \* calls of a protocol action in a window
  MaxCodes,     \* bound: codes given out
  MaxChanges    \* bound: ticks of the clock, midnights and reloads

ASSUME ActionAssumption == {Window, MaxEntries, MaxFailures, MaxChanges} \subseteq Nat

VARIABLES
  store,      \* "memory", "redis" or "protocol"
  clock,
  day,        \* the UTC date
  generation, \* the generation of the current snapshot
  stored,     \* the actions stored
  budget,     \* failed confirmations of each caller
  handlers,   \* what each task is doing
  claims,     \* ProtocolRateLimiter._events: when the calls of a key began
  tombstone,  \* ProtocolRateLimiter._uncertain_until, 0 for none
  given,      \* how many codes were given out
  latest,     \* history: the newest code of each caller and what it was shown for
  unsure      \* history: when the calls of a key with an unknown result began,
              \* in the order in which that was learnt

limiter    == <<claims, tombstone, unsure>>
codes      == <<stored, given, latest>>
actionVars == <<store, clock, day, generation, codes, budget, handlers, limiter>>

Idle     == [at |-> "idle"]
NoBudget == [count |-> 0, until |-> 0]
NoCode   == [code |-> 0]
RateKeys == [who : Callers, target : Arguments, day : 0 .. MaxChanges]

ActionTypeOK ==
  /\ \A a \in stored : a.code \in 1 .. given /\ a.gen <= generation
  /\ Cardinality(stored) <= MaxEntries
  /\ \A c \in Callers : budget[c].count <= MaxFailures
  /\ \A h \in Handlers : handlers[h].at \in {"idle", "asked", "agreed", "calling"}
  /\ store # "protocol" => \A k \in RateKeys : claims[k] = <<>>

ActionInit ==
  /\ store \in {"memory", "redis", "protocol"}
  /\ clock = 0 /\ day = 0 /\ generation = 0
  /\ stored = {}
  /\ budget = [c \in Callers |-> NoBudget]
  /\ handlers = [h \in Handlers |-> Idle]
  /\ claims = [k \in RateKeys |-> <<>>]
  /\ tombstone = [k \in RateKeys |-> 0]
  /\ given = 0 /\ latest = [c \in Callers |-> NoCode]
  /\ unsure = [k \in RateKeys |-> <<>>]

\* What the operation takes for the present: Redis' TIME was read before.
Now(h)   == IF store = "redis" THEN handlers[h].now ELSE clock
Finish(h) == handlers' = [handlers EXCEPT ![h] = Idle]

\* An operation on a store in memory does not suspend: it is over before
\* anything else happens.
Suspended == store = "redis" \/ \A h \in Handlers : handlers[h].at # "asked"

\* A task notes the present and the generation together with what it asks.
Asked(ask) ==
  [f \in DOMAIN ask \cup {"at", "now", "gen"} |->
     CASE f = "at"  -> "asked"
       [] f = "now" -> clock
       [] f = "gen" -> IF ask.verb \in {"create", "confirm"} THEN generation ELSE 0
       [] OTHER     -> ask[f]]

Ask(h, ask) ==
  /\ handlers[h] = Idle /\ Suspended
  /\ ask.verb = "call" => store = "protocol"
  /\ ask.verb \in {"create", "call"} /\ store = "protocol" => ask.caller \in Actors
  /\ ask.verb = "create" => given < MaxCodes
  /\ handlers' = [handlers EXCEPT ![h] = Asked(ask)]
  /\ UNCHANGED <<store, clock, day, generation, codes, budget, limiter>>

-----------------------------------------------------------------------------
(* create *)

Current(h)  == {a \in stored : a.expires > Now(h)}
InSlot(h)   == {a \in Current(h) : a.caller = handlers[h].caller}
Same(h)     == {a \in InSlot(h) : a.args = handlers[h].args /\ a.gen = handlers[h].gen}
NewAction(h) == [code |-> given + 1, caller |-> handlers[h].caller,
                 args |-> handlers[h].args, gen |-> handlers[h].gen,
                 made |-> Now(h), expires |-> Now(h) + TTL]

GiveCode(h) ==
  /\ given' = given + 1
  /\ latest' = [latest EXCEPT ![handlers[h].caller] =
                  [code |-> given + 1, args |-> handlers[h].args, gen |-> handlers[h].gen]]

\* In memory the older code is withdrawn before the capacity is looked at.
CreateInMemory(h) ==
  LET others == Current(h) \ InSlot(h)
  IN  IF Same(h) # {} THEN stored' = Current(h) /\ UNCHANGED <<given, latest>>
      ELSE IF Cardinality(others) >= MaxEntries
             THEN stored' = others /\ UNCHANGED <<given, latest>>
             ELSE stored' = others \cup {NewAction(h)} /\ GiveCode(h)

\* Mutant: the code given out before stays valid.
CreateInRedis_KeepOld(h) ==
  /\ Cardinality(stored) < MaxEntries
  /\ stored' = stored \cup {NewAction(h)} /\ GiveCode(h)

\* In Redis it is withdrawn in the transaction that stores the new one, and an
\* action made after the TIME that was read is an error.
CreateInRedis(h) ==
  LET others == Current(h) \ InSlot(h)
      refuse == UNCHANGED <<stored, given, latest>>
  IN  IF \/ \E a \in stored : a.caller = handlers[h].caller /\ a.made > Now(h)
         \/ Same(h) # {}
         \/ Cardinality(others) >= MaxEntries
        THEN refuse
        ELSE stored' = others \cup {NewAction(h)} /\ GiveCode(h)

Create(h) ==
  /\ handlers[h].at = "asked" /\ handlers[h].verb = "create"
  /\ IF store = "redis" THEN CreateInRedis(h) ELSE CreateInMemory(h)
  /\ Finish(h)
  /\ UNCHANGED <<store, clock, day, generation, budget, limiter>>

-----------------------------------------------------------------------------
(* consume and cancel *)

Budget(c, now) == IF budget[c].until <= now THEN NoBudget ELSE budget[c]
\* The protocol store counts no failures.
Blocked(h) == /\ store # "protocol"
              /\ Budget(handlers[h].caller, Now(h)).count >= MaxFailures

\* Mutant: a code survives the reload of the tools it was shown for.
Meant_AnyGeneration(h) ==
  {a \in stored : /\ a.code = handlers[h].code /\ a.expires > Now(h)
                  /\ a.made <= Now(h)
                  /\ a.caller = handlers[h].caller}

Meant(h) ==
  {a \in stored : /\ a.code = handlers[h].code /\ a.expires > Now(h)
                  /\ a.made <= Now(h)
                  /\ a.caller = handlers[h].caller
                  /\ handlers[h].verb = "cancel" \/ a.gen = handlers[h].gen}
\* Expired or from another generation, it goes as well; only the code of
\* somebody else is left alone.
Withdrawn(h) ==
  {a \in stored : /\ a.code = handlers[h].code
                  /\ \/ a.expires <= Now(h) \/ a.made > Now(h)
                     \/ a.caller = handlers[h].caller}

Redeems(h) ==
  LET c == handlers[h].caller
      old == Budget(c, Now(h))
  IN  /\ stored' = stored \ Withdrawn(h)
      /\ budget' = [budget EXCEPT ![c] =
           IF Meant(h) # {} \/ store = "protocol" THEN NoBudget
           ELSE [count |-> old.count + 1,
                 until |-> IF old = NoBudget THEN Now(h) + Window ELSE old.until]]

UseUp(h) ==
  latest' = [c \in Callers |->
    IF \E a \in Meant(h) : a.code = latest[c].code THEN NoCode ELSE latest[c]]

Resolve(h) ==
  /\ handlers[h].at = "asked" /\ handlers[h].verb \in {"confirm", "cancel"}
  /\ IF Blocked(h)
       THEN Finish(h) /\ UNCHANGED <<stored, budget, latest>>
       ELSE /\ Redeems(h)
            /\ IF handlers[h].verb = "confirm" /\ Meant(h) # {}
                 THEN handlers' = [handlers EXCEPT ![h] =
                        [at |-> "agreed", caller |-> handlers[h].caller,
                         args |-> (CHOOSE a \in Meant(h) : TRUE).args]]
                 ELSE Finish(h)
            /\ UseUp(h)
  /\ UNCHANGED <<store, clock, day, generation, given, limiter>>

\* The transaction was committed, its answer lost or its task cancelled: the
\* action is gone and is not executed.
AnswerLost(h) ==
  /\ store = "redis" /\ handlers[h].at = "asked"
  /\ IF handlers[h].verb = "create"
       THEN CreateInRedis(h) /\ UNCHANGED budget
       ELSE /\ ~Blocked(h) /\ Redeems(h) /\ UseUp(h) /\ UNCHANGED given
  /\ Finish(h)
  /\ UNCHANGED <<store, clock, day, generation, limiter>>

\* Nothing was committed: Redis failed, the transaction lost every race, the
\* task was cancelled; or, after the agreement, the tool, its digest, the trust
\* or the capabilities of the bot are no longer what was confirmed.
GiveUp(h) ==
  /\ \/ handlers[h].at = "asked" /\ store = "redis"
     \/ handlers[h].at = "agreed" /\ Suspended
  /\ Finish(h)
  /\ UNCHANGED <<store, clock, day, generation, codes, budget, limiter>>

-----------------------------------------------------------------------------
(* execution *)

\* execute_custom_tool, once: whether it fails or is cancelled, nobody retries.
Execute(h) ==
  /\ handlers[h].at = "agreed" /\ store # "protocol" /\ Suspended
  /\ Finish(h)
  /\ UNCHANGED <<store, clock, day, generation, codes, budget, limiter>>

\* _key: the identity of the request, the target and the date of today.
RateKey(h) == [who |-> handlers[h].caller, target |-> handlers[h].args, day |-> day]

Recent(k) == SelectSeq(claims[k], LAMBDA t : t + Window > clock)

\* ProtocolRateLimiter.claim, which first forgets the tombstones that are over,
\* then the call of the bot's API.
CallAction(h) ==
  LET k == RateKey(h)
      closed == tombstone[k] > clock
  IN  /\ store = "protocol"
      /\ \/ handlers[h].at = "agreed" /\ Suspended
         \/ handlers[h].at = "asked" /\ handlers[h].verb = "call"
      /\ tombstone' = [q \in RateKeys |-> IF tombstone[q] > clock THEN tombstone[q] ELSE 0]
      /\ IF closed \/ Len(Recent(k)) >= RateLimit
           THEN /\ claims' = IF closed THEN claims ELSE [claims EXCEPT ![k] = Recent(k)]
                /\ Finish(h)
           ELSE /\ claims' = [claims EXCEPT ![k] = Append(Recent(k), clock)]
                /\ handlers' = [handlers EXCEPT ![h] =
                     [at |-> "calling", key |-> k, began |-> clock]]
      /\ UNCHANGED <<store, clock, day, generation, codes, budget, unsure>>

\* The bot answers, with a result or with an error that is no network error.
Answered(h) ==
  /\ handlers[h].at = "calling" /\ Suspended
  /\ Finish(h)
  /\ UNCHANGED <<store, clock, day, generation, codes, budget, limiter>>

\* Mutant: the call is not held against the next one.
Unknown_NotMarked(h) ==
  LET k == handlers[h].key
  IN  /\ handlers[h].at = "calling" /\ Suspended
      /\ unsure' = IF k.who \in Effects
                     THEN [unsure EXCEPT ![k] = Append(@, handlers[h].began)] ELSE unsure
      /\ Finish(h)
      /\ UNCHANGED <<store, clock, day, generation, codes, budget, claims, tombstone>>

\* Timeout, broken connection or cancellation: the effect, if the tool has one,
\* is unknown, and the key is closed until the claim leaves its window.
Unknown(h) ==
  LET k == handlers[h].key
  IN  /\ handlers[h].at = "calling" /\ Suspended
      /\ IF k.who \in Effects
           THEN /\ tombstone' = [tombstone EXCEPT ![k] = handlers[h].began + Window]
                /\ unsure' = [unsure EXCEPT ![k] = Append(@, handlers[h].began)]
           ELSE UNCHANGED <<tombstone, unsure>>
      /\ Finish(h)
      /\ UNCHANGED <<store, clock, day, generation, codes, budget, claims>>

-----------------------------------------------------------------------------
MayChange == Suspended /\ clock + day + generation < MaxChanges

ClockTicks ==
  /\ MayChange /\ clock' = clock + 1
  /\ UNCHANGED <<store, day, generation, codes, budget, handlers, limiter>>

Midnight ==
  /\ MayChange /\ day' = day + 1
  /\ UNCHANGED <<store, clock, generation, codes, budget, handlers, limiter>>

\* A reload publishes a snapshot: codes of the older one are refused from now on.
SnapshotChanges ==
  /\ MayChange /\ generation' = generation + 1
  /\ UNCHANGED <<store, clock, day, codes, budget, handlers, limiter>>

Wishes ==
  [verb : {"create"}, caller : Callers, args : Arguments, code : {0}]
    \cup [verb : {"confirm", "cancel"}, caller : Callers, code : 1 .. given]
    \cup [verb : {"call"}, caller : Callers, args : Arguments]

ActionNext ==
  \/ \E h \in Handlers :
       \/ \E ask \in Wishes : Ask(h, ask)
       \/ Create(h) \/ Resolve(h) \/ AnswerLost(h) \/ GiveUp(h)
       \/ Execute(h) \/ CallAction(h) \/ Answered(h) \/ Unknown(h)
  \/ ClockTicks \/ Midnight \/ SnapshotChanges

-----------------------------------------------------------------------------
\* An unknown result within its window is passed over only for a later one of the
\* same key whose call began earlier: mark_result_unknown overwrites.
PassedOver(past, i) ==
  clock < past[i] + Window => \E j \in DOMAIN past : j > i /\ past[j] + Window <= clock

\* A confirmation is good for one execution of what was shown last: the code
\* that is agreed to is the newest its caller was given, for these arguments and
\* in this generation of the snapshot, and was neither agreed to nor cancelled
\* before, whatever was lost, expired or reloaded.  And on one day no protocol
\* call of a caller to a target is begun within the window of a call of theirs
\* with an unknown effect (docs/protocol-tools.md:92, up to midnight).
NothingTwice ==
  [][\A h \in Handlers :
       /\ handlers[h].at = "asked" /\ handlers'[h].at = "agreed" =>
            latest[handlers[h].caller] =
              [code |-> handlers[h].code, args |-> handlers'[h].args, gen |-> handlers[h].gen]
       /\ handlers[h].at # "calling" /\ handlers'[h].at = "calling" =>
            LET past == unsure[handlers'[h].key]
            IN  \A i \in DOMAIN past : PassedOver(past, i)]_actionVars
=============================================================================
