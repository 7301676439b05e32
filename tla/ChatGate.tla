------------------------------- MODULE ChatGate -------------------------------
(***************************************************************************)
(* The way of a chat request through handle_llm (chat_runtime.py): the     *)
(* cooldown of its user (MemoryCooldownStore over BoundedValueStore), the  *)
(* admission gate (AdmissionController), the registry of requests that an  *)
(* administrator can stop (request_manager.py), its deadline, and the way  *)
(* back out on each of its ends.                                           *)
(*                                                                         *)
(* All of it runs on one event loop: what happens between two real         *)
(* suspensions is one action.  The locks of the gate and of the cooldown   *)
(* store are never held across a suspension, so taking them is none.  A    *)
(* waiter of the gate's condition is "asleep" until notify_all makes it    *)
(* "woken"; it checks its predicate again when the loop gets to it.        *)
(***************************************************************************)
EXTENDS Integers, Sequences, FiniteSets

CONSTANTS
  Requests,   \* messages addressed to the bot
  Users, UserOf,
  EventTime,  \* request -> the time its message carries
  Keys,       \* keys of the cooldown mapping
  ClaimKey,   \* user -> the key handle_llm claims (the raw user id)
  ResetKey,   \* user -> the key the reset command clears (the id as text)
  None,
  Cooldown,   \* cd_seconds
  TTL,        \* user_history_expire_seconds
  Settings,   \* bound: the admission settings an administrator puts in force, in order
  MaxTime     \* bound: the clock

Outcomes == {"success", "failed", "cancelled", "timeout", "rejected", "refused"}

ASSUME ConstantsAssumption ==
  /\ UserOf \in [Requests -> Users]
  /\ IsFiniteSet(Requests)
  /\ EventTime \in [Requests -> (Cooldown..MaxTime) \ {0}]   \* seconds since 1970
  /\ ClaimKey \in [Users -> Keys] /\ ResetKey \in [Users -> Keys]
  /\ \A u, v \in Users : u # v => {ClaimKey[u], ResetKey[u]} \cap {ClaimKey[v], ResetKey[v]} = {}
  /\ Cooldown \in Nat /\ TTL \in Nat /\ MaxTime \in Nat /\ Cooldown <= MaxTime
  /\ Settings # << >> /\ Settings \in Seq([active : Nat \ {0}, pending : Nat, perUser : Nat \ {0}])
  /\ None \notin Requests \cup Nat \cup Outcomes

VARIABLES
  now,                  \* the clock at the latest claim
  values, seen, owner,  \* the cooldown: claimed time, last touch and claim per key
  setting,              \* index of the admission settings in force
  gates, gate,          \* the controllers in use; the one a request is in, or 0
  registry,             \* _active_requests
  pc, outcome,          \* where a request is and how it is ending
  claimed,              \* history: the clock at a request's claim, or None
  excused               \* users who asked for, or got, a reset of their cooldown

cooldown == <<values, seen, owner>>
vars == <<now, cooldown, setting, gates, gate, registry, pc, outcome, claimed, excused>>

Waiting  == {"asleep", "woken"}
Holding  == {"leasing", "running", "finishing", "closing"}
Places   == {"new", "claimed", "settling", "done"} \cup Waiting \cup Holding
Stopped  == {"cancelled", "timeout"}

limits == Settings[setting]

Key(r)  == ClaimKey[UserOf[r]]
Gate(r) == gates[gate[r]]

NewGate(l) == [limit |-> l, active |-> 0, pending |-> 0,
               count |-> [u \in Users |-> 0], keys |-> {}]

Init ==
  /\ now = Cooldown
  /\ values = [k \in Keys |-> None]
  /\ seen = [k \in Keys |-> 0]
  /\ owner = [k \in Keys |-> None]
  /\ setting = 1
  /\ gates = << >>
  /\ gate = [r \in Requests |-> 0]
  /\ registry = {}
  /\ pc = [r \in Requests |-> "new"]
  /\ outcome = [r \in Requests |-> None]
  /\ claimed = [r \in Requests |-> None]
  /\ excused = {}

-----------------------------------------------------------------------------
(* The cooldown. *)

\* BoundedValueStore drops what was not touched for longer than the TTL.
Present(k, t) == values[k] # None /\ t - seen[k] <= TTL

Previous(k, t) == IF Present(k, t) THEN values[k] ELSE 0

\* Mutant: the last second of the cooldown is given away.
CoolingDown_OffByOne(r, t) == EventTime[r] - Previous(Key(r), t) < Cooldown - 1

CoolingDown(r, t) == EventTime[r] - Previous(Key(r), t) < Cooldown

\* claim, at a time t after the message: looking at the owners touches their
\* values and drops the stale ones.  The clock matters to nothing else, since
\* every other touch leaves the value 0 that a missing one stands for.
Claim(r) ==
  /\ pc[r] = "new"
  /\ \E t \in now..MaxTime :
       LET kept == [k \in Keys |-> IF Present(k, t) THEN values[k] ELSE None]
           own(k) == owner[k] # None /\ kept[k] = EventTime[owner[k]]
       IN /\ t >= EventTime[r]
          /\ now' = t
          /\ seen' = [k \in Keys |-> IF own(k) \/ k = Key(r) THEN t ELSE seen[k]]
          /\ values' = [kept EXCEPT ![Key(r)] = IF CoolingDown(r, t) THEN Previous(Key(r), t)
                                                ELSE EventTime[r]]
          /\ owner' = [k \in Keys |-> IF k = Key(r) /\ ~CoolingDown(r, t) THEN r
                                      ELSE IF own(k) THEN owner[k] ELSE None]
          /\ pc' = [pc EXCEPT ![r] = IF CoolingDown(r, t) THEN "done" ELSE "claimed"]
          /\ outcome' = [outcome EXCEPT ![r] = IF CoolingDown(r, t) THEN "refused" ELSE None]
          /\ claimed' = [claimed EXCEPT ![r] = t]
  /\ UNCHANGED <<setting, gates, gate, registry, excused>>

\* Mutant: a lease is released whoever holds the claim by now.
OwnsClaim_AnyLease(r) == owner[Key(r)] # None

\* The token of the lease is the one that was stored last.
OwnsClaim(r) == owner[Key(r)] = r

ReleaseClaim(r) ==
  IF OwnsClaim(r)
    THEN /\ values' = [values EXCEPT ![Key(r)] = 0]
         /\ owner' = [owner EXCEPT ![Key(r)] = None]
         /\ UNCHANGED seen
    ELSE UNCHANGED cooldown

\* The user's own reset command.
ResetUser(u) ==
  /\ values' = [values EXCEPT ![ResetKey[u]] = 0]
  /\ owner' = [owner EXCEPT ![ResetKey[u]] = None]
  /\ excused' = excused \cup {u}
  /\ UNCHANGED <<now, seen, setting, gates, gate, registry, pc, outcome, claimed>>

\* The administrator's reset of everybody.
ResetAll ==
  /\ values' = [k \in Keys |-> None]
  /\ owner' = [k \in Keys |-> None]
  /\ excused' = Users
  /\ UNCHANGED <<now, seen, setting, gates, gate, registry, pc, outcome, claimed>>

-----------------------------------------------------------------------------
(* The admission gate. *)

\* notify_all of gate g, with request r moving on to its next place.
NotifyAll(g, r, next) ==
  pc' = [q \in Requests |-> IF q = r THEN next
                            ELSE IF pc[q] = "asleep" /\ gate[q] = g THEN "woken" ELSE pc[q]]

CanActivate(g, u) == g.active < g.limit.active /\ u \notin g.keys

Activated(g, u) == [g EXCEPT !.active = @ + 1, !.keys = @ \cup {u}]

\* What the operations make of a controller: a place in the queue or a slot is
\* reserved at once, a waiter takes a slot, a waiter leaves, a slot is left.
Sleep(g, u)  == [g EXCEPT !.count[u] = @ + 1, !.pending = @ + 1]
Take(g, u)   == Activated([g EXCEPT !.count[u] = @ + 1], u)
Resume(g, u) == Activated([g EXCEPT !.pending = @ - 1], u)
Quit(g, u)   == [g EXCEPT !.pending = @ - 1, !.count[u] = @ - 1]
Free(g, u)   == [g EXCEPT !.active = @ - 1, !.keys = @ \ {u}, !.count[u] = @ - 1]

Idle(n) == gates[n].active = 0 /\ gates[n].pending = 0

\* Mutant: changed settings take effect at once.
StaleGate_Busy == gates = << >> \/ gates[Len(gates)].limit # limits

\* get_llm_controller makes a new controller only when the last one is idle.
StaleGate ==
  \/ gates = << >>
  \/ gates[Len(gates)].limit # limits /\ Idle(Len(gates))

\* get_llm_controller, _reserve and the first check of the predicate.  A
\* controller that nobody is in is forgotten when a new one is made.
Enter(r) ==
  /\ pc[r] = "claimed"
  /\ LET u == UserOf[r]
         all == IF ~StaleGate THEN gates
                ELSE IF gates # << >> /\ Idle(Len(gates)) THEN [gates EXCEPT ![Len(gates)] = NewGate(limits)]
                ELSE Append(gates, NewGate(limits))
         n == Len(all)
         g == all[n]
     IN IF g.pending >= g.limit.pending \/ g.count[u] >= g.limit.perUser
          THEN /\ gates' = all
               /\ pc' = [pc EXCEPT ![r] = "settling"]
               /\ outcome' = [outcome EXCEPT ![r] = "rejected"]
               /\ UNCHANGED gate
          ELSE /\ gates' = [all EXCEPT ![n] = IF CanActivate(g, u) THEN Take(g, u) ELSE Sleep(g, u)]
               /\ gate' = [gate EXCEPT ![r] = n]
               /\ pc' = [pc EXCEPT ![r] = IF CanActivate(g, u) THEN "leasing" ELSE "asleep"]
               /\ UNCHANGED outcome
  /\ UNCHANGED <<now, cooldown, setting, registry, claimed, excused>>

\* A woken waiter checks its predicate again.
Retry(r) ==
  /\ pc[r] = "woken"
  /\ IF CanActivate(Gate(r), UserOf[r])
       THEN /\ gates' = [gates EXCEPT ![gate[r]] = Resume(@, UserOf[r])]
            /\ pc' = [pc EXCEPT ![r] = "leasing"]
       ELSE /\ pc' = [pc EXCEPT ![r] = "asleep"]
            /\ UNCHANGED gates
  /\ UNCHANGED <<now, cooldown, setting, gate, registry, outcome, claimed, excused>>

\* Mutant: the user's count is not given back.
GiveUp_KeepsCount(r) ==
  /\ pc[r] \in Waiting
  /\ gates' = [gates EXCEPT ![gate[r]].pending = @ - 1]
  /\ NotifyAll(gate[r], r, "settling")
  /\ gate' = [gate EXCEPT ![r] = 0]
  /\ outcome' = [outcome EXCEPT ![r] = "timeout"]
  /\ UNCHANGED <<now, cooldown, setting, registry, claimed, excused>>

\* The deadline passes while the request waits: _unreserve.
GiveUp(r) ==
  /\ pc[r] \in Waiting
  /\ gates' = [gates EXCEPT ![gate[r]] = Quit(@, UserOf[r])]
  /\ NotifyAll(gate[r], r, "settling")
  /\ gate' = [gate EXCEPT ![r] = 0]
  /\ outcome' = [outcome EXCEPT ![r] = "timeout"]
  /\ UNCHANGED <<now, cooldown, setting, registry, claimed, excused>>

\* Mutant: the slot was entered without a note of it, so _unreserve runs.
Release_NotActivated(r) ==
  /\ pc[r] = "closing"
  /\ gates' = [gates EXCEPT ![gate[r]].pending = @ - 1, ![gate[r]].count[UserOf[r]] = @ - 1]
  /\ NotifyAll(gate[r], r, "settling")
  /\ gate' = [gate EXCEPT ![r] = 0]
  /\ UNCHANGED <<now, cooldown, setting, registry, outcome, claimed, excused>>

\* Mutant: one waiter is notified, whichever it is.
Release_NotifyOne(r) ==
  /\ pc[r] = "closing"
  /\ gates' = [gates EXCEPT ![gate[r]] = Free(@, UserOf[r])]
  /\ LET asleep == {q \in Requests : pc[q] = "asleep" /\ gate[q] = gate[r]}
     IN \/ asleep = {} /\ pc' = [pc EXCEPT ![r] = "settling"]
        \/ \E q \in asleep : pc' = [pc EXCEPT ![r] = "settling", ![q] = "woken"]
  /\ gate' = [gate EXCEPT ![r] = 0]
  /\ UNCHANGED <<now, cooldown, setting, registry, outcome, claimed, excused>>

\* The end of the slot: _release.
Release(r) ==
  /\ pc[r] = "closing"
  /\ gates' = [gates EXCEPT ![gate[r]] = Free(@, UserOf[r])]
  /\ NotifyAll(gate[r], r, "settling")
  /\ gate' = [gate EXCEPT ![r] = 0]
  /\ UNCHANGED <<now, cooldown, setting, registry, outcome, claimed, excused>>

-----------------------------------------------------------------------------
(* Inside the slot. *)

\* host.lease and register_request
Lease(r) ==
  /\ pc[r] = "leasing"
  /\ pc' = [pc EXCEPT ![r] = "running"]
  /\ registry' = registry \cup {r}
  /\ UNCHANGED <<now, cooldown, setting, gates, gate, outcome, claimed, excused>>

\* No snapshot, no generation resources, or a generation that moved on.
LeaseFails(r) ==
  /\ pc[r] = "leasing"
  /\ pc' = [pc EXCEPT ![r] = "closing"]
  /\ outcome' = [outcome EXCEPT ![r] = "failed"]
  /\ UNCHANGED <<now, cooldown, setting, gates, gate, registry, claimed, excused>>

\* get_llm_chat returns or raises.
Conclude(r) ==
  /\ pc[r] = "running"
  /\ pc' = [pc EXCEPT ![r] = "finishing"]
  /\ \E o \in {"success", "failed"} : outcome' = [outcome EXCEPT ![r] = o]
  /\ UNCHANGED <<now, cooldown, setting, gates, gate, registry, claimed, excused>>

\* cancel_request: a second cancellation is swallowed by settle_awaitable.
Cancel(r) ==
  /\ r \in registry
  /\ outcome[r] \notin Stopped
  /\ pc' = [pc EXCEPT ![r] = "finishing"]
  /\ outcome' = [outcome EXCEPT ![r] = "cancelled"]
  /\ UNCHANGED <<now, cooldown, setting, gates, gate, registry, claimed, excused>>

\* The deadline of the request, between its admission and the end of its slot.
Expire(r) ==
  /\ pc[r] \in Holding
  /\ outcome[r] \notin Stopped
  /\ outcome' = [outcome EXCEPT ![r] = "timeout"]
  /\ pc' = [pc EXCEPT ![r] = CASE @ = "leasing" -> "closing"
                               [] @ = "running" -> "finishing"
                               [] OTHER -> @]
  /\ UNCHANGED <<now, cooldown, setting, gates, gate, registry, claimed, excused>>

\* unregister_request; the lease of the generation is given back next.
Unregister(r) ==
  /\ pc[r] = "finishing"
  /\ registry' = registry \ {r}
  /\ pc' = [pc EXCEPT ![r] = "closing"]
  /\ UNCHANGED <<now, cooldown, setting, gates, gate, outcome, claimed, excused>>

\* Mutant: a cancelled request keeps its claim.
Settle_NotCancelled(r) ==
  /\ pc[r] = "settling"
  /\ IF outcome[r] \in {"success", "cancelled"} THEN UNCHANGED cooldown ELSE ReleaseClaim(r)
  /\ pc' = [pc EXCEPT ![r] = "done"]
  /\ UNCHANGED <<now, setting, gates, gate, registry, outcome, claimed, excused>>

\* Every end but a successful one gives the cooldown back.
Settle(r) ==
  /\ pc[r] = "settling"
  /\ IF outcome[r] = "success" THEN UNCHANGED cooldown ELSE ReleaseClaim(r)
  /\ pc' = [pc EXCEPT ![r] = "done"]
  /\ UNCHANGED <<now, setting, gates, gate, registry, outcome, claimed, excused>>

-----------------------------------------------------------------------------
ChangeLimits ==
  /\ setting < Len(Settings)
  /\ setting' = setting + 1
  /\ UNCHANGED <<now, cooldown, gates, gate, registry, pc, outcome, claimed, excused>>

Step(r) ==
  \/ Claim(r) \/ Enter(r) \/ Retry(r) \/ Lease(r) \/ LeaseFails(r)
  \/ Unregister(r) \/ Release(r) \/ Settle(r)

End(r) == Conclude(r) \/ Cancel(r) \/ Expire(r)

Next ==
  \/ \E r \in Requests : Step(r) \/ End(r) \/ GiveUp(r)
  \/ \E u \in Users : ResetUser(u)
  \/ ResetAll \/ ChangeLimits

Spec == Init /\ [][Next]_vars

-----------------------------------------------------------------------------
(* Properties. *)

Limit == [active : Nat, pending : Nat, perUser : Nat]

\* Every variable holds a value of its type.
TypeOK ==
  /\ now \in 0..MaxTime
  /\ values \in [Keys -> Nat \cup {None}] /\ seen \in [Keys -> Nat]
  /\ owner \in [Keys -> Requests \cup {None}]
  /\ setting \in 1..Len(Settings)
  /\ gates \in Seq([limit : Limit, active : Nat, pending : Nat,
                     count : [Users -> Nat], keys : SUBSET Users])
  /\ gate \in [Requests -> 0..Len(gates)]
  /\ registry \subseteq Requests
  /\ pc \in [Requests -> Places]
  /\ outcome \in [Requests -> Outcomes \cup {None}]
  /\ claimed \in [Requests -> 0..MaxTime \cup {None}]
  /\ excused \subseteq Users

In(n, places) == {r \in Requests : gate[r] = n /\ pc[r] \in places}

\* Over all controllers ever made, at most one is in use, no user has two
\* requests in a slot, and no more hold one than that controller allows.
SlotsBounded ==
  LET holding == {r \in Requests : pc[r] \in Holding}
  IN /\ \A q, r \in Requests : pc[q] \in Waiting \cup Holding /\ pc[r] \in Waiting \cup Holding
                               => gate[q] = gate[r]
     /\ \A q, r \in holding : q # r => UserOf[q] # UserOf[r]
     /\ \A r \in holding : Cardinality(holding) <= Gate(r).limit.active

\* On every path out of the gate (answer, failure, cancellation, deadline, with
\* or without a slot) the counters of AdmissionController stay the numbers of
\* requests that wait in it and hold a slot of it; none leaks.  And switching
\* the settings while requests run never adds up the limits of two controllers
\* (admission.py:143).
GateCountsMatch ==
  /\ SlotsBounded
  /\ \A n \in 1..Len(gates) :
      /\ gates[n].pending = Cardinality(In(n, Waiting))
      /\ gates[n].active = Cardinality(In(n, Holding))
      /\ gates[n].keys = {UserOf[r] : r \in In(n, Holding)}
      /\ \A u \in Users : gates[n].count[u] =
           Cardinality({r \in In(n, Waiting \cup Holding) : UserOf[r] = u})

\* No request sleeps on the condition of the gate while its predicate is true.
NoLostWakeup ==
  \A r \in Requests : pc[r] = "asleep" => ~CanActivate(Gate(r), UserOf[r])

\* A request that was cancelled, timed out, was rejected or failed does not leave
\* its user in a cooldown of its making.
CooldownGivenBack ==
  \A r \in Requests : pc[r] = "done" /\ outcome[r] # "success" => owner[Key(r)] # r

\* A claim is taken back only by the request that made it, in the step in which
\* it settles an end that was no success, or by a reset of this very user; a
\* late release never takes the claim of a newer request, not even after a reset
\* in between (CooldownLease, MemoryCooldownStore.release).
NoForeignRelease ==
  [][\A k \in Keys :
       owner[k] # None /\ values[k] \notin {None, 0} /\ values'[k] = 0
         => \/ /\ pc[owner[k]] = "settling" /\ pc'[owner[k]] = "done"
               /\ outcome[owner[k]] # "success"
            \/ \E u \in Users : k = ResetKey[u] /\ ResetUser(u)]_vars

Failed == {"failed", "cancelled", "timeout", "rejected"}

Answered(q, r) ==
  /\ q # r /\ UserOf[q] = UserOf[r] /\ UserOf[q] \notin excused
  /\ outcome[q] = "success" /\ outcome[r] = "success"
  /\ EventTime[q] <= EventTime[r]

\* Giving back the claim of a message forgets the claims before it.
ForgottenByFailure(r) ==
  \E m \in Requests : UserOf[m] = UserOf[r] /\ outcome[m] \in Failed /\ EventTime[m] > EventTime[r]

\* The store may have dropped the earlier claim by the time of the later one.
ForgottenByStore(q, r) == claimed[q] - claimed[r] > TTL \/ claimed[r] - claimed[q] > TTL

\* Two messages of a user are not both answered within the cooldown of the first,
\* in whatever order they reach the gate, unless the user was reset, a message
\* later than both failed, or the store keeps nothing for as long as lies between
\* their claims; and a message is refused only for an earlier claim of the same
\* user, for a message less than the cooldown older than it.
CooldownHolds ==
  /\ \A q, r \in Requests :
       Answered(q, r) => \/ EventTime[r] - EventTime[q] >= Cooldown
                         \/ ForgottenByFailure(r)
                         \/ ForgottenByStore(q, r)
  /\ \A r \in Requests : outcome[r] = "refused" =>
       \E q \in Requests \ {r} :
         /\ UserOf[q] = UserOf[r] /\ outcome[q] # "refused" /\ claimed[q] # None
         /\ claimed[q] <= claimed[r] /\ EventTime[r] - EventTime[q] < Cooldown

\* docs/configuration.md:140: after taking a conversation a user is in a cooldown
\* of cd_seconds, however long the store keeps what nobody touches.
CooldownIsFull ==
  \A q, r \in Requests :
    Answered(q, r) => EventTime[r] - EventTime[q] >= Cooldown \/ ForgottenByFailure(r)

\* docs/commands.md: the reset command clears the cooldown of its user.
ResetClears ==
  [][\A u \in Users : u \notin excused /\ u \in excused' => values'[ClaimKey[u]] \in {0, None}]_vars
=============================================================================
