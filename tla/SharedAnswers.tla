---------------------------- MODULE SharedAnswers ----------------------------
(***************************************************************************)
(* One question asked by several requests at once, answered by one shared  *)
(* task and kept for a while:                                              *)
(*   "class"  MemoryClassificationCache (classification_cache.py), the     *)
(*            answer of the classification model to one prompt;            *)
(*   "probe"  _ProtocolProbeCache (protocol_context.py), what the adapter  *)
(*            of one bot can do;                                           *)
(*   "name"   MemberNameCache (member_cache.py), the name of a member.     *)
(* The module follows one key.  A flight is the task that works out the    *)
(* answer; its callers wait behind asyncio.shield.                         *)
(***************************************************************************)
EXTENDS Integers, Sequences, FiniteSets

CONSTANTS
  Askers,       \* requests that ask the question
  KeptFor,      \* ttl of an answer
  MaxFlights,   \* bound: flights
  MaxSessions,  \* bound: bot objects, a new one may get the id of the last one
  MaxHours      \* bound: clock

ASSUME AnswersAssumption ==
  /\ KeptFor \in Nat /\ MaxFlights \in Nat /\ MaxHours \in Nat
  /\ MaxSessions \in Nat \ {0}

VARIABLES
  service,   \* which of the three caches
  flights,   \* every flight so far
  inflight,  \* the flight in _flights or _inflight under the key, 0 for none
  kept,      \* the entry under the key
  epoch,     \* _clear_epoch, _epoch
  session,   \* the bot object that is connected
  hours,     \* the clock
  askers,    \* each request
  cleared    \* history: flights that had started at the last clear

answerVars == <<service, flights, inflight, kept, epoch, session, hours, askers, cleared>>

Services == {"class", "probe", "name"}
NoEntry  == [flight |-> 0, since |-> 0, owner |-> 0]

AnswersTypeOK ==
  /\ service \in Services /\ inflight \in 0 .. Len(flights) /\ Len(flights) <= MaxFlights
  /\ \A f \in 1 .. Len(flights) :
       /\ flights[f].state \in {"running", "ok", "failed", "unkept"}
       /\ flights[f].settled \in BOOLEAN /\ flights[f].owner \in 1 .. MaxSessions
  /\ kept.flight \in 0 .. Len(flights) /\ session \in 1 .. MaxSessions /\ hours \in 0 .. MaxHours
  /\ \A a \in Askers : askers[a].at \in {"idle", "waiting", "late", "got", "failed", "cancelled"}

AnswersInit ==
  /\ service \in Services
  /\ flights = <<>> /\ inflight = 0 /\ kept = NoEntry
  /\ epoch = 0 /\ session = 1 /\ hours = 0 /\ cleared = 0
  /\ askers = [a \in Askers |-> [at |-> "idle", flight |-> 0, owner |-> 0]]

----------------------------------------------------------------------------
Done(f) == flights[f].state # "running"

\* lookup: an entry of another bot object or past its time is no hit.
Serves(e, owner) ==
  /\ e.flight # 0
  /\ IF service = "name" THEN hours - e.since <= KeptFor ELSE hours - e.since < KeptFor
  /\ service = "probe" => e.owner = owner

\* A probe of before the last clear, or for another bot object, is not joined.
Joins(owner) ==
  /\ inflight # 0
  /\ service = "probe" => flights[inflight].epoch = epoch /\ flights[inflight].owner = owner

Becomes(a, at, f) == askers' = [askers EXCEPT ![a] = [at |-> at, flight |-> f, owner |-> session]]

\* resolve_exact, resolve, get.  A protocol action probes with force_refresh.
AskKept(a) ==
  /\ askers[a].at = "idle" /\ Serves(kept, session)
  /\ Becomes(a, "got", kept.flight)
  /\ UNCHANGED <<service, flights, inflight, kept, epoch, session, hours, cleared>>

AskFlight(a, force) ==
  /\ askers[a].at = "idle"
  /\ force => service = "probe"
  /\ force \/ ~Serves(kept, session)
  /\ kept' = IF force /\ kept.owner # session THEN kept ELSE NoEntry
  /\ IF Joins(session)
     THEN /\ Becomes(a, IF Done(inflight) THEN "late" ELSE "waiting", inflight)
          /\ UNCHANGED <<flights, inflight>>
     ELSE /\ Len(flights) < MaxFlights
          /\ flights' = Append(flights, [state |-> "running", epoch |-> epoch,
                                         owner |-> session, settled |-> FALSE])
          /\ inflight' = Len(flights) + 1
          /\ Becomes(a, "waiting", Len(flights) + 1)
  /\ UNCHANGED <<service, epoch, session, hours, cleared>>

\* mutant: what was asked before a clear is kept after it
MayKeep_AnyEpoch(f) == TRUE
MayKeep(f) == flights[f].epoch = epoch
Keep(f) == [flight |-> f, since |-> hours, owner |-> flights[f].owner]

\* _build_and_publish: from the answer of the model on, nothing suspends.
\* Blocked content and an answer that cannot be parsed raise.
Classified(f, result) ==
  /\ service = "class" /\ ~Done(f)
  /\ flights' = [flights EXCEPT ![f].state = result, ![f].settled = TRUE]
  /\ kept' = IF result = "ok" /\ MayKeep(f) THEN Keep(f) ELSE kept
  /\ inflight' = IF inflight = f THEN 0 ELSE inflight
  /\ UNCHANGED <<service, epoch, session, hours, askers, cleared>>

\* The probe or the lookup of a member ends, its callbacks still have to run.
Ends(f, result) ==
  /\ service # "class" /\ ~Done(f)
  /\ flights' = [flights EXCEPT ![f].state = result]
  /\ UNCHANGED <<service, inflight, kept, epoch, session, hours, askers, cleared>>

\* _finish_flight: a flight that was replaced keeps nothing.
ProbeSettles(f) ==
  /\ service = "probe" /\ Done(f) /\ ~flights[f].settled
  /\ flights' = [flights EXCEPT ![f].settled = TRUE]
  /\ inflight' = IF inflight = f THEN 0 ELSE inflight
  /\ kept' = IF inflight = f /\ flights[f].state = "ok" /\ MayKeep(f) THEN Keep(f) ELSE kept
  /\ UNCHANGED <<service, epoch, session, hours, askers, cleared>>

\* _remove_inflight
NameSettles(f) ==
  /\ service = "name" /\ Done(f) /\ ~flights[f].settled
  /\ flights' = [flights EXCEPT ![f].settled = TRUE]
  /\ inflight' = IF inflight = f THEN 0 ELSE inflight
  /\ UNCHANGED <<service, kept, epoch, session, hours, askers, cleared>>

\* A caller goes on.  Each caller of a name removes whatever flight is there,
\* and keeps the name itself.
Awake(a) ==
  \/ askers[a].at = "waiting" /\ Done(askers[a].flight) /\ flights[askers[a].flight].settled
  \/ askers[a].at = "late"
Wakes(a) ==
  LET f == askers[a].flight
      ok == flights[f].state = "ok"
  IN  /\ Awake(a)
      /\ askers' = [askers EXCEPT ![a].at = IF ok THEN "got" ELSE "failed"]
      /\ inflight' = IF service = "name" THEN 0 ELSE inflight
      /\ kept' = IF service = "name" /\ ok THEN Keep(f) ELSE kept
      /\ UNCHANGED <<service, flights, epoch, session, hours, cleared>>

\* The request is cancelled or reaches its classification timeout.
Leaves(a) ==
  /\ askers[a].at = "waiting"
  /\ askers' = [askers EXCEPT ![a].at = "cancelled"]
  /\ inflight' = IF service = "name" /\ Done(askers[a].flight) THEN 0 ELSE inflight
  /\ UNCHANGED <<service, flights, kept, epoch, session, hours, cleared>>

Forgets(a) ==
  /\ askers[a].at \in {"got", "failed", "cancelled"}
  /\ askers' = [askers EXCEPT ![a] = [at |-> "idle", flight |-> 0, owner |-> 0]]
  /\ UNCHANGED <<service, flights, inflight, kept, epoch, session, hours, cleared>>

\* clear: running flights go on, what they bring is not kept.
Clear ==
  /\ service # "name" /\ cleared < Len(flights)
  /\ epoch' = epoch + 1 /\ kept' = NoEntry /\ cleared' = Len(flights)
  /\ UNCHANGED <<service, flights, inflight, session, hours, askers>>

\* Entries of other keys displace this one.
Displaced ==
  /\ kept.flight # 0 /\ kept' = NoEntry
  /\ UNCHANGED <<service, flights, inflight, epoch, session, hours, askers, cleared>>

Reconnect ==
  /\ service = "probe" /\ session < MaxSessions
  /\ session' = session + 1
  /\ UNCHANGED <<service, flights, inflight, kept, epoch, hours, askers, cleared>>

Hour ==
  /\ hours < MaxHours /\ hours' = hours + 1
  /\ UNCHANGED <<service, flights, inflight, kept, epoch, session, askers, cleared>>

AnswersNext ==
  \/ Clear \/ Displaced \/ Reconnect \/ Hour
  \/ \E a \in Askers : AskKept(a) \/ Wakes(a) \/ Leaves(a) \/ Forgets(a)
                         \/ \E force \in BOOLEAN : AskFlight(a, force)
  \/ \E f \in 1 .. Len(flights) :
       \/ ProbeSettles(f) \/ NameSettles(f)
       \/ \E result \in {"ok", "failed", "unkept"} : Classified(f, result)
       \/ \E result \in {"ok", "failed"} : Ends(f, result)

AnswersSpec == AnswersInit /\ [][AnswersNext]_answerVars

----------------------------------------------------------------------------
(* Whatever a cache would serve now is the answer of a flight that          *)
(* succeeded, started after the last clear and, for a probe, asked the bot  *)
(* object that is connected.  No two flights work on the same question for  *)
(* the same bot between two clears, except for member names, whose cache    *)
(* lets a second one start; a request gets the answer for its own bot       *)
(* object and fails only if its flight failed, never because another        *)
(* request that waited for the same flight was cancelled                    *)
(* (classification_cache.py:946, protocol_context.py:165).                  *)
AnswersShared ==
  /\ Serves(kept, session) =>
       /\ flights[kept.flight].state = "ok" /\ kept.flight > cleared
       /\ service = "probe" => flights[kept.flight].owner = session
  /\ service # "name" =>
       \A f, g \in 1 .. Len(flights) :
         /\ f < g /\ flights[f].state = "running" /\ flights[g].state = "running"
         => flights[f].epoch # flights[g].epoch \/ flights[f].owner # flights[g].owner
  /\ \A a \in Askers :
       LET mine == flights[askers[a].flight]
       IN  /\ askers[a].at = "got" => mine.state = "ok"
           /\ askers[a].at = "failed" => mine.state \in {"failed", "unkept"}
           /\ service = "probe" /\ askers[a].flight # 0 => mine.owner = askers[a].owner
=============================================================================
