---------------------------- MODULE HistoryCache ----------------------------
(***************************************************************************)
(* The cache of recent messages before the message table, for one          *)
(* conversation: AgentGenerationCoordinator.load_history and               *)
(* append_message (agent_context_runtime.py) over the memory cache         *)
(* (history_hot_cache.py) or the Redis cache (redis_history_hot_cache.py). *)
(*                                                                         *)
(* A miss hands out a token, the id of the entry it reserved; what is      *)
(* loaded from the table is published only into that entry.  An append     *)
(* replaces the entry after its commit.  A coordinator that cannot tell    *)
(* whether its append was followed by an invalidation stops using the      *)
(* cache for good.  The memory cache belongs to one generation; the key in *)
(* Redis is shared by all generations and processes.                       *)
(***************************************************************************)
EXTENDS Integers, FiniteSets

CONSTANTS
  Messages,       \* ids of the messages appended, a set of naturals
  Readers,        \* tasks that load the history
  Coordinators,   \* generations, of one or of several processes
  Home,           \* in a Redis setting, the generation each task belongs to
  Limit           \* history_limit of each reader: at most 200

VARIABLES
  backend,     \* "memory" or "redis"
  committed,   \* rows of the table
  settled,     \* appended, and nobody who trusts the cache can miss it
  entry,       \* the entry of the conversation in the cache
  trusted,     \* AgentGenerationCoordinator._cache_trusted
  reads,       \* load_history of each reader
  appends      \* append_message of each message

historyVars == <<backend, committed, settled, entry, trusted, reads, appends>>

Ids      == 1 .. Cardinality(Readers) + 2
NoToken  == 0
Absent   == [gen |-> NoToken, window |-> {}, ready |-> FALSE, older |-> FALSE]
Reserved(g) == [Absent EXCEPT !.gen = g]

\* list_recent: the newest rows, and whether there are older ones.
Newest(S, n) == {m \in S : Cardinality({k \in S : k > m}) < n}

Used  == {entry.gen} \cup {reads[r].token : r \in Readers}
\* _new_generation: 128 random bits are an id that nobody holds.
Fresh == CHOOSE g \in Ids \ Used : \A h \in Ids \ Used : g <= h

\* A reader that has got its answer; one that has not asked is "idle".
AtRest(got) == [at |-> "rest", low |-> {}, token |-> NoToken,
                view |-> {}, older |-> FALSE, got |-> got]

HistoryTypeOK ==
  /\ settled \subseteq committed /\ committed \subseteq Messages
  /\ entry \in [gen : Ids \cup {NoToken}, window : SUBSET Messages,
                ready : BOOLEAN, older : BOOLEAN]
  /\ entry.gen = NoToken => entry = Absent
  /\ \A r \in Readers :
       /\ reads[r].at \in {"idle", "rest", "lookup", "source", "publish", "recheck"}
       /\ reads[r].at \in {"publish", "recheck"} => reads[r].token # NoToken
  /\ \A m \in Messages :
       appends[m] = "invalidate" => m \in committed \ settled

HistoryInit ==
  /\ backend \in {"memory", "redis"}
  /\ committed = {} /\ settled = {} /\ entry = Absent
  /\ trusted = [c \in Coordinators |-> TRUE]
  /\ reads = [r \in Readers |-> [AtRest({}) EXCEPT !.at = "idle"]]
  /\ appends = [m \in Messages |-> "none"]

ASSUME HistoryAssumption ==
  /\ Messages \subseteq Nat /\ IsFiniteSet(Readers) /\ Limit \in [Readers -> Nat \ {0}]
  /\ Home \in [Readers \cup Messages -> Coordinators]

\* The memory cache lives in the one generation that has leases.
Of(x) == IF backend = "redis" THEN Home[x] ELSE CHOOSE c \in Coordinators : TRUE

----------------------------------------------------------------------------
(* Reading. *)

\* MemoryHistoryHotCache.lookup loads again when the window is shorter than the
\* request and there are older rows; the Redis cache serves what it has.
MemoryHit(n) == entry.ready /\ ~(Cardinality(entry.window) < n /\ entry.older)
RedisHit(n)  == entry.ready
Hit(n) == IF backend = "memory" THEN MemoryHit(n) ELSE RedisHit(n)

\* The entry a miss leaves: the present one, or a reservation of its own.
Looked == IF entry = Absent THEN Reserved(Fresh) ELSE entry

Bypass(c) == trusted' = [trusted EXCEPT ![c] = FALSE]

BeginRead(r) ==
  /\ reads[r].at = "idle"
  /\ reads' = [reads EXCEPT ![r] = [AtRest({}) EXCEPT
       !.at = IF trusted[Of(r)] THEN "lookup" ELSE "source",
       !.low = settled]]
  /\ UNCHANGED <<backend, committed, settled, entry, trusted, appends>>

Lookup(r) ==
  /\ reads[r].at = "lookup"
  /\ entry' = Looked
  /\ reads' = [reads EXCEPT ![r] =
       IF Hit(Limit[r]) THEN AtRest(Newest(entry.window, Limit[r]))
       ELSE [@ EXCEPT !.at = "source", !.token = Looked.gen]]
  /\ UNCHANGED <<backend, committed, settled, trusted, appends>>

\* Redis does not answer, or the entry does not decode.
LookupFails(r) ==
  /\ reads[r].at = "lookup" /\ backend = "redis"
  /\ Bypass(Of(r))
  /\ reads' = [reads EXCEPT ![r].at = "source"]
  /\ UNCHANGED <<backend, committed, settled, entry, appends>>

Source(r) ==
  LET view == Newest(committed, Limit[r])
  IN  /\ reads[r].at = "source"
      /\ reads' = [reads EXCEPT ![r] =
           IF trusted[Of(r)] /\ @.token # NoToken
             THEN [@ EXCEPT !.at = "publish", !.view = view,
                            !.older = view # committed]
             ELSE AtRest(view)]
      /\ UNCHANGED <<backend, committed, settled, entry, trusted, appends>>

\* Mutant: a load publishes into any empty reservation.
MayPublish_AnyToken(r) == entry # Absent /\ ~entry.ready

\* The compare-and-swap of publish: the reservation of the token, still empty.
MayPublish(r) == entry # Absent /\ entry.gen = reads[r].token /\ ~entry.ready
Filled(r) == [gen |-> reads[r].token, window |-> reads[r].view,
              ready |-> TRUE, older |-> reads[r].older]

Publish(r) ==
  /\ reads[r].at = "publish"
  /\ IF MayPublish(r)
       THEN entry' = Filled(r) /\ reads' = [reads EXCEPT ![r] = AtRest(@.view)]
       ELSE entry' = entry /\ reads' = [reads EXCEPT ![r].at = "recheck"]
  /\ UNCHANGED <<backend, committed, settled, trusted, appends>>

\* HistoryHotCacheUnavailableError: the window is too large for the memory
\* cache, or the answer of Redis was lost and the window may be there.
PublishSkipped(r) ==
  /\ reads[r].at = "publish"
  /\ entry' \in {entry} \cup
       (IF backend = "redis" /\ MayPublish(r) THEN {Filled(r)} ELSE {})
  /\ reads' = [reads EXCEPT ![r] = AtRest(@.view)]
  /\ UNCHANGED <<backend, committed, settled, trusted, appends>>

\* Another load may have published first; anything else is the end of trust.
Recheck(r) ==
  /\ reads[r].at = "recheck"
  /\ entry' = Looked
  /\ IF Hit(Limit[r]) THEN UNCHANGED trusted ELSE Bypass(Of(r))
  /\ reads' = [reads EXCEPT ![r] = AtRest(@.view)]
  /\ UNCHANGED <<backend, committed, settled, appends>>

\* Every other error of publish, and one of the second lookup.
CacheBreaks(r) ==
  /\ reads[r].at \in {"publish", "recheck"} /\ backend = "redis"
  /\ Bypass(Of(r))
  /\ reads' = [reads EXCEPT ![r] = AtRest(@.view)]
  /\ UNCHANGED <<backend, committed, settled, entry, appends>>

\* The task is cancelled, or the table cannot be read: nothing is returned.
ReadAborts(r) ==
  /\ reads[r].at \notin {"idle", "rest"}
  /\ \/ entry' = entry
     \/ /\ reads[r].at = "publish" /\ backend = "redis" /\ MayPublish(r)
        /\ entry' = Filled(r)
  /\ reads' = [reads EXCEPT ![r] = AtRest({})]
  /\ UNCHANGED <<backend, committed, settled, trusted, appends>>

----------------------------------------------------------------------------
(* Appending. *)

BeginAppend(m) ==
  /\ appends[m] = "none"
  /\ appends' = [appends EXCEPT ![m] = "commit"]
  /\ UNCHANGED <<backend, committed, settled, entry, trusted, reads>>

Over(m) == appends' = [appends EXCEPT ![m] = "over"]
\* In memory a coordinator that no longer trusts the cache is all there is; in
\* Redis the key may still serve others.
SettledAnyway(m) == settled' = settled \cup (IF backend = "memory" THEN {m} ELSE {})

Commit(m) ==
  /\ appends[m] = "commit"
  /\ committed' = committed \cup {m}
  /\ IF trusted[Of(m)]
       THEN /\ appends' = [appends EXCEPT ![m] = "invalidate"]
            /\ UNCHANGED settled
       ELSE Over(m) /\ SettledAnyway(m)
  /\ UNCHANGED <<backend, entry, trusted, reads>>

\* The transaction failed or was cancelled before its commit.
RollBack(m) ==
  /\ appends[m] = "commit"
  /\ Over(m)
  /\ UNCHANGED <<backend, committed, settled, entry, trusted, reads>>

\* AgentContextCommitUnknownError or AgentContextCleanupError: the row may be
\* there, so the coordinator stops trusting the cache.
CommitUnknown(m) ==
  /\ appends[m] = "commit"
  /\ \/ committed' = committed \cup {m} /\ SettledAnyway(m)
     \/ UNCHANGED <<committed, settled>>
  /\ Bypass(Of(m)) /\ Over(m)
  /\ UNCHANGED <<backend, entry, reads>>

\* A cancellation while the session of a confirmed commit is closed is a plain
\* CancelledError: neither an invalidation nor the end of trust follows.
CommitInterrupted(m) ==
  /\ appends[m] = "commit"
  /\ committed' = committed \cup {m}
  /\ Over(m)
  /\ UNCHANGED <<backend, settled, entry, trusted, reads>>

Invalidate(m) ==
  /\ appends[m] = "invalidate"
  /\ entry' = Reserved(Fresh)
  /\ settled' = settled \cup {m}
  /\ Over(m)
  /\ UNCHANGED <<backend, committed, trusted, reads>>

\* Redis fails or the task is cancelled there: the key may be replaced or not.
InvalidateFails(m) ==
  /\ appends[m] = "invalidate" /\ backend = "redis"
  /\ entry' \in {entry, Reserved(Fresh)}
  /\ Bypass(Of(m)) /\ Over(m)
  /\ UNCHANGED <<backend, committed, settled, reads>>

----------------------------------------------------------------------------
\* The time to live is over, or the entry is the least recently used one.
Expire ==
  /\ entry # Absent /\ entry' = Absent
  /\ UNCHANGED <<backend, committed, settled, trusted, reads, appends>>

\* A reload: the next generation begins when the leases of the last are back.
NextGeneration(c) ==
  /\ \E r \in Readers : Of(r) = c
  /\ \A r \in Readers : Of(r) = c => reads[r].at \in {"idle", "rest"}
  /\ \A m \in Messages : Of(m) = c => appends[m] \in {"none", "over"}
  /\ trusted' = [trusted EXCEPT ![c] = TRUE]
  /\ entry' = IF backend = "memory" THEN Absent ELSE entry
  /\ UNCHANGED <<backend, committed, settled, reads, appends>>

ReadStep(r) ==
  \/ Lookup(r) \/ LookupFails(r) \/ Source(r) \/ Publish(r) \/ PublishSkipped(r)
  \/ Recheck(r) \/ CacheBreaks(r) \/ ReadAborts(r)

AppendStep(m) ==
  \/ Commit(m) \/ RollBack(m) \/ CommitUnknown(m) \/ CommitInterrupted(m)
  \/ Invalidate(m) \/ InvalidateFails(m)

HistoryNext ==
  \/ \E r \in Readers : BeginRead(r) \/ ReadStep(r)
  \/ \E m \in Messages : BeginAppend(m) \/ AppendStep(m)
  \/ \E c \in Coordinators : NextGeneration(c)
  \/ Expire

HistorySpec == HistoryInit /\ [][HistoryNext]_historyVars

----------------------------------------------------------------------------
Log == INSTANCE HistoryLog WITH
  exact <- backend = "memory",
  reads <- [r \in Readers |->
              [open |-> reads[r].at \notin {"idle", "rest"},
               low |-> reads[r].low, got |-> reads[r].got]]

\* The cache is a cache: no order of misses, loads, appends, invalidations,
\* evictions and failures lets a read miss a message that was settled when it
\* began, return one that was never committed, or, from memory, return fewer
\* than it could.
ServesTheLog == Log!Spec
=============================================================================
