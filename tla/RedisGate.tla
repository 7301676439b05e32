------------------------------ MODULE RedisGate ------------------------------
(***************************************************************************)
(* Cooldowns and admission of chat requests in Redis (redis_cooldowns.py,  *)
(* redis_admission.py) with the fallbacks of redis_failure_policy.py.      *)
(*                                                                         *)
(* The leases of all processes are one value in Redis.  An attempt of an   *)
(* operation reads TIME, and later prunes, changes and writes the value in *)
(* a transaction; after a conflict the operation begins again with a new   *)
(* TIME, and nothing limits how long all its attempts take.  The answer    *)
(* may be lost, or the task cancelled.  Time is relative: a lease carries  *)
(* what it has left, an operation the age of the TIME it read last.        *)
(***************************************************************************)
EXTENDS Integers, FiniteSets, Sequences

CONSTANTS
  Requests,     \* handlers, of any process
  UserOf,       \* the user of each, the key of its admission
  Nobody,       \* the holder of a lease whose id nobody knows
  MaxActive, MaxPending, MaxPerUser,           \* RedisAdmissionSettings
  PendingTTL, ActiveTTL, Poll, Heartbeat,      \* and its times, in ticks
  CooldownTTL,
  Slowest       \* an attempt is over after so many ticks: TIME, WATCH, GET, PTTL
                \* and EXEC, each with the timeout of the socket

VARIABLES
  fallback,     \* RedisFailurePolicy: the memory fallbacks are configured
  leases,       \* the leases in Redis, in the order of their sequence numbers
  cooldowns,    \* per user the claim in Redis
  requests,     \* slot() of each request
  beats         \* its heartbeat task

gateVars == <<fallback, leases, cooldowns, requests, beats>>

Users   == {UserOf[r] : r \in Requests}
LongestTTL == IF PendingTTL > ActiveTTL THEN PendingTTL ELSE ActiveTTL

\* RedisAdmissionSettings.__post_init__
ASSUME GateAssumption ==
  /\ {MaxActive, MaxPending, MaxPerUser, PendingTTL, ActiveTTL, Poll,
      Heartbeat, CooldownTTL, Slowest} \subseteq Nat \ {0}
  /\ Nobody \notin Requests
  /\ 3 * Poll <= PendingTTL /\ 3 * Heartbeat <= ActiveTTL

Unclaimed == [owner |-> Nobody, left |-> 0]
Resting   == [at |-> "rest", age |-> 0, claim |-> "none", told |-> FALSE,
              then |-> "rest"]
NoBeat    == [at |-> "off", age |-> 0, since |-> 0]

Asking  == {"reserve", "activate", "release"}   \* an operation is under way

Lease == [owner : Requests \cup {Nobody}, user : Users, active : BOOLEAN,
          left : -Slowest .. LongestTTL]
Request == [at : Asking \cup {"rest", "wait", "run", "unsuccessful", "queue", "local"},
            age : Nat, claim : {"none", "redis", "memory"}, told : BOOLEAN,
            then : {"rest", "failed", "refused", "cancelled"}]

GateTypeOK ==
  /\ leases \in Seq(Lease)
  /\ cooldowns \in [Users -> [owner : Requests \cup {Nobody}, left : 0 .. CooldownTTL]]
  /\ requests \in [Requests -> Request]
  /\ beats \in [Requests -> [at : {"off", "sleep", "renew"}, age : Nat, since : Nat]]
  /\ \A r \in Requests : beats[r].at # "off" => requests[r].at = "run"

GateInit ==
  /\ fallback \in BOOLEAN
  /\ leases = <<>>
  /\ cooldowns = [u \in Users |-> Unclaimed]
  /\ requests = [r \in Requests |-> Resting]
  /\ beats = [r \in Requests |-> NoBeat]

Move(r, to) == requests' = [requests EXCEPT ![r].at = to, ![r].age = 0]

-----------------------------------------------------------------------------
(* The value in Redis, as an operation that read TIME age ticks ago sees it. *)

\* The leases at the given positions, in their order.
Place(at, i)   == Cardinality({j \in at : j <= i})
Picked(q, at) ==
  [k \in 1 .. Cardinality(at) |-> q[CHOOSE i \in at : Place(at, i) = k]]

Live(age)     == Picked(leases, {i \in 1 .. Len(leases) : leases[i].left + age > 0})
Active(q)     == Cardinality({i \in 1 .. Len(q) : q[i].active})
Pending(q)    == Cardinality({i \in 1 .. Len(q) : ~q[i].active})
OfUser(q, u)  == Cardinality({i \in 1 .. Len(q) : q[i].user = u})
Mine(q, r)    == {i \in 1 .. Len(q) : q[i].owner = r}
Without(q, r) == Picked(q, {i \in 1 .. Len(q) : q[i].owner # r})
Orphan(q, r)  == [i \in 1 .. Len(q) |->
                    IF q[i].owner = r THEN [q[i] EXCEPT !.owner = Nobody] ELSE q[i]]
Until(l, left) == [l EXCEPT !.left = left]

\* Written with a TIME older than that of another lease, the value would live
\* longer than the settings allow: the operation is refused.
TooLong(q, age) == \E i \in 1 .. Len(q) : q[i].left + age > LongestTTL
Written(q, age) == ~TooLong(q, age) /\ leases' = q

NewLease(r, age) == [owner |-> r, user |-> UserOf[r], active |-> FALSE,
                     left |-> PendingTTL - age]

Full(q, r) == Pending(q) >= MaxPending \/ OfUser(q, UserOf[r]) >= MaxPerUser

\* The first pending lease whose user has no active one.
Chosen(q) ==
  {i \in 1 .. Len(q) :
     LET eligible(j) == /\ ~q[j].active
                        /\ ~\E k \in 1 .. Len(q) : q[k].active /\ q[k].user = q[j].user
     IN  eligible(i) /\ \A j \in 1 .. i - 1 : ~eligible(j)}

MayActivate(q, i) == Active(q) < MaxActive /\ i \in Chosen(q)
Activated(q, i, age) ==
  [q EXCEPT ![i] = [Until(@, ActiveTTL - age) EXCEPT !.active = TRUE]]

\* A waiting lease is renewed once half of its time is over.
Waited(q, i, age) ==
  IF q[i].left + age <= PendingTTL \div 2
    THEN [q EXCEPT ![i] = Until(@, PendingTTL - age)] ELSE q

\* Mutant: a heartbeat finds its lease but does not extend it.
Renewed_NoExtension(q, i, age) == q
Renewed(q, i, age) == [q EXCEPT ![i] = Until(@, ActiveTTL - age)]

-----------------------------------------------------------------------------
(* Cooldowns *)

\* SET NX PX is one command.
Claim(r) ==
  /\ requests[r] = Resting /\ cooldowns[UserOf[r]] = Unclaimed
  /\ cooldowns' = [cooldowns EXCEPT ![UserOf[r]] =
                     [owner |-> r, left |-> CooldownTTL]]
  /\ requests' = [requests EXCEPT ![r].at = "reserve", ![r].claim = "redis"]
  /\ UNCHANGED <<fallback, leases, beats>>

\* The answer is lost, the key set or not: without a fallback a refusal, and so
\* it is when the task is cancelled.
ClaimFails(r) ==
  /\ requests[r] = Resting
  /\ \/ UNCHANGED cooldowns
     \/ /\ cooldowns[UserOf[r]] = Unclaimed
        /\ cooldowns' = [cooldowns EXCEPT ![UserOf[r]] =
                           [owner |-> Nobody, left |-> CooldownTTL]]
  /\ \/ UNCHANGED requests
     \/ fallback /\ requests' = [requests EXCEPT ![r].at = "reserve", ![r].claim = "memory"]
  /\ UNCHANGED <<fallback, leases, beats>>

\* Whatever ends without success gives its cooldown back.
\* RedisCooldownStore.release deletes the key while it holds the token of the
\* lease; a claim made in memory is given back there.
GiveBack(r) ==
  /\ requests[r].at = "unsuccessful"
  /\ LET u == UserOf[r]
         deleted == IF requests[r].claim = "redis" /\ cooldowns[u].owner = r
                      THEN [cooldowns EXCEPT ![u] = Unclaimed] ELSE cooldowns
     IN  cooldowns' \in {deleted, cooldowns}   \* Redis may fail
  /\ requests' = [requests EXCEPT ![r] = Resting]
  /\ UNCHANGED <<fallback, leases, beats>>

-----------------------------------------------------------------------------
(* Admission *)

\* AdmissionStoreError before the caller was admitted.
Refused(r) == Move(r, IF fallback THEN "queue" ELSE "unsuccessful")

Reserve(r) ==
  LET age == requests[r].age
      q == Live(age)
  IN  /\ requests[r].at = "reserve"
      /\ \/ Full(q, r) /\ Move(r, "unsuccessful") /\ UNCHANGED leases
         \/ /\ ~Full(q, r)
            /\ Written(Append(q, NewLease(r, age)), age)
            /\ Move(r, "activate")
      /\ UNCHANGED <<fallback, cooldowns, beats>>

\* The lease may have been stored: nobody knows its id.
ReserveFails(r) ==
  LET age == requests[r].age
      q == Live(age)
  IN  /\ requests[r].at = "reserve"
      /\ \/ UNCHANGED leases
         \/ ~Full(q, r) /\ Written(Append(q, [NewLease(r, age) EXCEPT !.owner = Nobody]), age)
      /\ \/ Refused(r)
         \/ Move(r, "unsuccessful")   \* cancelled, or out of time
      /\ UNCHANGED <<fallback, cooldowns, beats>>

Release(r, then) ==
  requests' = [requests EXCEPT ![r].at = "release", ![r].age = 0, ![r].then = then]

Activate(r) ==
  LET age == requests[r].age
      q == Live(age)
  IN  /\ requests[r].at = "activate"
      /\ \/ /\ Mine(q, r) = {}                       \* LOST
            /\ Release(r, "refused") /\ UNCHANGED <<leases, beats>>
         \/ \E i \in Mine(q, r) :
              \/ /\ q[i].active \/ MayActivate(q, i)
                 /\ Written(IF q[i].active THEN q ELSE Activated(q, i, age), age)
                 /\ Move(r, "run")
                 /\ beats' = [beats EXCEPT ![r] = [at |-> "sleep", age |-> 0, since |-> age]]
              \/ /\ ~q[i].active /\ ~MayActivate(q, i)
                 /\ Written(Waited(q, i, age), age)
                 /\ Move(r, "wait") /\ UNCHANGED beats
      /\ UNCHANGED <<fallback, cooldowns>>

\* No answer, or a cancellation there or between two polls.
ActivateFails(r) ==
  LET age == requests[r].age
      q == Live(age)
  IN  /\ requests[r].at \in {"activate", "wait"}
      /\ \/ UNCHANGED leases
         \/ /\ requests[r].at = "activate"
            /\ \E i \in Mine(q, r) :
                 Written(IF MayActivate(q, i) THEN Activated(q, i, age)
                         ELSE Waited(q, i, age), age)
      /\ \/ requests[r].at = "activate" /\ Release(r, "refused")
         \/ Release(r, "cancelled")
      /\ UNCHANGED <<fallback, cooldowns, beats>>

PollAgain(r) ==
  /\ requests[r].at = "wait" /\ requests[r].age = Poll
  /\ Move(r, "activate")
  /\ UNCHANGED <<fallback, leases, cooldowns, beats>>

\* The body ends, fails, is cancelled or was told to stop; the heartbeat is
\* cancelled, and a renewal it was waiting for may still be carried out.
Leave(r) ==
  /\ requests[r].at = "run"
  /\ \/ UNCHANGED leases
     \/ /\ beats[r].at = "renew"
        /\ \E i \in Mine(Live(beats[r].age), r) :
             Written(Renewed(Live(beats[r].age), i, beats[r].age), beats[r].age)
  /\ \/ ~requests[r].told /\ Release(r, "rest")
     \/ Release(r, "failed")
  /\ beats' = [beats EXCEPT ![r] = NoBeat]
  /\ UNCHANGED <<fallback, cooldowns>>

\* The lease of a body that ended well must have been there.
Released(r) ==
  LET q == Live(requests[r].age)
  IN  /\ requests[r].at = "release"
      /\ Written(Without(q, r), requests[r].age)
      /\ \/ requests[r].then = "refused" /\ Refused(r)
         \/ /\ requests[r].then = "rest" /\ Mine(q, r) # {}
            /\ requests' = [requests EXCEPT ![r] = Resting]
         \/ /\ requests[r].then # "refused"
            /\ requests[r].then = "rest" => Mine(q, r) = {}
            /\ Move(r, "unsuccessful")
      /\ UNCHANGED <<fallback, cooldowns, beats>>

\* Deleted or not; an error takes the place of the cancellation that led here,
\* and a request that was not admitted goes to the fallback.
ReleaseFails(r) ==
  /\ requests[r].at = "release"
  /\ \/ leases' = Orphan(leases, r)
     \/ Written(Without(Live(requests[r].age), r), requests[r].age)
  /\ \/ Move(r, "unsuccessful")
     \/ requests[r].then \in {"refused", "cancelled"} /\ Refused(r)
  /\ UNCHANGED <<fallback, cooldowns, beats>>

\* A WatchError: somebody wrote the value, the model does not ask who.
TryAgain(r) ==
  /\ requests[r].at \in Asking /\ requests[r].age > 0
  /\ Move(r, requests[r].at)
  /\ UNCHANGED <<fallback, leases, cooldowns, beats>>

-----------------------------------------------------------------------------
(* The heartbeat *)

BeatDue(r) ==
  /\ beats[r].at = "sleep" /\ beats[r].age = Heartbeat
  /\ beats' = [beats EXCEPT ![r] = [at |-> "renew", age |-> 0, since |-> @.since]]
  /\ UNCHANGED <<fallback, leases, cooldowns, requests>>

Renew(r) ==
  LET age == beats[r].age
      q == Live(age)
  IN  /\ beats[r].at = "renew"
      /\ \E i \in Mine(q, r) : q[i].active /\ Written(Renewed(q, i, age), age)
      /\ beats' = [beats EXCEPT ![r] = [at |-> "sleep", age |-> 0, since |-> age]]
      /\ UNCHANGED <<fallback, cooldowns, requests>>

RenewAgain(r) ==
  /\ beats[r].at = "renew" /\ beats[r].age > 0
  /\ beats' = [beats EXCEPT ![r].age = 0]
  /\ UNCHANGED <<fallback, leases, cooldowns, requests>>

\* The lease is gone, or Redis gave no answer: the request is cancelled.
BeatFails(r) ==
  LET age == beats[r].age
      q == Live(age)
  IN  /\ beats[r].at = "renew"
      /\ \/ UNCHANGED leases
         \/ \E i \in Mine(q, r) : Written(Renewed(q, i, age), age)
      /\ requests' = [requests EXCEPT ![r].told = TRUE]
      /\ beats' = [beats EXCEPT ![r] = NoBeat]
      /\ UNCHANGED <<fallback, cooldowns>>

-----------------------------------------------------------------------------
(* The AdmissionController of the fallback, which ChatGate models in full. *)

Locals == {r \in Requests : requests[r].at = "local"}

EnterLocally(r) ==
  /\ requests[r].at = "queue"
  /\ Cardinality(Locals) < MaxActive
  /\ \A s \in Locals : UserOf[s] # UserOf[r]
  /\ Move(r, "local")
  /\ UNCHANGED <<fallback, leases, cooldowns, beats>>

\* It ends well or not, gives up waiting, or is rejected by the local queue.
LeaveLocally(r) ==
  /\ \/ /\ requests[r].at = "local"
        /\ requests' = [requests EXCEPT ![r] = Resting]
     \/ requests[r].at \in {"local", "queue"} /\ Move(r, "unsuccessful")
  /\ UNCHANGED <<fallback, leases, cooldowns, beats>>

-----------------------------------------------------------------------------
\* Time passes while no attempt has reached its timeout and no timer is due.
TimePasses ==
  /\ \A r \in Requests :
       /\ requests[r].at \in Asking => requests[r].age < Slowest
       /\ requests[r].at = "wait" => requests[r].age < Poll
       /\ beats[r].at = "renew" => beats[r].age < Slowest
       /\ beats[r].at = "sleep" => beats[r].age < Heartbeat
  /\ requests' = [r \in Requests |->
       IF requests[r].at \in Asking \cup {"wait"}
         THEN [requests[r] EXCEPT !.age = @ + 1] ELSE requests[r]]
  /\ beats' = [r \in Requests |->
       IF beats[r].at = "off" THEN NoBeat
       ELSE [beats[r] EXCEPT !.age = @ + 1,
                             !.since = IF @ < ActiveTTL THEN @ + 1 ELSE @]]
  /\ leases' = Picked([i \in 1 .. Len(leases) |-> Until(leases[i], leases[i].left - 1)],
                      {i \in 1 .. Len(leases) : leases[i].left - 1 > -Slowest})
  /\ cooldowns' = [u \in Users |->
       IF cooldowns[u].left <= 1 THEN Unclaimed
       ELSE [cooldowns[u] EXCEPT !.left = @ - 1]]
  /\ UNCHANGED fallback

GateNext ==
  \/ \E r \in Requests :
       \/ Claim(r) \/ ClaimFails(r) \/ GiveBack(r)
       \/ Reserve(r) \/ ReserveFails(r) \/ Activate(r) \/ ActivateFails(r)
       \/ PollAgain(r) \/ Leave(r) \/ Released(r) \/ ReleaseFails(r) \/ TryAgain(r)
       \/ BeatDue(r) \/ Renew(r) \/ RenewAgain(r) \/ BeatFails(r)
       \/ EnterLocally(r) \/ LeaveLocally(r)
  \/ TimePasses

-----------------------------------------------------------------------------
\* The requests that run and were not told to stop, and the TIME at which their
\* lease was extended last is not older than the lease.  The code keeps no such
\* age: since is there for this property.
Running  == {r \in Requests : requests[r].at = "run" /\ ~requests[r].told}
Entitled == {r \in Running : beats[r].since < ActiveTTL}

\* However late, lost, repeated or overlapping the operations are, the requests
\* whose own last answer still covers them are never more than the limit, nor two
\* of one user.  A request whose renewal comes too late loses this cover and may
\* for a while run beside the one that took its place, but no answer covers it
\* again beside that one.  And a claim in Redis is over only when its time is, or
\* its own request ended without success: a late release takes no newer claim.
LeasesExclude ==
  [][/\ Cardinality(Entitled') <= MaxActive
     /\ \A r, s \in Entitled' : UserOf[r] = UserOf[s] => r = s
     /\ \A u \in Users :
          cooldowns'[u].owner # cooldowns[u].owner =>
            \/ cooldowns[u].left <= 1
            \/ requests[cooldowns[u].owner].at = "unsuccessful"]_gateVars
=============================================================================
