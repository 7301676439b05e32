--------------------------- MODULE ChatGateProofs ---------------------------
(***************************************************************************)
(* What the admission gate and the cooldown promise, for every finite set  *)
(* of requests, every users, keys, settings and clocks.                    *)
(*                                                                         *)
(* Three invariants.  GateInv: one controller is in use, and its counters  *)
(* fit the requests that wait in it and hold a slot of it (Fits); with     *)
(* Full it says that nobody sleeps next to a free slot.  ClaimInv: whoever *)
(* owns a claim has made it and has not failed.  WinnerInv: the claims     *)
(* granted to one user are a cooldown apart, unless a later one failed,    *)
(* for the claimed time or the failed message stands in for the older ones.*)
(***************************************************************************)
EXTENDS ChatGate, FiniteSetTheorems, SequenceTheorems, TLAPS

GateRecord == [limit : Limit, active : Nat, pending : Nat,
               count : [Users -> Nat], keys : SUBSET Users]

-----------------------------------------------------------------------------
(* A controller, the requests W that wait in it and the requests H that      *)
(* hold a slot of it.                                                        *)

OfUser(S, u) == {r \in S : UserOf[r] = u}
Counts(c, S) == \A u \in Users : c[u] = Cardinality(OfUser(S, u))
UsersOf(S)   == {UserOf[r] : r \in S}
Apart(S)     == \A q, r \in S : q # r => UserOf[q] # UserOf[r]

Fits(g, W, H) ==
  /\ g.pending = Cardinality(W)
  /\ g.active = Cardinality(H)
  /\ g.active <= g.limit.active
  /\ g.keys = UsersOf(H)
  /\ Counts(g.count, W \cup H)
  /\ Apart(H)

LEMMA Finite == ASSUME NEW S \in SUBSET Requests
                PROVE  IsFiniteSet(S) /\ Cardinality(S) \in Nat
  BY ConstantsAssumption, FS_Subset, FS_CardinalityType

\* One request more, or one less, in a set of requests.
LEMMA CardPlus == ASSUME NEW S \in SUBSET Requests, NEW r \in Requests, r \notin S
                  PROVE  Cardinality(S \cup {r}) = Cardinality(S) + 1
  BY Finite, FS_AddElement

LEMMA CardMinus == ASSUME NEW S \in SUBSET Requests, NEW r \in S
                   PROVE  Cardinality(S \ {r}) = Cardinality(S) - 1 /\ Cardinality(S) >= 1
<1>1. Cardinality(S \ {r}) = Cardinality(S) - 1
  BY Finite, FS_RemoveElement
<1>2. Cardinality(S) # 0
  BY Finite, FS_EmptySet
<1>. QED
  BY <1>1, <1>2, Finite

\* The count of one user goes with the request, those of the others stay.
LEMMA UserPlus ==
  ASSUME NEW S \in SUBSET Requests, NEW r \in Requests, r \notin S, NEW u \in Users
  PROVE  Cardinality(OfUser(S \cup {r}, u)) =
           Cardinality(OfUser(S, u)) + (IF u = UserOf[r] THEN 1 ELSE 0)
<1>1. CASE u = UserOf[r]
  <2>1. OfUser(S \cup {r}, u) = OfUser(S, u) \cup {r} /\ r \notin OfUser(S, u)
    BY <1>1 DEF OfUser
  <2>. QED
    BY <1>1, <2>1, CardPlus DEF OfUser
<1>2. CASE u # UserOf[r]
  <2>1. OfUser(S \cup {r}, u) = OfUser(S, u)
    BY <1>2 DEF OfUser
  <2>2. Cardinality(OfUser(S, u)) \in Nat
    BY Finite DEF OfUser
  <2>. QED
    BY <1>2, <2>1, <2>2
<1>. QED
  BY <1>1, <1>2

LEMMA UserMinus ==
  ASSUME NEW S \in SUBSET Requests, NEW r \in S, NEW u \in Users
  PROVE  /\ Cardinality(OfUser(S \ {r}, u)) =
              Cardinality(OfUser(S, u)) - (IF u = UserOf[r] THEN 1 ELSE 0)
         /\ Cardinality(OfUser(S \ {r}, u)) \in Nat
<1>1. Cardinality(OfUser(S \ {r}, u)) \in Nat
  BY Finite DEF OfUser
<1>2. S = (S \ {r}) \cup {r} /\ r \notin S \ {r} /\ S \ {r} \in SUBSET Requests /\ r \in Requests
  OBVIOUS
<1>3. Cardinality(OfUser(S, u)) = Cardinality(OfUser(S \ {r}, u)) + (IF u = UserOf[r] THEN 1 ELSE 0)
  BY <1>2, UserPlus
<1>. QED
  BY <1>1, <1>3

\* A new controller fits nobody.
LEMMA FitsNew ==
  ASSUME NEW l \in Limit
  PROVE  NewGate(l) \in GateRecord /\ Fits(NewGate(l), {}, {})
BY FS_EmptySet DEF NewGate, GateRecord, Fits, Counts, OfUser, UsersOf, Apart, Limit

\* A controller field by field.
Ctl(l, a, p, c, k) == [limit |-> l, active |-> a, pending |-> p, count |-> c, keys |-> k]

Plus(c, u)  == [c EXCEPT ![u] = @ + 1]
Minus(c, u) == [c EXCEPT ![u] = @ - 1]

LEMMA Typed == ASSUME NEW g \in GateRecord
               PROVE  /\ g.limit \in Limit /\ g.active \in Nat /\ g.pending \in Nat
                      /\ g.count \in [Users -> Nat] /\ g.keys \in SUBSET Users
                      /\ g.limit.active \in Nat /\ g.limit.pending \in Nat /\ g.limit.perUser \in Nat
BY DEF GateRecord, Limit

LEMMA Fields ==
  ASSUME NEW l \in Limit, NEW a \in Nat, NEW p \in Nat, NEW c \in [Users -> Nat], NEW k \in SUBSET Users
  PROVE  LET h == Ctl(l, a, p, c, k)
         IN  h \in GateRecord /\ h.limit = l /\ h.active = a /\ h.pending = p /\ h.count = c /\ h.keys = k
BY DEF GateRecord, Ctl

LEMMA Sleeping ==
  ASSUME NEW g \in GateRecord, NEW u \in Users,
         NEW h, h = Sleep(g, u)
  PROVE  h = Ctl(g.limit, g.active, g.pending + 1, Plus(g.count, u), g.keys)
BY DEF GateRecord, Sleep, Take, Resume, Quit, Free, Activated, Plus, Minus, Ctl

LEMMA Entering ==
  ASSUME NEW g \in GateRecord, NEW u \in Users,
         NEW h, h = Take(g, u)
  PROVE  h = Ctl(g.limit, g.active + 1, g.pending, Plus(g.count, u), g.keys \cup {u})
BY DEF GateRecord, Sleep, Take, Resume, Quit, Free, Activated, Plus, Minus, Ctl

LEMMA Retrying ==
  ASSUME NEW g \in GateRecord, NEW u \in Users,
         NEW h, h = Resume(g, u)
  PROVE  h = Ctl(g.limit, g.active + 1, g.pending - 1, g.count, g.keys \cup {u})
BY DEF GateRecord, Sleep, Take, Resume, Quit, Free, Activated, Plus, Minus, Ctl

LEMMA GivingUp ==
  ASSUME NEW g \in GateRecord, NEW u \in Users,
         NEW h, h = Quit(g, u)
  PROVE  h = Ctl(g.limit, g.active, g.pending - 1, Minus(g.count, u), g.keys)
BY DEF GateRecord, Sleep, Take, Resume, Quit, Free, Activated, Plus, Minus, Ctl

LEMMA Releasing ==
  ASSUME NEW g \in GateRecord, NEW u \in Users,
         NEW h, h = Free(g, u)
  PROVE  h = Ctl(g.limit, g.active - 1, g.pending, Minus(g.count, u), g.keys \ {u})
BY DEF GateRecord, Sleep, Take, Resume, Quit, Free, Activated, Plus, Minus, Ctl

LEMMA PlusFits ==
  ASSUME NEW c \in [Users -> Nat], NEW S \in SUBSET Requests, NEW r \in Requests, r \notin S,
         Counts(c, S)
  PROVE  /\ Plus(c, UserOf[r]) \in [Users -> Nat]
         /\ Counts(Plus(c, UserOf[r]), S \cup {r})
<1>1. \A u \in Users : Plus(c, UserOf[r])[u] = c[u] + (IF u = UserOf[r] THEN 1 ELSE 0)
  BY DEF Plus
<1>2. Plus(c, UserOf[r]) \in [Users -> Nat]
  BY ConstantsAssumption DEF Plus
<1>. QED
  BY <1>1, <1>2, UserPlus DEF Counts

LEMMA MinusFits ==
  ASSUME NEW c \in [Users -> Nat], NEW S \in SUBSET Requests, NEW r \in S,
         Counts(c, S)
  PROVE  /\ Minus(c, UserOf[r]) \in [Users -> Nat]
         /\ Counts(Minus(c, UserOf[r]), S \ {r})
<1>1. \A u \in Users : Minus(c, UserOf[r])[u] = c[u] - (IF u = UserOf[r] THEN 1 ELSE 0)
  BY DEF Minus
<1>2. \A u \in Users : Minus(c, UserOf[r])[u] = Cardinality(OfUser(S \ {r}, u)) /\ Minus(c, UserOf[r])[u] \in Nat
  BY <1>1, UserMinus DEF Counts
<1>3. Minus(c, UserOf[r]) \in [Users -> Nat]
  <2>1. Minus(c, UserOf[r]) = [u \in Users |-> Minus(c, UserOf[r])[u]]
    BY DEF Minus
  <2>. QED
    BY <1>2, <2>1
<1>. QED
  BY <1>2, <1>3 DEF Counts

\* A request reserves a place in the queue.
LEMMA FitsSleep ==
  ASSUME NEW W \in SUBSET Requests, NEW H \in SUBSET Requests, NEW g \in GateRecord, Fits(g, W, H),
         NEW r \in Requests, r \notin W \cup H,
         NEW h, h = Ctl(g.limit, g.active, g.pending + 1, Plus(g.count, UserOf[r]), g.keys)
  PROVE  h \in GateRecord /\ Fits(h, W \cup {r}, H)
<1>0. W \cup H \in SUBSET Requests /\ Counts(g.count, W \cup H)
  BY DEF Fits
<1>1. (W \cup {r}) \cup H = (W \cup H) \cup {r}
  OBVIOUS
<1>2. /\ Plus(g.count, UserOf[r]) \in [Users -> Nat]
      /\ Counts(Plus(g.count, UserOf[r]), (W \cup {r}) \cup H)
  BY <1>0, <1>1, Typed, PlusFits
<1>3. /\ h \in GateRecord /\ h.limit = g.limit /\ h.active = g.active /\ h.pending = g.pending + 1
      /\ h.count = Plus(g.count, UserOf[r]) /\ h.keys = g.keys
  BY <1>2, Typed, Fields
<1>4. Cardinality(W \cup {r}) = Cardinality(W) + 1
  BY CardPlus
<1>. QED
  BY <1>2, <1>3, <1>4 DEF Fits

\* A request enters a free slot, from outside or from the queue.
LEMMA SlotTaken ==
  ASSUME NEW W \in SUBSET Requests, NEW H \in SUBSET Requests, NEW g \in GateRecord, Fits(g, W, H),
         NEW r \in Requests, r \notin H, CanActivate(g, UserOf[r])
  PROVE  /\ Cardinality(H \cup {r}) = g.active + 1
         /\ g.active + 1 <= g.limit.active
         /\ g.keys \cup {UserOf[r]} = UsersOf(H \cup {r})
         /\ g.keys \cup {UserOf[r]} \in SUBSET Users
         /\ Apart(H \cup {r})
<1>1. Cardinality(H \cup {r}) = g.active + 1
  BY CardPlus DEF Fits
<1>2. g.active + 1 <= g.limit.active
  BY Typed DEF CanActivate
<1>3. g.keys = UsersOf(H) /\ UserOf[r] \notin g.keys
  BY DEF Fits, CanActivate
<1>4. g.keys \cup {UserOf[r]} = UsersOf(H \cup {r})
  BY <1>3 DEF UsersOf
<1>5. g.keys \cup {UserOf[r]} \in SUBSET Users
  BY Typed, ConstantsAssumption
<1>6. Apart(H \cup {r})
  BY <1>3 DEF Fits, UsersOf, Apart
<1>. QED
  BY <1>1, <1>2, <1>4, <1>5, <1>6

LEMMA FitsEnter ==
  ASSUME NEW W \in SUBSET Requests, NEW H \in SUBSET Requests, NEW g \in GateRecord, Fits(g, W, H),
         NEW r \in Requests, r \notin W \cup H, CanActivate(g, UserOf[r]),
         NEW h, h = Ctl(g.limit, g.active + 1, g.pending, Plus(g.count, UserOf[r]), g.keys \cup {UserOf[r]})
  PROVE  h \in GateRecord /\ Fits(h, W, H \cup {r})
<1>0. W \cup H \in SUBSET Requests /\ Counts(g.count, W \cup H)
  BY DEF Fits
<1>1. W \cup (H \cup {r}) = (W \cup H) \cup {r}
  OBVIOUS
<1>2. /\ Plus(g.count, UserOf[r]) \in [Users -> Nat]
      /\ Counts(Plus(g.count, UserOf[r]), W \cup (H \cup {r}))
  BY <1>0, <1>1, Typed, PlusFits
<1>3. /\ Cardinality(H \cup {r}) = g.active + 1
      /\ g.active + 1 <= g.limit.active
      /\ g.keys \cup {UserOf[r]} = UsersOf(H \cup {r})
      /\ g.keys \cup {UserOf[r]} \in SUBSET Users
      /\ Apart(H \cup {r})
  BY SlotTaken
<1>4. /\ h \in GateRecord /\ h.limit = g.limit /\ h.active = g.active + 1 /\ h.pending = g.pending
      /\ h.count = Plus(g.count, UserOf[r]) /\ h.keys = g.keys \cup {UserOf[r]}
  BY <1>2, <1>3, Typed, Fields
<1>. QED
  BY <1>2, <1>3, <1>4 DEF Fits

LEMMA FitsRetry ==
  ASSUME NEW W \in SUBSET Requests, NEW H \in SUBSET Requests, NEW g \in GateRecord, Fits(g, W, H),
         NEW r \in W, r \notin H, CanActivate(g, UserOf[r]),
         NEW h, h = Ctl(g.limit, g.active + 1, g.pending - 1, g.count, g.keys \cup {UserOf[r]})
  PROVE  h \in GateRecord /\ Fits(h, W \ {r}, H \cup {r})
<1>1. (W \ {r}) \cup (H \cup {r}) = W \cup H
  OBVIOUS
<1>2. Cardinality(W \ {r}) = g.pending - 1 /\ g.pending >= 1
  BY CardMinus DEF Fits
<1>3. /\ Cardinality(H \cup {r}) = g.active + 1
      /\ g.active + 1 <= g.limit.active
      /\ g.keys \cup {UserOf[r]} = UsersOf(H \cup {r})
      /\ g.keys \cup {UserOf[r]} \in SUBSET Users
      /\ Apart(H \cup {r})
  BY SlotTaken
<1>4. /\ h \in GateRecord /\ h.limit = g.limit /\ h.active = g.active + 1 /\ h.pending = g.pending - 1
      /\ h.count = g.count /\ h.keys = g.keys \cup {UserOf[r]}
  BY <1>2, <1>3, Typed, Fields
<1>. QED
  BY <1>1, <1>2, <1>3, <1>4 DEF Fits

\* A waiter gives up.
LEMMA FitsGiveUp ==
  ASSUME NEW W \in SUBSET Requests, NEW H \in SUBSET Requests, NEW g \in GateRecord, Fits(g, W, H),
         NEW r \in W, r \notin H,
         NEW h, h = Ctl(g.limit, g.active, g.pending - 1, Minus(g.count, UserOf[r]), g.keys)
  PROVE  h \in GateRecord /\ Fits(h, W \ {r}, H)
<1>0. W \cup H \in SUBSET Requests /\ Counts(g.count, W \cup H)
  BY DEF Fits
<1>1. (W \ {r}) \cup H = (W \cup H) \ {r} /\ r \in W \cup H
  OBVIOUS
<1>2. /\ Minus(g.count, UserOf[r]) \in [Users -> Nat]
      /\ Counts(Minus(g.count, UserOf[r]), (W \ {r}) \cup H)
  <2>1. g.count \in [Users -> Nat]
    BY Typed
  <2>2. /\ Minus(g.count, UserOf[r]) \in [Users -> Nat]
        /\ Counts(Minus(g.count, UserOf[r]), (W \cup H) \ {r})
    BY <1>0, <1>1, <2>1, MinusFits
  <2>. QED
    BY <1>1, <2>2
<1>3. Cardinality(W \ {r}) = g.pending - 1 /\ g.pending >= 1
  BY CardMinus DEF Fits
<1>4. /\ h \in GateRecord /\ h.limit = g.limit /\ h.active = g.active /\ h.pending = g.pending - 1
      /\ h.count = Minus(g.count, UserOf[r]) /\ h.keys = g.keys
  BY <1>2, <1>3, Typed, Fields
<1>. QED
  BY <1>2, <1>3, <1>4 DEF Fits

\* A slot is given back.
LEMMA FitsRelease ==
  ASSUME NEW W \in SUBSET Requests, NEW H \in SUBSET Requests, NEW g \in GateRecord, Fits(g, W, H),
         NEW r \in H, r \notin W,
         NEW h, h = Ctl(g.limit, g.active - 1, g.pending, Minus(g.count, UserOf[r]), g.keys \ {UserOf[r]})
  PROVE  h \in GateRecord /\ Fits(h, W, H \ {r})
<1>0. W \cup H \in SUBSET Requests /\ Counts(g.count, W \cup H)
  BY DEF Fits
<1>1. W \cup (H \ {r}) = (W \cup H) \ {r} /\ r \in W \cup H
  OBVIOUS
<1>2. /\ Minus(g.count, UserOf[r]) \in [Users -> Nat]
      /\ Counts(Minus(g.count, UserOf[r]), W \cup (H \ {r}))
  <2>1. g.count \in [Users -> Nat]
    BY Typed
  <2>2. /\ Minus(g.count, UserOf[r]) \in [Users -> Nat]
        /\ Counts(Minus(g.count, UserOf[r]), (W \cup H) \ {r})
    BY <1>0, <1>1, <2>1, MinusFits
  <2>. QED
    BY <1>1, <2>2
<1>3. Cardinality(H \ {r}) = g.active - 1 /\ g.active >= 1
  BY CardMinus DEF Fits
<1>4. g.keys \ {UserOf[r]} = UsersOf(H \ {r}) /\ g.keys \ {UserOf[r]} \in SUBSET Users /\ Apart(H \ {r})
  BY Typed DEF Fits, UsersOf, Apart
<1>5. /\ h \in GateRecord /\ h.limit = g.limit /\ h.active = g.active - 1 /\ h.pending = g.pending
      /\ h.count = Minus(g.count, UserOf[r]) /\ h.keys = g.keys \ {UserOf[r]}
  BY <1>2, <1>3, <1>4, Typed, Fields
<1>6. h.active <= h.limit.active
  BY <1>5, Typed DEF Fits
<1>. QED
  BY <1>2, <1>3, <1>4, <1>5, <1>6 DEF Fits

-----------------------------------------------------------------------------
(* The types of everything but the gate.                                     *)

PlainOK ==
  /\ now \in 0..MaxTime
  /\ values \in [Keys -> Nat \cup {None}] /\ seen \in [Keys -> Nat]
  /\ owner \in [Keys -> Requests \cup {None}]
  /\ setting \in 1..Len(Settings)
  /\ registry \subseteq Requests
  /\ pc \in [Requests -> Places]
  /\ outcome \in [Requests -> Outcomes \cup {None}]
  /\ claimed \in [Requests -> 0..MaxTime \cup {None}]
  /\ excused \subseteq Users

LEMMA Constants ==
  /\ \A r \in Requests : UserOf[r] \in Users /\ Key(r) \in Keys
                         /\ EventTime[r] \in Nat /\ EventTime[r] # 0 /\ EventTime[r] >= Cooldown
  /\ \A u \in Users : ClaimKey[u] \in Keys /\ ResetKey[u] \in Keys
  /\ \A i \in 1..Len(Settings) : Settings[i] \in Limit /\ Settings[i].active # 0
  /\ Len(Settings) \in Nat /\ Len(Settings) >= 1
  /\ Cooldown \in Nat /\ TTL \in Nat /\ MaxTime \in Nat
<1>1. \A r \in Requests : UserOf[r] \in Users /\ Key(r) \in Keys
  BY ConstantsAssumption DEF Key
<1>2. \A r \in Requests : EventTime[r] \in Nat /\ EventTime[r] # 0 /\ EventTime[r] >= Cooldown
  BY ConstantsAssumption
<1>3. ASSUME NEW i \in 1..Len(Settings) PROVE Settings[i] \in Limit /\ Settings[i].active # 0
  <2>. DEFINE Bounds == [active : Nat \ {0}, pending : Nat, perUser : Nat \ {0}]
  <2>1. Settings \in Seq(Bounds)
    BY ConstantsAssumption
  <2>2. \A l \in Bounds : l \in Limit /\ l.active # 0
    BY DEF Limit
  <2>. HIDE DEF Bounds
  <2>3. Settings[i] \in Bounds
    BY <2>1, ElementOfSeq
  <2>. QED
    BY <2>2, <2>3
<1>4. Len(Settings) \in Nat /\ Len(Settings) >= 1
  BY ConstantsAssumption
<1>. QED
  BY <1>1, <1>2, <1>3, <1>4, ConstantsAssumption

LEMMA PlainInit == Init => PlainOK
BY Constants, ConstantsAssumption DEF Init, PlainOK, Places

LEMMA ClaimPlain == ASSUME PlainOK, NEW r \in Requests, Claim(r) PROVE PlainOK'
<1>1. PICK t \in now..MaxTime : Claim(r)!2!(t)
  BY DEF Claim
<1>2. now' \in 0..MaxTime /\ seen' \in [Keys -> Nat]
  BY <1>1 DEF PlainOK
<1>3. Previous(Key(r), t) \in Nat
  BY Constants DEF PlainOK, Previous, Present
<1>4. values' \in [Keys -> Nat \cup {None}]
  BY <1>1, <1>3, Constants DEF PlainOK
<1>5. owner' \in [Keys -> Requests \cup {None}]
  BY <1>1 DEF PlainOK
<1>6. pc' \in [Requests -> Places] /\ outcome' \in [Requests -> Outcomes \cup {None}]
  BY <1>1 DEF PlainOK, Places, Outcomes
<1>7. claimed' \in [Requests -> 0..MaxTime \cup {None}]
  <2>1. t \in 0..MaxTime /\ claimed' = [claimed EXCEPT ![r] = t]
    BY <1>1 DEF PlainOK
  <2>. QED
    BY <2>1 DEF PlainOK
<1>. QED
  BY <1>2, <1>4, <1>5, <1>6, <1>7 DEF Claim, PlainOK

LEMMA PlainStep == PlainOK /\ [Next]_vars => PlainOK'
<1>. SUFFICES ASSUME PlainOK, [Next]_vars PROVE PlainOK'
  OBVIOUS
<1>. USE DEF PlainOK, Places, Waiting, Holding, Outcomes
<1>1. ASSUME NEW r \in Requests, Claim(r) PROVE PlainOK'
  BY <1>1, ClaimPlain
<1>2. ASSUME NEW r \in Requests, Enter(r) PROVE PlainOK'
  BY <1>2 DEF Enter, cooldown
<1>3. ASSUME NEW r \in Requests, Retry(r) PROVE PlainOK'
  BY <1>3 DEF Retry, cooldown
<1>4. ASSUME NEW r \in Requests, Lease(r) \/ LeaseFails(r) \/ Unregister(r) PROVE PlainOK'
  BY <1>4 DEF Lease, LeaseFails, Unregister, cooldown
<1>5. ASSUME NEW r \in Requests, Release(r) \/ GiveUp(r) PROVE PlainOK'
  <2>1. pc' \in [Requests -> Places]
    BY <1>5 DEF Release, GiveUp, NotifyAll
  <2>. QED
    BY <1>5, <2>1 DEF Release, GiveUp, cooldown
<1>6. ASSUME NEW r \in Requests, Settle(r) PROVE PlainOK'
  <2>1. pc' \in [Requests -> Places]
    BY <1>6 DEF Settle
  <2>2. values' \in [Keys -> Nat \cup {None}] /\ owner' \in [Keys -> Requests \cup {None}] /\ seen' = seen
    <3>1. CASE UNCHANGED cooldown
      BY <3>1 DEF cooldown
    <3>2. CASE /\ values' = [values EXCEPT ![Key(r)] = 0]
               /\ owner' = [owner EXCEPT ![Key(r)] = None]
               /\ UNCHANGED seen
      BY <3>2
    <3>. QED
      BY <1>6, <3>1, <3>2 DEF Settle, ReleaseClaim
  <2>. QED
    BY <1>6, <2>1, <2>2 DEF Settle
<1>7. ASSUME NEW r \in Requests, End(r) PROVE PlainOK'
  <2>1. CASE Conclude(r) \/ Cancel(r)
    BY <2>1 DEF Conclude, Cancel, cooldown
  <2>2. CASE Expire(r)
    <3>1. pc' \in [Requests -> Places]
      BY <2>2 DEF Expire
    <3>. QED
      BY <2>2, <3>1 DEF Expire, cooldown
  <2>. QED
    BY <1>7, <2>1, <2>2 DEF End
<1>8. ASSUME NEW u \in Users, ResetUser(u) PROVE PlainOK'
  BY <1>8, Constants DEF ResetUser, cooldown
<1>9. CASE ResetAll \/ ChangeLimits
  BY <1>9, Constants DEF ResetAll, ChangeLimits, cooldown
<1>10. CASE UNCHANGED vars
  BY <1>10 DEF vars, cooldown
<1>. QED
  BY <1>1, <1>2, <1>3, <1>4, <1>5, <1>6, <1>7, <1>8, <1>9, <1>10 DEF Next, Step

-----------------------------------------------------------------------------
(* The gate.                                                                 *)

Waiters == {r \in Requests : pc[r] \in Waiting}
Holders == {r \in Requests : pc[r] \in Holding}

\* One controller is in use: a stale one is replaced only when nobody is in it.
GateInv ==
  /\ gates \in Seq(GateRecord) /\ Len(gates) <= 1
  /\ gate = [r \in Requests |-> IF r \in Waiters \cup Holders THEN 1 ELSE 0]
  /\ gates = << >> => Waiters \cup Holders = {}
  /\ gates # << >> => Fits(gates[1], Waiters, Holders)

LEMMA Sets == Waiters \in SUBSET Requests /\ Holders \in SUBSET Requests /\ Waiters \cap Holders = {}
BY DEF Waiters, Holders, Waiting, Holding

LEMMA Inside ==
  ASSUME GateInv, NEW r \in Waiters \cup Holders
  PROVE  /\ Len(gates) = 1 /\ gate[r] = 1 /\ r \in Requests
         /\ gates[1] \in GateRecord /\ Fits(gates[1], Waiters, Holders)
<1>1. gates \in Seq(GateRecord) /\ gates # << >> /\ Len(gates) <= 1
  BY DEF GateInv
<1>2. Len(gates) = 1
  BY <1>1
<1>. QED
  BY <1>1, <1>2, Sets DEF GateInv

\* One controller in place of another.
LEMMA Replace ==
  ASSUME NEW s \in Seq(GateRecord), Len(s) = 1, NEW h \in GateRecord
  PROVE  LET t == [s EXCEPT ![1] = h]
         IN t \in Seq(GateRecord) /\ Len(t) = 1 /\ t # << >> /\ t[1] = h
BY ExceptSeq

\* The controller that a request asks to enter.
Base == IF ~StaleGate THEN gates
        ELSE IF gates # << >> /\ Idle(Len(gates)) THEN [gates EXCEPT ![Len(gates)] = NewGate(limits)]
        ELSE Append(gates, NewGate(limits))

LEMMA BaseFits ==
  ASSUME PlainOK, GateInv
  PROVE  /\ Base \in Seq(GateRecord) /\ Len(Base) = 1
         /\ Base[1] \in GateRecord /\ Fits(Base[1], Waiters, Holders)
<1>1. limits \in Limit
  BY Constants DEF limits, PlainOK
<1>2. NewGate(limits) \in GateRecord /\ Fits(NewGate(limits), {}, {})
  BY <1>1, FitsNew
<1>3. CASE gates = << >>
  <2>1. Base = << NewGate(limits) >>
    BY <1>3 DEF Base, StaleGate
  <2>2. Waiters = {} /\ Holders = {}
    BY <1>3 DEF GateInv
  <2>. QED
    BY <1>2, <2>1, <2>2
<1>4. CASE gates # << >>
  <2>0. gates \in Seq(GateRecord) /\ Len(gates) <= 1 /\ Fits(gates[1], Waiters, Holders)
    BY <1>4 DEF GateInv
  <2>1. Len(gates) = 1 /\ gates[1] \in GateRecord
    <3>0. \A s \in Seq(GateRecord) : s # << >> => Len(s) \in Nat \ {0}
      BY EmptySeq
    <3>1. Len(gates) = 1
      <4>1. Len(gates) \in Nat \ {0}
        BY <1>4, <2>0, <3>0, Zenon
      <4>2. \A n \in Nat \ {0} : n <= 1 => n = 1
        OBVIOUS
      <4>. QED
        BY <2>0, <4>1, <4>2, Zenon
    <3>2. 1 \in 1..Len(gates)
      BY <3>1
    <3>. QED
      BY <2>0, <3>1, <3>2, ElementOfSeq
  <2>2. CASE StaleGate
    <3>1. Idle(1)
      BY <2>0, <2>1, <2>2, <1>4 DEF StaleGate
    <3>2. Base = [gates EXCEPT ![1] = NewGate(limits)]
      BY <1>4, <2>0, <2>1, <2>2, <3>1 DEF Base
    <3>3. Cardinality(Waiters) = 0 /\ Cardinality(Holders) = 0
      BY <2>0, <3>1 DEF Idle, Fits
    <3>4. Waiters = {} /\ Holders = {}
      BY <3>3, Sets, Finite, FS_EmptySet
    <3>5. /\ Base \in Seq(GateRecord) /\ Len(Base) = 1 /\ Base[1] = NewGate(limits)
      BY <1>2, <2>0, <2>1, <3>2, Replace
    <3>. QED
      BY <1>2, <3>4, <3>5
  <2>3. CASE ~StaleGate
    BY <2>0, <2>1, <2>3 DEF Base
  <2>. QED
    BY <2>2, <2>3
<1>. QED
  BY <1>3, <1>4

\* A request leaves the gate.
LEMMA Left ==
  ASSUME GateInv, NEW r \in Waiters \cup Holders, gate' = [gate EXCEPT ![r] = 0],
         Waiters' \cup Holders' = (Waiters \cup Holders) \ {r}
  PROVE  gate' = [q \in Requests |-> IF q \in Waiters' \cup Holders' THEN 1 ELSE 0]
<1>. DEFINE S == Waiters \cup Holders
           T == Waiters' \cup Holders'
<1>1. gate = [q \in Requests |-> IF q \in S THEN 1 ELSE 0] /\ r \in Requests /\ T = S \ {r}
  BY Sets DEF GateInv
<1>. HIDE DEF S, T
<1>2. gate' = [q \in Requests |-> IF q \in T THEN 1 ELSE 0]
  BY <1>1
<1>. QED
  BY <1>2 DEF T

\* Once all are woken nobody else has moved.
LEMMA Notified ==
  ASSUME PlainOK, NEW r \in Waiters \cup Holders, NEW n, NotifyAll(n, r, "settling")
  PROVE  Waiters' = Waiters \ {r} /\ Holders' = Holders \ {r}
<1>1. \A q \in Requests : pc'[q] = IF q = r THEN "settling"
                                  ELSE IF pc[q] = "asleep" /\ gate[q] = n THEN "woken" ELSE pc[q]
  BY DEF NotifyAll
<1>2. \A q \in Requests : q # r => (pc'[q] \in Waiting <=> pc[q] \in Waiting)
                                 /\ (pc'[q] \in Holding <=> pc[q] \in Holding)
  BY <1>1 DEF Waiting, Holding
<1>3. pc'[r] \notin Waiting \cup Holding
  BY <1>1, Sets DEF Waiting, Holding
<1>. QED
  BY <1>2, <1>3, Sets DEF Waiters, Holders

\* A step that moves nobody into, within or out of the gate; and one that leaves
\* one fitting controller.
LEMMA Stay ==
  ASSUME GateInv, UNCHANGED <<gates, gate>>, Waiters' = Waiters, Holders' = Holders
  PROVE  GateInv'
BY DEF GateInv

LEMMA Move ==
  ASSUME NEW s \in Seq(GateRecord), Len(s) = 1, gates' = s, Fits(s[1], Waiters', Holders'),
         gate' = [r \in Requests |-> IF r \in Waiters' \cup Holders' THEN 1 ELSE 0]
  PROVE  GateInv'
<1>1. gates' # << >> /\ gates'[1] = s[1]
  BY EmptySeq
<1>. DEFINE W == Waiters'
           H == Holders'
<1>2. Fits(gates'[1], W, H)
  BY <1>1
<1>3. gates' \in Seq(GateRecord)
  BY Zenon
<1>4. gate' = [r \in Requests |-> IF r \in W \cup H THEN 1 ELSE 0]
  OBVIOUS
<1>5. Len(gates') <= 1
  BY gates' = s, Len(s) = 1
<1>. HIDE DEF W, H
<1>. QED
  BY <1>1, <1>2, <1>3, <1>4, <1>5 DEF GateInv, W, H

LEMMA EnterGate ==
  ASSUME PlainOK, GateInv, NEW r \in Requests, Enter(r)
  PROVE  GateInv'
<1>. DEFINE g == Base[1]
           u == UserOf[r]
<1>1. /\ Base \in Seq(GateRecord) /\ Len(Base) = 1 /\ g \in GateRecord
      /\ Fits(g, Waiters, Holders)
  BY BaseFits
<1>2. pc[r] = "claimed" /\ r \notin Waiters \cup Holders /\ u \in Users
  BY Constants DEF Enter, Waiters, Holders, Waiting, Holding
<1>3. IF g.pending >= g.limit.pending \/ g.count[u] >= g.limit.perUser
        THEN /\ gates' = Base
             /\ pc' = [pc EXCEPT ![r] = "settling"]
             /\ UNCHANGED gate
        ELSE /\ gates' = [Base EXCEPT ![1] =
                  IF CanActivate(g, u) THEN Take(g, u) ELSE Sleep(g, u)]
             /\ gate' = [gate EXCEPT ![r] = 1]
             /\ pc' = [pc EXCEPT ![r] = IF CanActivate(g, u) THEN "leasing" ELSE "asleep"]
  BY <1>1 DEF Enter, Base
<1>. HIDE DEF g
<1>4. CASE g.pending >= g.limit.pending \/ g.count[u] >= g.limit.perUser
  <2>1. Waiters' = Waiters /\ Holders' = Holders
    BY <1>2, <1>3, <1>4 DEF PlainOK, Waiters, Holders, Waiting, Holding
  <2>2. gates' = Base /\ gate' = gate
    BY <1>3, <1>4
  <2>. QED
    BY <1>1, <2>1, <2>2, Move DEF GateInv, g
<1>5. CASE ~(g.pending >= g.limit.pending \/ g.count[u] >= g.limit.perUser) /\ CanActivate(g, u)
  <2>. DEFINE h == Take(g, u)
  <2>1. gates' = [Base EXCEPT ![1] = h] /\ gate' = [gate EXCEPT ![r] = 1] /\ pc' = [pc EXCEPT ![r] = "leasing"]
    BY <1>3, <1>5
  <2>2. h = Ctl(g.limit, g.active + 1, g.pending, Plus(g.count, u), g.keys \cup {u})
    BY <1>1, <1>2, Entering
  <2>. HIDE DEF h
  <2>3. Waiters' = Waiters /\ Holders' = Holders \cup {r}
    BY <1>2, <2>1 DEF PlainOK, Waiters, Holders, Waiting, Holding
  <2>4. h \in GateRecord /\ Fits(h, Waiters, Holders \cup {r})
    BY <1>1, <1>2, <1>5, <2>2, FitsEnter, Sets
  <2>5. gate' = [q \in Requests |-> IF q \in Waiters' \cup Holders' THEN 1 ELSE 0]
    BY <2>1, <2>3 DEF GateInv
  <2>6. gates' \in Seq(GateRecord) /\ Len(gates') = 1 /\ gates'[1] = h
    BY <1>1, <2>1, <2>4, Replace
  <2>7. Fits(gates'[1], Waiters', Holders')
    BY <2>3, <2>4, <2>6
  <2>. QED
    BY <2>5, <2>6, <2>7, Move
<1>6. CASE ~(g.pending >= g.limit.pending \/ g.count[u] >= g.limit.perUser) /\ ~CanActivate(g, u)
  <2>. DEFINE h == Sleep(g, u)
  <2>1. gates' = [Base EXCEPT ![1] = h] /\ gate' = [gate EXCEPT ![r] = 1] /\ pc' = [pc EXCEPT ![r] = "asleep"]
    BY <1>3, <1>6
  <2>2. h = Ctl(g.limit, g.active, g.pending + 1, Plus(g.count, u), g.keys)
    BY <1>1, <1>2, Sleeping
  <2>. HIDE DEF h
  <2>3. Waiters' = Waiters \cup {r} /\ Holders' = Holders
    BY <1>2, <2>1 DEF PlainOK, Waiters, Holders, Waiting, Holding
  <2>4. h \in GateRecord /\ Fits(h, Waiters \cup {r}, Holders)
    BY <1>1, <1>2, <2>2, FitsSleep, Sets
  <2>5. gate' = [q \in Requests |-> IF q \in Waiters' \cup Holders' THEN 1 ELSE 0]
    BY <2>1, <2>3 DEF GateInv
  <2>6. gates' \in Seq(GateRecord) /\ Len(gates') = 1 /\ gates'[1] = h
    BY <1>1, <2>1, <2>4, Replace
  <2>7. Fits(gates'[1], Waiters', Holders')
    BY <2>3, <2>4, <2>6
  <2>. QED
    BY <2>5, <2>6, <2>7, Move
<1>. QED
  BY <1>4, <1>5, <1>6

LEMMA RetryGate ==
  ASSUME PlainOK, GateInv, NEW r \in Requests, Retry(r)
  PROVE  GateInv'
<1>. DEFINE g == gates[1]
           u == UserOf[r]
<1>1. r \in Waiters /\ r \notin Holders /\ u \in Users
  BY Constants DEF Retry, Waiters, Holders, Waiting, Holding
<1>2. /\ gates \in Seq(GateRecord) /\ Len(gates) = 1 /\ gate[r] = 1
      /\ g \in GateRecord /\ Fits(g, Waiters, Holders)
  BY <1>1, Inside DEF GateInv
<1>3. CASE CanActivate(g, u)
  <2>. DEFINE h == Resume(g, u)
  <2>0. gates' = [gates EXCEPT ![gate[r]] = Resume(@, u)] /\ gate' = gate /\ pc' = [pc EXCEPT ![r] = "leasing"]
    BY <1>2, <1>3 DEF Retry, Gate
  <2>1. gates' = [gates EXCEPT ![1] = h] /\ gate' = gate /\ pc' = [pc EXCEPT ![r] = "leasing"]
    BY <1>2, <2>0
  <2>2. h = Ctl(g.limit, g.active + 1, g.pending - 1, g.count, g.keys \cup {u})
    BY <1>1, <1>2, Retrying
  <2>. HIDE DEF h
  <2>3. Waiters' = Waiters \ {r} /\ Holders' = Holders \cup {r}
    BY <1>1, <2>1 DEF PlainOK, Waiters, Holders, Waiting, Holding
  <2>4. h \in GateRecord /\ Fits(h, Waiters \ {r}, Holders \cup {r})
    BY <1>1, <1>2, <1>3, <2>2, FitsRetry, Sets
  <2>5. gate' = [q \in Requests |-> IF q \in Waiters' \cup Holders' THEN 1 ELSE 0]
    BY <1>1, <2>1, <2>3 DEF GateInv
  <2>. QED
    BY <1>2, <2>1, <2>3, <2>4, <2>5, Replace, Move
<1>4. CASE ~CanActivate(g, u)
  <2>1. gates' = gates /\ gate' = gate /\ pc' = [pc EXCEPT ![r] = "asleep"] /\ pc[r] = "woken"
    BY <1>2, <1>4 DEF Retry, Gate
  <2>2. Waiters' = Waiters /\ Holders' = Holders
    BY <2>1 DEF PlainOK, Waiters, Holders, Waiting, Holding
  <2>. QED
    BY <2>1, <2>2, Stay
<1>. QED
  BY <1>3, <1>4

LEMMA GiveUpGate ==
  ASSUME PlainOK, GateInv, NEW r \in Requests, GiveUp(r)
  PROVE  GateInv'
<1>. DEFINE g == gates[1]
           u == UserOf[r]
           h == Quit(g, u)
<1>1. r \in Waiters /\ r \notin Holders /\ u \in Users
  BY Constants DEF GiveUp, Waiters, Holders, Waiting, Holding
<1>2. /\ gates \in Seq(GateRecord) /\ Len(gates) = 1 /\ gate[r] = 1
      /\ g \in GateRecord /\ Fits(g, Waiters, Holders)
  BY <1>1, Inside DEF GateInv
<1>3. gates' = [gates EXCEPT ![1] = h] /\ gate' = [gate EXCEPT ![r] = 0]
  <2>1. gates' = [gates EXCEPT ![gate[r]] = Quit(@, u)] /\ gate' = [gate EXCEPT ![r] = 0]
    BY DEF GiveUp
  <2>. QED
    BY <1>2, <2>1
<1>4. h = Ctl(g.limit, g.active, g.pending - 1, Minus(g.count, u), g.keys)
  BY <1>1, <1>2, GivingUp
<1>. HIDE DEF g, h
<1>5. Waiters' = Waiters \ {r} /\ Holders' = Holders
  BY <1>1, Notified DEF GiveUp
<1>6. h \in GateRecord /\ Fits(h, Waiters \ {r}, Holders)
  BY <1>1, <1>2, <1>4, FitsGiveUp, Sets
<1>7. gate' = [q \in Requests |-> IF q \in Waiters' \cup Holders' THEN 1 ELSE 0]
  BY <1>1, <1>3, <1>5, Left
<1>8. gates' \in Seq(GateRecord) /\ Len(gates') = 1 /\ gates'[1] = h
  BY <1>2, <1>3, <1>6, Replace
<1>9. Fits(gates'[1], Waiters', Holders')
  BY <1>5, <1>6, <1>8
<1>. QED
  BY <1>7, <1>8, <1>9, Move

LEMMA ReleaseGate ==
  ASSUME PlainOK, GateInv, NEW r \in Requests, Release(r)
  PROVE  GateInv'
<1>. DEFINE g == gates[1]
           u == UserOf[r]
           h == Free(g, u)
<1>1. r \in Holders /\ r \notin Waiters /\ u \in Users
  BY Constants DEF Release, Waiters, Holders, Waiting, Holding
<1>2. /\ gates \in Seq(GateRecord) /\ Len(gates) = 1 /\ gate[r] = 1
      /\ g \in GateRecord /\ Fits(g, Waiters, Holders)
  BY <1>1, Inside DEF GateInv
<1>3. gates' = [gates EXCEPT ![1] = h] /\ gate' = [gate EXCEPT ![r] = 0]
  <2>1. gates' = [gates EXCEPT ![gate[r]] = Free(@, u)] /\ gate' = [gate EXCEPT ![r] = 0]
    BY DEF Release
  <2>. QED
    BY <1>2, <2>1
<1>4. h = Ctl(g.limit, g.active - 1, g.pending, Minus(g.count, u), g.keys \ {u})
  BY <1>1, <1>2, Releasing
<1>. HIDE DEF g, h
<1>5. Waiters' = Waiters /\ Holders' = Holders \ {r}
  BY <1>1, Notified DEF Release
<1>6. h \in GateRecord /\ Fits(h, Waiters, Holders \ {r})
  BY <1>1, <1>2, <1>4, FitsRelease, Sets
<1>7. gate' = [q \in Requests |-> IF q \in Waiters' \cup Holders' THEN 1 ELSE 0]
  BY <1>1, <1>3, <1>5, Left
<1>8. gates' \in Seq(GateRecord) /\ Len(gates') = 1 /\ gates'[1] = h
  BY <1>2, <1>3, <1>6, Replace
<1>9. Fits(gates'[1], Waiters', Holders')
  BY <1>5, <1>6, <1>8
<1>. QED
  BY <1>7, <1>8, <1>9, Move

LEMMA GateInit == Init => GateInv
<1>. SUFFICES ASSUME Init PROVE GateInv
  OBVIOUS
<1>1. Waiters = {} /\ Holders = {}
  BY DEF Init, Waiters, Holders, Waiting, Holding
<1>2. gates = << >> /\ gate = [r \in Requests |-> 0]
  BY DEF Init
<1>. QED
  BY <1>1, <1>2, EmptySeq DEF GateInv

\* The steps that concern the gate not at all.
Elsewhere(r) == \/ Claim(r) \/ Lease(r) \/ LeaseFails(r) \/ Unregister(r) \/ Settle(r)
                \/ Conclude(r) \/ Cancel(r) \/ Expire(r)

\* A request is cancelled while it runs or after.
RegistryInv == \A r \in registry : pc[r] \in {"running", "finishing"}

LEMMA RegistryStep == PlainOK /\ RegistryInv /\ [Next]_vars => RegistryInv'
<1>. SUFFICES ASSUME PlainOK, RegistryInv, [Next]_vars PROVE RegistryInv'
  OBVIOUS
<1>. USE DEF PlainOK, RegistryInv
<1>1. ASSUME NEW r \in Requests, Step(r) PROVE RegistryInv'
  BY <1>1 DEF Step, Claim, Enter, Retry, Lease, LeaseFails, Unregister, Release, Settle, NotifyAll
<1>2. ASSUME NEW r \in Requests, End(r) \/ GiveUp(r) PROVE RegistryInv'
  BY <1>2 DEF End, Conclude, Cancel, Expire, GiveUp, NotifyAll, Waiting, Holding
<1>3. CASE (\E u \in Users : ResetUser(u)) \/ ResetAll \/ ChangeLimits \/ UNCHANGED vars
  BY <1>3 DEF ResetUser, ResetAll, ChangeLimits, vars
<1>. QED
  BY <1>1, <1>2, <1>3 DEF Next

LEMMA ElsewhereStays ==
  ASSUME PlainOK, RegistryInv, NEW r \in Requests, Elsewhere(r)
  PROVE  UNCHANGED <<gates, gate>> /\ Waiters' = Waiters /\ Holders' = Holders
         /\ \A q \in Requests : pc'[q] = "asleep" <=> pc[q] = "asleep"
<1>1. UNCHANGED <<gates, gate>>
  BY DEF Elsewhere, Claim, Lease, LeaseFails, Unregister, Settle, Conclude, Cancel, Expire
<1>2. \A q \in Requests : q # r => pc'[q] = pc[q]
  BY DEF PlainOK, Elsewhere, Claim, Lease, LeaseFails, Unregister, Settle, Conclude, Cancel, Expire
<1>3. \/ pc[r] \in Holding /\ pc'[r] \in Holding
      \/ pc[r] \notin Waiting \cup Holding /\ pc'[r] \notin Waiting \cup Holding
  BY DEF PlainOK, RegistryInv, Elsewhere, Claim, Lease, LeaseFails, Unregister, Settle, Conclude,
         Cancel, Expire, Waiting, Holding
<1>4. \A q \in Requests : (pc'[q] \in Waiting <=> pc[q] \in Waiting) /\ (pc'[q] \in Holding <=> pc[q] \in Holding)
                          /\ (pc'[q] = "asleep" <=> pc[q] = "asleep")
  BY <1>2, <1>3 DEF Waiting, Holding
<1>. QED
  BY <1>1, <1>4 DEF Waiters, Holders

\* The steps of the gate, and all the others.
LEMMA Steps ==
  ASSUME PlainOK, RegistryInv, [Next]_vars
  PROVE  \/ \E r \in Requests : Enter(r) \/ Retry(r) \/ GiveUp(r) \/ Release(r)
         \/ /\ UNCHANGED <<gates, gate>> /\ Waiters' = Waiters /\ Holders' = Holders
            /\ \A q \in Requests : pc'[q] = "asleep" <=> pc[q] = "asleep"
<1>1. CASE \E r \in Requests : Elsewhere(r)
  BY <1>1, ElsewhereStays
<1>2. CASE (\E u \in Users : ResetUser(u)) \/ ResetAll \/ ChangeLimits \/ UNCHANGED vars
  BY <1>2 DEF ResetUser, ResetAll, ChangeLimits, vars, Waiters, Holders
<1>. QED
  BY <1>1, <1>2 DEF Next, Step, End, Elsewhere

LEMMA GateStep == PlainOK /\ RegistryInv /\ GateInv /\ [Next]_vars => GateInv'
BY Steps, EnterGate, RetryGate, GiveUpGate, ReleaseGate, Stay

-----------------------------------------------------------------------------
(* What the gate promises.                                                   *)

GateRuns == PlainOK /\ RegistryInv /\ GateInv

LEMMA GateAlways == Spec => []GateRuns
<1>1. Init => GateRuns
  BY PlainInit, GateInit DEF GateRuns, Init, RegistryInv
<1>2. GateRuns /\ [Next]_vars => GateRuns'
  BY PlainStep, RegistryStep, GateStep DEF GateRuns
<1>. QED
  BY <1>1, <1>2, PTL DEF Spec

\* Every variable holds a value of its type: in particular no counter of a
\* controller ever goes below zero, on any path out of the gate.
THEOREM TypeCorrect == Spec => []TypeOK
<1>1. GateRuns => TypeOK
  <2>. SUFFICES ASSUME GateRuns PROVE TypeOK
    OBVIOUS
  <2>1. gates \in Seq(GateRecord) /\ gate \in [Requests -> 0..Len(gates)]
    <3>1. gates \in Seq(GateRecord) /\ (gates = << >> => Waiters \cup Holders = {})
      BY DEF GateRuns, GateInv
    <3>2. CASE gates = << >>
      BY <3>1, <3>2 DEF GateRuns, GateInv
    <3>3. CASE gates # << >>
      <4>1. Len(gates) \in Nat /\ Len(gates) >= 1
        BY <3>1, <3>3, EmptySeq
      <4>. QED
        BY <3>1, <4>1 DEF GateRuns, GateInv
    <3>. QED
      BY <3>2, <3>3
  <2>. QED
    BY <2>1 DEF GateRuns, PlainOK, TypeOK, GateRecord
<1>. QED
  BY <1>1, GateAlways, PTL

\* On every path out of the gate its counters are the numbers of requests that
\* wait in it and hold a slot of it, no user has two requests in a slot, and the
\* holders of a slot are at most what the controller allows; a change of the
\* settings never puts a second controller next to one in use.
THEOREM CountersMatch == Spec => []GateCountsMatch
<1>1. GateRuns => GateCountsMatch
  <2>. SUFFICES ASSUME GateRuns PROVE GateCountsMatch
    OBVIOUS
  <2>1. gates \in Seq(GateRecord) /\ Len(gates) <= 1
    BY DEF GateRuns, GateInv
  <2>2. \A r \in Requests : gate[r] = IF r \in Waiters \cup Holders THEN 1 ELSE 0
    BY DEF GateRuns, GateInv
  <2>3. SlotsBounded
    <3>1. {r \in Requests : pc[r] \in Holding} = Holders
      BY DEF Holders
    <3>2. \A q, r \in Requests : pc[q] \in Waiting \cup Holding /\ pc[r] \in Waiting \cup Holding
                                => gate[q] = gate[r]
      BY <2>2 DEF Waiters, Holders
    <3>3. ASSUME NEW q \in Holders, NEW r \in Holders, q # r PROVE UserOf[q] # UserOf[r]
      BY <3>3, Inside DEF GateRuns, Fits, Apart
    <3>4. ASSUME NEW r \in Holders PROVE Cardinality(Holders) <= Gate(r).limit.active
      BY <3>4, Inside DEF GateRuns, Fits, Gate
    <3>. QED
      BY <3>1, <3>2, <3>3, <3>4 DEF SlotsBounded
  <2>4. ASSUME NEW n \in 1..Len(gates)
        PROVE  /\ gates[n].pending = Cardinality(In(n, Waiting))
               /\ gates[n].active = Cardinality(In(n, Holding))
               /\ gates[n].keys = {UserOf[r] : r \in In(n, Holding)}
               /\ \A u \in Users : gates[n].count[u] =
                    Cardinality({r \in In(n, Waiting \cup Holding) : UserOf[r] = u})
    <3>1. n = 1 /\ gates # << >>
      BY <2>1, EmptySeq
    <3>2. Fits(gates[1], Waiters, Holders)
      BY <3>1 DEF GateRuns, GateInv
    <3>3. In(1, Waiting) = Waiters /\ In(1, Holding) = Holders
      BY <2>2 DEF In, Waiters, Holders
    <3>4. \A u \in Users : {r \in In(1, Waiting \cup Holding) : UserOf[r] = u} = OfUser(Waiters \cup Holders, u)
      BY <2>2 DEF In, Waiters, Holders, OfUser
    <3>. QED
      BY <3>1, <3>2, <3>3, <3>4 DEF Fits, Counts, UsersOf
  <2>. QED
    BY <2>3, <2>4 DEF GateCountsMatch
<1>. QED
  BY <1>1, GateAlways, PTL

\* Whoever finds no slot in a controller finds none after another went in.
LEMMA StillFull ==
  ASSUME NEW g \in GateRecord, NEW u \in Users, NEW v, ~CanActivate(g, v),
         NEW h, h = Take(g, u) \/ h = Sleep(g, u) \/ h = Resume(g, u)
  PROVE  ~CanActivate(h, v)
<1>1. \A l, a, p, c, k : CanActivate(Ctl(l, a, p, c, k), v) <=> a < l.active /\ v \notin k
  BY DEF Ctl, CanActivate
<1>2. ~(g.active < g.limit.active) \/ v \in g.keys
  BY DEF CanActivate
<1>3. CASE h = Take(g, u)
  <2>1. h = Ctl(g.limit, g.active + 1, g.pending, Plus(g.count, u), g.keys \cup {u})
    BY <1>3, Entering
  <2>2. ~(g.active + 1 < g.limit.active /\ v \notin g.keys \cup {u})
    BY <1>2, Typed
  <2>. QED
    BY <1>1, <2>1, <2>2
<1>4. CASE h = Sleep(g, u)
  BY <1>1, <1>2, <1>4, Sleeping, Typed
<1>5. CASE h = Resume(g, u)
  <2>1. h = Ctl(g.limit, g.active + 1, g.pending - 1, g.count, g.keys \cup {u})
    BY <1>5, Retrying
  <2>2. ~(g.active + 1 < g.limit.active /\ v \notin g.keys \cup {u})
    BY <1>2, Typed
  <2>. QED
    BY <1>1, <2>1, <2>2
<1>. QED
  BY <1>3, <1>4, <1>5

\* A controller in which somebody waits is not replaced.
LEMMA BaseKept ==
  ASSUME GateInv, Waiters # {}
  PROVE  Base = gates
<1>1. PICK r \in Waiters : TRUE
  OBVIOUS
<1>2. Len(gates) = 1 /\ Fits(gates[1], Waiters, Holders) /\ gates # << >>
  BY <1>1, Inside, EmptySeq DEF GateInv
<1>3. Cardinality(Waiters) # 0
  BY Sets, Finite, FS_EmptySet
<1>4. ~Idle(Len(gates))
  BY <1>2, <1>3 DEF Idle, Fits
<1>. QED
  BY <1>2, <1>4 DEF Base, StaleGate

Full == \A q \in Requests : pc[q] = "asleep" => ~CanActivate(gates[1], UserOf[q])

LEMMA FullMeans == ASSUME GateInv PROVE Full <=> NoLostWakeup
<1>1. ASSUME NEW q \in Requests, pc[q] = "asleep" PROVE gate[q] = 1
  <2>1. q \in Waiters \cup Holders
    BY <1>1 DEF Waiters, Waiting
  <2>. QED
    BY <2>1, Inside
<1>. QED
  BY <1>1 DEF Full, NoLostWakeup, Gate

LEMMA FullStep ==
  ASSUME GateRuns, Full, [Next]_vars
  PROVE  Full'
<1>. USE DEF GateRuns
<1>0. Waiters = {} => \A q \in Requests : pc[q] # "asleep"
  BY DEF Waiters, Waiting
<1>1. ASSUME NEW r \in Requests, Enter(r) PROVE Full'
  <2>. DEFINE g == Base[1]
             u == UserOf[r]
  <2>1. Base \in Seq(GateRecord) /\ Len(Base) = 1 /\ g \in GateRecord /\ u \in Users
    BY BaseFits, Constants
  <2>2. \/ /\ gates' = Base
           /\ pc' = [pc EXCEPT ![r] = "settling"]
        \/ /\ gates' = [Base EXCEPT ![1] = IF CanActivate(g, u) THEN Take(g, u) ELSE Sleep(g, u)]
           /\ pc' = [pc EXCEPT ![r] = IF CanActivate(g, u) THEN "leasing" ELSE "asleep"]
    BY <1>1, <2>1 DEF Enter, Base
  <2>3. \A q \in Requests : pc[q] = "asleep" => ~CanActivate(g, UserOf[q])
    BY <1>0, BaseKept DEF Full
  <2>. HIDE DEF g
  <2>4. CASE gates' = Base /\ pc' = [pc EXCEPT ![r] = "settling"]
    BY <2>3, <2>4 DEF PlainOK, Full, g
  <2>5. CASE /\ gates' = [Base EXCEPT ![1] = IF CanActivate(g, u) THEN Take(g, u) ELSE Sleep(g, u)]
             /\ pc' = [pc EXCEPT ![r] = IF CanActivate(g, u) THEN "leasing" ELSE "asleep"]
    <3>1. gates'[1] = IF CanActivate(g, u) THEN Take(g, u) ELSE Sleep(g, u)
      BY <2>1, <2>5
    <3>2. \A q \in Requests : pc'[q] = "asleep" => ~CanActivate(g, UserOf[q])
      BY <2>3, <2>5 DEF PlainOK
    <3>. QED
      BY <2>1, <3>1, <3>2, StillFull DEF Full
  <2>. QED
    BY <2>2, <2>4, <2>5
<1>2. ASSUME NEW r \in Requests, Retry(r) PROVE Full'
  <2>. DEFINE g == gates[1]
             u == UserOf[r]
  <2>1. gates \in Seq(GateRecord) /\ Len(gates) = 1 /\ gate[r] = 1 /\ g \in GateRecord /\ u \in Users
    BY <1>2, Inside, Constants DEF GateInv, Retry, Waiters, Waiting
  <2>2. CASE CanActivate(g, u)
    <3>1. gates' = [gates EXCEPT ![1] = Resume(g, u)] /\ pc' = [pc EXCEPT ![r] = "leasing"]
      BY <1>2, <2>1, <2>2 DEF Retry, Gate
    <3>2. gates'[1] = Resume(g, u)
      BY <2>1, <3>1
    <3>3. \A q \in Requests : pc'[q] = "asleep" => ~CanActivate(g, UserOf[q])
      BY <3>1 DEF PlainOK, Full
    <3>. QED
      BY <2>1, <3>2, <3>3, StillFull DEF Full
  <2>3. CASE ~CanActivate(g, u)
    BY <1>2, <2>1, <2>3 DEF Retry, Gate, Full, PlainOK
  <2>. QED
    BY <2>2, <2>3
<1>3. ASSUME NEW r \in Requests, GiveUp(r) \/ Release(r) PROVE Full'
  <2>1. gate[r] = 1 /\ \A q \in Requests : pc[q] = "asleep" => gate[q] = 1
    BY <1>3, Inside DEF GiveUp, Release, Waiters, Holders, Waiting, Holding
  <2>2. \A q \in Requests : pc'[q] # "asleep"
    BY <1>3, <2>1 DEF GiveUp, Release, NotifyAll
  <2>. QED
    BY <2>2 DEF Full
<1>4. CASE UNCHANGED gates /\ \A q \in Requests : pc'[q] = "asleep" <=> pc[q] = "asleep"
  BY <1>4 DEF Full
<1>. QED
  BY <1>1, <1>2, <1>3, <1>4, Steps

\* Nobody sleeps in the queue of the gate while it could have a slot: each step
\* that frees one wakes everybody, and each that takes one only makes it fuller.
THEOREM NobodyOversleeps == Spec => []NoLostWakeup
<1>1. Init => Full
  BY DEF Init, Full
<1>2. GateRuns /\ Full /\ [Next]_vars => Full'
  BY FullStep
<1>3. GateRuns /\ Full => NoLostWakeup
  BY FullMeans DEF GateRuns
<1>. QED
  BY <1>1, <1>2, <1>3, GateAlways, PTL DEF Spec

-----------------------------------------------------------------------------
(* Claims and how requests end.                                              *)

OutcomeInv ==
  \A r \in Requests :
    /\ pc[r] \in {"new", "claimed", "leasing", "running"} \cup Waiting => outcome[r] = None
    /\ pc[r] \in {"finishing", "closing", "settling"} => outcome[r] \in Failed \cup {"success"}
    /\ pc[r] = "done" => outcome[r] \in Failed \cup {"success", "refused"}

\* Whoever owns the claim of a key has made it and not failed for good.
ClaimInv ==
  \A k \in Keys : owner[k] # None =>
    /\ Key(owner[k]) = k
    /\ pc[owner[k]] # "new"
    /\ pc[owner[k]] = "done" => outcome[owner[k]] = "success"

LEMMA OutcomeStep == PlainOK /\ RegistryInv /\ OutcomeInv /\ [Next]_vars => OutcomeInv'
<1>. SUFFICES ASSUME PlainOK, RegistryInv, OutcomeInv, [Next]_vars PROVE OutcomeInv'
  OBVIOUS
<1>. USE DEF PlainOK, OutcomeInv, Failed, Waiting
<1>1. ASSUME NEW r \in Requests, Claim(r) \/ Retry(r) \/ Lease(r) \/ LeaseFails(r) \/ Unregister(r) \/ Settle(r)
      PROVE  OutcomeInv'
  BY <1>1 DEF Claim, Retry, Lease, LeaseFails, Unregister, Settle
<1>2. ASSUME NEW r \in Requests, Enter(r) PROVE OutcomeInv'
  <2>1. \/ pc' = [pc EXCEPT ![r] = "settling"] /\ outcome' = [outcome EXCEPT ![r] = "rejected"]
        \/ \E p \in {"leasing", "asleep"} : pc' = [pc EXCEPT ![r] = p] /\ outcome' = outcome
    BY <1>2 DEF Enter
  <2>2. pc[r] = "claimed"
    BY <1>2 DEF Enter
  <2>. QED
    BY <2>1, <2>2
<1>3. ASSUME NEW r \in Requests, Release(r) \/ GiveUp(r) PROVE OutcomeInv'
  BY <1>3 DEF Release, GiveUp, NotifyAll
<1>4. ASSUME NEW r \in Requests, End(r) PROVE OutcomeInv'
  BY <1>4 DEF End, Conclude, Cancel, Expire, RegistryInv, Holding
<1>5. CASE (\E u \in Users : ResetUser(u)) \/ ResetAll \/ ChangeLimits \/ UNCHANGED vars
  BY <1>5 DEF ResetUser, ResetAll, ChangeLimits, vars
<1>. QED
  BY <1>1, <1>2, <1>3, <1>4, <1>5 DEF Next, Step

\* A request goes from bad to worse only.
Mild ==
  \A q \in Requests :
    /\ pc'[q] = "new" <=> pc[q] = "new"
    /\ pc'[q] = "done" <=> pc[q] = "done"
    /\ pc[q] = "done" => outcome'[q] = outcome[q]
    /\ outcome[q] \in Failed => outcome'[q] \in Failed
    /\ outcome'[q] \in {None, "success"} => outcome[q] \in {None, "success"}
    /\ outcome'[q] = "refused" <=> outcome[q] = "refused"

LEMMA NoneIsNone == None \notin Outcomes /\ None \notin Nat /\ None \notin Requests
BY ConstantsAssumption

\* Nothing but a claim, a release and a reset touches the cooldown.
LEMMA Cooldowns ==
  ASSUME PlainOK, RegistryInv, OutcomeInv, [Next]_vars
  PROVE  \/ \E r \in Requests : Claim(r) \/ Settle(r)
         \/ (\E u \in Users : ResetUser(u)) \/ ResetAll
         \/ UNCHANGED <<cooldown, excused, now, claimed>> /\ Mild
<1>. USE NoneIsNone DEF PlainOK, Mild, Failed, Outcomes
<1>1. ASSUME NEW r \in Requests, Retry(r) \/ Lease(r) \/ LeaseFails(r) \/ Unregister(r)
      PROVE  UNCHANGED <<cooldown, excused, now, claimed>> /\ Mild
  <2>1. UNCHANGED <<cooldown, excused, now, claimed>>
    BY <1>1 DEF Retry, Lease, LeaseFails, Unregister
  <2>2. ASSUME Retry(r) PROVE Mild
    BY <2>2 DEF Retry, OutcomeInv, Waiting
  <2>3. ASSUME Lease(r) PROVE Mild
    BY <2>3 DEF Lease, OutcomeInv
  <2>4. ASSUME LeaseFails(r) PROVE Mild
    BY <2>4 DEF LeaseFails, OutcomeInv
  <2>5. ASSUME Unregister(r) PROVE Mild
    BY <2>5 DEF Unregister, OutcomeInv
  <2>. QED
    BY <1>1, <2>1, <2>2, <2>3, <2>4, <2>5
<1>2. ASSUME NEW r \in Requests, Enter(r)
      PROVE  UNCHANGED <<cooldown, excused, now, claimed>> /\ Mild
  <2>1. \/ pc' = [pc EXCEPT ![r] = "settling"] /\ outcome' = [outcome EXCEPT ![r] = "rejected"]
        \/ \E p \in {"leasing", "asleep"} : pc' = [pc EXCEPT ![r] = p] /\ outcome' = outcome
    BY <1>2 DEF Enter
  <2>2. pc[r] = "claimed" /\ UNCHANGED <<cooldown, excused, now, claimed>>
    BY <1>2 DEF Enter
  <2>3. outcome[r] = None
    BY <2>2 DEF OutcomeInv
  <2>. QED
    BY <2>1, <2>2, <2>3
<1>3. ASSUME NEW r \in Requests, Release(r) \/ GiveUp(r)
      PROVE  UNCHANGED <<cooldown, excused, now, claimed>> /\ Mild
  <2>1. UNCHANGED <<cooldown, excused, now, claimed>>
    BY <1>3 DEF Release, GiveUp
  <2>2. ASSUME Release(r) PROVE Mild
    BY <2>2 DEF Release, NotifyAll
  <2>3. ASSUME GiveUp(r) PROVE Mild
    <3>1. outcome[r] = None /\ outcome' = [outcome EXCEPT ![r] = "timeout"] /\ pc[r] \in Waiting
      BY <2>3 DEF GiveUp, OutcomeInv
    <3>2. \A q \in Requests : (pc'[q] = "new" <=> pc[q] = "new") /\ (pc'[q] = "done" <=> pc[q] = "done")
      BY <2>3 DEF GiveUp, NotifyAll, Waiting
    <3>. QED
      BY <3>1, <3>2 DEF Waiting
  <2>. QED
    BY <1>3, <2>1, <2>2, <2>3
<1>4. ASSUME NEW r \in Requests, Conclude(r)
      PROVE  UNCHANGED <<cooldown, excused, now, claimed>> /\ Mild
  BY <1>4 DEF Conclude, OutcomeInv
<1>5. ASSUME NEW r \in Requests, Cancel(r) \/ Expire(r)
      PROVE  UNCHANGED <<cooldown, excused, now, claimed>> /\ Mild
  <2>1. UNCHANGED <<cooldown, excused, now, claimed>>
    BY <1>5 DEF Cancel, Expire
  <2>2. pc[r] \in Holding
    BY <1>5 DEF Cancel, Expire, RegistryInv, Holding
  <2>3. pc[r] \notin {"new", "done"} /\ outcome[r] # "refused"
    BY <2>2 DEF OutcomeInv, Holding
  <2>4. ASSUME Cancel(r) PROVE Mild
    BY <2>3, <2>4 DEF Cancel
  <2>5. ASSUME Expire(r) PROVE Mild
    BY <2>3, <2>5 DEF Expire
  <2>. QED
    BY <1>5, <2>1, <2>4, <2>5
<1>6. CASE ChangeLimits \/ UNCHANGED vars
  BY <1>6 DEF ChangeLimits, vars
<1>. QED
  BY <1>1, <1>2, <1>3, <1>4, <1>5, <1>6 DEF Next, Step, End

\* What a claim does, with the time it looks at the clock.
ClaimedAt(r, t) ==
  LET kept == [k \in Keys |-> IF Present(k, t) THEN values[k] ELSE None]
      own(k) == owner[k] # None /\ kept[k] = EventTime[owner[k]]
  IN /\ t >= EventTime[r]
     /\ seen' = [k \in Keys |-> IF own(k) \/ k = Key(r) THEN t ELSE seen[k]]
     /\ values' = [kept EXCEPT ![Key(r)] = IF CoolingDown(r, t) THEN Previous(Key(r), t)
                                           ELSE EventTime[r]]
     /\ owner' = [k \in Keys |-> IF k = Key(r) /\ ~CoolingDown(r, t) THEN r
                                 ELSE IF own(k) THEN owner[k] ELSE None]
     /\ pc' = [pc EXCEPT ![r] = IF CoolingDown(r, t) THEN "done" ELSE "claimed"]
     /\ outcome' = [outcome EXCEPT ![r] = IF CoolingDown(r, t) THEN "refused" ELSE None]
     /\ claimed' = [claimed EXCEPT ![r] = t]

LEMMA ClaimTime ==
  ASSUME NEW r \in Requests, Claim(r)
  PROVE  pc[r] = "new" /\ UNCHANGED excused /\ \E t \in now..MaxTime : now' = t /\ ClaimedAt(r, t)
BY DEF Claim, ClaimedAt

\* What a release does.
LEMMA SettleDoes ==
  ASSUME NEW r \in Requests, Settle(r)
  PROVE  /\ pc[r] = "settling" /\ pc' = [pc EXCEPT ![r] = "done"]
         /\ UNCHANGED <<now, outcome, excused, seen, claimed>>
         /\ \/ /\ UNCHANGED <<values, owner>>
               /\ outcome[r] = "success" \/ owner[Key(r)] # r
            \/ /\ outcome[r] # "success" /\ owner[Key(r)] = r
               /\ values' = [values EXCEPT ![Key(r)] = 0]
               /\ owner' = [owner EXCEPT ![Key(r)] = None]
BY DEF Settle, ReleaseClaim, OwnsClaim, cooldown

LEMMA ClaimStep == PlainOK /\ RegistryInv /\ OutcomeInv /\ ClaimInv /\ [Next]_vars => ClaimInv'
<1>. SUFFICES ASSUME PlainOK, RegistryInv, OutcomeInv, ClaimInv, [Next]_vars,
                     NEW k \in Keys, owner'[k] # None
              PROVE  /\ Key(owner'[k]) = k
                     /\ pc'[owner'[k]] # "new"
                     /\ pc'[owner'[k]] = "done" => outcome'[owner'[k]] = "success"
  BY DEF ClaimInv, Key
<1>. USE DEF PlainOK, ClaimInv
<1>1. CASE \E r \in Requests : Claim(r)
  <2>1. PICK r \in Requests : Claim(r)
    BY <1>1
  <2>2. PICK t \in now..MaxTime : ClaimedAt(r, t)
    BY <2>1, ClaimTime
  <2>3. pc[r] = "new"
    BY <2>1, ClaimTime
  <2>4. CASE k = Key(r) /\ ~CoolingDown(r, t)
    BY <2>2, <2>3, <2>4 DEF ClaimedAt
  <2>5. CASE ~(k = Key(r) /\ ~CoolingDown(r, t))
    <3>1. owner'[k] = owner[k] /\ owner[k] # None
      BY <2>2, <2>5 DEF ClaimedAt
    <3>2. owner[k] # r /\ owner[k] \in Requests
      BY <2>3, <3>1
    <3>3. pc'[owner[k]] = pc[owner[k]] /\ outcome'[owner[k]] = outcome[owner[k]]
      BY <2>2, <3>2 DEF ClaimedAt
    <3>. QED
      BY <3>1, <3>3
  <2>. QED
    BY <2>4, <2>5
<1>2. CASE \E r \in Requests : Settle(r)
  <2>1. PICK r \in Requests : Settle(r)
    BY <1>2
  <2>2. /\ pc[r] = "settling" /\ pc' = [pc EXCEPT ![r] = "done"] /\ outcome' = outcome
        /\ \/ owner' = owner /\ (outcome[r] = "success" \/ owner[Key(r)] # r)
           \/ owner' = [owner EXCEPT ![Key(r)] = None]
    BY <2>1, SettleDoes
  <2>3. owner'[k] = owner[k] /\ owner[k] \in Requests
    BY <2>2, Constants
  <2>4. owner[k] = r => outcome[r] = "success"
    BY <2>2, <2>3, Constants
  <2>. QED
    BY <2>2, <2>3, <2>4
<1>3. CASE (\E u \in Users : ResetUser(u)) \/ ResetAll
  <2>1. owner'[k] = owner[k] /\ UNCHANGED <<pc, outcome>>
    BY <1>3, Constants DEF ResetUser, ResetAll
  <2>. QED
    BY <2>1
<1>4. CASE UNCHANGED <<cooldown, excused, now, claimed>> /\ Mild
  <2>1. owner' = owner /\ owner[k] \in Requests
    BY <1>4 DEF cooldown
  <2>. QED
    BY <1>4, <2>1 DEF Mild
<1>. QED
  BY <1>1, <1>2, <1>3, <1>4, Cooldowns

ClaimRuns == PlainOK /\ RegistryInv /\ OutcomeInv /\ ClaimInv

LEMMA ClaimAlways == Spec => []ClaimRuns
<1>1. Init => ClaimRuns
  BY PlainInit, Constants DEF ClaimRuns, Init, RegistryInv, OutcomeInv, ClaimInv, Waiting
<1>2. ClaimRuns /\ [Next]_vars => ClaimRuns'
  BY PlainStep, RegistryStep, OutcomeStep, ClaimStep DEF ClaimRuns
<1>. QED
  BY <1>1, <1>2, PTL DEF Spec

\* A request that was cancelled, timed out, was rejected or failed does not leave
\* its user in a cooldown of its making, in whatever order claims and releases
\* of the user's messages come.
THEOREM ClaimsGivenBack == Spec => []CooldownGivenBack
<1>1. ClaimRuns => CooldownGivenBack
  BY Constants, NoneIsNone DEF ClaimRuns, PlainOK, ClaimInv, CooldownGivenBack
<1>. QED
  BY <1>1, ClaimAlways, PTL

\* A claim is taken back only by the request that made it, in the step in which
\* it settles an end that was no success, or by a reset of this very user; a
\* late release never takes the claim of a newer request, not even after a reset
\* in between (CooldownLease, MemoryCooldownStore.release).
THEOREM ReleasesAreOwn == Spec => NoForeignRelease
<1>. DEFINE A(k) == owner[k] # None /\ values[k] \notin {None, 0} /\ values'[k] = 0
                      => \/ /\ pc[owner[k]] = "settling" /\ pc'[owner[k]] = "done"
                            /\ outcome[owner[k]] # "success"
                         \/ \E u \in Users : k = ResetKey[u] /\ ResetUser(u)
<1>1. ASSUME ClaimRuns, [Next]_vars, NEW k \in Keys PROVE A(k)
  <2>. SUFFICES ASSUME owner[k] # None, values[k] # None, values[k] # 0, values'[k] = 0
                PROVE  \/ /\ pc[owner[k]] = "settling" /\ pc'[owner[k]] = "done"
                          /\ outcome[owner[k]] # "success"
                       \/ \E u \in Users : k = ResetKey[u] /\ ResetUser(u)
    OBVIOUS
  <2>. USE <1>1, NoneIsNone DEF ClaimRuns, PlainOK
  <2>1. CASE \E r \in Requests : Claim(r)
    <3>1. PICK r \in Requests, t \in now..MaxTime : ClaimedAt(r, t)
      BY <2>1, ClaimTime
    <3>2. CASE k = Key(r)
      <4>1. values'[k] = IF CoolingDown(r, t) THEN Previous(Key(r), t) ELSE EventTime[r]
        BY <3>1, <3>2, Constants DEF ClaimedAt
      <4>2. CoolingDown(r, t) /\ Previous(Key(r), t) = 0
        BY <4>1, Constants
      <4>. QED
        BY <4>2, Constants DEF CoolingDown
    <3>3. CASE k # Key(r)
      BY <3>1, <3>3 DEF ClaimedAt
    <3>. QED
      BY <3>2, <3>3
  <2>2. CASE \E r \in Requests : Settle(r)
    <3>1. PICK r \in Requests : Settle(r)
      BY <2>2
    <3>2. /\ pc[r] = "settling" /\ pc'[r] = "done" /\ owner[k] = r /\ outcome[r] # "success"
      BY <3>1, SettleDoes
    <3>. QED
      BY <3>2
  <2>3. ASSUME NEW u \in Users, ResetUser(u) PROVE k = ResetKey[u]
    BY <2>3 DEF ResetUser
  <2>4. ~ResetAll
    BY DEF ResetAll
  <2>5. CASE UNCHANGED <<cooldown, excused, now, claimed>> /\ Mild
    BY <2>5 DEF cooldown
  <2>. QED
    BY <2>1, <2>2, <2>3, <2>4, <2>5, Cooldowns
<1>2. ClaimRuns /\ [Next]_vars => [\A k \in Keys : A(k)]_vars
  BY <1>1
<1>. QED
  BY <1>2, ClaimAlways, PTL DEF Spec, NoForeignRelease

-----------------------------------------------------------------------------
(* The cooldown.                                                             *)

\* The messages of a user that hold or held a claim and did not fail, and those
\* that failed; Beaten(u, e): one that failed is not older than e.
Live(u) == {r \in OfUser(Requests, u) : pc[r] # "new" /\ outcome[r] \in {None, "success"}}
Lost(u) == {r \in OfUser(Requests, u) : outcome[r] \in Failed}
Beaten(u, e) == \E m \in Lost(u) : EventTime[m] >= e

\* The store keeps nothing for as long as lies between the claim of q and t.
Outlived(q, t) == t - claimed[q] > TTL

\* What the entry of a user in the cooldown knows of the live messages: the
\* claimed time is not before them and was last touched not before their claim,
\* and the owner of the claim is a cooldown after the others; or a message as late
\* as that has failed and taken the claimed time with it; or their claim is longer
\* ago than the store keeps an entry.  So each is a cooldown away from the next.
Remembers(u) ==
  \A q \in Live(u) :
    \/ /\ values[ClaimKey[u]] # None /\ values[ClaimKey[u]] >= EventTime[q]
       /\ seen[ClaimKey[u]] >= claimed[q]
    \/ Beaten(u, EventTime[q] + Cooldown)
    \/ Outlived(q, now)

OwnerIsLast(u) ==
  \A q \in Live(u) :
    owner[ClaimKey[u]] \notin {None, q} =>
      \/ EventTime[owner[ClaimKey[u]]] >= EventTime[q] + Cooldown
      \/ Beaten(u, EventTime[q] + Cooldown)
      \/ Outlived(q, claimed[owner[ClaimKey[u]]])

Spaced(u) ==
  \A q, r \in Live(u) :
    q # r /\ EventTime[q] <= EventTime[r] =>
      \/ EventTime[r] - EventTime[q] >= Cooldown
      \/ Beaten(u, EventTime[r] + 1)
      \/ ForgottenByStore(q, r)

\* Every request but a new one has looked at the clock; no entry was touched later.
ClockInv ==
  /\ \A r \in Requests : IF pc[r] = "new" THEN claimed[r] = None ELSE claimed[r] \in 0..now
  /\ \A k \in Keys : seen[k] <= now

\* A claimed time is that of the owner of the claim.
ValueInv ==
  \A k \in Keys : values[k] \notin {None, 0} => owner[k] # None /\ values[k] = EventTime[owner[k]]

\* A refused message was refused for a claim.
RefusedInv ==
  \A r \in Requests : outcome[r] = "refused" =>
    \E q \in Requests \ {r} :
      /\ UserOf[q] = UserOf[r] /\ outcome[q] # "refused" /\ claimed[q] # None
      /\ claimed[q] <= claimed[r] /\ EventTime[r] - EventTime[q] < Cooldown

WinnerInv ==
  /\ ClockInv
  /\ \A u \in Users \ excused : Remembers(u) /\ OwnerIsLast(u) /\ Spaced(u)

WinnerRuns == ClaimRuns /\ WinnerInv

LEMMA LiveOnes == ASSUME NEW u, NEW q \in Live(u) \cup Lost(u)
                  PROVE  q \in Requests /\ UserOf[q] = u /\ Key(q) = ClaimKey[u] /\ EventTime[q] \in Nat
BY Constants DEF Live, Lost, OfUser, Key

LEMMA KeysApart == ASSUME NEW u \in Users, NEW r \in Requests
                   PROVE  Key(r) = ClaimKey[u] <=> UserOf[r] = u
BY ConstantsAssumption DEF Key

LEMMA ClockStep == ASSUME PlainOK, RegistryInv, OutcomeInv, ClockInv, [Next]_vars
                   PROVE  ClockInv' /\ now' \in Nat /\ now \in Nat /\ now' >= now
<1>. USE NoneIsNone DEF PlainOK, ClockInv
<1>0. now \in Nat
  BY Constants
<1>1. ASSUME NEW r \in Requests, Claim(r) PROVE ClockInv' /\ now' \in Nat /\ now' >= now
  <2>1. PICK t \in now..MaxTime : now' = t /\ ClaimedAt(r, t)
    BY <1>1, ClaimTime
  <2>2. t \in Nat /\ t >= now
    BY <1>0, Constants
  <2>3. /\ claimed' = [claimed EXCEPT ![r] = t]
        /\ pc'[r] # "new" /\ \A q \in Requests \ {r} : pc'[q] = pc[q]
        /\ \A k \in Keys : seen'[k] \in {t, seen[k]}
    BY <2>1 DEF ClaimedAt
  <2>. QED
    BY <1>0, <2>1, <2>2, <2>3
<1>2. ASSUME NEW r \in Requests, Settle(r) PROVE ClockInv' /\ now' = now
  BY <1>2, SettleDoes
<1>3. CASE (\E u \in Users : ResetUser(u)) \/ ResetAll
  BY <1>0, <1>3 DEF ResetUser, ResetAll
<1>4. CASE UNCHANGED <<cooldown, excused, now, claimed>> /\ Mild
  BY <1>0, <1>4 DEF Mild, cooldown
<1>. QED
  BY <1>0, <1>1, <1>2, <1>3, <1>4, Cooldowns

LEMMA ValueStep == ASSUME PlainOK, RegistryInv, OutcomeInv, ValueInv, [Next]_vars
                   PROVE  ValueInv'
<1>. USE NoneIsNone DEF PlainOK, ValueInv
<1>1. ASSUME NEW r \in Requests, Claim(r) PROVE ValueInv'
  <2>1. PICK t \in now..MaxTime : now' = t /\ ClaimedAt(r, t)
    BY <1>1, ClaimTime
  <2>. SUFFICES ASSUME NEW k \in Keys, values'[k] # None, values'[k] # 0
                PROVE  owner'[k] # None /\ values'[k] = EventTime[owner'[k]]
    OBVIOUS
  <2>2. CASE k = Key(r) /\ ~CoolingDown(r, t)
    BY <2>1, <2>2, Constants DEF ClaimedAt
  <2>3. CASE ~(k = Key(r) /\ ~CoolingDown(r, t))
    <3>1. values'[k] = values[k] /\ Present(k, t)
      BY <2>1, <2>3, Constants DEF ClaimedAt, Previous
    <3>2. owner[k] # None /\ values[k] = EventTime[owner[k]]
      BY <3>1
    <3>3. owner'[k] = owner[k]
      BY <2>1, <2>3, <3>1, <3>2 DEF ClaimedAt
    <3>. QED
      BY <3>1, <3>2, <3>3
  <2>. QED
    BY <2>2, <2>3
<1>2. ASSUME NEW r \in Requests, Settle(r) PROVE ValueInv'
  <2>1. \/ UNCHANGED <<values, owner>>
        \/ /\ values' = [values EXCEPT ![Key(r)] = 0]
           /\ owner' = [owner EXCEPT ![Key(r)] = None]
    BY <1>2, SettleDoes
  <2>. SUFFICES ASSUME NEW k \in Keys, values'[k] # None, values'[k] # 0
                PROVE  owner'[k] # None /\ values'[k] = EventTime[owner'[k]]
    OBVIOUS
  <2>2. values'[k] = values[k] /\ owner'[k] = owner[k]
    BY <2>1
  <2>. QED
    BY <2>2
<1>3. CASE (\E u \in Users : ResetUser(u)) \/ ResetAll
  <2>. SUFFICES ASSUME NEW k \in Keys, values'[k] # None, values'[k] # 0
                PROVE  owner'[k] # None /\ values'[k] = EventTime[owner'[k]]
    OBVIOUS
  <2>1. ~ResetAll
    BY DEF ResetAll
  <2>2. PICK u \in Users : ResetUser(u)
    BY <1>3, <2>1
  <2>3. values'[k] = values[k] /\ owner'[k] = owner[k]
    BY <2>2 DEF ResetUser
  <2>. QED
    BY <2>3
<1>4. CASE UNCHANGED <<cooldown, excused, now, claimed>> /\ Mild
  BY <1>4 DEF cooldown
<1>. QED
  BY <1>1, <1>2, <1>3, <1>4, Cooldowns

LEMMA RefusedStep == ASSUME ClaimRuns, ClockInv, ValueInv, RefusedInv, [Next]_vars
                     PROVE  RefusedInv'
<1>. USE NoneIsNone DEF PlainOK, ClaimRuns
<1>1. ASSUME NEW r \in Requests, Claim(r) PROVE RefusedInv'
  <2>1. PICK t \in now..MaxTime : now' = t /\ ClaimedAt(r, t)
    BY <1>1, ClaimTime
  <2>2. pc[r] = "new" /\ claimed[r] = None /\ now \in Nat /\ t \in Nat /\ t >= now
    BY <1>1, ClaimTime, Constants DEF ClockInv
  <2>3. /\ claimed' = [claimed EXCEPT ![r] = t]
        /\ outcome' = [outcome EXCEPT ![r] = IF CoolingDown(r, t) THEN "refused" ELSE None]
    BY <2>1 DEF ClaimedAt
  <2>4. ASSUME NEW p \in Requests \ {r}, outcome'[p] = "refused"
        PROVE  \E q \in Requests \ {p} :
                 /\ UserOf[q] = UserOf[p] /\ outcome'[q] # "refused" /\ claimed'[q] # None
                 /\ claimed'[q] <= claimed'[p] /\ EventTime[p] - EventTime[q] < Cooldown
    <3>1. outcome[p] = "refused"
      BY <2>3, <2>4
    <3>2. PICK q \in Requests \ {p} :
            /\ UserOf[q] = UserOf[p] /\ outcome[q] # "refused" /\ claimed[q] # None
            /\ claimed[q] <= claimed[p] /\ EventTime[p] - EventTime[q] < Cooldown
      BY <3>1 DEF RefusedInv
    <3>3. q # r
      BY <2>2, <3>2
    <3>. QED
      BY <2>3, <2>4, <3>2, <3>3
  <2>5. ASSUME outcome'[r] = "refused"
        PROVE  \E q \in Requests \ {r} :
                 /\ UserOf[q] = UserOf[r] /\ outcome'[q] # "refused" /\ claimed'[q] # None
                 /\ claimed'[q] <= claimed'[r] /\ EventTime[r] - EventTime[q] < Cooldown
    <3>. DEFINE q == owner[Key(r)]
    <3>0. outcome'[r] = IF CoolingDown(r, t) THEN "refused" ELSE None
      BY <2>3
    <3>1. CoolingDown(r, t)
      BY <2>5, <3>0 DEF Outcomes
    <3>2. Previous(Key(r), t) # 0
      BY <3>1, Constants DEF CoolingDown
    <3>3. values[Key(r)] \notin {None, 0} /\ Previous(Key(r), t) = values[Key(r)]
      BY <3>2 DEF Previous, Present
    <3>4. q # None /\ values[Key(r)] = EventTime[q] /\ q \in Requests
      BY <3>3, Constants DEF ValueInv
    <3>a. Key(r) \in Keys /\ owner[Key(r)] # None
      BY <3>4, Constants
    <3>5. Key(q) = Key(r) /\ pc[q] # "new" /\ (pc[q] = "done" => outcome[q] = "success")
      BY <3>a DEF ClaimInv
    <3>6. UserOf[q] = UserOf[r] /\ q # r
      BY <2>2, <3>4, <3>5, Constants, ConstantsAssumption DEF Key
    <3>b. pc[q] \in Places \ {"new"}
      BY <3>4, <3>5
    <3>7. outcome[q] # "refused"
      <4>1. CASE pc[q] = "done"
        BY <3>5, <4>1
      <4>2. CASE pc[q] # "done"
        <5>1. outcome[q] \in Failed \cup {"success", None}
          BY <3>4, <3>b, <4>2 DEF OutcomeInv, Places, Waiting, Holding
        <5>. QED
          BY <5>1 DEF Failed, Outcomes
      <4>. QED
        BY <4>1, <4>2
    <3>8. claimed[q] \in 0..now
      BY <3>4, <3>5 DEF ClockInv
    <3>9. EventTime[r] - EventTime[q] < Cooldown
      BY <3>1, <3>3, <3>4 DEF CoolingDown
    <3>. HIDE DEF q
    <3>. QED
      BY <2>2, <2>3, <3>4, <3>6, <3>7, <3>8, <3>9
  <2>. QED
    BY <2>4, <2>5 DEF RefusedInv
<1>2. ASSUME NEW r \in Requests, Settle(r) PROVE RefusedInv'
  BY <1>2, SettleDoes DEF RefusedInv
<1>3. CASE (\E u \in Users : ResetUser(u)) \/ ResetAll
  BY <1>3 DEF RefusedInv, ResetUser, ResetAll
<1>4. CASE UNCHANGED <<cooldown, excused, now, claimed>> /\ Mild
  BY <1>4 DEF RefusedInv, Mild
<1>. QED
  BY <1>1, <1>2, <1>3, <1>4, Cooldowns

\* Fewer live messages and more lost ones, over the same entry.
LEMMA Worse ==
  ASSUME WinnerRuns, NEW u \in Users \ excused, Live(u)' \subseteq Live(u), Lost(u) \subseteq Lost(u)',
         now \in Nat, now' \in Nat, now' >= now, \A q \in Live(u)' : claimed'[q] = claimed[q],
         owner'[ClaimKey[u]] \in {owner[ClaimKey[u]], None},
         owner'[ClaimKey[u]] # None => claimed'[owner'[ClaimKey[u]]] = claimed[owner'[ClaimKey[u]]],
         \A q \in Live(u)' :
           \/ /\ values'[ClaimKey[u]] = values[ClaimKey[u]]
              /\ seen'[ClaimKey[u]] \in Nat /\ seen'[ClaimKey[u]] >= seen[ClaimKey[u]]
           \/ Beaten(u, EventTime[q] + Cooldown)
           \/ Outlived(q, now')
  PROVE  Remembers(u)' /\ OwnerIsLast(u)' /\ Spaced(u)'
<1>1. \A e : Beaten(u, e) => Beaten(u, e)'
  BY DEF Beaten
<1>2. Remembers(u) /\ OwnerIsLast(u) /\ Spaced(u)
  BY DEF WinnerRuns, WinnerInv
<1>3. \A q \in Live(u)' : q \in Requests /\ claimed[q] \in Nat /\ seen[ClaimKey[u]] \in Nat
  BY Constants DEF WinnerRuns, WinnerInv, ClaimRuns, PlainOK, ClockInv, Live, OfUser
<1>4. Remembers(u)'
  <2>1. ASSUME NEW q \in Live(u)'
        PROVE  \/ /\ values'[ClaimKey[u]] # None /\ values'[ClaimKey[u]] >= EventTime[q]
                  /\ seen'[ClaimKey[u]] >= claimed[q]
               \/ Beaten(u, EventTime[q] + Cooldown)
               \/ now' - claimed[q] > TTL
    BY <1>2, <1>3, <2>1, Constants DEF Remembers, Outlived
  <2>. QED
    BY <1>1, <2>1 DEF Remembers, Outlived
<1>5. OwnerIsLast(u)'
  BY <1>1, <1>2 DEF OwnerIsLast, Outlived
<1>6. Spaced(u)'
  BY <1>1, <1>2 DEF Spaced, ForgottenByStore
<1>. QED
  BY <1>4, <1>5, <1>6

\* A claim sees every live message of its user, or one too old or too early.
LEMMA Remembered ==
  ASSUME WinnerRuns, NEW u \in Users \ excused, NEW q \in Live(u), NEW t \in now..MaxTime
  PROVE  \/ /\ Present(ClaimKey[u], t) /\ Previous(ClaimKey[u], t) = values[ClaimKey[u]]
            /\ values[ClaimKey[u]] \in Nat /\ values[ClaimKey[u]] >= EventTime[q]
            /\ seen[ClaimKey[u]] >= claimed[q]
         \/ Beaten(u, EventTime[q] + Cooldown)
         \/ Outlived(q, t)
<1>1. /\ now \in Nat /\ t \in Nat /\ t >= now /\ TTL \in Nat /\ seen[ClaimKey[u]] \in Nat
      /\ values[ClaimKey[u]] \in Nat \cup {None}
  BY Constants DEF WinnerRuns, ClaimRuns, PlainOK
<1>2. claimed[q] \in Nat
  BY <1>1 DEF WinnerRuns, WinnerInv, ClockInv, Live, OfUser
<1>3. \/ /\ values[ClaimKey[u]] # None /\ values[ClaimKey[u]] >= EventTime[q]
         /\ seen[ClaimKey[u]] >= claimed[q]
      \/ Beaten(u, EventTime[q] + Cooldown)
      \/ Outlived(q, now)
  BY DEF WinnerRuns, WinnerInv, Remembers
<1>4. CASE Outlived(q, now)
  BY <1>1, <1>2, <1>4 DEF Outlived
<1>5. CASE /\ values[ClaimKey[u]] # None /\ values[ClaimKey[u]] >= EventTime[q]
           /\ seen[ClaimKey[u]] >= claimed[q]
  <2>1. CASE Present(ClaimKey[u], t)
    BY <1>1, <1>5, <2>1 DEF Previous
  <2>2. CASE ~Present(ClaimKey[u], t)
    BY <1>1, <1>2, <1>5, <2>2 DEF Present, Outlived
  <2>. QED
    BY <2>1, <2>2
<1>. QED
  BY <1>3, <1>4, <1>5

\* The claim of a message that is not refused.
LEMMA ClaimGranted ==
  ASSUME WinnerRuns, NEW r \in Requests, pc[r] = "new",
         NEW t \in now..MaxTime, now' = t, ClaimedAt(r, t), ~CoolingDown(r, t),
         NEW u \in Users \ excused, UserOf[r] = u
  PROVE  Remembers(u)' /\ OwnerIsLast(u)' /\ Spaced(u)'
<1>. DEFINE k == ClaimKey[u]
<1>1. /\ k \in Keys /\ Key(r) = k /\ EventTime[r] \in Nat /\ Cooldown \in Nat /\ TTL \in Nat
      /\ now \in Nat /\ t \in Nat /\ t >= now
  BY Constants DEF WinnerRuns, WinnerInv, ClaimRuns, PlainOK, Key
<1>2. values'[k] = EventTime[r] /\ seen'[k] = t /\ owner'[k] = r
  BY <1>1 DEF ClaimedAt, WinnerRuns, ClaimRuns, PlainOK
<1>3. /\ pc' = [pc EXCEPT ![r] = "claimed"] /\ outcome' = [outcome EXCEPT ![r] = None]
  BY DEF ClaimedAt
<1>4. Live(u)' = Live(u) \cup {r} /\ r \notin Live(u)
  BY <1>3 DEF WinnerRuns, ClaimRuns, PlainOK, Live, OfUser
<1>5. Lost(u)' = Lost(u)
  BY <1>3, NoneIsNone DEF WinnerRuns, ClaimRuns, PlainOK, OutcomeInv, Lost, OfUser, Failed, Outcomes
<1>6. \A e : Beaten(u, e)' = Beaten(u, e)
  BY <1>5 DEF Beaten
<1>7. /\ claimed'[r] = t
      /\ \A q \in Live(u) : claimed'[q] = claimed[q] /\ claimed[q] \in Nat /\ claimed[q] <= t
  <2>1. claimed' = [claimed EXCEPT ![r] = t]
    BY DEF ClaimedAt
  <2>2. \A q \in Live(u) : q \in Requests /\ q # r /\ claimed[q] \in 0..now
    BY <1>4 DEF WinnerRuns, WinnerInv, ClockInv, Live, OfUser
  <2>. QED
    BY <1>1, <2>1, <2>2 DEF WinnerRuns, ClaimRuns, PlainOK
<1>8. ASSUME NEW q \in Live(u)
      PROVE  \/ EventTime[r] >= EventTime[q] + Cooldown
             \/ Beaten(u, EventTime[q] + Cooldown)
             \/ t - claimed[q] > TTL
  <2>1. CASE /\ Previous(k, t) = values[k] /\ values[k] \in Nat /\ values[k] >= EventTime[q]
    <3>1. EventTime[r] - values[k] >= Cooldown
      BY <1>1, <2>1 DEF CoolingDown
    <3>. QED
      BY <1>1, <2>1, <3>1, LiveOnes
  <2>. QED
    BY <2>1, Remembered DEF Outlived
<1>. HIDE DEF k
<1>9. Remembers(u)'
  <2>1. ASSUME NEW q \in Live(u)'
        PROVE  \/ values'[k] >= EventTime[q]
               \/ Beaten(u, EventTime[q] + Cooldown)'
               \/ now' - claimed'[q] > TTL
    BY <1>1, <1>2, <1>4, <1>6, <1>7, <1>8, LiveOnes
  <2>2. ASSUME NEW q \in Live(u)' PROVE seen'[k] >= claimed'[q] /\ values'[k] # None
    BY <1>1, <1>2, <1>4, <1>7, NoneIsNone
  <2>. QED
    BY <2>1, <2>2 DEF Remembers, Outlived, k
<1>10. OwnerIsLast(u)'
  BY <1>2, <1>4, <1>6, <1>7, <1>8 DEF OwnerIsLast, Outlived, k
<1>11. Spaced(u)'
  <2>. SUFFICES ASSUME NEW p \in Live(u)', NEW q \in Live(u)', p # q, EventTime[p] <= EventTime[q]
                PROVE  \/ EventTime[q] - EventTime[p] >= Cooldown
                       \/ Beaten(u, EventTime[q] + 1)'
                       \/ ForgottenByStore(p, q)'
    BY DEF Spaced
  <2>1. p \in Live(u) \cup {r} /\ q \in Live(u) \cup {r} /\ EventTime[p] \in Nat /\ EventTime[q] \in Nat
    BY <1>1, <1>4, LiveOnes
  <2>2. CASE p # r /\ q # r
    BY <1>6, <1>7, <2>1, <2>2 DEF WinnerRuns, WinnerInv, Spaced, ForgottenByStore
  <2>3. CASE q = r
    <3>1. \/ EventTime[q] >= EventTime[p] + Cooldown
          \/ Beaten(u, EventTime[p] + Cooldown)
          \/ claimed'[q] - claimed'[p] > TTL
      BY <1>7, <1>8, <2>1, <2>3
    <3>2. ASSUME Beaten(u, EventTime[p] + Cooldown)
          PROVE  EventTime[q] >= EventTime[p] + Cooldown \/ Beaten(u, EventTime[q] + 1)
      BY <1>1, <2>1, <3>2, LiveOnes DEF Beaten
    <3>. QED
      BY <1>1, <1>6, <2>1, <3>1, <3>2 DEF ForgottenByStore
  <2>4. CASE p = r
    <3>1. \/ EventTime[p] >= EventTime[q] + Cooldown
          \/ Beaten(u, EventTime[q] + Cooldown)
          \/ claimed'[p] - claimed'[q] > TTL
      BY <1>7, <1>8, <2>1, <2>4
    <3>2. CASE Cooldown = 0
      BY <1>1, <2>1, <3>2
    <3>3. CASE Cooldown # 0
      <4>1. Beaten(u, EventTime[q] + Cooldown) \/ claimed'[p] - claimed'[q] > TTL
        BY <1>1, <2>1, <3>1, <3>3
      <4>2. Beaten(u, EventTime[q] + 1) \/ claimed'[p] - claimed'[q] > TTL
        BY <1>1, <2>1, <3>3, <4>1, LiveOnes DEF Beaten
      <4>. QED
        BY <1>6, <4>2 DEF ForgottenByStore
    <3>. QED
      BY <3>2, <3>3
  <2>. QED
    BY <2>2, <2>3, <2>4
<1>. QED
  BY <1>9, <1>10, <1>11

LEMMA WinnerStep ==
  ASSUME WinnerRuns, [Next]_vars
  PROVE  WinnerInv'
<1>. USE NoneIsNone
<1>0. /\ PlainOK /\ PlainOK' /\ OutcomeInv /\ RegistryInv /\ ClockInv
      /\ ClockInv' /\ now \in Nat /\ now' \in Nat /\ now' >= now
  BY PlainStep, ClockStep DEF WinnerRuns, WinnerInv, ClaimRuns
<1>a. \A u \in Users : seen[ClaimKey[u]] \in Nat /\ \A q \in Live(u) : claimed[q] \in Nat
  BY <1>0, Constants DEF PlainOK, ClockInv, Live, OfUser
<1>1. ASSUME NEW r \in Requests, Claim(r) PROVE WinnerInv'
  <2>1. PICK t \in now..MaxTime : now' = t /\ ClaimedAt(r, t)
    BY <1>1, ClaimTime
  <2>2. pc[r] = "new" /\ excused' = excused /\ t \in Nat /\ t >= now
    BY <1>0, <1>1, Constants, ClaimTime
  <2>3. ASSUME NEW u \in Users \ excused, UserOf[r] # u \/ CoolingDown(r, t)
        PROVE  Remembers(u)' /\ OwnerIsLast(u)' /\ Spaced(u)'
    <3>. DEFINE k == ClaimKey[u]
    <3>1. k \in Keys /\ (Key(r) = k => CoolingDown(r, t) /\ UserOf[r] = u)
      BY <2>3, Constants, KeysApart
    <3>2. outcome[r] = None
      BY <1>0, <2>2 DEF OutcomeInv
    <3>3. Live(u)' \subseteq Live(u) /\ r \notin Live(u)
      <4>1. \A q \in Requests : q # r => pc'[q] = pc[q] /\ outcome'[q] = outcome[q]
        BY <1>0, <2>1 DEF ClaimedAt, PlainOK
      <4>2. UserOf[r] = u => outcome'[r] = "refused"
        BY <1>0, <2>1, <2>3 DEF ClaimedAt, PlainOK
      <4>. QED
        BY <2>2, <4>1, <4>2 DEF Live, OfUser, Outcomes
    <3>4. Lost(u) \subseteq Lost(u)'
      BY <1>0, <2>1, <3>2 DEF ClaimedAt, PlainOK, Lost, OfUser, Failed, Outcomes
    <3>5. owner'[k] \in {owner[k], None}
      BY <2>1, <3>1 DEF ClaimedAt
    <3>6. /\ \A q \in Live(u)' : claimed'[q] = claimed[q]
          /\ owner'[k] # None => claimed'[owner'[k]] = claimed[owner'[k]]
      <4>1. claimed' = [claimed EXCEPT ![r] = t]
        BY <2>1 DEF ClaimedAt
      <4>2. owner[k] # r
        BY <2>2, <3>1 DEF WinnerRuns, ClaimRuns, ClaimInv
      <4>. QED
        BY <1>0, <3>1, <3>3, <3>5, <4>1, <4>2 DEF PlainOK
    <3>7. ASSUME NEW q \in Live(u)'
          PROVE  \/ values'[k] = values[k] /\ seen'[k] \in Nat /\ seen'[k] >= seen[k]
                 \/ Beaten(u, EventTime[q] + Cooldown)
                 \/ Outlived(q, now')
      <4>1. CASE Present(k, t) /\ Previous(k, t) = values[k]
        <5>1. values'[k] = values[k]
          BY <1>0, <2>1, <3>1, <4>1 DEF ClaimedAt, PlainOK
        <5>2. seen'[k] \in {t, seen[k]}
          BY <2>1, <3>1 DEF ClaimedAt
        <5>. QED
          BY <1>0, <1>a, <2>2, <3>1, <5>1, <5>2 DEF ClockInv
      <4>. QED
        BY <2>1, <3>3, <4>1, Remembered
    <3>. HIDE DEF k
    <3>. QED
      BY <1>0, <3>3, <3>4, <3>5, <3>6, <3>7, Worse DEF k
  <2>4. ASSUME NEW u \in Users \ excused, UserOf[r] = u, ~CoolingDown(r, t)
        PROVE  Remembers(u)' /\ OwnerIsLast(u)' /\ Spaced(u)'
    BY <2>1, <2>2, <2>4, ClaimGranted
  <2>. QED
    BY <1>0, <2>2, <2>3, <2>4 DEF WinnerInv
<1>2. ASSUME NEW r \in Requests, Settle(r) PROVE WinnerInv'
  <2>1. /\ pc[r] = "settling" /\ pc' = [pc EXCEPT ![r] = "done"]
        /\ UNCHANGED <<now, outcome, excused, seen, claimed>>
        /\ \/ UNCHANGED <<values, owner>>
           \/ /\ outcome[r] # "success" /\ owner[Key(r)] = r
              /\ values' = [values EXCEPT ![Key(r)] = 0]
              /\ owner' = [owner EXCEPT ![Key(r)] = None]
    BY <1>2, SettleDoes
  <2>2. ASSUME NEW u \in Users PROVE Live(u)' = Live(u) /\ Lost(u)' = Lost(u)
    BY <1>0, <2>1 DEF PlainOK, Live, Lost, OfUser
  <2>3. ASSUME NEW u \in Users \ excused, UNCHANGED <<values, owner>> \/ UserOf[r] # u
        PROVE  Remembers(u)' /\ OwnerIsLast(u)' /\ Spaced(u)'
    <3>. DEFINE k == ClaimKey[u]
    <3>1. values'[k] = values[k] /\ seen'[k] = seen[k] /\ owner'[k] = owner[k] /\ seen[k] \in Nat
      BY <1>0, <1>a, <2>1, <2>3, KeysApart, Constants DEF PlainOK
    <3>. HIDE DEF k
    <3>. QED
      BY <1>0, <2>1, <2>2, <3>1, Worse DEF k
  <2>4. ASSUME NEW u \in Users \ excused, UserOf[r] = u, outcome[r] # "success", owner[Key(r)] = r,
               values' = [values EXCEPT ![Key(r)] = 0], owner' = [owner EXCEPT ![Key(r)] = None]
        PROVE  Remembers(u)' /\ OwnerIsLast(u)' /\ Spaced(u)'
    <3>. DEFINE k == ClaimKey[u]
    <3>1. k \in Keys /\ Key(r) = k /\ values'[k] = 0 /\ owner'[k] = None /\ seen'[k] = seen[k]
      BY <1>0, <2>1, <2>4, Constants DEF PlainOK, Key
    <3>2. \A e : Beaten(u, e)' = Beaten(u, e)
      BY <2>2 DEF Beaten
    <3>3. r \in Lost(u)
      BY <1>0, <2>1, <2>4 DEF OutcomeInv, Lost, OfUser
    <3>4. Remembers(u) /\ OwnerIsLast(u) /\ Spaced(u)
      BY DEF WinnerRuns, WinnerInv
    <3>5. ASSUME NEW q \in Live(u) PROVE Beaten(u, EventTime[q] + Cooldown) \/ Outlived(q, now)
      <4>1. r # q /\ r # None
        BY <3>3 DEF Live, Lost, Failed, Outcomes
      <4>2. claimed[r] \in 0..now
        BY <1>0, <2>1 DEF ClockInv
      <4>3. Outlived(q, claimed[r]) => Outlived(q, now)
        BY <1>0, <1>a, <4>2, Constants DEF Outlived
      <4>. QED
        BY <2>4, <3>1, <3>3, <3>4, <4>1, <4>3 DEF OwnerIsLast, Beaten
    <3>. HIDE DEF k
    <3>6. Remembers(u)'
      BY <2>1, <2>2, <3>1, <3>2, <3>5 DEF Remembers, Outlived, k
    <3>7. OwnerIsLast(u)'
      BY <3>1 DEF OwnerIsLast, k
    <3>8. Spaced(u)'
      BY <2>1, <2>2, <3>2, <3>4 DEF Spaced, ForgottenByStore
    <3>. QED
      BY <3>6, <3>7, <3>8
  <2>. QED
    BY <1>0, <2>1, <2>3, <2>4 DEF WinnerInv
<1>3. ASSUME NEW v \in Users, ResetUser(v) PROVE WinnerInv'
  <2>1. /\ excused' = excused \cup {v} /\ UNCHANGED <<now, seen, pc, outcome, claimed>>
        /\ values' = [values EXCEPT ![ResetKey[v]] = 0] /\ owner' = [owner EXCEPT ![ResetKey[v]] = None]
    BY <1>3 DEF ResetUser
  <2>2. ASSUME NEW u \in Users \ excused, u # v
        PROVE  Remembers(u)' /\ OwnerIsLast(u)' /\ Spaced(u)'
    <3>. DEFINE k == ClaimKey[u]
    <3>1. k # ResetKey[v]
      BY <2>2, ConstantsAssumption
    <3>2. values'[k] = values[k] /\ seen'[k] = seen[k] /\ owner'[k] = owner[k] /\ seen[k] \in Nat
      BY <1>0, <1>a, <2>1, <3>1, Constants DEF PlainOK
    <3>3. Live(u)' = Live(u) /\ Lost(u)' = Lost(u)
      BY <2>1 DEF Live, Lost, OfUser
    <3>. HIDE DEF k
    <3>. QED
      BY <1>0, <2>1, <3>2, <3>3, Worse DEF k
  <2>. QED
    BY <1>0, <2>1, <2>2 DEF WinnerInv
<1>4. CASE ResetAll
  BY <1>0, <1>4 DEF ResetAll, WinnerInv
<1>5. CASE UNCHANGED <<cooldown, excused, now, claimed>> /\ Mild
  <2>1. ASSUME NEW u \in Users \ excused
        PROVE  Remembers(u)' /\ OwnerIsLast(u)' /\ Spaced(u)'
    <3>1. Live(u)' \subseteq Live(u) /\ Lost(u) \subseteq Lost(u)'
      BY <1>5 DEF Mild, Live, Lost, OfUser
    <3>2. UNCHANGED <<values, seen, owner>>
      BY <1>5 DEF cooldown
    <3>. QED
      BY <1>0, <1>a, <1>5, <3>1, <3>2, Worse
  <2>. QED
    BY <1>0, <1>5, <2>1 DEF WinnerInv
<1>. QED
  BY <1>0, <1>1, <1>2, <1>3, <1>4, <1>5, Cooldowns DEF WinnerRuns

CooldownRuns == WinnerRuns /\ ValueInv /\ RefusedInv

LEMMA CooldownAlways == Spec => []CooldownRuns
<1>1. Init => WinnerInv /\ ValueInv /\ RefusedInv
  <2>1. Init => \A u : Live(u) = {}
    BY DEF Init, Live, OfUser
  <2>2. Init => ClockInv
    BY Constants DEF Init, ClockInv
  <2>3. Init => \A u \in Users : Remembers(u) /\ OwnerIsLast(u) /\ Spaced(u)
    BY <2>1 DEF Remembers, OwnerIsLast, Spaced
  <2>4. Init => ValueInv /\ RefusedInv
    BY NoneIsNone DEF Init, ValueInv, RefusedInv, Outcomes
  <2>. QED
    BY <2>2, <2>3, <2>4 DEF WinnerInv
<1>2. ClaimRuns /\ CooldownRuns /\ [Next]_vars => WinnerInv' /\ ValueInv' /\ RefusedInv'
  <2>. SUFFICES ASSUME ClaimRuns, CooldownRuns, [Next]_vars
                PROVE  WinnerInv' /\ ValueInv' /\ RefusedInv'
    OBVIOUS
  <2>1. PlainOK /\ RegistryInv /\ OutcomeInv /\ ClockInv /\ WinnerRuns /\ ValueInv /\ RefusedInv
    BY DEF CooldownRuns, WinnerRuns, WinnerInv, ClaimRuns
  <2>. QED
    BY <2>1, WinnerStep, ValueStep, RefusedStep
<1>. QED
  BY <1>1, <1>2, ClaimAlways, PTL DEF Spec, CooldownRuns, WinnerRuns

\* Two messages of a user are not both answered within the cooldown of the first,
\* in whatever order they reach the gate, unless the user was reset, a message
\* later than both failed, or their claims lie further apart than the store keeps
\* an untouched entry; and a message is refused only for an earlier claim of its
\* user less than the cooldown before it.
THEOREM CooldownsHold == Spec => []CooldownHolds
<1>1. CooldownRuns => CooldownHolds
  <2>. SUFFICES ASSUME CooldownRuns PROVE CooldownHolds
    OBVIOUS
  <2>. USE DEF CooldownRuns, WinnerRuns, ClaimRuns
  <2>1. ASSUME NEW q \in Requests, NEW r \in Requests, Answered(q, r)
        PROVE  \/ EventTime[r] - EventTime[q] >= Cooldown
               \/ ForgottenByFailure(r)
               \/ ForgottenByStore(q, r)
    <3>. DEFINE u == UserOf[r]
    <3>1. u \in Users \ excused /\ q \in Live(u) /\ r \in Live(u)
      BY <2>1, Constants, NoneIsNone DEF Answered, OutcomeInv, Live, OfUser, Outcomes
    <3>. HIDE DEF u
    <3>2. EventTime[r] - EventTime[q] >= Cooldown \/ Beaten(u, EventTime[r] + 1) \/ ForgottenByStore(q, r)
      BY <2>1, <3>1 DEF WinnerInv, Spaced, Answered
    <3>3. ASSUME NEW m \in Lost(u), EventTime[m] >= EventTime[r] + 1
          PROVE  m \in Requests /\ UserOf[m] = UserOf[r] /\ outcome[m] \in Failed /\ EventTime[m] > EventTime[r]
      BY <3>3, Constants DEF Lost, OfUser, u
    <3>. QED
      BY <3>2, <3>3 DEF Beaten, ForgottenByFailure
  <2>. QED
    BY <2>1 DEF CooldownHolds, RefusedInv
<1>. QED
  BY <1>1, CooldownAlways, PTL

\* The full cooldown holds of any two messages that were claimed within the time
\* the store keeps an untouched entry.
COROLLARY FullCooldown ==
  Spec => []((\A q, r \in Requests : claimed[q] # None /\ claimed[r] # None => ~ForgottenByStore(q, r))
               => CooldownIsFull)
<1>1. CooldownRuns => (\A r \in Requests : outcome[r] = "success" => claimed[r] # None)
  BY NoneIsNone DEF CooldownRuns, WinnerRuns, WinnerInv, ClaimRuns, OutcomeInv, ClockInv, Outcomes,
                    PlainOK
<1>2. CooldownHolds /\ (\A r \in Requests : outcome[r] = "success" => claimed[r] # None)
        => ((\A q, r \in Requests : claimed[q] # None /\ claimed[r] # None => ~ForgottenByStore(q, r))
              => CooldownIsFull)
  BY DEF CooldownHolds, CooldownIsFull, Answered
<1>. QED
  BY <1>1, <1>2, CooldownAlways, CooldownsHold, PTL
=============================================================================
