------------------------ MODULE PlatformServicesProofs ------------------------
(***************************************************************************)
(* What eight of the services of PlatformServices guarantee, proved for    *)
(* every value of the constants: confirmed actions, the turn of a          *)
(* conversation, shared answers, the choice of a model, isolated runs, the *)
(* leases of the Redis gate, the offer of tools and the parallel round;    *)
(* and that all ten stay within their types and bounds.                    *)
(*                                                                         *)
(* Each service has its own inductive invariant, over its own variables    *)
(* only.  The last section shows that a step of the whole is a step of a   *)
(* service or none of it, and concludes.                                   *)
(***************************************************************************)
EXTENDS PlatformServices, HistoryCacheProofs, SequenceTheorems, FiniteSetTheorems, WellFoundedInduction, TLAPS

-----------------------------------------------------------------------------
(* Confirmed actions.                                                        *)

\* A caller's newest code, or 0 once it was used; no two callers have the same.
CodesDistinct ==
  /\ given \in Nat /\ DOMAIN latest = Callers
  /\ \A c \in Callers : latest[c].code \in 0 .. given
  /\ \A c, d \in Callers : latest[c].code # 0 /\ latest[c].code = latest[d].code => c = d

ShownAs(a) == [code |-> a.code, args |-> a.args, gen |-> a.gen]

\* Only the newest code of a caller is stored.
OnlyNewest ==
  \A a \in stored : /\ a.caller \in Callers /\ a.args \in Arguments
                    /\ a.code # 0 /\ latest[a.caller] = ShownAs(a)

\* What a task is about to do was asked for by one of the callers.
WellAsked(r) ==
  /\ r.at = "asked" =>
       \/ r.verb = "call" /\ store = "protocol" /\ r.caller \in Callers /\ r.args \in Arguments
       \/ r.verb = "create" /\ r.caller \in Callers /\ r.args \in Arguments
       \/ r.verb \in {"confirm", "cancel"} /\ r.caller \in Callers
  /\ r.at = "agreed" => r.caller \in Callers /\ r.args \in Arguments
  /\ r.at = "calling" => r.key \in RateKeys /\ r.began \in Nat

HandlersKept == DOMAIN handlers = Handlers /\ \A h \in Handlers : WellAsked(handlers[h])

\* The calendar stays within its bound, so that every key is one of RateKeys.
Dated ==
  /\ clock \in Nat /\ day \in Nat /\ generation \in Nat
  /\ clock + day + generation <= MaxChanges

\* The window of a call that began at n is over, or it is the one t closes.
Lapsed(t, n) == n + Window <= clock \/ t = n + Window

AllLapsed(t, past) == \A i \in 1 .. Len(past) : \E j \in i .. Len(past) : Lapsed(t, past[j])

\* The limiter closes a key for the unknown result it learnt last.
WindowKept ==
  /\ tombstone \in [RateKeys -> Nat] /\ unsure \in [RateKeys -> Seq(Nat)]
  /\ \A k \in RateKeys : AllLapsed(tombstone[k], unsure[k])

ActionInv == CodesDistinct /\ OnlyNewest /\ HandlersKept /\ Dated /\ WindowKept

\* What NothingTwice says of a step.
Shown(h, r) ==
  latest[handlers[h].caller] = [code |-> handlers[h].code, args |-> r.args, gen |-> handlers[h].gen]
NoneOpen(k) == \A i \in DOMAIN unsure[k] : PassedOver(unsure[k], i)

OnceEach ==
  \A h \in Handlers :
    /\ handlers[h].at = "asked" /\ handlers'[h].at = "agreed" => Shown(h, handlers'[h])
    /\ handlers[h].at # "calling" /\ handlers'[h].at = "calling" => NoneOpen(handlers'[h].key)

LEMMA ActionsBegin == ActionInit => ActionInv
<1>. SUFFICES ASSUME ActionInit PROVE ActionInv
  OBVIOUS
<1>1. CodesDistinct /\ OnlyNewest /\ HandlersKept
  BY DEF ActionInit, CodesDistinct, OnlyNewest, HandlersKept, WellAsked, Idle, NoCode
<1>2. Dated
  BY ActionAssumption DEF ActionInit, Dated
<1>3. WindowKept
  BY DEF ActionInit, WindowKept, AllLapsed
<1>. QED
  BY <1>1, <1>2, <1>3 DEF ActionInv

\* A key that the limiter lets through has no unknown result left in its window.
LEMMA OpenKey ==
  ASSUME ActionInv, NEW k \in RateKeys, ~(tombstone[k] > clock)
  PROVE  NoneOpen(k)
<1>. DEFINE past == unsure[k]
<1>1. past \in Seq(Nat) /\ tombstone[k] \in Nat /\ clock \in Nat /\ AllLapsed(tombstone[k], past)
  BY DEF ActionInv, WindowKept, Dated
<1>2. DOMAIN past = 1 .. Len(past) /\ Len(past) \in Nat /\ \A i \in 1 .. Len(past) : past[i] \in Nat
  BY <1>1, LenProperties, ElementOfSeq
<1>. HIDE DEF past
<1>3. ASSUME NEW i \in DOMAIN past, clock < past[i] + Window
      PROVE  \E j \in DOMAIN past : j > i /\ past[j] + Window <= clock
  <2>1. PICK j \in i .. Len(past) : Lapsed(tombstone[k], past[j])
    BY <1>1, <1>2, <1>3 DEF AllLapsed
  <2>2. j \in 1 .. Len(past) /\ past[j] \in Nat /\ i \in Nat /\ past[i] \in Nat
    BY <1>2, <1>3, <2>1
  <2>3. past[j] + Window <= clock
    BY <1>1, <2>1, <2>2, ActionAssumption DEF Lapsed
  <2>4. j # i
    BY <1>3, <2>3, <2>2, <1>1, ActionAssumption
  <2>. QED
    BY <1>2, <2>2, <2>1, <2>3, <2>4
<1>. QED
  BY <1>3 DEF NoneOpen, PassedOver, past

\* One task moves: the others stay where they are.
LEMMA OthersWait ==
  ASSUME ActionInv, NEW h \in Handlers, NEW r, handlers' = [handlers EXCEPT ![h] = r],
         UNCHANGED store, WellAsked(r),
         r.at = "agreed" /\ handlers[h].at = "asked" => Shown(h, r),
         r.at = "calling" /\ handlers[h].at # "calling" => NoneOpen(r.key)
  PROVE  HandlersKept' /\ OnceEach
<1>1. handlers' = [g \in Handlers |-> IF g = h THEN r ELSE handlers[g]]
  BY DEF ActionInv, HandlersKept
<1>2. HandlersKept'
  BY <1>1 DEF ActionInv, HandlersKept, WellAsked
<1>. QED
  BY <1>1, <1>2 DEF OnceEach

\* What concerns neither a code nor a key.
LEMMA KeptCode ==
  ASSUME ActionInv, UNCHANGED <<clock, day, generation, stored, given, latest, tombstone, unsure>>,
         HandlersKept'
  PROVE  ActionInv'
BY DEF ActionInv, CodesDistinct, OnlyNewest, Dated, WindowKept, AllLapsed, Lapsed

LEMMA AskSteps ==
  ASSUME ActionInv, NEW h \in Handlers, NEW ask \in Wishes, Ask(h, ask)
  PROVE  ActionInv' /\ OnceEach
<1>1. handlers' = [handlers EXCEPT ![h] = Asked(ask)]
  BY DEF Ask
<1>2. Asked(ask).at = "asked" /\ WellAsked(Asked(ask))
  <2>1. \A f \in DOMAIN ask : f \notin {"at", "now", "gen"} => Asked(ask)[f] = ask[f]
    BY DEF Asked
  <2>2. Asked(ask)["at"] = "asked"
    BY DEF Asked
  <2>3. CASE ask \in [verb : {"create"}, caller : Callers, args : Arguments, code : {0}]
    BY <2>1, <2>2, <2>3 DEF WellAsked
  <2>4. CASE ask \in [verb : {"confirm", "cancel"}, caller : Callers, code : 1 .. given]
    BY <2>1, <2>2, <2>4 DEF WellAsked
  <2>5. CASE ask \in [verb : {"call"}, caller : Callers, args : Arguments]
    BY <2>1, <2>2, <2>5 DEF WellAsked, Ask
  <2>. QED
    BY <2>3, <2>4, <2>5, <2>2 DEF Wishes
<1>3. UNCHANGED <<store, clock, day, generation, stored, given, latest, tombstone, unsure>>
  BY DEF Ask, codes, limiter
<1>4. HandlersKept' /\ OnceEach
  BY <1>1, <1>2, <1>3, OthersWait
<1>. QED
  BY <1>3, <1>4, KeptCode

LEMMA Finishes ==
  ASSUME ActionInv, NEW h \in Handlers, Finish(h), UNCHANGED store
  PROVE  HandlersKept' /\ OnceEach
<1>1. handlers' = [handlers EXCEPT ![h] = Idle] /\ Idle.at = "idle" /\ WellAsked(Idle)
  BY DEF Finish, Idle, WellAsked
<1>. QED
  BY <1>1, OthersWait

\* A new code takes the place of the older one of its caller.
LEMMA CreateSteps ==
  ASSUME ActionInv, NEW h \in Handlers, handlers[h].at = "asked", handlers[h].verb = "create",
         CreateInMemory(h) \/ CreateInRedis(h)
  PROVE  CodesDistinct' /\ OnlyNewest'
<1>. DEFINE c == handlers[h].caller
            others == Current(h) \ InSlot(h)
<1>1. c \in Callers /\ handlers[h].args \in Arguments
  BY DEF ActionInv, HandlersKept, WellAsked
<1>2. others \subseteq stored /\ (\A a \in others : a.caller # c) /\ Current(h) \subseteq stored
  BY DEF Current, InSlot
<1>3. CASE stored' \subseteq stored /\ UNCHANGED <<given, latest>>
  BY <1>3 DEF ActionInv, CodesDistinct, OnlyNewest
<1>4. CASE stored' = others \cup {NewAction(h)} /\ GiveCode(h)
  <2>1. NewAction(h).caller = c /\ NewAction(h).args = handlers[h].args /\ NewAction(h).code = given + 1
    BY DEF NewAction
  <2>2. /\ given' = given + 1
        /\ latest' = [d \in Callers |-> IF d = c THEN ShownAs(NewAction(h)) ELSE latest[d]]
    BY <1>4 DEF GiveCode, ActionInv, CodesDistinct, ShownAs, NewAction
  <2>3. given \in Nat /\ \A d \in Callers : latest[d].code \in 0 .. given
    BY DEF ActionInv, CodesDistinct
  <2>6. ShownAs(NewAction(h)).code = given + 1
    BY <2>1 DEF ShownAs
  <2>4. CodesDistinct'
    <3>1. /\ given' \in Nat /\ DOMAIN latest' = Callers
          /\ \A d \in Callers : latest'[d].code \in 0 .. given'
      BY <2>2, <2>3, <2>6
    <3>2. ASSUME NEW d \in Callers, NEW e \in Callers,
                 latest'[d].code # 0, latest'[d].code = latest'[e].code
          PROVE  d = e
      BY <2>2, <2>3, <2>6, <3>2 DEF ActionInv, CodesDistinct
    <3>. QED
      BY <3>1, <3>2 DEF CodesDistinct
  <2>5. ASSUME NEW a \in stored'
        PROVE  /\ a.caller \in Callers /\ a.args \in Arguments /\ a.code # 0
               /\ latest'[a.caller] = ShownAs(a)
    <3>. HIDE DEF others
    <3>1. CASE a \in others
      BY <1>2, <2>2, <3>1 DEF ActionInv, OnlyNewest
    <3>2. CASE a = NewAction(h)
      BY <1>1, <2>1, <2>2, <2>3, <3>2
    <3>. QED
      BY <1>4, <2>5, <3>1, <3>2
  <2>. QED
    BY <2>4, <2>5 DEF OnlyNewest
<1>. QED
  BY <1>2, <1>3, <1>4 DEF CreateInMemory, CreateInRedis

\* A code that was agreed to or cancelled was its caller's newest and is gone.
LEMMA RedeemSteps ==
  ASSUME ActionInv, NEW h \in Handlers, handlers[h].at = "asked",
         handlers[h].verb \in {"confirm", "cancel"},
         Redeems(h), UseUp(h), UNCHANGED given
  PROVE  /\ CodesDistinct' /\ OnlyNewest'
         /\ \A a \in Meant(h) : a.args \in Arguments /\ (handlers[h].verb = "confirm" => Shown(h, a))
<1>. DEFINE c == handlers[h].caller
<1>1. c \in Callers
  BY DEF ActionInv, HandlersKept, WellAsked
<1>2. \A a \in Meant(h) : /\ a \in stored /\ a.caller = c /\ a.code = handlers[h].code
                           /\ a.args \in Arguments /\ a.code # 0 /\ latest[c] = ShownAs(a)
  BY DEF Meant, ActionInv, OnlyNewest
<1>8. \A a \in Meant(h) : handlers[h].verb = "confirm" => Shown(h, a)
  <2>1. ASSUME NEW a \in Meant(h), handlers[h].verb = "confirm" PROVE a.gen = handlers[h].gen
    BY <2>1 DEF Meant
  <2>. QED
    BY <1>2, <2>1 DEF Shown, ShownAs
<1>3. latest' = [d \in Callers |-> IF \E a \in Meant(h) : a.code = latest[d].code
                                     THEN NoCode ELSE latest[d]]
  BY DEF UseUp
<1>4. given' = given /\ given \in Nat /\ \A d \in Callers : latest[d].code \in 0 .. given
  BY DEF ActionInv, CodesDistinct
<1>5. NoCode.code = 0 /\ \A d \in Callers : latest'[d] = latest[d] \/ latest'[d].code = 0
  BY <1>3 DEF NoCode
<1>6. CodesDistinct'
  <2>1. DOMAIN latest' = Callers /\ \A d \in Callers : latest'[d].code \in 0 .. given'
    BY <1>3, <1>4, <1>5
  <2>2. ASSUME NEW d \in Callers, NEW e \in Callers,
               latest'[d].code # 0, latest'[d].code = latest'[e].code
        PROVE  d = e
    BY <1>5, <2>2 DEF ActionInv, CodesDistinct
  <2>. QED
    BY <1>4, <2>1, <2>2 DEF CodesDistinct
<1>7. ASSUME NEW a \in stored'
      PROVE  /\ a.caller \in Callers /\ a.args \in Arguments /\ a.code # 0
             /\ latest'[a.caller] = ShownAs(a)
  <2>1. a \in stored /\ a \notin Withdrawn(h)
    BY <1>7 DEF Redeems
  <2>2. /\ a.caller \in Callers /\ a.args \in Arguments /\ a.code # 0
        /\ latest[a.caller] = ShownAs(a) /\ ShownAs(a).code = a.code
    BY <2>1 DEF ActionInv, OnlyNewest, ShownAs
  <2>3. ASSUME NEW b \in Meant(h), b.code = latest[a.caller].code PROVE FALSE
    <3>1. latest[c].code = latest[a.caller].code /\ latest[c].code # 0
      <4>1. latest[c] = ShownAs(b) /\ b.code # 0
        BY <1>2
      <4>2. ShownAs(b).code = b.code
        BY DEF ShownAs
      <4>. QED
        BY <2>3, <4>1, <4>2
    <3>2. a.caller = c
      BY <1>1, <2>2, <3>1 DEF ActionInv, CodesDistinct
    <3>3. a.code = handlers[h].code
      BY <1>2, <2>2, <2>3
    <3>. QED
      BY <2>1, <3>2, <3>3 DEF Withdrawn
  <2>. QED
    BY <1>3, <2>2, <2>3
<1>. QED
  BY <1>2, <1>6, <1>7, <1>8 DEF OnlyNewest

LEMMA ResolveSteps ==
  ASSUME ActionInv, NEW h \in Handlers, Resolve(h)
  PROVE  ActionInv' /\ OnceEach
<1>1. UNCHANGED <<store, clock, day, generation, given, tombstone, unsure>>
  BY DEF Resolve, limiter
<1>2. CASE Blocked(h)
  <2>1. Finish(h) /\ UNCHANGED <<stored, latest>>
    BY <1>2 DEF Resolve
  <2>. QED
    BY <1>1, <2>1, Finishes, KeptCode
<1>3. CASE ~Blocked(h)
  <2>1. /\ handlers[h].at = "asked" /\ handlers[h].verb \in {"confirm", "cancel"}
        /\ Redeems(h) /\ UseUp(h)
    BY <1>3 DEF Resolve
  <2>2. /\ CodesDistinct' /\ OnlyNewest'
        /\ \A a \in Meant(h) : a.args \in Arguments /\ (handlers[h].verb = "confirm" => Shown(h, a))
    BY <1>1, <2>1, RedeemSteps
  <2>3. HandlersKept' /\ OnceEach
    <3>1. CASE Finish(h)
      BY <1>1, <3>1, Finishes
    <3>2. CASE handlers[h].verb = "confirm" /\ Meant(h) # {}
      <4>. DEFINE a == CHOOSE a \in Meant(h) : TRUE
                  r == [at |-> "agreed", caller |-> handlers[h].caller, args |-> a.args]
      <4>1. handlers' = [handlers EXCEPT ![h] = r]
        BY <1>3, <3>2 DEF Resolve
      <4>2. a \in Meant(h)
        BY <3>2
      <4>. HIDE DEF a
      <4>3. r.at = "agreed" /\ WellAsked(r) /\ r.args = a.args
        BY <2>1, <2>2, <4>2 DEF WellAsked, ActionInv, HandlersKept
      <4>4. Shown(h, r)
        BY <2>2, <3>2, <4>2, <4>3 DEF Shown
      <4>. HIDE DEF r
      <4>. QED
        BY <1>1, <4>1, <4>3, <4>4, OthersWait
    <3>. QED
      BY <1>3, <3>1, <3>2 DEF Resolve
  <2>. QED
    BY <1>1, <2>2, <2>3 DEF ActionInv, Dated, WindowKept, AllLapsed, Lapsed
<1>. QED
  BY <1>2, <1>3

\* The tombstones that are over are forgotten: their windows are over too.
LEMMA CallSteps ==
  ASSUME ActionInv, NEW h \in Handlers, CallAction(h)
  PROVE  ActionInv' /\ OnceEach
<1>. DEFINE k == RateKey(h)
            r == [at |-> "calling", key |-> k, began |-> clock]
<1>1. UNCHANGED <<store, clock, day, generation, stored, given, latest, unsure>>
  BY DEF CallAction, codes
<1>2. handlers[h].caller \in Callers /\ handlers[h].args \in Arguments
  BY DEF CallAction, ActionInv, HandlersKept, WellAsked
<1>3. k \in RateKeys /\ clock \in Nat
  <2>1. day \in 0 .. MaxChanges /\ clock \in Nat
    BY ActionAssumption DEF ActionInv, Dated
  <2>. QED
    BY <1>2, <2>1 DEF RateKey, RateKeys
<1>4. Finish(h) \/ (~(tombstone[k] > clock) /\ handlers' = [handlers EXCEPT ![h] = r])
  BY DEF CallAction
<1>5. r.at = "calling" /\ r.key = k /\ WellAsked(r)
  BY <1>3 DEF WellAsked
<1>6. ~(tombstone[k] > clock) => NoneOpen(k)
  BY <1>3, OpenKey
<1>7. tombstone' = [q \in RateKeys |-> IF tombstone[q] > clock THEN tombstone[q] ELSE 0]
  BY DEF CallAction
<1>. HIDE DEF k, r
<1>8. HandlersKept' /\ OnceEach
  <2>1. CASE Finish(h)
    BY <1>1, <2>1, Finishes
  <2>2. CASE ~(tombstone[k] > clock) /\ handlers' = [handlers EXCEPT ![h] = r]
    BY <1>1, <1>5, <1>6, <2>2, OthersWait
  <2>. QED
    BY <1>4, <2>1, <2>2
<1>9. WindowKept'
  <2>1. tombstone' \in [RateKeys -> Nat] /\ unsure' \in [RateKeys -> Seq(Nat)]
    BY <1>1, <1>7 DEF ActionInv, WindowKept
  <2>2. ASSUME NEW q \in RateKeys PROVE AllLapsed(tombstone[q], unsure[q])'
    <3>. DEFINE past == unsure[q]
    <3>1. /\ past \in Seq(Nat) /\ tombstone[q] \in Nat /\ AllLapsed(tombstone[q], past)
          /\ unsure'[q] = past
      BY <1>1 DEF ActionInv, WindowKept
    <3>2. \A j \in 1 .. Len(past) : past[j] \in Nat
      BY <3>1, ElementOfSeq
    <3>3. tombstone'[q] = IF tombstone[q] > clock THEN tombstone[q] ELSE 0
      BY <1>7
    <3>. HIDE DEF past
    <3>4. ASSUME NEW j \in 1 .. Len(past), Lapsed(tombstone[q], past[j])
          PROVE  past[j] + Window <= clock \/ tombstone'[q] = past[j] + Window
      BY <1>3, <3>1, <3>2, <3>3, <3>4, ActionAssumption DEF Lapsed
    <3>5. ASSUME NEW i \in 1 .. Len(past)
          PROVE  \E j \in i .. Len(past) : past[j] + Window <= clock \/ tombstone'[q] = past[j] + Window
      <4>1. PICK j \in i .. Len(past) : Lapsed(tombstone[q], past[j])
        BY <3>1 DEF AllLapsed
      <4>2. j \in 1 .. Len(past)
        BY <4>1, <3>1, LenProperties
      <4>. QED
        BY <3>4, <4>1, <4>2
    <3>. QED
      BY <1>1, <3>1, <3>5 DEF AllLapsed, Lapsed
  <2>. QED
    BY <2>1, <2>2 DEF WindowKept
<1>. QED
  BY <1>1, <1>8, <1>9 DEF ActionInv, CodesDistinct, OnlyNewest, Dated

\* A call whose result is unknown closes its key for all that is known of it.
LEMMA UnknownSteps ==
  ASSUME ActionInv, NEW h \in Handlers, Unknown(h)
  PROVE  ActionInv' /\ OnceEach
<1>. DEFINE k == handlers[h].key
            n == handlers[h].began
<1>1. UNCHANGED <<store, clock, day, generation, stored, given, latest>> /\ Finish(h)
  BY DEF Unknown, codes
<1>2. k \in RateKeys /\ n \in Nat
  BY DEF Unknown, ActionInv, HandlersKept, WellAsked
<1>3. HandlersKept' /\ OnceEach
  BY <1>1, Finishes
<1>4. CASE UNCHANGED <<tombstone, unsure>>
  BY <1>1, <1>3, <1>4, KeptCode
<1>5. CASE /\ tombstone' = [tombstone EXCEPT ![k] = n + Window]
           /\ unsure' = [unsure EXCEPT ![k] = Append(@, n)]
  <2>. HIDE DEF k, n
  <2>1. /\ tombstone \in [RateKeys -> Nat] /\ unsure \in [RateKeys -> Seq(Nat)]
        /\ Window \in Nat /\ n + Window \in Nat
    BY <1>2, ActionAssumption DEF ActionInv, WindowKept
  <2>2. tombstone' \in [RateKeys -> Nat] /\ tombstone'[k] = n + Window
    BY <1>2, <1>5, <2>1
  <2>3. unsure[k] \in Seq(Nat) /\ Append(unsure[k], n) \in Seq(Nat)
    BY <1>2, <2>1, AppendProperties
  <2>4. unsure' \in [RateKeys -> Seq(Nat)] /\ unsure'[k] = Append(unsure[k], n)
    BY <1>2, <1>5, <2>1, <2>3
  <2>5. ASSUME NEW q \in RateKeys, q # k PROVE AllLapsed(tombstone[q], unsure[q])'
    <3>1. tombstone'[q] = tombstone[q] /\ unsure'[q] = unsure[q] /\ clock' = clock
      BY <1>1, <1>5, <2>1, <2>5
    <3>. QED
      BY <3>1 DEF ActionInv, WindowKept, AllLapsed, Lapsed
  <2>6. ASSUME NEW q \in RateKeys, q = k PROVE AllLapsed(tombstone[q], unsure[q])'
    <3>. DEFINE past == unsure'[q]
    <3>1. Len(past) = Len(unsure[k]) + 1 /\ past[Len(past)] = n /\ Len(unsure[k]) \in Nat
      BY <1>2, <2>3, <2>4, <2>6, AppendProperties, LenProperties
    <3>. HIDE DEF past
    <3>2. ASSUME NEW i \in 1 .. Len(past)
          PROVE  \E j \in i .. Len(past) : tombstone'[q] = past[j] + Window
      <4>1. Len(past) \in i .. Len(past) /\ tombstone'[q] = past[Len(past)] + Window
        BY <2>2, <2>6, <3>1, <3>2
      <4>. QED
        BY <4>1
    <3>3. \A i \in 1 .. Len(past) :
            \E j \in i .. Len(past) : past[j] + Window <= clock' \/ tombstone'[q] = past[j] + Window
      BY <3>2
    <3>. QED
      BY <3>3 DEF AllLapsed, Lapsed, past
  <2>7. WindowKept'
    BY <2>2, <2>4, <2>5, <2>6 DEF WindowKept
  <2>. QED
    BY <1>1, <1>3, <2>7 DEF ActionInv, CodesDistinct, OnlyNewest, Dated
<1>. QED
  BY <1>4, <1>5 DEF Unknown

\* Time closes no window again; a new day or a new snapshot touches none.
LEMMA ChangeSteps ==
  ASSUME ActionInv, ClockTicks \/ Midnight \/ SnapshotChanges
  PROVE  ActionInv' /\ OnceEach
<1>1. UNCHANGED <<store, stored, given, latest, handlers, tombstone, unsure>>
  BY DEF ClockTicks, Midnight, SnapshotChanges, codes, limiter
<1>2. CodesDistinct' /\ OnlyNewest' /\ HandlersKept' /\ OnceEach
  BY <1>1 DEF ActionInv, CodesDistinct, OnlyNewest, HandlersKept, WellAsked, OnceEach
<1>3. Dated' /\ clock \in Nat /\ clock' \in Nat /\ clock <= clock'
  BY ActionAssumption DEF ClockTicks, Midnight, SnapshotChanges, MayChange, ActionInv, Dated
<1>4. WindowKept'
  <2>1. ASSUME NEW q \in RateKeys PROVE AllLapsed(tombstone[q], unsure[q])'
    <3>. DEFINE past == unsure[q]
    <3>1. past \in Seq(Nat) /\ AllLapsed(tombstone[q], past) /\ unsure'[q] = past
          /\ tombstone'[q] = tombstone[q]
      BY <1>1 DEF ActionInv, WindowKept
    <3>2. \A j \in 1 .. Len(past) : past[j] \in Nat
      BY <3>1, ElementOfSeq
    <3>. HIDE DEF past
    <3>3. ASSUME NEW j \in 1 .. Len(past), Lapsed(tombstone[q], past[j])
          PROVE  past[j] + Window <= clock' \/ tombstone[q] = past[j] + Window
      BY <1>3, <3>2, <3>3, ActionAssumption DEF Lapsed
    <3>4. ASSUME NEW i \in 1 .. Len(past)
          PROVE  \E j \in i .. Len(past) : past[j] + Window <= clock' \/ tombstone[q] = past[j] + Window
      <4>1. PICK j \in i .. Len(past) : Lapsed(tombstone[q], past[j])
        BY <3>1 DEF AllLapsed
      <4>2. j \in 1 .. Len(past)
        BY <4>1, <3>1, LenProperties
      <4>. QED
        BY <3>3, <4>1, <4>2
    <3>. QED
      BY <3>1, <3>4 DEF AllLapsed, Lapsed
  <2>. QED
    BY <1>1, <2>1 DEF ActionInv, WindowKept
<1>. QED
  BY <1>2, <1>3, <1>4 DEF ActionInv

LEMMA ActionStep ==
  ASSUME ActionInv, ActionNext
  PROVE  ActionInv' /\ OnceEach
<1>1. ASSUME NEW h \in Handlers, Create(h) \/ AnswerLost(h) PROVE ActionInv' /\ OnceEach
  <2>1. UNCHANGED <<store, clock, day, generation, tombstone, unsure>> /\ Finish(h)
    BY <1>1 DEF Create, AnswerLost, limiter
  <2>2. CodesDistinct' /\ OnlyNewest'
    <3>1. CASE Create(h)
      BY <3>1, CreateSteps DEF Create
    <3>2. CASE AnswerLost(h) /\ handlers[h].verb = "create"
      BY <3>2, CreateSteps DEF AnswerLost
    <3>3. CASE AnswerLost(h) /\ handlers[h].verb # "create"
      <4>1. handlers[h].at = "asked" /\ handlers[h].verb \in {"confirm", "cancel"}
        BY <3>3 DEF AnswerLost, ActionInv, HandlersKept, WellAsked
      <4>. QED
        BY <3>3, <4>1, RedeemSteps DEF AnswerLost
    <3>. QED
      BY <1>1, <3>1, <3>2, <3>3
  <2>. QED
    BY <2>1, <2>2, Finishes DEF ActionInv, Dated, WindowKept, AllLapsed, Lapsed
<1>2. ASSUME NEW h \in Handlers, GiveUp(h) \/ Execute(h) \/ Answered(h) PROVE ActionInv' /\ OnceEach
  <2>1. /\ UNCHANGED <<store, clock, day, generation, stored, given, latest, tombstone, unsure>>
        /\ Finish(h)
    BY <1>2 DEF GiveUp, Execute, Answered, codes, limiter
  <2>. QED
    BY <2>1, Finishes, KeptCode
<1>3. ASSUME NEW h \in Handlers, CallAction(h) PROVE ActionInv' /\ OnceEach
  BY <1>3, CallSteps
<1>4. ASSUME NEW h \in Handlers, Unknown(h) PROVE ActionInv' /\ OnceEach
  BY <1>4, UnknownSteps
<1>5. CASE ClockTicks \/ Midnight \/ SnapshotChanges
  BY <1>5, ChangeSteps
<1>6. ASSUME NEW h \in Handlers, NEW ask \in Wishes, Ask(h, ask) PROVE ActionInv' /\ OnceEach
  BY <1>6, AskSteps
<1>7. ASSUME NEW h \in Handlers, Resolve(h) PROVE ActionInv' /\ OnceEach
  BY <1>7, ResolveSteps
<1>. QED
  BY <1>1, <1>2, <1>3, <1>4, <1>5, <1>6, <1>7 DEF ActionNext

\* What the bounds of the stores say of the types.
Placed(r) ==
  /\ r.at \in {"idle", "asked", "agreed", "calling"}
  /\ r.at = "asked" /\ r.verb = "create" => r.gen \in Nat /\ r.gen <= generation

ActionBounded ==
  /\ generation \in Nat
  /\ IsFiniteSet(stored) /\ Cardinality(stored) <= MaxEntries
  /\ \A a \in stored : a.gen \in Nat /\ a.gen <= generation
  /\ DOMAIN budget = Callers /\ \A c \in Callers : budget[c].count \in 0 .. MaxFailures
  /\ \A h \in Handlers : Placed(handlers[h])
  /\ store # "protocol" => \A k \in RateKeys : claims[k] = <<>>

LEMMA ActionsBounded ==
  ASSUME ActionInit
  PROVE  ActionBounded
<1>1. IsFiniteSet(stored) /\ Cardinality(stored) = 0
  BY FS_EmptySet DEF ActionInit
<1>2. \A h \in Handlers : Placed(handlers[h])
  BY DEF ActionInit, Idle, Placed
<1>3. DOMAIN budget = Callers /\ \A c \in Callers : budget[c].count = 0
  BY DEF ActionInit, NoBudget
<1>. QED
  BY <1>1, <1>2, <1>3, ActionAssumption DEF ActionInit, ActionBounded

\* One task moves.
LEMMA OthersPlaced ==
  ASSUME ActionInv, ActionBounded, NEW h \in Handlers, NEW r, handlers' = [handlers EXCEPT ![h] = r],
         UNCHANGED generation, Placed(r)
  PROVE  \A g \in Handlers : Placed(handlers[g])'
<1>1. handlers' = [g \in Handlers |-> IF g = h THEN r ELSE handlers[g]]
  BY DEF ActionInv, HandlersKept
<1>. QED
  BY <1>1 DEF ActionBounded, Placed

LEMMA FinishPlaced ==
  ASSUME ActionInv, ActionBounded, NEW h \in Handlers, Finish(h), UNCHANGED generation
  PROVE  \A g \in Handlers : Placed(handlers[g])'
<1>1. handlers' = [handlers EXCEPT ![h] = Idle] /\ Placed(Idle)
  BY DEF Finish, Idle, Placed
<1>. QED
  BY <1>1, OthersPlaced

\* A store that is full takes nothing in.
LEMMA CreateBounded ==
  ASSUME ActionInv, ActionBounded, NEW h \in Handlers,
         handlers[h].at = "asked", handlers[h].verb = "create",
         CreateInMemory(h) \/ CreateInRedis(h), UNCHANGED generation
  PROVE  /\ IsFiniteSet(stored') /\ Cardinality(stored') <= MaxEntries
         /\ \A a \in stored' : a.gen \in Nat /\ a.gen <= generation'
<1>. DEFINE others == Current(h) \ InSlot(h)
            a0 == NewAction(h)
<1>1. Current(h) \subseteq stored /\ others \subseteq stored
  BY DEF Current
<1>2. a0.gen = handlers[h].gen
  BY DEF NewAction
<1>3. \/ stored' \subseteq stored
      \/ stored' = others \cup {a0} /\ ~(Cardinality(others) >= MaxEntries)
  BY <1>1 DEF CreateInMemory, CreateInRedis
<1>4. handlers[h].gen \in Nat /\ handlers[h].gen <= generation
  BY DEF ActionBounded, Placed
<1>. HIDE DEF others, a0
<1>5. CASE stored' \subseteq stored
  <2>1. IsFiniteSet(stored') /\ Cardinality(stored') <= Cardinality(stored)
    BY <1>5, FS_Subset DEF ActionBounded
  <2>2. Cardinality(stored') \in Nat /\ Cardinality(stored) \in Nat
    BY <2>1, FS_CardinalityType DEF ActionBounded
  <2>. QED
    BY <1>5, <2>1, <2>2, ActionAssumption DEF ActionBounded
<1>6. CASE stored' = others \cup {a0} /\ ~(Cardinality(others) >= MaxEntries)
  <2>1. IsFiniteSet(others) /\ Cardinality(others) \in Nat
    BY <1>1, FS_Subset, FS_CardinalityType DEF ActionBounded
  <2>2. /\ IsFiniteSet(others \cup {a0})
        /\ Cardinality(others \cup {a0}) = IF a0 \in others THEN Cardinality(others) ELSE Cardinality(others) + 1
    BY <2>1, FS_AddElement
  <2>3. Cardinality(stored') <= MaxEntries
    BY <1>6, <2>1, <2>2, ActionAssumption
  <2>. QED
    BY <1>1, <1>2, <1>4, <1>6, <2>2, <2>3 DEF ActionBounded
<1>. QED
  BY <1>3, <1>5, <1>6

LEMMA RedeemBounded ==
  ASSUME ActionInv, ActionBounded, NEW h \in Handlers, handlers[h].at = "asked",
         handlers[h].verb \in {"confirm", "cancel"}, Redeems(h), ~Blocked(h), UNCHANGED generation
  PROVE  /\ IsFiniteSet(stored') /\ Cardinality(stored') <= MaxEntries
         /\ \A a \in stored' : a.gen \in Nat /\ a.gen <= generation'
         /\ DOMAIN budget' = Callers /\ \A c \in Callers : budget'[c].count \in 0 .. MaxFailures
<1>. DEFINE c == handlers[h].caller
            old == Budget(c, Now(h))
            b == IF Meant(h) # {} \/ store = "protocol" THEN NoBudget
                 ELSE [count |-> old.count + 1,
                       until |-> IF old = NoBudget THEN Now(h) + Window ELSE old.until]
<1>1. stored' \subseteq stored
  BY DEF Redeems
<1>2. IsFiniteSet(stored') /\ Cardinality(stored') <= Cardinality(stored)
  BY <1>1, FS_Subset DEF ActionBounded
<1>3. Cardinality(stored') \in Nat /\ Cardinality(stored) \in Nat
  BY <1>2, FS_CardinalityType DEF ActionBounded
<1>4. NoBudget.count = 0
  BY DEF NoBudget
<1>5. c \in Callers
  BY DEF ActionInv, HandlersKept, WellAsked
<1>6. old.count \in 0 .. MaxFailures
  BY <1>4, <1>5, ActionAssumption DEF Budget, ActionBounded
<1>7. CASE Meant(h) # {} \/ store = "protocol"
  <2>1. budget' = [budget EXCEPT ![c] = NoBudget]
    BY <1>7 DEF Redeems
  <2>2. DOMAIN budget' = Callers /\ \A d \in Callers : budget'[d].count \in 0 .. MaxFailures
    BY <1>4, <1>5, <2>1, ActionAssumption DEF ActionBounded
  <2>. QED
    BY <1>1, <1>2, <1>3, <2>2, ActionAssumption DEF ActionBounded
<1>8. CASE ~(Meant(h) # {} \/ store = "protocol")
  <2>. DEFINE n == [count |-> old.count + 1,
                    until |-> IF old = NoBudget THEN Now(h) + Window ELSE old.until]
  <2>1. budget' = [budget EXCEPT ![c] = n]
    BY <1>8 DEF Redeems
  <2>2. ~(old.count >= MaxFailures)
    BY <1>8 DEF Blocked
  <2>3. n.count = old.count + 1
    OBVIOUS
  <2>. HIDE DEF n, old
  <2>4. n.count \in 0 .. MaxFailures
    BY <1>6, <2>2, <2>3, ActionAssumption
  <2>5. DOMAIN budget' = Callers /\ \A d \in Callers : budget'[d].count \in 0 .. MaxFailures
    BY <1>5, <2>1, <2>4, ActionAssumption DEF ActionBounded
  <2>. QED
    BY <1>1, <1>2, <1>3, <2>5, ActionAssumption DEF ActionBounded
<1>. QED
  BY <1>7, <1>8

LEMMA BoundedStep ==
  ASSUME ActionInv, ActionBounded, ActionNext
  PROVE  ActionBounded'
<1>1. ASSUME NEW h \in Handlers, Create(h) PROVE ActionBounded'
  <2>1. UNCHANGED <<store, generation, budget, claims>> /\ Finish(h)
    BY <1>1 DEF Create, limiter
  <2>2. /\ IsFiniteSet(stored') /\ Cardinality(stored') <= MaxEntries
        /\ \A a \in stored' : a.gen \in Nat /\ a.gen <= generation'
    BY <1>1, <2>1, CreateBounded DEF Create
  <2>3. \A g \in Handlers : Placed(handlers[g])'
    BY <2>1, FinishPlaced
  <2>. QED
    BY <2>1, <2>2, <2>3 DEF ActionBounded
<1>2. ASSUME NEW h \in Handlers, AnswerLost(h) PROVE ActionBounded'
  <2>1. UNCHANGED <<store, generation, claims>> /\ Finish(h)
    BY <1>2 DEF AnswerLost, limiter
  <2>2. \A g \in Handlers : Placed(handlers[g])'
    BY <2>1, FinishPlaced
  <2>3. CASE handlers[h].verb = "create"
    <3>1. UNCHANGED budget /\ CreateInRedis(h) /\ handlers[h].at = "asked"
      BY <1>2, <2>3 DEF AnswerLost
    <3>2. /\ IsFiniteSet(stored') /\ Cardinality(stored') <= MaxEntries
          /\ \A a \in stored' : a.gen \in Nat /\ a.gen <= generation'
      BY <2>1, <2>3, <3>1, CreateBounded
    <3>. QED
      BY <2>1, <2>2, <3>1, <3>2 DEF ActionBounded
  <2>4. CASE handlers[h].verb # "create"
    <3>1. handlers[h].at = "asked" /\ handlers[h].verb \in {"confirm", "cancel"}
      BY <1>2, <2>4 DEF AnswerLost, ActionInv, HandlersKept, WellAsked
    <3>2. Redeems(h) /\ ~Blocked(h)
      BY <1>2, <2>4 DEF AnswerLost
    <3>. QED
      BY <2>1, <2>2, <3>1, <3>2, RedeemBounded DEF ActionBounded
  <2>. QED
    BY <2>3, <2>4
<1>3. ASSUME NEW h \in Handlers, GiveUp(h) \/ Execute(h) \/ Answered(h) \/ Unknown(h) PROVE ActionBounded'
  <2>1. UNCHANGED <<store, generation, stored, budget, claims>> /\ Finish(h)
    BY <1>3 DEF GiveUp, Execute, Answered, Unknown, codes, limiter
  <2>. QED
    BY <2>1, FinishPlaced DEF ActionBounded
<1>4. ASSUME NEW h \in Handlers, CallAction(h) PROVE ActionBounded'
  <2>1. UNCHANGED <<store, generation, stored, budget>> /\ store = "protocol"
    BY <1>4 DEF CallAction, codes
  <2>. DEFINE r == [at |-> "calling", key |-> RateKey(h), began |-> clock]
  <2>2. Finish(h) \/ handlers' = [handlers EXCEPT ![h] = r]
    BY <1>4 DEF CallAction
  <2>3. Placed(r)
    BY DEF Placed
  <2>. HIDE DEF r
  <2>4. \A g \in Handlers : Placed(handlers[g])'
    BY <2>1, <2>2, <2>3, FinishPlaced, OthersPlaced
  <2>. QED
    BY <2>1, <2>4 DEF ActionBounded
<1>5. CASE ClockTicks \/ Midnight
  BY <1>5 DEF ClockTicks, Midnight, codes, limiter, ActionBounded, Placed
<1>6. CASE SnapshotChanges
  <2>1. generation' = generation + 1 /\ UNCHANGED <<store, stored, budget, handlers, claims>>
    BY <1>6 DEF SnapshotChanges, codes, limiter
  <2>. QED
    BY <2>1 DEF ActionBounded, Placed
<1>7. ASSUME NEW h \in Handlers, NEW ask \in Wishes, Ask(h, ask) PROVE ActionBounded'
  <2>1. handlers' = [handlers EXCEPT ![h] = Asked(ask)] /\ UNCHANGED <<store, generation, stored, budget, claims>>
    BY <1>7 DEF Ask, codes, limiter
  <2>2. Asked(ask)["at"] = "asked"
    BY DEF Asked
  <2>3. CASE ask \in [verb : {"create"}, caller : Callers, args : Arguments, code : {0}]
    <3>1. Asked(ask)["gen"] = generation
      BY <2>3 DEF Asked
    <3>2. Placed(Asked(ask))
      BY <2>2, <3>1 DEF Placed, ActionBounded
    <3>. QED
      BY <2>1, <3>2, OthersPlaced DEF ActionBounded
  <2>4. CASE ask \in [verb : {"confirm", "cancel"}, caller : Callers, code : 1 .. given]
                       \cup [verb : {"call"}, caller : Callers, args : Arguments]
    <3>1. ask.verb # "create" /\ DOMAIN ask \subseteq {"verb", "caller", "code", "args"} /\ "verb" \in DOMAIN ask
      BY <2>4
    <3>2. Asked(ask)["verb"] = ask.verb
      BY <3>1 DEF Asked
    <3>3. Placed(Asked(ask))
      BY <2>2, <3>1, <3>2 DEF Placed
    <3>. QED
      BY <2>1, <3>3, OthersPlaced DEF ActionBounded
  <2>. QED
    BY <1>7, <2>3, <2>4 DEF Wishes
<1>8. ASSUME NEW h \in Handlers, Resolve(h) PROVE ActionBounded'
  <2>1. UNCHANGED <<store, generation, claims>>
    BY <1>8 DEF Resolve, limiter
  <2>2. CASE Blocked(h)
    <3>1. Finish(h) /\ UNCHANGED <<stored, budget>>
      BY <1>8, <2>2 DEF Resolve
    <3>. QED
      BY <2>1, <3>1, FinishPlaced DEF ActionBounded
  <2>3. CASE ~Blocked(h)
    <3>1. handlers[h].at = "asked" /\ handlers[h].verb \in {"confirm", "cancel"} /\ Redeems(h)
      BY <1>8, <2>3 DEF Resolve
    <3>. DEFINE r == [at |-> "agreed", caller |-> handlers[h].caller,
                      args |-> (CHOOSE a \in Meant(h) : TRUE).args]
    <3>2. Finish(h) \/ handlers' = [handlers EXCEPT ![h] = r]
      BY <1>8, <2>3 DEF Resolve
    <3>3. Placed(r)
      BY DEF Placed
    <3>. HIDE DEF r
    <3>4. \A g \in Handlers : Placed(handlers[g])'
      BY <2>1, <3>2, <3>3, FinishPlaced, OthersPlaced
    <3>. QED
      BY <2>1, <2>3, <3>1, <3>4, RedeemBounded DEF ActionBounded
  <2>. QED
    BY <2>2, <2>3
<1>. QED
  BY <1>1, <1>2, <1>3, <1>4, <1>5, <1>6, <1>7, <1>8 DEF ActionNext

LEMMA ActionsTyped ==
  ASSUME ActionInv, ActionBounded
  PROVE  ActionTypeOK
<1>1. ASSUME NEW a \in stored PROVE a.code \in 1 .. given
  <2>1. /\ a.caller \in Callers /\ latest[a.caller] = ShownAs(a) /\ a.code # 0
        /\ ShownAs(a).code = a.code
    BY DEF ActionInv, OnlyNewest, ShownAs
  <2>2. given \in Nat /\ latest[a.caller].code \in 0 .. given
    BY <2>1 DEF ActionInv, CodesDistinct
  <2>3. a.code \in 0 .. given
    BY <2>1, <2>2
  <2>. QED
    BY <2>1, <2>2, <2>3
<1>. QED
  BY <1>1 DEF ActionBounded, ActionTypeOK, Placed

-----------------------------------------------------------------------------
(* The turn of a conversation.                                               *)

Working   == {"round", "batch", "running", "rest", "images"}
TurnAts   == {"ask", "speak", "summary", "store", "over"} \cup Working
TurnState == [at : TurnAts, round : 0 .. MaxRounds, try : 0 .. MaxTries - 1,
              tools : BOOLEAN, stream : BOOLEAN, sent : {"nothing", "part", "answer"}]
Script    == wanted # <<>>

TurnShape ==
  /\ turn \in TurnState
  /\ wanted \in Scripts \cup {<<>>} /\ answers \in [1 .. Len(wanted) -> 0 .. 1]
  /\ attempts \in [Called -> {"none", "allow", "forbid"}]
  /\ usage \in [Called -> Nat] /\ ran \in [Called -> Nat] /\ burnt \subseteq Called

\* A round is worked on only before the last one and before anything was sent:
\* the model is asked again after a part of an answer only by a stream.
TurnAdvances ==
  /\ turn.at \in Working => turn.round < MaxRounds /\ Script /\ turn.sent = "nothing"
  /\ turn.at = "ask" /\ turn.sent # "nothing" => turn.stream

\* What is carried out now has no answer yet and has not failed before.
InHand ==
  /\ turn.at = "running" => answers[1] = 0 /\ wanted[1] \in Called \ burnt
  /\ turn.at = "batch" =>
       \A i \in 1 .. Len(wanted) : answers[i] = 0 /\ wanted[i] \in Called \ burnt
  /\ turn.at = "images" => \A i \in 1 .. Len(wanted) : answers[i] = 1

\* The memory of the turn knows of everything that failed or is in doubt.
Recalled ==
  /\ doubtful \subseteq blocked
  /\ \A c \in burnt : attempts[c] = "forbid"
  /\ \A c \in Called : ran[c] <= usage[c]

TurnInv == TurnShape /\ TurnAdvances /\ InHand /\ Recalled

LEMMA ScriptMeans ==
  ASSUME NEW w \in Scripts
  PROVE  /\ Len(w) \in {1, 2} /\ w # <<>>
         /\ \A i \in 1 .. Len(w) : w[i] \in Called \cup {Ghost, Malformed}
<1>1. CASE w \in {<<c>> : c \in Called \cup {Ghost, Malformed}}
  BY <1>1
<1>2. CASE w \in (Called \cup {Ghost}) \X (Called \cup {Ghost})
  <2>1. PICK a \in Called \cup {Ghost}, b \in Called \cup {Ghost} : w = <<a, b>>
    BY <1>2
  <2>. QED
    BY <2>1
<1>. QED
  BY <1>1, <1>2 DEF Scripts

LEMMA WantedMeans ==
  ASSUME TurnShape
  PROVE  /\ Len(wanted) \in Nat /\ Len(wanted) <= 2 /\ (Script => 1 \in 1 .. Len(wanted))
         /\ Len(answers) = Len(wanted)
         /\ \A i \in 1 .. Len(wanted) : answers[i] \in 0 .. 1
<1>1. Len(wanted) \in Nat /\ Len(wanted) <= 2 /\ (Script => 1 \in 1 .. Len(wanted))
  BY ScriptMeans DEF TurnShape, Script
<1>2. answers \in Seq(0 .. 1) /\ Len(answers) = Len(wanted)
  BY <1>1, LenProperties DEF TurnShape
<1>. QED
  BY <1>1, <1>2 DEF TurnShape

LEMMA TurnBegins == TurnInit => TurnInv
<1>. SUFFICES ASSUME TurnInit PROVE TurnInv
  OBVIOUS
<1>1. TurnShape
  BY TurnAssumption DEF TurnInit, TurnShape, TurnState, TurnAts, Working
<1>. QED
  BY <1>1 DEF TurnInit, TurnInv, TurnAdvances, InHand, Recalled, Working

LEMMA Goes ==
  ASSUME turn \in TurnState, NEW at \in TurnAts,
         \/ turn' = [turn EXCEPT !.at = at]
         \/ turn' = [Payload EXCEPT !.at = at]
  PROVE  /\ turn' \in TurnState /\ turn'.at = at /\ turn'.round = turn.round
         /\ turn'.sent = turn.sent /\ turn'.stream = turn.stream
BY DEF TurnState, Payload

\* The model is asked and answers, and what it says is sent.
LEMMA ModelSteps ==
  ASSUME TurnInv, AskModel \/ Summarise \/ Speak \/ Store \/ TurnBreaks
  PROVE  TurnInv' /\ UNCHANGED ran /\ (turn.at = "images" => turn'.at # "ask")
<1>. USE DEF TurnInv
<1>1. UNCHANGED Remembered
  BY DEF AskModel, Summarise, Speak, Store, TurnBreaks
<1>2. turn \in TurnState /\ turn.at # "over" /\ turn.at \in TurnAts /\ turn.round \in 0 .. MaxRounds
  BY DEF AskModel, Summarise, Speak, Store, TurnBreaks, TurnShape, TurnState
<1>. DEFINE Kept == turn' \in TurnState /\ turn'.round = turn.round
            Listing == UNCHANGED <<wanted, answers>>
            Quiet == /\ turn'.at \in {"speak", "summary", "store", "over", "ask"}
                     /\ turn'.at = "ask" /\ turn'.sent # "nothing" => turn'.stream
<1>3. CASE AskModel
  <2>0. turn.at = "ask" /\ (turn.sent # "nothing" => turn.stream)
    BY <1>3 DEF AskModel, TurnAdvances
  <2>7. ASSUME NEW t, t = Payload
        PROVE  /\ t \in TurnState /\ t.at = "ask" /\ t.sent = turn.sent /\ t.round = turn.round
               /\ t.try = turn.try /\ t.stream = turn.stream /\ t.tools \in BOOLEAN
    BY <1>2, <2>0, <2>7 DEF TurnState, Payload
  <2>1. CASE Speaks \/ Silent
    <3>1. CASE \E at \in {"speak", "summary", "store"} : turn' = [Payload EXCEPT !.at = at]
      <4>1. Kept /\ Quiet
        BY <1>2, <3>1, Goes DEF TurnAts
      <4>2. Listing
        BY <2>1 DEF Speaks, Silent
      <4>. QED
        BY <1>1, <2>0, <4>1, <4>2 DEF TurnShape, TurnAdvances, InHand, Recalled, Working, Remembered, Script
    <3>2. CASE turn' = [Payload EXCEPT !.at = "store", !.sent = "answer"]
      <4>1. Kept /\ Quiet
        <5>. DEFINE p == Payload
        <5>1. p \in TurnState /\ p.round = turn.round
          BY <2>7
        <5>2. turn' = [p EXCEPT !.at = "store", !.sent = "answer"]
          BY <3>2
        <5>. HIDE DEF p
        <5>. QED
          BY <5>1, <5>2 DEF TurnState, TurnAts
      <4>2. Listing
        BY <2>1 DEF Speaks, Silent
      <4>. QED
        BY <1>1, <2>0, <4>1, <4>2 DEF TurnShape, TurnAdvances, InHand, Recalled, Working, Remembered, Script
    <3>. QED
      BY <2>1, <3>1, <3>2 DEF Speaks, Silent
  <2>2. CASE ModelFails
    <3>3. Kept /\ Listing /\ Quiet
      <4>1. Listing
        BY <2>2 DEF ModelFails
      <4>2. PICK sent \in {turn.sent} \cup (IF turn.stream THEN {"part"} ELSE {}) :
              \/ turn.try + 1 < MaxTries /\ turn' = [Payload EXCEPT !.try = @ + 1, !.sent = sent]
              \/ turn' = [Payload EXCEPT !.at = "over", !.sent = sent]
        BY <2>2 DEF ModelFails
      <4>3. sent \in {"nothing", "part", "answer"} /\ (sent # "nothing" => turn.stream)
        BY <1>2, <2>0, <4>2 DEF TurnState
      <4>. DEFINE p == Payload
                  t == turn.try + 1
      <4>4. /\ p \in TurnState /\ p.at = "ask" /\ p.round = turn.round /\ p.try = turn.try
            /\ p.stream = turn.stream
        BY <2>7
      <4>5. CASE turn' = [p EXCEPT !.at = "over", !.sent = sent]
        <5>. HIDE DEF p
        <5>. QED
          BY <4>1, <4>3, <4>4, <4>5 DEF TurnState, TurnAts
      <4>6. CASE turn.try + 1 < MaxTries /\ turn' = [p EXCEPT !.try = p.try + 1, !.sent = sent]
        <5>1. t \in 0 .. MaxTries - 1 /\ turn' = [p EXCEPT !.try = t, !.sent = sent]
          BY <1>2, <4>4, <4>6, TurnAssumption DEF TurnState
        <5>. HIDE DEF t, p
        <5>. QED
          BY <4>1, <4>3, <4>4, <5>1 DEF TurnState
      <4>. QED
        BY <4>2, <4>5, <4>6
    <3>. QED
      BY <1>1, <2>0, <3>3 DEF TurnShape, TurnAdvances, InHand, Recalled, Working, Remembered, Script
  <2>3. CASE WantsTools /\ LastRound
    <3>1. Kept /\ Listing /\ Quiet
      BY <1>2, <2>3, Goes DEF WantsTools, TurnAts
    <3>. QED
      BY <1>1, <2>0, <3>1 DEF TurnShape, TurnAdvances, InHand, Recalled, Working, Remembered, Script
  <2>4. CASE WantsTools /\ ~LastRound
    <3>1. PICK script \in Scripts : /\ wanted' = script /\ answers' = [i \in 1 .. Len(script) |-> 0]
                                    /\ turn' = [Payload EXCEPT !.at = "round"]
      BY <2>4 DEF WantsTools
    <3>4. turn.sent = "nothing"
      BY <2>0, <2>4 DEF WantsTools
    <3>2. Kept /\ turn'.at = "round" /\ turn'.sent = "nothing"
      BY <1>2, <3>1, <3>4, Goes DEF TurnAts, Working
    <3>3. turn.round < MaxRounds /\ wanted' # <<>>
      BY <1>2, <2>4, <3>1, TurnAssumption, ScriptMeans DEF LastRound
    <3>. QED
      BY <1>1, <2>0, <3>1, <3>2, <3>3 DEF TurnShape, TurnAdvances, InHand, Recalled, Working, Remembered, Script
  <2>. QED
    BY <1>3, <2>1, <2>2, <2>3, <2>4 DEF AskModel
<1>4. CASE Summarise \/ Store
  <2>1. /\ Kept /\ Listing /\ turn'.sent = turn.sent
        /\ (turn'.at = "speak" /\ turn.at = "summary") \/ turn'.at = "over"
    BY <1>2, <1>4, Goes DEF Summarise, Store, Goto, TurnAts
  <2>. QED
    BY <1>1, <1>2, <2>1 DEF TurnShape, TurnAdvances, InHand, Recalled, Working, Remembered, Script
<1>5. CASE Speak
  <2>2. Kept /\ Listing /\ turn'.at = "store"
    <3>1. turn' = [turn EXCEPT !.at = "store", !.sent = "answer"] /\ Listing
      BY <1>5 DEF Speak
    <3>2. "store" \in TurnAts
      BY DEF TurnAts
    <3>. QED
      BY <1>2, <3>1, <3>2 DEF TurnState
  <2>. QED
    BY <1>1, <2>2 DEF TurnShape, TurnAdvances, InHand, Recalled, Working, Remembered, Script
<1>6. CASE TurnBreaks
  <2>1. Kept /\ turn'.at = "over" /\ turn'.sent = turn.sent /\ wanted' = <<>> /\ answers' = <<>>
    BY <1>2, <1>6, Goes DEF TurnBreaks, Goto, TurnAts
  <2>2. answers' \in [1 .. Len(wanted') -> 0 .. 1]
    BY <2>1
  <2>. QED
    BY <1>1, <1>2, <2>1, <2>2 DEF TurnShape, TurnAdvances, InHand, Recalled, Working, Remembered, Script
<1>. QED
  BY <1>3, <1>4, <1>5, <1>6

LEMMA AnswersOne ==
  ASSUME TurnShape, NEW i \in 1 .. Len(wanted), answers[i] = 0, Answer({i}), UNCHANGED wanted
  PROVE  answers' \in [1 .. Len(wanted') -> 0 .. 1]
BY WantedMeans DEF Answer, TurnShape

LEMMA AnswersAll ==
  ASSUME TurnShape, \A i \in 1 .. Len(wanted) : answers[i] = 0, Answer(1 .. Len(wanted)), UNCHANGED wanted
  PROVE  answers' \in [1 .. Len(wanted') -> 0 .. 1] /\ \A i \in 1 .. Len(wanted') : answers'[i] = 1
BY WantedMeans DEF Answer, TurnShape

LEMMA OwedMeans ==
  ASSUME TurnShape
  PROVE  /\ Owed \subseteq 1 .. Len(wanted)
         /\ Owed = 1 .. Len(wanted) => \A i \in 1 .. Len(wanted) : answers[i] = 0
         /\ Owed = {} => \A i \in 1 .. Len(wanted) : answers[i] = 1
         /\ Owed # {} => Next1 \in 1 .. Len(wanted) /\ answers[Next1] = 0
<1>1. Len(wanted) \in Nat /\ Len(wanted) <= 2 /\ \A i \in 1 .. Len(wanted) : answers[i] \in 0 .. 1
  BY WantedMeans
<1>2. Owed \subseteq 1 .. 2
  BY <1>1 DEF Owed
<1>3. ASSUME Owed # {} PROVE Next1 \in Owed
  <2>1. \E i \in Owed : \A j \in Owed : i <= j
    <3>1. CASE 1 \in Owed
      BY <1>2, <3>1
    <3>2. CASE 1 \notin Owed
      <4>1. \A x \in Owed : x = 2
        BY <1>2, <3>2
      <4>2. 2 \in Owed
        BY <1>3, <4>1
      <4>3. \A j \in Owed : 2 <= j
        BY <4>1
      <4>. QED
        BY <4>2, <4>3, Zenon
    <3>. QED
      BY <3>1, <3>2
  <2>. QED
    BY <2>1 DEF Next1
<1>. QED
  BY <1>1, <1>3 DEF Owed

\* A call that is not carried out: what it leaves in the memory of the turn.
LEMMA Rejects ==
  ASSUME TurnInv, NEW i \in 1 .. Len(wanted), answers[i] = 0, turn.at \in {"round", "rest"},
         RejectOutside(i) \/ Refuse(i) \/ Skip(i)
  PROVE  TurnInv' /\ UNCHANGED ran /\ turn.at # "images"
<1>. USE DEF TurnInv
<1>1. turn \in TurnState /\ UNCHANGED <<wanted, ran, burnt, doubtful>> /\ Answer({i})
  BY DEF TurnShape, RejectOutside, Refuse, Skip, Remembered
<1>2. turn' \in TurnState /\ turn'.at \in {"rest", turn.at} /\ turn'.round = turn.round /\ turn'.sent = turn.sent
  <2>1. "rest" \in TurnAts
    BY DEF TurnAts, Working
  <2>2. turn' = turn \/ turn' = [turn EXCEPT !.at = "rest"]
    BY DEF RejectOutside, Refuse, Skip, Goto
  <2>. QED
    BY <1>1, <2>1, <2>2, Goes
<1>3. answers' \in [1 .. Len(wanted') -> 0 .. 1]
  BY <1>1, AnswersOne
<1>4. /\ attempts' \in [Called -> {"none", "allow", "forbid"}] /\ usage' \in [Called -> Nat]
      /\ \A c \in Called : usage[c] <= usage'[c] /\ (attempts[c] = "forbid" => attempts'[c] = "forbid")
      /\ blocked \subseteq blocked'
  <2>1. CASE RejectOutside(i)
    <3>1. usage' = [c \in Called |-> usage[c] + (IF c \in {wanted[i]} THEN 1 ELSE 0)]
      BY <2>1 DEF RejectOutside, Uses
    <3>2. UNCHANGED blocked /\ (attempts' = attempts \/ attempts' = [attempts EXCEPT ![wanted[i]] = "forbid"])
      BY <2>1 DEF RejectOutside, Remember, Verdict, Failures, Doubts
    <3>3. usage' \in [Called -> Nat] /\ \A c \in Called : usage[c] <= usage'[c]
      BY <3>1 DEF TurnShape
    <3>4. /\ attempts' \in [Called -> {"none", "allow", "forbid"}]
          /\ \A c \in Called : attempts[c] = "forbid" => attempts'[c] = "forbid"
      <4>1. CASE attempts' = attempts
        BY <4>1 DEF TurnShape
      <4>2. CASE attempts' = [attempts EXCEPT ![wanted[i]] = "forbid"]
        <5>1. attempts' = [c \in Called |-> IF c = wanted[i] THEN "forbid" ELSE attempts[c]]
          BY <4>2 DEF TurnShape
        <5>. QED
          BY <5>1 DEF TurnShape
      <4>. QED
        BY <3>2, <4>1, <4>2
    <3>. QED
      BY <3>2, <3>3, <3>4
  <2>2. CASE Refuse(i) \/ Skip(i)
    <3>1. UNCHANGED <<attempts, blocked, usage>>
      BY <2>2 DEF Refuse, Skip, Remembered
    <3>. QED
      BY <3>1 DEF TurnShape
  <2>. QED
    BY <2>1, <2>2
<1>5. TurnShape'
  BY <1>1, <1>2, <1>3, <1>4 DEF TurnShape
<1>6. TurnAdvances' /\ InHand'
  BY <1>1, <1>2 DEF TurnAdvances, InHand, Working, Script
<1>7. Recalled'
  <2>1. \A c \in Called : ran[c] \in Nat /\ usage[c] \in Nat /\ usage'[c] \in Nat
    BY <1>4 DEF TurnShape
  <2>. QED
    BY <1>1, <1>4, <2>1 DEF Recalled, TurnShape
<1>. QED
  BY <1>1, <1>2, <1>5, <1>6, <1>7 DEF TurnState

\* What an action may carry out, and what it counts.
CarriedOut(C) ==
  /\ C \subseteq Called \ burnt /\ turn.tools /\ turn.sent = "nothing"
  /\ \A c \in C : c.tool \notin blocked /\ usage[c] + 1 <= MaxRepeats
  /\ usage' = [c \in Called |-> usage[c] + (IF c \in C THEN 1 ELSE 0)]
  /\ ran' = [c \in Called |-> ran[c] + (IF c \in C THEN 1 ELSE 0)]
  /\ UNCHANGED <<wanted, answers, attempts, blocked, burnt, doubtful>>

RanRightly ==
  \A c \in Called : ran'[c] # ran[c] =>
    /\ turn.tools /\ turn.sent = "nothing" /\ c.tool \notin doubtful /\ c \notin burnt
    /\ ran'[c] = ran[c] + 1 /\ ran[c] < MaxRepeats

LEMMA Carries ==
  ASSUME TurnInv, NEW C, CarriedOut(C)
  PROVE  /\ usage' \in [Called -> Nat] /\ ran' \in [Called -> Nat]
         /\ Recalled' /\ RanRightly
<1>1. \A c \in Called : ran[c] \in Nat /\ usage[c] \in Nat /\ ran[c] <= usage[c]
  BY DEF TurnInv, TurnShape, Recalled
<1>2. \A c \in Called : /\ usage'[c] = usage[c] + (IF c \in C THEN 1 ELSE 0)
                        /\ ran'[c] = ran[c] + (IF c \in C THEN 1 ELSE 0)
  BY DEF CarriedOut
<1>3. usage' \in [Called -> Nat] /\ ran' \in [Called -> Nat]
  BY <1>1 DEF CarriedOut
<1>4. Recalled'
  BY <1>1, <1>2 DEF TurnInv, Recalled, CarriedOut
<1>5. ASSUME NEW c \in Called, ran'[c] # ran[c]
      PROVE  /\ turn.tools /\ turn.sent = "nothing" /\ c.tool \notin doubtful /\ c \notin burnt
             /\ ran'[c] = ran[c] + 1 /\ ran[c] < MaxRepeats
  <2>1. c \in C
    BY <1>1, <1>2, <1>5
  <2>. QED
    BY <1>1, <1>2, <2>1, TurnAssumption DEF TurnInv, Recalled, CarriedOut
<1>. QED
  BY <1>3, <1>4, <1>5 DEF RanRightly

LEMMA CallBegins ==
  ASSUME TurnInv, BeginBatch \/ BeginCall
  PROVE  TurnInv' /\ RanRightly /\ turn.at = "round"
<1>. USE DEF TurnInv
<1>1. turn.at = "round" /\ turn \in TurnState /\ Script /\ \A i \in 1 .. Len(wanted) : answers[i] = 0
  BY OwedMeans DEF BeginBatch, BeginCall, TurnShape, TurnAdvances, Working
<1>2. 1 \in 1 .. Len(wanted) /\ \A c \in Called : usage[c] \in Nat
  BY <1>1, WantedMeans DEF TurnShape
<1>3. turn.sent = "nothing" /\ turn.round < MaxRounds /\ wanted # <<>>
  BY <1>1 DEF TurnAdvances, Working, Script
<1>4. ASSUME NEW C, CarriedOut(C), NEW at \in {"batch", "running"}, Goto(at),
             C = IF at = "batch" THEN {wanted[i] : i \in 1 .. Len(wanted)} ELSE {wanted[1]}
      PROVE  TurnInv' /\ RanRightly
  <2>1. at \in TurnAts
    BY DEF TurnAts, Working
  <2>2. turn' \in TurnState /\ turn'.at = at /\ turn'.round = turn.round /\ turn'.sent = "nothing"
    BY <1>1, <1>3, <1>4, <2>1, Goes DEF Goto
  <2>3. TurnShape'
    BY <1>4, <2>2, Carries DEF TurnShape, CarriedOut
  <2>4. InHand'
    <3>1. UNCHANGED <<wanted, answers, burnt>> /\ C \subseteq Called \ burnt
      BY <1>4 DEF CarriedOut
    <3>. QED
      BY <1>1, <1>2, <1>4, <2>2, <3>1 DEF InHand
  <2>5. TurnAdvances'
    BY <1>3, <1>4, <2>2 DEF TurnAdvances, Script, CarriedOut
  <2>. QED
    BY <1>4, <2>2, <2>3, <2>4, <2>5, Carries
<1>5. CASE BeginBatch
  <2>. DEFINE C == {wanted[1], wanted[2]}
  <2>1. Len(wanted) = 2
    BY <1>5, WantedMeans DEF BeginBatch, SideBySide
  <2>2. C = {wanted[i] : i \in 1 .. Len(wanted)}
    BY <2>1
  <2>3. \A c \in C : c \in Called /\ turn.tools /\ ~Forbidden(c)
    BY <1>5, <2>1 DEF BeginBatch, SideBySide, Offers
  <2>4. \A c \in C : /\ c.tool \notin blocked /\ attempts[c] # "forbid"
                     /\ usage[c] + 1 <= MaxRepeats
    BY <1>2, <2>3, TurnAssumption DEF Forbidden
  <2>5. UNCHANGED <<wanted, answers, attempts, blocked, burnt, doubtful>> /\ Goto("batch")
        /\ ran' = [c \in Called |-> ran[c] + (IF c \in C THEN 1 ELSE 0)]
        /\ usage' = [c \in Called |-> usage[c] + (IF c \in C THEN 1 ELSE 0)]
    BY <1>5 DEF BeginBatch, Uses
  <2>6. wanted[1] \in C
    OBVIOUS
  <2>. HIDE DEF C
  <2>7. CarriedOut(C)
    BY <1>3, <2>3, <2>4, <2>5, <2>6 DEF CarriedOut, Recalled
  <2>. QED
    BY <1>1, <1>4, <2>2, <2>5, <2>7
<1>6. CASE BeginCall /\ Start(1)
  <2>. DEFINE C == {wanted[1]}
  <2>1. wanted[1] \in Called /\ turn.tools /\ ~Forbidden(wanted[1]) /\ Goto("running")
    BY <1>6 DEF Start, Offers
  <2>2. wanted[1].tool \notin blocked /\ attempts[wanted[1]] # "forbid" /\ usage[wanted[1]] + 1 <= MaxRepeats
    BY <1>2, <2>1, TurnAssumption DEF Forbidden
  <2>3. /\ UNCHANGED <<wanted, answers, attempts, blocked, burnt, doubtful>>
        /\ ran' = [c \in Called |-> ran[c] + (IF c \in C THEN 1 ELSE 0)]
        /\ usage' = [c \in Called |-> usage[c] + (IF c \in C THEN 1 ELSE 0)]
    <3>1. ran' = [ran EXCEPT ![wanted[1]] = ran[wanted[1]] + 1]
      BY <1>6 DEF Start
    <3>2. \A c \in Called : ran[c] \in Nat
      BY DEF TurnShape
    <3>3. ran' = [c \in Called |-> ran[c] + (IF c \in C THEN 1 ELSE 0)]
      <4>1. ran' = [c \in Called |-> IF c = wanted[1] THEN ran[wanted[1]] + 1 ELSE ran[c]]
        BY <3>1 DEF TurnShape
      <4>2. \A c \in Called : (IF c = wanted[1] THEN ran[wanted[1]] + 1 ELSE ran[c])
                                = ran[c] + (IF c \in C THEN 1 ELSE 0)
        BY <3>2
      <4>. QED
        BY <4>1, <4>2, Zenon
    <3>. QED
      BY <1>6, <3>3 DEF Start, Uses
  <2>4. CarriedOut(C)
    BY <1>3, <2>1, <2>2, <2>3 DEF CarriedOut, Recalled
  <2>. QED
    BY <1>1, <1>4, <2>1, <2>4
<1>7. CASE BeginCall /\ ~Start(1)
  BY <1>1, <1>2, <1>7, Rejects DEF BeginCall, RanRightly
<1>. QED
  BY <1>1, <1>5, <1>6, <1>7

\* A call that has ended: what the memory of the turn makes of it.
LEMMA Remembers ==
  ASSUME TurnInv, NEW c \in Called,
         ReadEnds(c) \/ AwaitsConfirmation(c) \/ ProtocolEnds(c) \/ PluginEnds(c)
  PROVE  /\ attempts' \in [Called -> {"none", "allow", "forbid"}] /\ burnt' \subseteq Called
         /\ doubtful' \subseteq blocked'
         /\ c \notin burnt => \A d \in burnt' : attempts'[d] = "forbid"
<1>. USE DEF TurnInv
<1>0. /\ attempts \in [Called -> {"none", "allow", "forbid"}] /\ burnt \subseteq Called
      /\ doubtful \subseteq blocked /\ \A d \in burnt : attempts[d] = "forbid"
  BY DEF TurnShape, Recalled
<1>1. ASSUME NEW status, Finished(c, status)
      PROVE  /\ attempts' \in [Called -> {"none", "allow", "forbid"}] /\ burnt' \subseteq Called
             /\ doubtful' \subseteq blocked'
             /\ c \notin burnt => \A d \in burnt' : attempts'[d] = "forbid"
  <2>1. attempts' = [d \in Called |-> IF d = c THEN Verdict(status) ELSE attempts[d]]
    BY <1>0, <1>1 DEF Finished, Remember
  <2>2. Verdict(status) \in {"allow", "forbid"} /\ (status \in Failures => Verdict(status) = "forbid")
    BY DEF Verdict
  <2>3. burnt' = (IF status \in Failures THEN burnt \cup {c} ELSE burnt)
    BY <1>1 DEF Finished, Happened
  <2>4. doubtful' \subseteq blocked'
    BY <1>0, <1>1 DEF Finished, Remember, Happened
  <2>5. ASSUME c \notin burnt, NEW d \in burnt' PROVE attempts'[d] = "forbid"
    BY <1>0, <2>1, <2>2, <2>3, <2>5
  <2>. QED
    BY <1>0, <2>1, <2>2, <2>3, <2>4, <2>5
<1>2. CASE AwaitsConfirmation(c)
  BY <1>0, <1>2 DEF AwaitsConfirmation
<1>3. CASE /\ attempts' = [attempts EXCEPT ![c] = "forbid"] /\ blocked' = blocked \cup {c.tool}
           /\ burnt' = burnt \cup {c} /\ doubtful' = doubtful \cup {c.tool}
  <2>1. attempts' = [d \in Called |-> IF d = c THEN "forbid" ELSE attempts[d]]
    BY <1>0, <1>3
  <2>. QED
    BY <1>0, <1>3, <2>1
<1>. QED
  BY <1>1, <1>2, <1>3 DEF ReadEnds, ProtocolEnds, PluginEnds

LEMMA CallDone ==
  ASSUME TurnInv, EndCall
  PROVE  TurnInv' /\ UNCHANGED ran /\ turn.at # "images"
<1>. USE DEF TurnInv
<1>1. turn.at = "running" /\ turn \in TurnState /\ UNCHANGED <<wanted, usage, ran>>
  BY DEF EndCall, TurnShape
<1>2. 1 \in 1 .. Len(wanted) /\ answers[1] = 0 /\ wanted[1] \in Called \ burnt
      /\ turn.round < MaxRounds /\ turn.sent = "nothing"
  BY <1>1, WantedMeans DEF TurnAdvances, InHand, Working
<1>3. /\ turn' \in TurnState /\ turn'.at = "rest" /\ turn'.round = turn.round /\ turn'.sent = "nothing"
  <2>1. "rest" \in TurnAts
    BY DEF TurnAts, Working
  <2>. QED
    BY <1>1, <1>2, <2>1, Goes DEF EndCall, Goto
<1>4. answers' \in [1 .. Len(wanted') -> 0 .. 1]
  <2>1. Answer({1})
    BY DEF EndCall
  <2>. QED
    BY <1>1, <1>2, <2>1, AnswersOne
<1>5. /\ attempts' \in [Called -> {"none", "allow", "forbid"}] /\ burnt' \subseteq Called
      /\ doubtful' \subseteq blocked' /\ \A d \in burnt' : attempts'[d] = "forbid"
  <2>1. ReadEnds(wanted[1]) \/ AwaitsConfirmation(wanted[1]) \/ ProtocolEnds(wanted[1])
          \/ PluginEnds(wanted[1])
    BY DEF EndCall
  <2>. QED
    BY <1>2, <2>1, Remembers
<1>6. TurnShape' /\ TurnAdvances' /\ InHand' /\ Recalled'
  BY <1>1, <1>2, <1>3, <1>4, <1>5 DEF TurnShape, TurnAdvances, InHand, Recalled, Working, Script
<1>. QED
  BY <1>1, <1>3, <1>6

LEMMA BatchEnds ==
  ASSUME TurnInv, EndBatch
  PROVE  TurnInv' /\ UNCHANGED ran /\ turn.at # "images"
<1>. USE DEF TurnInv
<1>1. turn.at = "batch" /\ turn \in TurnState /\ UNCHANGED <<wanted, blocked, usage, ran, doubtful>>
  BY DEF EndBatch, TurnShape
<1>2. /\ \A i \in 1 .. Len(wanted) : answers[i] = 0 /\ wanted[i] \in Called \ burnt
      /\ turn.round < MaxRounds /\ turn.sent = "nothing"
  BY <1>1 DEF TurnAdvances, InHand, Working
<1>3. turn' \in TurnState /\ turn'.at = "images" /\ turn'.round = turn.round /\ turn'.sent = "nothing"
  <2>1. "images" \in TurnAts
    BY DEF TurnAts, Working
  <2>. QED
    BY <1>1, <1>2, <2>1, Goes DEF EndBatch, Goto
<1>4. /\ answers' \in [1 .. Len(wanted') -> 0 .. 1]
      /\ \A i \in 1 .. Len(wanted') : answers'[i] = 1
  <2>1. Answer(1 .. Len(wanted))
    BY DEF EndBatch
  <2>. QED
    BY <1>1, <1>2, <2>1, AnswersAll
<1>5. /\ attempts' \in [Called -> {"none", "allow", "forbid"}] /\ burnt' \subseteq Called
      /\ \A d \in burnt' : attempts'[d] = "forbid"
  <2>. DEFINE taken == {wanted[i] : i \in 1 .. Len(wanted)}
  <2>1. PICK status \in [1 .. Len(wanted) -> {"completed", "failed", "timed_out", "skipped"}] :
          /\ attempts' = [c \in Called |->
               IF c \in taken THEN Verdict(status[CHOOSE i \in 1 .. Len(wanted) : wanted[i] = c])
               ELSE attempts[c]]
          /\ burnt' = burnt \cup
               {c \in taken : status[CHOOSE i \in 1 .. Len(wanted) : wanted[i] = c] \in Failures}
    BY DEF EndBatch
  <2>2. taken \subseteq Called /\ taken \cap burnt = {}
    BY <1>2
  <2>3. /\ attempts \in [Called -> {"none", "allow", "forbid"}] /\ burnt \subseteq Called
        /\ \A d \in burnt : attempts[d] = "forbid"
    BY DEF TurnShape, Recalled
  <2>. DEFINE StatusOf(c) == status[CHOOSE i \in 1 .. Len(wanted) : wanted[i] = c]
  <2>4. \A c : /\ Verdict(StatusOf(c)) \in {"allow", "forbid"}
               /\ StatusOf(c) \in Failures => Verdict(StatusOf(c)) = "forbid"
    BY DEF Verdict
  <2>5. /\ attempts' = [c \in Called |-> IF c \in taken THEN Verdict(StatusOf(c)) ELSE attempts[c]]
        /\ burnt' = burnt \cup {c \in taken : StatusOf(c) \in Failures}
    BY <2>1
  <2>. HIDE DEF taken, StatusOf
  <2>. QED
    BY <2>2, <2>3, <2>4, <2>5
<1>6. TurnShape' /\ TurnAdvances' /\ InHand' /\ Recalled'
  BY <1>1, <1>2, <1>3, <1>4, <1>5 DEF TurnShape, TurnAdvances, InHand, Recalled, Working, Script
<1>. QED
  BY <1>1, <1>3, <1>6

LEMMA RestEnds ==
  ASSUME TurnInv, SkipRest
  PROVE  TurnInv' /\ UNCHANGED ran /\ turn.at # "images"
<1>. USE DEF TurnInv
<1>1. turn.at = "rest" /\ turn \in TurnState /\ TurnShape
  BY DEF SkipRest, TurnShape
<1>2. CASE Owed = {} /\ Goto("images") /\ UNCHANGED <<wanted, answers, Remembered>>
  <2>1. \A i \in 1 .. Len(wanted) : answers[i] = 1
    BY <1>1, <1>2, OwedMeans
  <2>2. "images" \in TurnAts
    BY DEF TurnAts, Working
  <2>3. turn' \in TurnState /\ turn'.at = "images" /\ turn'.round = turn.round /\ turn'.sent = turn.sent
    BY <1>1, <1>2, <2>2, Goes DEF Goto
  <2>4. turn.round < MaxRounds /\ Script /\ turn.sent = "nothing"
    BY <1>1 DEF TurnAdvances, Working
  <2>. QED
    BY <1>1, <1>2, <2>1, <2>3, <2>4
    DEF TurnShape, TurnAdvances, InHand, Recalled, Working, Script, Remembered
<1>3. CASE Owed # {} /\ (RejectOutside(Next1) \/ Skip(Next1))
  <2>1. Next1 \in 1 .. Len(wanted) /\ answers[Next1] = 0
    BY <1>1, <1>3, OwedMeans
  <2>. QED
    BY <1>1, <1>3, <2>1, Rejects
<1>. QED
  BY <1>2, <1>3 DEF SkipRest

LEMMA RoundEnds ==
  ASSUME TurnInv, NextRound
  PROVE  /\ TurnInv' /\ UNCHANGED ran
         /\ \A i \in 1 .. Len(answers) : answers[i] = 1
<1>. USE DEF TurnInv
<1>1. turn.at = "images" /\ turn \in TurnState /\ UNCHANGED Remembered /\ wanted' = <<>> /\ answers' = <<>>
  BY DEF NextRound, TurnShape
<1>2. turn.round < MaxRounds /\ turn.sent = "nothing" /\ turn.round \in Nat
  BY <1>1 DEF TurnAdvances, Working, TurnState
<1>3. turn' \in TurnState /\ turn'.at \in {"ask", "over"} /\ turn'.sent = "nothing"
  <2>. DEFINE r == turn.round + 1
              Again(x, y) == [at |-> "ask", round |-> r, try |-> 0, tools |-> x, stream |-> y, sent |-> "nothing"]
  <2>1. r \in 0 .. MaxRounds /\ 0 \in 0 .. MaxTries - 1
    BY <1>1, <1>2, TurnAssumption DEF TurnState
  <2>2. \A x, y \in BOOLEAN : Again(x, y) \in TurnState
    BY <2>1 DEF TurnState, TurnAts
  <2>3. [turn EXCEPT !.at = "ask", !.round = @ + 1, !.try = 0] = Again(turn.tools, turn.stream)
    <3>1. ASSUME NEW t, NEW n \in Nat, t = [turn EXCEPT !.at = "ask", !.round = n, !.try = 0]
          PROVE  t = [at |-> "ask", round |-> n, try |-> 0, tools |-> turn.tools,
                      stream |-> turn.stream, sent |-> "nothing"]
      BY <1>1, <1>2, <3>1 DEF TurnState
    <3>2. r \in Nat
      BY <1>2
    <3>. QED
      BY <1>2, <3>1, <3>2, Zenon
  <2>4. turn.tools \in BOOLEAN /\ turn.stream \in BOOLEAN
    BY <1>1 DEF TurnState
  <2>5. CASE turn' = [turn EXCEPT !.at = "ask", !.round = @ + 1, !.try = 0]
    BY <2>2, <2>3, <2>4, <2>5
  <2>6. ASSUME NEW stream \in BOOLEAN, NEW noTools \in BOOLEAN,
               turn' = [Again(turn.tools, turn.stream)
                          EXCEPT !.stream = stream, !.tools = turn.tools /\ ~noTools]
        PROVE  turn' \in TurnState /\ turn'.at = "ask" /\ turn'.sent = "nothing"
    <3>1. turn' = Again(turn.tools /\ ~noTools, stream)
      BY <2>6
    <3>. QED
      BY <2>2, <2>4, <3>1
  <2>7. CASE Goto("over")
    <3>1. "over" \in TurnAts
      BY DEF TurnAts
    <3>. QED
      BY <1>1, <1>2, <2>7, <3>1, Goes DEF Goto
  <2>8. CASE \E stream, noTools \in BOOLEAN :
               turn' = [Again(turn.tools, turn.stream)
                          EXCEPT !.stream = stream, !.tools = turn.tools /\ ~noTools]
    BY <2>6, <2>8
  <2>9. \/ turn' = [turn EXCEPT !.at = "ask", !.round = @ + 1, !.try = 0]
        \/ \E stream, noTools \in BOOLEAN :
               turn' = [Again(turn.tools, turn.stream)
                          EXCEPT !.stream = stream, !.tools = turn.tools /\ ~noTools]
        \/ Goto("over")
    BY <2>3 DEF NextRound
  <2>. QED
    BY <2>2, <2>3, <2>4, <2>5, <2>7, <2>8, <2>9
<1>4. answers' \in [1 .. Len(wanted') -> 0 .. 1]
  BY <1>1
<1>5. \A i \in 1 .. Len(answers) : answers[i] = 1
  BY <1>1, WantedMeans DEF InHand
<1>6. TurnShape' /\ TurnAdvances' /\ InHand' /\ Recalled'
  BY <1>1, <1>2, <1>3, <1>4 DEF TurnShape, TurnAdvances, InHand, Recalled, Working, Script, Remembered
<1>7. UNCHANGED ran
  BY <1>1 DEF Remembered
<1>. QED
  BY <1>3, <1>5, <1>6, <1>7

\* What one step of the turn keeps.
LEMMA TurnStep ==
  ASSUME TurnInv, TurnNext
  PROVE  /\ TurnInv' /\ RanRightly
         /\ turn.at = "images" /\ turn'.at = "ask" => \A i \in 1 .. Len(answers) : answers[i] = 1
<1>1. CASE AskModel \/ Summarise \/ Speak \/ Store \/ TurnBreaks
  BY <1>1, ModelSteps DEF RanRightly
<1>2. CASE BeginBatch \/ BeginCall
  BY <1>2, CallBegins
<1>3. CASE EndBatch \/ EndCall \/ SkipRest
  BY <1>3, BatchEnds, CallDone, RestEnds DEF RanRightly
<1>4. CASE NextRound
  BY <1>4, RoundEnds DEF RanRightly
<1>. QED
  BY <1>1, <1>2, <1>3, <1>4 DEF TurnNext

-----------------------------------------------------------------------------
(* Shared answers.                                                           *)

Ended0  == {"ok", "failed", "unkept"}
Flight  == [state : Ended0 \cup {"running"}, epoch : Nat, owner : Nat, settled : BOOLEAN]
Flights == 1 .. Len(flights)

AskerAts == {"idle", "waiting", "late", "got", "failed", "cancelled"}

Asker(n) == [at : AskerAts, flight : 0 .. n, owner : Nat]

AnswersShape ==
  /\ service \in Services /\ flights \in Seq(Flight)
  /\ inflight \in 0 .. Len(flights) /\ cleared \in 0 .. Len(flights)
  /\ kept \in [flight : 0 .. Len(flights), since : Nat, owner : Nat]
  /\ epoch \in Nat /\ session \in Nat \ {0} /\ hours \in Nat
  /\ askers \in [Askers -> Asker(Len(flights))]

\* What the bounds say of the types.
AnswersBounded ==
  /\ Len(flights) <= MaxFlights /\ session <= MaxSessions /\ hours <= MaxHours
  /\ \A f \in Flights : flights[f].owner # 0

\* A flight began in the epoch and for the bot object of its time: it has those
\* of the present only if it began after the last clear and the last reconnection.
FlightsDated ==
  /\ \A f \in Flights : /\ flights[f].epoch <= epoch /\ flights[f].owner <= session
                        /\ f <= cleared => flights[f].epoch < epoch
  /\ service = "name" => cleared = 0

\* The running flight that would answer a question asked now is the one its
\* callers find, and no other one ever worked beside it on the same question.
OneFlight ==
  /\ \A f \in Flights :
       flights[f].state = "running" =>
         /\ service = "class" => f = inflight
         /\ service = "probe" /\ flights[f].epoch = epoch /\ flights[f].owner = session
              => f = inflight
  /\ service = "probe" =>
       \A f, g \in Flights :
         /\ f # g /\ flights[f].state = "running" /\ flights[g].state = "running"
         => flights[f].epoch # flights[g].epoch \/ flights[f].owner # flights[g].owner

KeptGood ==
  kept.flight # 0 => /\ flights[kept.flight].state = "ok" /\ kept.flight > cleared
                     /\ kept.owner = flights[kept.flight].owner

AskerGood(a) ==
  LET f == askers[a].flight
  IN  /\ askers[a].at \in {"waiting", "late", "got", "failed"} => f # 0
      /\ askers[a].at = "late" => flights[f].state # "running"
      /\ askers[a].at = "got" => flights[f].state = "ok"
      /\ askers[a].at = "failed" => flights[f].state \in {"failed", "unkept"}
      /\ service = "probe" /\ f # 0 => flights[f].owner = askers[a].owner

AnswersInv == /\ AnswersShape /\ AnswersBounded /\ FlightsDated /\ OneFlight /\ KeptGood
              /\ \A a \in Askers : AskerGood(a)

LEMMA AskerMoves ==
  ASSUME NEW n \in Nat, askers \in [Askers -> Asker(n)], NEW a \in Askers, NEW at \in AskerAts,
         askers' = [askers EXCEPT ![a].at = at]
  PROVE  /\ askers' \in [Askers -> Asker(n)]
         /\ \A b \in Askers : /\ askers'[b].flight = askers[b].flight
                              /\ askers'[b].owner = askers[b].owner
                              /\ askers'[b].at = IF b = a THEN at ELSE askers[b].at
BY DEF AskerAts, Asker

LEMMA AnswersBegin == AnswersInit => AnswersInv
<1>. SUFFICES ASSUME AnswersInit PROVE AnswersInv
  OBVIOUS
<1>1. flights \in Seq(Flight) /\ Len(flights) = 0 /\ Flights = {}
  BY EmptySeq DEF AnswersInit, Flights
<1>2. AnswersShape
  BY <1>1 DEF AnswersInit, AnswersShape, AskerAts, Asker, NoEntry
<1>3. AnswersBounded
  BY <1>1, AnswersAssumption DEF AnswersInit, AnswersBounded
<1>. QED
  BY <1>1, <1>2, <1>3 DEF AnswersInit, AnswersInv, FlightsDated, OneFlight, KeptGood, AskerGood, NoEntry

\* A flight changes its state or is settled: nothing else of it changes, and
\* no flight that has ended changes its state.
FlightMoves(f) ==
  /\ flights' \in Seq(Flight) /\ Len(flights') = Len(flights) /\ Flights' = Flights
  /\ \A g \in Flights : /\ flights'[g].epoch = flights[g].epoch
                        /\ flights'[g].owner = flights[g].owner
                        /\ g # f => flights'[g].state = flights[g].state
  /\ flights[f].state # "running" => flights'[f].state = flights[f].state

LEMMA StateChanges ==
  ASSUME flights \in Seq(Flight), NEW f \in Flights, NEW st \in Ended0,
         \/ /\ flights' = [flights EXCEPT ![f].state = st] \/ flights' = [flights EXCEPT ![f].state = st, ![f].settled = TRUE]
            /\ flights[f].state = "running"
         \/ /\ flights' = [flights EXCEPT ![f].settled = TRUE]
            /\ st = flights[f].state
  PROVE  FlightMoves(f) /\ flights'[f].state = st
<1>1. Len(flights) \in Nat /\ DOMAIN flights = Flights /\ \A g \in Flights : flights[g] \in Flight
  BY LenProperties, ElementOfSeq DEF Flights
<1>2. PICK x \in Flight : /\ flights' = [flights EXCEPT ![f] = x] /\ x.state = st
                          /\ x.epoch = flights[f].epoch /\ x.owner = flights[f].owner
  <2>1. CASE flights' = [flights EXCEPT ![f].state = st]
    <3>1. [flights[f] EXCEPT !.state = st] \in Flight
      BY <1>1 DEF Flight
    <3>. QED
      BY <1>1, <2>1, <3>1 DEF Flight
  <2>2. CASE flights' = [flights EXCEPT ![f].state = st, ![f].settled = TRUE]
    <3>1. [flights[f] EXCEPT !.state = st, !.settled = TRUE] \in Flight
      BY <1>1 DEF Flight
    <3>2. flights' = [flights EXCEPT ![f] = [flights[f] EXCEPT !.state = st, !.settled = TRUE]]
      BY <1>1, <2>2
    <3>. QED
      BY <1>1, <3>2, <3>1 DEF Flight
  <2>3. CASE flights' = [flights EXCEPT ![f].settled = TRUE] /\ st = flights[f].state
    <3>1. [flights[f] EXCEPT !.settled = TRUE] \in Flight
      BY <1>1 DEF Flight
    <3>. QED
      BY <1>1, <2>3, <3>1 DEF Flight
  <2>. QED
    BY <2>1, <2>2, <2>3
<1>3. /\ flights' \in Seq(Flight) /\ Len(flights') = Len(flights)
      /\ \A g \in Flights : flights'[g] = IF g = f THEN x ELSE flights[g]
  BY <1>1, <1>2, ExceptSeq DEF Flights
<1>4. flights[f].state # "running" => st = flights[f].state
  OBVIOUS
<1>. QED
  BY <1>1, <1>2, <1>3, <1>4 DEF FlightMoves, Flights

\* The steps that leave the flights alone.
LEMMA AskersGoOn ==
  ASSUME AnswersInv, NEW a \in Askers, AskKept(a) \/ Wakes(a) \/ Leaves(a) \/ Forgets(a)
  PROVE  AnswersInv'
<1>. USE DEF AnswersInv
<1>1. /\ UNCHANGED <<service, flights, epoch, session, hours, cleared>> /\ UNCHANGED Flights
      /\ inflight' \in {0, inflight} /\ (inflight' # inflight => service = "name")
  BY DEF AskKept, Wakes, Leaves, Forgets, Flights
<1>2. AnswersBounded' /\ FlightsDated' /\ OneFlight'
  BY <1>1 DEF AnswersShape, AnswersBounded, FlightsDated, OneFlight, Services
<1>3. Len(flights) \in Nat /\ \A f \in Flights : flights[f] \in Flight
  BY LenProperties, ElementOfSeq DEF AnswersShape, Flights
<1>4. CASE AskKept(a)
  <2>1. kept.flight \in Flights /\ flights[kept.flight].state = "ok"
        /\ (service = "probe" => flights[kept.flight].owner = session)
    BY <1>3, <1>4 DEF AskKept, Serves, KeptGood, AnswersShape, Flights
  <2>2. AnswersShape' /\ KeptGood'
    BY <1>1, <1>3, <1>4, <2>1 DEF AskKept, Becomes, AnswersShape, AskerAts, Asker, KeptGood, Flights
  <2>3. \A b \in Askers : AskerGood(b)'
    BY <1>1, <1>3, <1>4, <2>1 DEF AskKept, Becomes, AnswersShape, AskerGood, Flights
  <2>. QED
    BY <1>2, <2>2, <2>3
<1>5. CASE Wakes(a)
  <2>. DEFINE f == askers[a].flight
  <2>1. f \in Flights /\ flights[f].state # "running" /\ askers[a].at \in {"waiting", "late"}
    BY <1>3, <1>5 DEF Wakes, Awake, AskerGood, AnswersShape, AskerAts, Asker, Flights, Done
  <2>2. flights[f].state \in Ended0 /\ flights[f].owner \in Nat /\ hours \in Nat
    BY <1>3, <2>1 DEF Flight, AnswersShape
  <2>3. kept' = kept \/ (kept' = Keep(f) /\ flights[f].state = "ok" /\ service = "name")
    BY <1>5 DEF Wakes, Keep
  <2>4. AnswersShape'
    <3>1. askers' = [askers EXCEPT ![a].at = IF flights[f].state = "ok" THEN "got" ELSE "failed"]
      BY <1>5 DEF Wakes
    <3>2. kept' \in [flight : 0 .. Len(flights), since : Nat, owner : Nat]
      BY <1>3, <2>1, <2>2, <2>3 DEF AnswersShape, Keep, Flights
    <3>3. askers' \in [Askers -> Asker(Len(flights))]
      <4>1. {"got", "failed", "cancelled"} \subseteq AskerAts /\ askers \in [Askers -> Asker(Len(flights))]
        BY DEF AnswersShape, AskerAts
      <4>. DEFINE at == IF flights[f].state = "ok" THEN "got" ELSE "failed"
      <4>2. at \in AskerAts /\ askers' = [askers EXCEPT ![a].at = at]
        BY <3>1, <4>1
      <4>. HIDE DEF at
      <4>. QED
        BY <1>3, <4>1, <4>2, AskerMoves
    <3>. QED
      BY <1>1, <3>2, <3>3 DEF AnswersShape
  <2>5. KeptGood'
    BY <1>1, <1>3, <2>1, <2>2, <2>3 DEF KeptGood, Keep, FlightsDated, AnswersShape, Flights
  <2>6. \A b \in Askers : AskerGood(b)'
    BY <1>1, <1>3, <1>5, <2>1, <2>2 DEF Wakes, AnswersShape, AskerGood, Flights, Ended0
  <2>. QED
    BY <1>2, <2>4, <2>5, <2>6
<1>6. CASE Leaves(a) \/ Forgets(a)
  <2>0. /\ UNCHANGED kept
        /\ \/ askers' = [askers EXCEPT ![a].at = "cancelled"]
           \/ askers' = [askers EXCEPT ![a] = [at |-> "idle", flight |-> 0, owner |-> 0]]
    BY <1>6 DEF Leaves, Forgets
  <2>1. askers' \in [Askers -> Asker(Len(flights))]
        /\ \A b \in Askers : \/ askers'[b] = askers[b]
                             \/ askers'[b].at = "cancelled" /\ askers'[b].flight = askers[b].flight
                                /\ askers'[b].owner = askers[b].owner
                             \/ askers'[b].at = "idle" /\ askers'[b].flight = 0
    <3>1. CASE askers' = [askers EXCEPT ![a].at = "cancelled"]
      <4>1. "cancelled" \in AskerAts /\ askers \in [Askers -> Asker(Len(flights))]
        BY DEF AnswersShape, AskerAts
      <4>2. /\ askers' \in [Askers -> Asker(Len(flights))]
            /\ \A b \in Askers : /\ askers'[b].flight = askers[b].flight
                                 /\ askers'[b].owner = askers[b].owner
                                 /\ askers'[b].at = IF b = a THEN "cancelled" ELSE askers[b].at
        BY <1>3, <3>1, <4>1, AskerMoves
      <4>3. \A b \in Askers : b # a => askers'[b] = askers[b]
        BY <3>1, <4>1
      <4>. QED
        BY <4>2, <4>3
    <3>2. CASE askers' = [askers EXCEPT ![a] = [at |-> "idle", flight |-> 0, owner |-> 0]]
      BY <1>3, <3>2 DEF AnswersShape, AskerAts, Asker
    <3>. QED
      BY <2>0, <3>1, <3>2
  <2>2. AnswersShape' /\ KeptGood'
    BY <1>1, <1>3, <2>0, <2>1 DEF AnswersShape, KeptGood, Flights
  <2>3. \A b \in Askers : AskerGood(b)'
    BY <1>1, <1>3, <2>1 DEF AskerGood
  <2>. QED
    BY <1>2, <2>2, <2>3
<1>. QED
  BY <1>4, <1>5, <1>6

LEMMA TimeGoesOn ==
  ASSUME AnswersInv, Clear \/ Displaced \/ Reconnect \/ Hour
  PROVE  AnswersInv'
<1>. USE DEF AnswersInv
<1>1. UNCHANGED <<service, flights, inflight, askers>> /\ UNCHANGED Flights
  BY DEF Clear, Displaced, Reconnect, Hour, Flights
<1>2. \A a \in Askers : AskerGood(a)'
  BY <1>1 DEF AskerGood
<1>3. Len(flights) \in Nat /\ \A f \in Flights : flights[f] \in Flight
  BY LenProperties, ElementOfSeq DEF AnswersShape, Flights
<1>4. \A f \in Flights : flights[f].epoch \in Nat /\ flights[f].owner \in Nat
  BY <1>3 DEF Flight
<1>5. CASE Clear
  BY <1>1, <1>2, <1>3, <1>4, <1>5
  DEF Clear, AnswersShape, AnswersBounded, FlightsDated, OneFlight, KeptGood, NoEntry, Flights
<1>6. CASE Displaced
  BY <1>1, <1>2, <1>3, <1>4, <1>6
  DEF Displaced, AnswersShape, AnswersBounded, FlightsDated, OneFlight, KeptGood, NoEntry, Flights
<1>7. CASE Reconnect
  BY <1>1, <1>2, <1>3, <1>4, <1>7, AnswersAssumption
  DEF Reconnect, AnswersShape, AnswersBounded, FlightsDated, OneFlight, KeptGood, Flights
<1>8. CASE Hour
  BY <1>1, <1>2, <1>3, <1>4, <1>8, AnswersAssumption
  DEF Hour, AnswersShape, AnswersBounded, FlightsDated, OneFlight, KeptGood, Flights
<1>. QED
  BY <1>5, <1>6, <1>7, <1>8

\* A flight ends or its callbacks run.
LEMMA FlightsGoOn ==
  ASSUME AnswersInv, NEW f \in Flights,
         \/ ProbeSettles(f) \/ NameSettles(f)
         \/ \E result \in {"ok", "failed", "unkept"} : Classified(f, result)
         \/ \E result \in {"ok", "failed"} : Ends(f, result)
  PROVE  AnswersInv'
<1>. USE DEF AnswersInv
<1>1. /\ UNCHANGED <<service, epoch, session, hours, askers, cleared>>
      /\ inflight' \in {0, inflight} /\ (inflight' # inflight => inflight = f)
  BY DEF ProbeSettles, NameSettles, Classified, Ends
<1>2. Len(flights) \in Nat /\ \A g \in Flights : flights[g] \in Flight
  BY LenProperties, ElementOfSeq DEF AnswersShape, Flights
<1>3. FlightMoves(f) /\ flights'[f].state # "running"
  <2>1. flights \in Seq(Flight) /\ (flights[f].state # "running" => flights[f].state \in Ended0)
    BY <1>2 DEF AnswersShape, Flight
  <2>2. CASE ProbeSettles(f) \/ NameSettles(f)
    BY <2>1, <2>2, StateChanges DEF ProbeSettles, NameSettles, Done
  <2>3. ASSUME NEW st \in Ended0, Classified(f, st) \/ Ends(f, st)
        PROVE  FlightMoves(f) /\ flights'[f].state # "running"
    BY <2>1, <2>3, StateChanges DEF Classified, Ends, Done, Ended0
  <2>. QED
    BY <2>2, <2>3 DEF Ended0
<1>4. \A g \in Flights : flights[g].state # "running" => flights'[g].state = flights[g].state
  BY <1>3 DEF FlightMoves
<1>5. \A g \in Flights : flights'[g].state = "running" => g # f /\ flights[g].state = "running"
  BY <1>3, <1>4 DEF FlightMoves
<1>6. AnswersBounded' /\ FlightsDated'
  BY <1>1, <1>3 DEF FlightMoves, AnswersBounded, FlightsDated
<1>7. OneFlight'
  BY <1>1, <1>3, <1>5 DEF FlightMoves, OneFlight
<1>8. kept' = kept \/ (kept' = Keep(f) /\ flights'[f].state = "ok" /\ flights[f].epoch = epoch)
  <2>1. CASE ProbeSettles(f)
    BY <1>4, <2>1 DEF ProbeSettles, MayKeep, Keep, Done
  <2>2. CASE NameSettles(f) \/ \E st \in {"ok", "failed"} : Ends(f, st)
    BY <2>2 DEF NameSettles, Ends, Keep
  <2>3. ASSUME NEW st \in Ended0, Classified(f, st)
        PROVE kept' = kept \/ (kept' = Keep(f) /\ flights'[f].state = "ok" /\ flights[f].epoch = epoch)
    <3>1. st = flights'[f].state
      BY <1>2, <2>3, StateChanges DEF Classified, Done, AnswersShape
    <3>. QED
      BY <2>3, <3>1 DEF Classified, Ends, MayKeep, Keep
  <2>. QED
    BY <2>1, <2>2, <2>3 DEF Ended0
<1>9. f > cleared \/ flights[f].epoch # epoch
  BY <1>2 DEF FlightsDated, AnswersShape, Flights, Flight
<1>10. AnswersShape' /\ KeptGood'
  <2>1. f \in Flights' /\ flights[f].owner \in Nat /\ flights'[f].owner = flights[f].owner
    BY <1>2, <1>3 DEF FlightMoves, Flight
  <2>2. AnswersShape'
    BY <1>1, <1>2, <1>3, <1>8, <2>1 DEF FlightMoves, AnswersShape, Keep, Flights
  <2>3. KeptGood'
    BY <1>1, <1>2, <1>3, <1>4, <1>8, <1>9, <2>1 DEF FlightMoves, KeptGood, Keep, AnswersShape, Flights
  <2>. QED
    BY <2>2, <2>3
<1>11. \A a \in Askers : AskerGood(a)'
  <2>1. \A a \in Askers : askers[a].flight # 0 => askers[a].flight \in Flights
    BY <1>2 DEF AnswersShape, AskerAts, Asker, Flights
  <2>. QED
    BY <1>1, <1>3, <1>4, <2>1 DEF FlightMoves, AskerGood
<1>. QED
  BY <1>6, <1>7, <1>10, <1>11

\* A question finds the flight that works on it, or begins one.
LEMMA AskersAsk ==
  ASSUME AnswersInv, NEW a \in Askers, NEW force \in BOOLEAN, AskFlight(a, force)
  PROVE  AnswersInv'
<1>. USE DEF AnswersInv
<1>0. UNCHANGED <<service, epoch, session, hours, cleared>> /\ kept' \in {kept, NoEntry}
  BY DEF AskFlight
<1>1. Len(flights) \in Nat /\ \A g \in Flights : flights[g] \in Flight
  BY LenProperties, ElementOfSeq DEF AnswersShape, Flights
<1>2. CASE Joins(session)
  <2>. DEFINE at == IF Done(inflight) THEN "late" ELSE "waiting"
  <2>1. UNCHANGED <<flights, inflight>> /\ UNCHANGED Flights /\ Becomes(a, at, inflight) /\ inflight \in Flights
    BY <1>1, <1>2 DEF AskFlight, Flights, Joins, AnswersShape
  <2>2. AnswersShape'
    <3>1. at \in AskerAts
      BY DEF AskerAts
    <3>. HIDE DEF at
    <3>2. askers' \in [Askers -> Asker(Len(flights))]
      BY <1>1, <2>1, <3>1 DEF Becomes, AnswersShape, Asker, Flights
    <3>3. kept' \in [flight : 0 .. Len(flights), since : Nat, owner : Nat]
      BY <1>0, <1>1 DEF AnswersShape, NoEntry
    <3>. QED
      BY <1>0, <2>1, <3>2, <3>3 DEF AnswersShape
  <2>4. AnswersBounded' /\ FlightsDated' /\ OneFlight' /\ KeptGood'
    BY <1>0, <2>1 DEF AnswersBounded, FlightsDated, OneFlight, KeptGood, NoEntry
  <2>3. \A b \in Askers : AskerGood(b)'
    BY <1>0, <1>1, <1>2, <2>1 DEF Becomes, AskerGood, AnswersShape, Done, Joins
  <2>. QED
    BY <2>2, <2>3, <2>4
<1>3. CASE ~Joins(session)
  <2>. DEFINE new == [state |-> "running", epoch |-> epoch, owner |-> session, settled |-> FALSE]
              n == Len(flights) + 1
  <2>1. /\ flights' = Append(flights, new) /\ inflight' = n /\ Becomes(a, "waiting", n)
        /\ Len(flights) < MaxFlights
    BY <1>3 DEF AskFlight
  <2>2. new \in Flight
    BY DEF AnswersShape, Flight
  <2>3. /\ flights' \in Seq(Flight) /\ Len(flights') = n /\ Flights' = Flights \cup {n} /\ n \notin Flights
        /\ flights'[n] = new /\ \A g \in Flights : flights'[g] = flights[g]
    BY <1>1, <2>1, <2>2, AppendProperties DEF AnswersShape, Flights
  <2>4. AnswersShape' /\ KeptGood'
    BY <1>0, <1>1, <2>1, <2>3 DEF AnswersShape, AskerAts, Asker, KeptGood, NoEntry, Becomes, Flights
  <2>5. AnswersBounded' /\ FlightsDated'
    <3>1. new.epoch = epoch /\ new.owner = session /\ cleared < n /\ n <= MaxFlights /\ n \in Nat
      BY <1>1, <2>1, AnswersAssumption DEF AnswersShape
    <3>. HIDE DEF new, n
    <3>2. AnswersBounded'
      BY <1>0, <2>3, <3>1 DEF AnswersShape, AnswersBounded
    <3>3. FlightsDated'
      BY <1>0, <1>1, <2>3, <3>1 DEF AnswersShape, FlightsDated
    <3>. QED
      BY <3>2, <3>3
  <2>6. OneFlight'
    <3>1. ASSUME NEW f \in Flights, flights[f].state = "running"
          PROVE  /\ service # "class"
                 /\ service = "probe" => flights[f].epoch # epoch \/ flights[f].owner # session
      BY <1>1, <1>3, <3>1 DEF OneFlight, Joins, Flights
    <3>. QED
      <4>1. new.epoch = epoch /\ new.owner = session
        OBVIOUS
      <4>. HIDE DEF new, n
      <4>2. \A f \in Flights : /\ flights'[f] = flights[f]
                               /\ flights[f].state = "running" => service # "class"
        BY <2>3, <3>1
      <4>3. \A f \in Flights' : f = n \/ f \in Flights
        BY <2>3
      <4>4. flights'[n].epoch = epoch /\ flights'[n].owner = session /\ inflight' = n
        BY <2>1, <2>3, <4>1
      <4>5. \A f \in Flights' :
              flights'[f].state = "running" =>
                /\ service' = "class" => f = inflight'
                /\ service' = "probe" /\ flights'[f].epoch = epoch' /\ flights'[f].owner = session'
                     => f = inflight'
        BY <1>0, <3>1, <4>2, <4>3, <4>4
      <4>6. service' = "probe" =>
              \A f, g \in Flights' :
                /\ f # g /\ flights'[f].state = "running" /\ flights'[g].state = "running"
                => flights'[f].epoch # flights'[g].epoch \/ flights'[f].owner # flights'[g].owner
        BY <1>0, <3>1, <4>2, <4>3, <4>4 DEF OneFlight
      <4>. QED
        BY <4>5, <4>6 DEF OneFlight
  <2>7. \A b \in Askers : AskerGood(b)'
    <3>1. \A b \in Askers : askers[b].flight # 0 => askers[b].flight \in Flights
      BY <1>1 DEF AnswersShape, AskerAts, Asker, Flights
    <3>. QED
      BY <1>0, <1>1, <2>1, <2>3, <3>1 DEF Becomes, AskerGood, AnswersShape, AskerAts, Asker
  <2>. QED
    BY <2>4, <2>5, <2>6, <2>7
<1>. QED
  BY <1>2, <1>3

-----------------------------------------------------------------------------
(* The choice of a model.                                                    *)

LEMMA LeastBy ==
  ASSUME NEW S, S # {}, NEW f, \A x \in S : f[x] \in Nat
  PROVE  \E m \in S : \A o \in S : f[m] <= f[o]
<1>. DEFINE T == {f[x] : x \in S}
<1>1. T \in SUBSET Nat /\ T # {}
  OBVIOUS
<1>2. PICK t \in T : \A u \in T : t <= u
  <2>. HIDE DEF T
  <2>. QED
    BY <1>1, LeastOne
<1>. QED
  BY <1>2

\* Rank compares as the model does: degraded last, then by quality, latency, cost.
LateRank(m) == IF About[m].up = "available" THEN 0 ELSE 1

LEMMA BeforeMeans ==
  ASSUME NEW m \in Models, NEW o \in Models
  PROVE  Before0(Rank(m), Rank(o)) <=>
           \/ LateRank(m) < LateRank(o)
           \/ /\ LateRank(m) = LateRank(o)
              /\ \/ About[m].quality > About[o].quality
                 \/ /\ About[m].quality = About[o].quality
                    /\ \/ About[m].latency < About[o].latency
                       \/ /\ About[m].latency = About[o].latency
                          /\ \/ About[m].cost < About[o].cost
                             \/ About[m].cost = About[o].cost /\ m < o
<1>. DEFINE x == Rank(m)
            y == Rank(o)
<1>1. /\ x[1] = LateRank(m) /\ x[2] = -About[m].quality /\ x[3] = About[m].latency
      /\ x[4] = About[m].cost /\ x[5] = m
      /\ y[1] = LateRank(o) /\ y[2] = -About[o].quality /\ y[3] = About[o].latency
      /\ y[4] = About[o].cost /\ y[5] = o
  BY DEF Rank, LateRank
<1>2. /\ m \in Int /\ o \in Int /\ About[m].quality \in Int /\ About[o].quality \in Int
      /\ About[m].latency \in Int /\ About[o].latency \in Int
      /\ About[m].cost \in Int /\ About[o].cost \in Int /\ LateRank(m) \in Int /\ LateRank(o) \in Int
  BY ModelsAssumption, AboutAssumption DEF LateRank
<1>. HIDE DEF x, y
<1>3. Before0(x, y) <=>
        \/ x[1] < y[1]
        \/ x[1] = y[1] /\ x[2] < y[2]
        \/ x[1] = y[1] /\ x[2] = y[2] /\ x[3] < y[3]
        \/ x[1] = y[1] /\ x[2] = y[2] /\ x[3] = y[3] /\ x[4] < y[4]
        \/ x[1] = y[1] /\ x[2] = y[2] /\ x[3] = y[3] /\ x[4] = y[4] /\ x[5] < y[5]
  <2>. DEFINE At(i) == x[i] < y[i] /\ \A j \in 1 .. i - 1 : x[j] = y[j]
  <2>1. Before0(x, y) <=> At(1) \/ At(2) \/ At(3) \/ At(4) \/ At(5)
    <3>1. 1 .. 5 = {1, 2, 3, 4, 5}
      OBVIOUS
    <3>2. Before0(x, y) <=> \E i \in {1, 2, 3, 4, 5} : At(i)
      BY <3>1 DEF Before0
    <3>. HIDE DEF At
    <3>. QED
      BY <3>2
  <2>2. /\ 1 .. 1 - 1 = {} /\ 1 .. 2 - 1 = {1} /\ 1 .. 3 - 1 = {1, 2}
        /\ 1 .. 4 - 1 = {1, 2, 3} /\ 1 .. 5 - 1 = {1, 2, 3, 4}
    OBVIOUS
  <2>. QED
    BY <2>1, <2>2
<1>4. -About[m].quality < -About[o].quality <=> About[m].quality > About[o].quality
  BY <1>2
<1>5. -About[m].quality = -About[o].quality <=> About[m].quality = About[o].quality
  BY <1>2
<1>6. Before0(Rank(m), Rank(o)) <=> Before0(x, y)
  BY DEF x, y
<1>. QED
  BY <1>1, <1>3, <1>4, <1>5, <1>6

LEMMA BestIsBest ==
  ASSUME NEW S \in SUBSET Models, S # {}
  PROVE  /\ Best(S) \in S
         /\ \A o \in S : \/ LateRank(Best(S)) < LateRank(o)
                         \/ LateRank(Best(S)) = LateRank(o) /\ About[o].quality <= About[Best(S)].quality
<1>1. \A m \in S : /\ m \in Nat /\ 1000000 - About[m].quality \in Nat /\ About[m].quality \in Int
                   /\ About[m].latency \in Nat /\ About[m].cost \in Nat /\ LateRank(m) \in Nat
  BY ModelsAssumption, AboutAssumption DEF LateRank
<1>2. \E m \in S : \A o \in S \ {m} : Before0(Rank(m), Rank(o))
  <2>. DEFINE f1 == [m \in S |-> LateRank(m)]
              f2 == [m \in S |-> 1000000 - About[m].quality]
              f3 == [m \in S |-> About[m].latency]
              f4 == [m \in S |-> About[m].cost]
              f5 == [m \in S |-> m]
  <2>0. \A m \in S : f1[m] \in Nat /\ f2[m] \in Nat /\ f3[m] \in Nat /\ f4[m] \in Nat /\ f5[m] \in Nat
    BY <1>1
  <2>8. \A m \in S : /\ f1[m] = LateRank(m) /\ f2[m] = 1000000 - About[m].quality
                     /\ f3[m] = About[m].latency /\ f4[m] = About[m].cost /\ f5[m] = m
    OBVIOUS
  <2>. HIDE DEF f1, f2, f3, f4, f5
  <2>1. PICK m1 \in S : \A o \in S : f1[m1] <= f1[o]
    BY <2>0, LeastBy
  <2>. DEFINE S1 == {o \in S : f1[o] = f1[m1]}
  <2>2. PICK m2 \in S1 : \A o \in S1 : f2[m2] <= f2[o]
    <3>1. S1 # {} /\ \A x \in S1 : f2[x] \in Nat
      BY <2>0
    <3>. HIDE DEF S1
    <3>. QED
      BY <3>1, LeastBy
  <2>. DEFINE S2 == {o \in S1 : f2[o] = f2[m2]}
  <2>3. PICK m3 \in S2 : \A o \in S2 : f3[m3] <= f3[o]
    <3>1. S2 # {} /\ \A x \in S2 : f3[x] \in Nat
      BY <2>0, <2>2
    <3>. HIDE DEF S2
    <3>. QED
      BY <3>1, LeastBy
  <2>. DEFINE S3 == {o \in S2 : f3[o] = f3[m3]}
  <2>4. PICK m4 \in S3 : \A o \in S3 : f4[m4] <= f4[o]
    <3>1. S3 # {} /\ \A x \in S3 : f4[x] \in Nat
      BY <2>0, <2>3
    <3>. HIDE DEF S3
    <3>. QED
      BY <3>1, LeastBy
  <2>. DEFINE S4 == {o \in S3 : f4[o] = f4[m4]}
  <2>5. PICK m \in S4 : \A o \in S4 : f5[m] <= f5[o]
    <3>1. S4 # {} /\ \A x \in S4 : f5[x] \in Nat
      BY <2>0, <2>4
    <3>. HIDE DEF S4
    <3>. QED
      BY <3>1, LeastBy
  <2>6. m \in S /\ f1[m] = f1[m1] /\ f2[m] = f2[m2] /\ f3[m] = f3[m3] /\ f4[m] = f4[m4]
    BY <2>5
  <2>7. ASSUME NEW o \in S \ {m} PROVE Before0(Rank(m), Rank(o))
    <3>1. \/ f1[m] < f1[o]
          \/ f1[m] = f1[o] /\ f2[m] < f2[o]
          \/ f1[m] = f1[o] /\ f2[m] = f2[o] /\ f3[m] < f3[o]
          \/ f1[m] = f1[o] /\ f2[m] = f2[o] /\ f3[m] = f3[o] /\ f4[m] < f4[o]
          \/ f1[m] = f1[o] /\ f2[m] = f2[o] /\ f3[m] = f3[o] /\ f4[m] = f4[o] /\ f5[m] <= f5[o]
      BY <2>0, <2>1, <2>2, <2>3, <2>4, <2>5, <2>6, <2>7
    <3>2. m # o /\ m \in Nat /\ o \in Nat /\ m \in Models /\ o \in Models
      BY <1>1, <2>6, <2>7
    <3>. QED
      BY <1>1, <2>6, <2>7, <2>8, <3>1, <3>2, BeforeMeans
  <2>. QED
    BY <2>6, <2>7
<1>3. Best(S) \in S /\ \A o \in S \ {Best(S)} : Before0(Rank(Best(S)), Rank(o))
  BY <1>2 DEF Best
<1>4. ASSUME NEW o \in S
      PROVE  \/ LateRank(Best(S)) < LateRank(o)
             \/ LateRank(Best(S)) = LateRank(o) /\ About[o].quality <= About[Best(S)].quality
  <2>. DEFINE b == Best(S)
  <2>1. b \in Models /\ o \in Models /\ b \in S
    BY <1>3
  <2>2. CASE o = b
    BY <1>1, <2>1, <2>2
  <2>3. CASE o # b
    <3>1. Before0(Rank(b), Rank(o))
      BY <1>3, <2>3
    <3>. HIDE DEF b
    <3>2. \/ LateRank(b) < LateRank(o)
          \/ /\ LateRank(b) = LateRank(o)
             /\ About[b].quality > About[o].quality \/ About[b].quality = About[o].quality
      BY <2>1, <3>1, BeforeMeans
    <3>3. About[o].quality \in Int /\ About[b].quality \in Int
      BY <1>1, <2>1
    <3>. QED
      BY <3>2, <3>3 DEF b
  <2>. QED
    BY <2>2, <2>3
<1>. QED
  BY <1>3, <1>4

\* The settings, snapshots and requests there are.
ModelSets == (SUBSET Models) \ {{}}
Snapshots == [models : ModelSets, conf : Config, mixed : BOOLEAN]
ChatState == [at : {"idle", "asked", "classified", "chosen", "refused", "failed"},
              pin : Snapshots, caps : SUBSET {"vision", "tools"}, model : Models \cup {Nobody0}]

\* Every role but that of the vision model names a listed model.
Named(models, c) == \A role \in Roles \ {"vision"} : c.roles[role] \in models
Sound(k) == k.mixed \/ Named(k.models, k.conf)

\* FitModel, of one request.
FitChat(t) ==
  LET k == t.pin
      mine == About[t.model]
  IN  /\ t.at = "chosen" =>
           /\ t.model \in k.models
           /\ k.conf.mode # "off" =>
                /\ t.caps \subseteq mine.caps /\ mine.fits /\ mine.trusted
                /\ k.conf.mode = "fixed_only" => t.model = k.conf.roles[RoleOf(t)]
                /\ \/ k.conf.mode # "capability" /\ t.model = k.conf.roles[RoleOf(t)]
                   \/ \A o \in Eligible(k, t.caps) :
                        /\ mine.up = "degraded" => About[o].up = "degraded"
                        /\ About[o].up = mine.up => About[o].quality <= mine.quality
           /\ k.conf.mode = "off" /\ "vision" \in t.caps => t.model = k.conf.roles["vision"]
      /\ t.at = "failed" => k.mixed \/ k.conf.mode # "off"

ChoiceInv ==
  /\ listed \in ModelSets /\ conf \in Config /\ disk \in [models : ModelSets, conf : Config]
  /\ shown \in Snapshots /\ shown.conf = conf /\ Sound(shown)
  /\ chats \in [Chats -> ChatState]
  /\ \A r \in Chats : Sound(chats[r].pin) /\ FitChat(chats[r])

LEMMA FitMeans == ChoiceInv => FitModel
BY DEF ChoiceInv, FitModel, FitChat

LEMMA ConfigWith ==
  ASSUME NEW c \in Config, NEW f \in [Roles -> Models \cup {Nobody0}], NEW d, d = [c EXCEPT !.roles = f]
  PROVE  d \in Config /\ d.roles = f
BY DEF Config

LEMMA ListsMean ==
  Lists \subseteq ModelSets /\ Files \subseteq Config /\ Nobody0 \notin Models /\ Models \subseteq Nat
<1>1. Lists \subseteq ModelSets
  BY ModelsAssumption DEF ModelSets
<1>2. Files \subseteq Config
  BY ModelsAssumption
<1>3. Nobody0 \notin Models /\ Models \subseteq Nat
  BY ModelsAssumption
<1>. QED
  BY <1>1, <1>2, <1>3

LEMMA ValidatedIsNamed ==
  ASSUME NEW models \in ModelSets, NEW c \in Config
  PROVE  Validated(models, c) \in Config /\ Named(models, Validated(models, c))
<1>. DEFINE f == [role \in Roles |->
                    IF c.roles[role] \in models THEN c.roles[role]
                    ELSE IF role = "vision" THEN Nobody0 ELSE Main(models, c)]
<1>1. models \in SUBSET Nat /\ models # {} /\ models \subseteq Models
  <2>1. models \in SUBSET Models /\ models # {}
    BY DEF ModelSets
  <2>2. Models \subseteq Nat
    BY ListsMean
  <2>. QED
    BY <2>1, <2>2
<1>2. FirstOf(models) \in models
  <2>1. \E m \in models : \A o \in models : m <= o
    BY <1>1, LeastOne
  <2>. QED
    BY <2>1 DEF FirstOf
<1>3. Main(models, c) \in models
  BY <1>2 DEF Main
<1>4. f \in [Roles -> Models \cup {Nobody0}]
  BY <1>1, <1>3
<1>5. \A role \in Roles \ {"vision"} : f[role] \in models
  BY <1>3
<1>6. Validated(models, c) = [c EXCEPT !.roles = f]
  BY DEF Validated
<1>. HIDE DEF f
<1>. QED
  BY <1>4, <1>5, <1>6, ConfigWith DEF Named

LEMMA ChoiceBegins == ChoiceInit => ChoiceInv
<1>. SUFFICES ASSUME ChoiceInit PROVE ChoiceInv
  OBVIOUS
<1>1. PICK models \in Lists, c \in Files :
        /\ listed = models /\ disk = [models |-> models, conf |-> c]
        /\ conf = Validated(models, c) /\ shown = Published(models, conf, FALSE)
  BY DEF ChoiceInit
<1>2. models \in ModelSets /\ c \in Config
  BY ListsMean
<1>3. conf \in Config /\ Named(models, conf)
  BY <1>1, <1>2, ValidatedIsNamed
<1>4. shown \in Snapshots /\ shown.conf = conf /\ Sound(shown)
  BY <1>1, <1>2, <1>3 DEF Published, Snapshots, Sound
<1>5. \A r \in Chats : chats[r] = [at |-> "idle", pin |-> shown, caps |-> {}, model |-> Nobody0]
  BY DEF ChoiceInit
<1>6. chats \in [Chats -> ChatState]
  BY <1>4 DEF ChoiceInit, ChatState
<1>7. \A r \in Chats : Sound(chats[r].pin) /\ FitChat(chats[r])
  BY <1>4, <1>5 DEF FitChat
<1>. QED
  BY <1>1, <1>2, <1>3, <1>4, <1>6, <1>7 DEF ChoiceInv

\* A command writes a configuration: its settings are sound if the snapshot was.
LEMMA PatchSteps ==
  ASSUME ChoiceInv, conf' \in Config, \A role \in Roles : conf'.roles[role] \in {conf.roles[role]} \cup shown.models,
         Patched0, disk' = [disk EXCEPT !.conf = conf'], UNCHANGED <<listed, chats>>
  PROVE  ChoiceInv'
<1>1. disk' \in [models : ModelSets, conf : Config]
  <2>. DEFINE c == conf'
  <2>1. c \in Config /\ disk' = [disk EXCEPT !.conf = c] /\ disk \in [models : ModelSets, conf : Config]
    BY DEF ChoiceInv
  <2>. HIDE DEF c
  <2>. QED
    BY <2>1
<1>2. /\ shown' = [models |-> listed, conf |-> conf', mixed |-> shown.mixed \/ listed # shown.models]
      /\ shown.mixed \in BOOLEAN /\ listed \in ModelSets
  BY DEF Patched0, Published, ChoiceInv, Snapshots
<1>3. shown' \in Snapshots /\ shown'.conf = conf'
  BY <1>2 DEF Snapshots
<1>4. Sound(shown')
  <2>1. shown'.mixed = (shown.mixed \/ listed # shown.models) /\ shown'.models = listed
    BY <1>2
  <2>2. CASE ~shown.mixed /\ listed = shown.models
    <3>1. Named(shown.models, conf)
      BY <2>2 DEF ChoiceInv, Sound
    <3>2. Named(shown.models, conf')
      BY <3>1 DEF Named
    <3>. QED
      BY <1>3, <2>1, <2>2, <3>2 DEF Sound
  <2>. QED
    BY <2>1, <2>2 DEF Sound
<1>5. UNCHANGED <<listed, chats>>
  OBVIOUS
<1>. QED
  BY <1>1, <1>3, <1>4, <1>5 DEF ChoiceInv

LEMMA CommandSteps ==
  ASSUME ChoiceInv,
         \/ SetMoe \/ BuildModels \/ CommitModels
         \/ \E models \in Lists : Refresh(models)
         \/ \E c \in Files : EditFile(c)
         \/ \E role \in Roles, m \in Models : SetRole(role, m)
  PROVE  ChoiceInv'
<1>0. conf \in Config /\ disk \in [models : ModelSets, conf : Config]
  BY DEF ChoiceInv
<1>1. CASE SetMoe
  <2>1. conf' = [conf EXCEPT !.moe = ~conf.moe]
    BY <1>1 DEF SetMoe
  <2>2. conf' \in Config /\ conf'.roles = conf.roles
    BY <1>0, <2>1 DEF Config
  <2>. QED
    BY <1>1, <2>2, PatchSteps DEF SetMoe
<1>2. ASSUME NEW role \in Roles, NEW m \in Models, SetRole(role, m) PROVE ChoiceInv'
  <2>. DEFINE f == [conf.roles EXCEPT ![role] = m]
  <2>1. conf' = [conf EXCEPT !.roles = f] /\ m \in shown.models
    BY <1>2 DEF SetRole
  <2>2. f \in [Roles -> Models \cup {Nobody0}] /\ \A o \in Roles : f[o] \in {conf.roles[o], m}
    BY <1>0 DEF Config
  <2>. HIDE DEF f
  <2>3. conf' \in Config /\ conf'.roles = f
    BY <1>0, <2>1, <2>2, ConfigWith
  <2>4. \A o \in Roles : conf'.roles[o] \in {conf.roles[o]} \cup shown.models
    BY <2>1, <2>2, <2>3
  <2>. QED
    BY <1>2, <2>3, <2>4, PatchSteps DEF SetRole
<1>3. ASSUME NEW models \in Lists, Refresh(models) PROVE ChoiceInv'
  <2>1. disk' = [disk EXCEPT !.models = models] /\ models \in ModelSets
    BY <1>3, ListsMean DEF Refresh
  <2>2. disk' \in [models : ModelSets, conf : Config]
    BY <1>0, <2>1
  <2>. QED
    BY <1>3, <2>1, <2>2 DEF Refresh, ChoiceInv
<1>4. ASSUME NEW c \in Files, EditFile(c) PROVE ChoiceInv'
  <2>1. disk' = [disk EXCEPT !.conf = c] /\ c \in Config
    BY <1>4, ListsMean DEF EditFile
  <2>2. disk' \in [models : ModelSets, conf : Config]
    BY <1>0, <2>1
  <2>. QED
    BY <1>4, <2>2 DEF EditFile, ChoiceInv
<1>5. CASE BuildModels
  BY <1>5 DEF BuildModels, ChoiceInv
<1>6. CASE CommitModels
  <2>1. UNCHANGED <<disk, chats>>
    BY <1>6 DEF CommitModels
  <2>2. CASE UNCHANGED <<listed, conf, shown>>
    BY <2>1, <2>2 DEF ChoiceInv
  <2>3. CASE /\ listed' = disk.models /\ conf' = Validated(disk.models, disk.conf)
             /\ shown' = Published(listed', conf', FALSE)
    <3>1. disk.models \in ModelSets /\ disk.conf \in Config
      BY <1>0
    <3>2. conf' \in Config /\ Named(listed', conf') /\ listed' \in ModelSets
      BY <2>3, <3>1, ValidatedIsNamed
    <3>3. shown' \in Snapshots /\ shown'.conf = conf' /\ Sound(shown')
      BY <2>3, <3>2 DEF Published, Snapshots, Sound
    <3>4. disk' \in [models : ModelSets, conf : Config]
      BY <1>0, <2>1
    <3>. QED
      BY <2>1, <3>2, <3>3, <3>4 DEF ChoiceInv
  <2>. QED
    BY <1>6, <2>2, <2>3 DEF CommitModels
<1>. QED
  BY <1>1, <1>2, <1>3, <1>4, <1>5, <1>6

\* What a model that is found for a role is.
LEMMA ModelMeans ==
  ASSUME NEW k \in Snapshots, NEW role \in Roles, NEW caps, NEW m, m = Model(k, role, caps)
  PROVE  /\ m \in Models \cup {Nobody0}
         /\ k.conf.mode = "off" => m \in {k.conf.roles[role], Nobody0}
         /\ m = Nobody0 /\ k.conf.mode = "off" => k.conf.roles[role] \notin k.models
         /\ m # Nobody0 =>
              /\ m \in k.models
              /\ k.conf.mode # "off" =>
                   /\ caps \subseteq About[m].caps /\ About[m].fits /\ About[m].trusted
                   /\ k.conf.mode = "fixed_only" => m = k.conf.roles[role]
                   /\ \/ k.conf.mode # "capability" /\ m = k.conf.roles[role]
                      \/ \A o \in Eligible(k, caps) :
                           /\ About[m].up = "degraded" => About[o].up = "degraded"
                           /\ About[o].up = About[m].up => About[o].quality <= About[m].quality
<1>. DEFINE fit == Eligible(k, caps)
            fixed == k.conf.roles[role]
<1>1. k.models \in SUBSET Models /\ k.conf \in Config /\ Nobody0 \notin Models /\ fixed \in Models \cup {Nobody0}
  BY ListsMean DEF Snapshots, ModelSets, Config
<1>2. /\ fit \in SUBSET Models /\ fit \subseteq k.models
      /\ \A o \in fit : /\ caps \subseteq About[o].caps /\ About[o].fits /\ About[o].trusted
                        /\ About[o].up \in {"available", "degraded"}
  BY <1>1 DEF Eligible, Catalog0
<1>3. CASE k.conf.mode = "off"
  BY <1>1, <1>3 DEF Model, Pinned
<1>4. CASE k.conf.mode # "off" /\ k.conf.mode # "capability" /\ fixed \in fit
  <2>1. m = fixed
    BY <1>4 DEF Model, Routed
  <2>. HIDE DEF fit
  <2>. QED
    BY <1>1, <1>2, <1>4, <2>1
<1>5. CASE k.conf.mode # "off" /\ ~(k.conf.mode # "capability" /\ fixed \in fit)
           /\ (k.conf.mode = "fixed_only" \/ fit = {})
  <2>1. m = Nobody0
    BY <1>5 DEF Model, Routed
  <2>. QED
    BY <1>1, <1>5, <2>1
<1>6. CASE k.conf.mode # "off" /\ ~(k.conf.mode # "capability" /\ fixed \in fit)
           /\ ~(k.conf.mode = "fixed_only" \/ fit = {})
  <2>1. m = Best(fit)
    BY <1>6 DEF Model, Routed
  <2>. HIDE DEF fit
  <2>2. m \in fit /\ \A o \in fit : \/ LateRank(m) < LateRank(o)
                                    \/ LateRank(m) = LateRank(o) /\ About[o].quality <= About[m].quality
    BY <1>2, <1>6, <2>1, BestIsBest
  <2>3. \A o \in fit : /\ About[m].up = "degraded" => About[o].up = "degraded"
                       /\ About[o].up = About[m].up => About[o].quality <= About[m].quality
    BY <1>2, <2>2 DEF LateRank
  <2>. QED
    BY <1>1, <1>2, <1>6, <2>2, <2>3 DEF fit
<1>. QED
  BY <1>3, <1>4, <1>5, <1>6

LEMMA ChatMoves ==
  ASSUME ChoiceInv, NEW r \in Chats, NEW t \in ChatState, SetChat(r, t), Sound(t.pin), FitChat(t)
  PROVE  ChoiceInv'
<1>1. chats' = [x \in Chats |-> IF x = r THEN t ELSE chats[x]]
  BY DEF SetChat, ChoiceInv
<1>2. UNCHANGED <<listed, conf, disk, shown>>
  BY DEF SetChat
<1>3. chats' \in [Chats -> ChatState] /\ \A x \in Chats : Sound(chats'[x].pin) /\ FitChat(chats'[x])
  BY <1>1 DEF ChoiceInv
<1>. QED
  BY <1>2, <1>3 DEF ChoiceInv

LEMMA ChatSteps ==
  ASSUME ChoiceInv, NEW r \in Chats,
         \/ Admit0(r) \/ ChooseModel(r)
         \/ \E caps \in SUBSET {"vision", "tools"} : Classify(r, caps)
  PROVE  ChoiceInv'
<1>. DEFINE t == chats[r]
            k == t.pin
<1>1. t \in ChatState /\ k \in Snapshots /\ Sound(k) /\ shown \in Snapshots /\ Sound(shown)
  BY DEF ChoiceInv, ChatState
<1>2. CASE Admit0(r)
  <2>1. SetChat(r, [t EXCEPT !.at = "asked", !.pin = shown])
    BY <1>2 DEF Admit0
  <2>2. PICK u : u = [t EXCEPT !.at = "asked", !.pin = shown]
    OBVIOUS
  <2>3. u \in ChatState /\ u.at = "asked" /\ u.pin = shown
    BY <1>1, <2>2 DEF ChatState
  <2>. QED
    BY <1>1, <2>1, <2>2, <2>3, ChatMoves DEF FitChat
<1>3. ASSUME NEW caps \in SUBSET {"vision", "tools"}, Classify(r, caps) PROVE ChoiceInv'
  <2>. DEFINE role == IF k.conf.moe THEN "category" ELSE "selected"
  <2>1. CASE SetChat(r, [t EXCEPT !.at = "failed"]) /\ Model(k, role, {"json"}) = Nobody0
    <3>1. PICK u : u = [t EXCEPT !.at = "failed"]
      OBVIOUS
    <3>2. u \in ChatState /\ u.at = "failed" /\ u.pin = k
      BY <1>1, <3>1 DEF ChatState
    <3>3. role \in Roles \ {"vision"}
      BY DEF Roles
    <3>. HIDE DEF role
    <3>4. k.conf.mode = "off" => k.mixed
      BY <1>1, <2>1, <3>3, ModelMeans DEF Sound, Named
    <3>5. FitChat(u)
      BY <3>2, <3>4 DEF FitChat
    <3>. QED
      BY <1>1, <2>1, <3>1, <3>2, <3>5, ChatMoves
  <2>2. CASE SetChat(r, [t EXCEPT !.at = "classified", !.caps = caps])
    <3>1. PICK u : u = [t EXCEPT !.at = "classified", !.caps = caps]
      OBVIOUS
    <3>2. u \in ChatState /\ u.at = "classified" /\ u.pin = k
      BY <1>1, <3>1 DEF ChatState
    <3>. QED
      BY <1>1, <2>2, <3>1, <3>2, ChatMoves DEF FitChat
  <2>. QED
    BY <1>3, <2>1, <2>2 DEF Classify
<1>4. CASE ChooseModel(r)
  <2>. DEFINE role  == RoleOf(t)
              first == Model(k, role, t.caps)
              model == IF first = Nobody0 /\ role = "moe" /\ k.conf.mode = "off"
                       THEN Pinned(k, "selected") ELSE first
              none  == IF role = "vision" THEN "refused" ELSE "failed"
              at    == IF model = Nobody0 THEN none ELSE "chosen"
  <2>1. SetChat(r, [t EXCEPT !.at = at, !.model = model])
    BY <1>4 DEF ChooseModel
  <2>2. role \in {"vision", "moe", "selected"} /\ (role = "vision" <=> "vision" \in t.caps) /\ role \in Roles
    BY DEF RoleOf, Roles
  <2>3. Pinned(k, "selected") \in {k.conf.roles["selected"], Nobody0} /\ "selected" \in Roles
        /\ (Pinned(k, "selected") # Nobody0 => Pinned(k, "selected") \in k.models)
        /\ (Pinned(k, "selected") = Nobody0 => k.conf.roles["selected"] \notin k.models)
    BY <1>1, ListsMean DEF Pinned, Roles, Snapshots, ModelSets
  <2>4. k.conf \in Config /\ k.models \in SUBSET Models /\ Nobody0 \notin Models
    BY <1>1, ListsMean DEF Snapshots, ModelSets
  <2>. HIDE DEF role
  <2>5. /\ first \in Models \cup {Nobody0}
        /\ k.conf.mode = "off" => first \in {k.conf.roles[role], Nobody0}
        /\ first = Nobody0 /\ k.conf.mode = "off" => k.conf.roles[role] \notin k.models
        /\ first # Nobody0 =>
             /\ first \in k.models
             /\ k.conf.mode # "off" =>
                  /\ t.caps \subseteq About[first].caps /\ About[first].fits /\ About[first].trusted
                  /\ k.conf.mode = "fixed_only" => first = k.conf.roles[role]
                  /\ \/ k.conf.mode # "capability" /\ first = k.conf.roles[role]
                     \/ \A o \in Eligible(k, t.caps) :
                          /\ About[first].up = "degraded" => About[o].up = "degraded"
                          /\ About[o].up = About[first].up => About[o].quality <= About[first].quality
    BY <1>1, <2>2, ModelMeans
  <2>. HIDE DEF first
  <2>6. model \in Models \cup {Nobody0}
    BY <2>3, <2>4, <2>5
  <2>7. at \in {"chosen", "refused", "failed"}
    OBVIOUS
  <2>8. at = "failed" /\ k.conf.mode = "off" => k.mixed
    <3>1. SUFFICES ASSUME at = "failed", k.conf.mode = "off", ~k.mixed PROVE FALSE
      OBVIOUS
    <3>2. model = Nobody0 /\ role # "vision" /\ first = Nobody0
      BY <2>3, <2>5, <3>1
    <3>3. k.conf.roles[role] \notin k.models
      BY <2>5, <3>1, <3>2
    <3>. QED
      BY <1>1, <2>2, <3>1, <3>2, <3>3 DEF Sound, Named
  <2>. DEFINE u == [t EXCEPT !.at = at, !.model = model]
  <2>9. CASE at = "chosen"
    <3>1. model # Nobody0
      BY <2>9
    <3>2. model \in k.models
      BY <2>3, <2>5, <3>1
    <3>3. k.conf.mode # "off" => model = first
      OBVIOUS
    <3>4. k.conf.mode = "off" /\ role = "vision" => model = k.conf.roles["vision"]
      BY <2>5, <3>1
    <3>. HIDE DEF model, at
    <3>5. u \in ChatState /\ u.at = "chosen" /\ u.pin = k /\ u.caps = t.caps /\ u.model = model
      BY <1>1, <2>6, <2>7, <2>9 DEF ChatState
    <3>6. RoleOf(u) = role
      BY <3>5 DEF RoleOf, role
    <3>. HIDE DEF u
    <3>7. FitChat(u)
      BY <2>2, <2>5, <3>1, <3>2, <3>3, <3>4, <3>5, <3>6 DEF FitChat
    <3>. QED
      BY <1>1, <2>1, <3>5, <3>7, ChatMoves DEF u
  <2>10. CASE at # "chosen"
    <3>. HIDE DEF model, at
    <3>1. u \in ChatState /\ u.at = at /\ u.pin = k
      BY <1>1, <2>6, <2>7 DEF ChatState
    <3>. HIDE DEF u
    <3>2. FitChat(u)
      BY <2>8, <2>10, <3>1 DEF FitChat
    <3>. QED
      BY <1>1, <2>1, <3>1, <3>2, ChatMoves DEF u
  <2>. QED
    BY <2>9, <2>10
<1>. QED
  BY <1>2, <1>3, <1>4

LEMMA ChoiceStep ==
  ASSUME ChoiceInv, ChoiceNext
  PROVE  ChoiceInv'
BY CommandSteps, ChatSteps DEF ChoiceNext

-----------------------------------------------------------------------------
(* Isolated runs.                                                            *)

CallAts  == {"idle", "awaits", "thread", "queued", "prepare", "start", "runs", "closing", "ended"}
CallEnds == {"none", "ok", "refused", "busy", "failed", "timeout", "cancelled"}
CallTools == {t[c] : t \in Loads, c \in Runs}
Calls0 == [at : CallAts, tool : CallTools, end : CallEnds]
Procs0 == [is : {"none", "alive", "killed", "exited"}, up : SUBSET DOMAIN FenceRank,
           code : BOOLEAN, disk : {"ok", "over"}, loud : BOOLEAN,
           said : {"nothing", "mine", "other", "error"}]
Holding == {"prepare", "start", "runs", "closing"}

RunShape ==
  /\ runs \in [Runs -> Calls0] /\ procs \in [Runs -> Procs0]
  /\ spaces \subseteq Runs /\ threads \subseteq Runs

\* A process lives only for a call that runs, and its code runs behind its fences.
ProcHeld(c) ==
  /\ procs[c].is = "alive" => runs[c].at = "runs"
  /\ procs[c].code => Fences(runs[c].tool) \subseteq procs[c].up
  /\ procs[c].said = "mine" => procs[c].code

\* What a call leaves behind: a thread only of a function that changes
\* nothing, a directory only if it was interrupted.
CallLeaves(c) ==
  /\ c \in threads => ~runs[c].tool.mutating
  /\ c \in spaces => runs[c].at \in {"start", "runs", "closing", "ended"}
  /\ c \in spaces /\ runs[c].at = "ended" => runs[c].end \in {"timeout", "cancelled"}
  /\ runs[c].at = "closing" /\ runs[c].end = "ok" => procs[c].is = "exited" /\ Good(procs[c])

SlotHeld ==
  /\ slot \in Runs \cup {NoRun}
  /\ \A c \in Runs : slot = c <=> runs[c].at \in Holding

\* The queue holds every call that waits, once.
QueueKept ==
  /\ queue \in Seq(Runs) /\ Len(queue) <= MaxWaiting
  /\ queue # <<>> => slot # NoRun
  /\ \A i, j \in 1 .. Len(queue) : queue[i] = queue[j] => i = j
  /\ \A c \in Runs : runs[c].at = "queued" <=> \E i \in 1 .. Len(queue) : queue[i] = c

RunInv == /\ RunShape /\ SlotHeld /\ QueueKept
          /\ \A c \in Runs : ProcHeld(c) /\ CallLeaves(c)

LEMMA RunsMean == RunInv => ToolsContained
<1>. SUFFICES ASSUME RunInv PROVE ToolsContained
  OBVIOUS
<1>1. DOMAIN queue = 1 .. Len(queue)
  BY LenProperties DEF RunInv, QueueKept
<1>2. ASSUME NEW c \in Runs PROVE c \in Range(queue) <=> \E i \in 1 .. Len(queue) : queue[i] = c
  BY <1>1 DEF Range
<1>3. ASSUME NEW c \in Runs
      PROVE /\ procs[c].is = "alive" => slot = c /\ runs[c].at = "runs"
            /\ procs[c].code => Fences(runs[c].tool) \subseteq procs[c].up
            /\ c \in threads /\ runs[c].tool.mutating => runs[c].at # "ended"
            /\ c \in spaces /\ runs[c].at = "ended" => runs[c].end \in {"timeout", "cancelled"}
            /\ slot = c <=> runs[c].at \in Holding
            /\ runs[c].at = "queued" <=> c \in Range(queue)
  BY <1>2, <1>3 DEF RunInv, ProcHeld, CallLeaves, SlotHeld, QueueKept, Holding
<1>4. ASSUME NEW c \in Runs, runs[c].at = "closing", runs[c].end = "ok"
      PROVE /\ procs[c].is = "exited" /\ procs[c].code
            /\ procs[c].disk = "ok" /\ ~procs[c].loud /\ procs[c].said = "mine"
  BY <1>4 DEF RunInv, ProcHeld, CallLeaves, Good
<1>. QED
  BY <1>3, <1>4 DEF ToolsContained, Holding, RunInv, QueueKept

LEMMA RunsBegin == RunInit => RunInv
<1>. SUFFICES ASSUME RunInit PROVE RunInv
  OBVIOUS
<1>1. PICK t \in Loads : runs = [c \in Runs |-> [at |-> "idle", tool |-> t[c], end |-> "none"]]
  BY DEF RunInit
<1>2. runs \in [Runs -> Calls0]
  BY <1>1 DEF Calls0, CallAts, CallEnds, CallTools
<1>3. NoProc \in Procs0
  BY DEF NoProc, Procs0
<1>4. queue = <<>> /\ Len(queue) = 0 /\ queue \in Seq(Runs)
  BY EmptySeq DEF RunInit
<1>5. RunShape
  BY <1>2, <1>3 DEF RunInit, RunShape
<1>6. SlotHeld /\ QueueKept
  BY <1>1, <1>4, RunAssumption DEF RunInit, SlotHeld, QueueKept, Holding
<1>. QED
  BY <1>1, <1>5, <1>6 DEF RunInit, RunInv, ProcHeld, CallLeaves, NoProc

\* The calls R are the calls of now but for c, which is at another place.
Only(R, c, at, end) ==
  /\ R \in [Runs -> Calls0]
  /\ \A d \in Runs : /\ d # c => R[d] = runs[d]
                     /\ R[d].tool = runs[d].tool
  /\ R[c].at = at /\ R[c].end = end

LEMMA OnlyOne ==
  ASSUME runs \in [Runs -> Calls0], NEW c \in Runs, NEW at \in CallAts, NEW end \in CallEnds
  PROVE  /\ Only([runs EXCEPT ![c].at = at], c, at, runs[c].end)
         /\ Only([runs EXCEPT ![c].at = at, ![c].end = end], c, at, end)
<1>1. runs[c] \in Calls0
  OBVIOUS
<1>2. [runs EXCEPT ![c].at = at] = [runs EXCEPT ![c] = [runs[c] EXCEPT !.at = at]]
  OBVIOUS
<1>3. [runs EXCEPT ![c].at = at, ![c].end = end]
         = [runs EXCEPT ![c] = [runs[c] EXCEPT !.at = at, !.end = end]]
  OBVIOUS
<1>4. ASSUME NEW r \in Calls0, r.tool = runs[c].tool
      PROVE Only([runs EXCEPT ![c] = r], c, r.at, r.end)
  BY <1>4 DEF Only
<1>5. PICK u \in Calls0 : /\ u = [runs[c] EXCEPT !.at = at]
                         /\ u.at = at /\ u.tool = runs[c].tool /\ u.end = runs[c].end
  <2>. DEFINE w == [runs[c] EXCEPT !.at = at]
  <2>1. w \in Calls0 /\ w.at = at /\ w.tool = runs[c].tool /\ w.end = runs[c].end
    BY <1>1 DEF Calls0
  <2>. HIDE DEF w
  <2>2. w = [runs[c] EXCEPT !.at = at]
    BY DEF w
  <2>. QED
    BY <2>1, <2>2
<1>6. PICK v \in Calls0 : /\ v = [runs[c] EXCEPT !.at = at, !.end = end]
                         /\ v.at = at /\ v.tool = runs[c].tool /\ v.end = end
  <2>. DEFINE w == [runs[c] EXCEPT !.at = at, !.end = end]
  <2>1. w \in Calls0 /\ w.at = at /\ w.tool = runs[c].tool /\ w.end = end
    BY <1>1 DEF Calls0
  <2>. HIDE DEF w
  <2>2. w = [runs[c] EXCEPT !.at = at, !.end = end]
    BY DEF w
  <2>. QED
    BY <2>1, <2>2
<1>7. Only([runs EXCEPT ![c] = u], c, at, runs[c].end) /\ Only([runs EXCEPT ![c] = v], c, at, end)
  BY <1>4, <1>5, <1>6
<1>. QED
  BY <1>2, <1>3, <1>5, <1>6, <1>7

\* A call that neither enters nor leaves the slot or the queue.
LEMMA StaysPut ==
  ASSUME RunInv, NEW c \in Runs, NEW at, NEW end, Only(runs', c, at, end),
         at \in Holding <=> runs[c].at \in Holding, at # "queued", runs[c].at # "queued",
         UNCHANGED <<slot, queue>>
  PROVE  SlotHeld' /\ QueueKept'
<1>1. ASSUME NEW d \in Runs
      PROVE /\ runs'[d].at \in Holding <=> runs[d].at \in Holding
            /\ runs'[d].at = "queued" <=> runs[d].at = "queued"
  BY DEF Only
<1>. QED
  BY <1>1 DEF RunInv, SlotHeld, QueueKept

-----------------------------------------------------------------------------
(* The calls that no process serves. *)

LEMMA FunctionSteps ==
  ASSUME RunInv, NEW c \in Runs,
         \/ Refuses(c) \/ CallsFunction(c) \/ ThreadEnds(c)
         \/ \E end \in {"ok", "failed", "timeout", "cancelled"} : FunctionEnds(c, end)
  PROVE  RunInv'
<1>. runs \in [Runs -> Calls0] /\ spaces \subseteq Runs /\ threads \subseteq Runs /\ UNCHANGED <<procs, spaces>>
  BY DEF RunInv, RunShape, Refuses, CallsFunction, ThreadEnds, FunctionEnds
<1>1. CASE ThreadEnds(c)
  BY <1>1 DEF ThreadEnds, RunInv, RunShape, SlotHeld, QueueKept, ProcHeld, CallLeaves
<1>2. ASSUME NEW at \in {"ended", "thread", "awaits"}, NEW end \in CallEnds,
             Only(runs', c, at, end), runs[c].at \in {"idle", "thread", "awaits"},
             UNCHANGED <<slot, queue>>, threads' \subseteq threads \cup {c},
             c \in threads' => c \in threads \/ ~runs[c].tool.mutating
      PROVE RunInv'
  <2>1. SlotHeld' /\ QueueKept'
    BY <1>2, StaysPut DEF Holding
  <2>2. RunShape'
    BY <1>2 DEF RunInv, RunShape, Only
  <2>3. c \notin spaces
    BY <1>2 DEF RunInv, CallLeaves
  <2>4. ASSUME NEW d \in Runs PROVE ProcHeld(d)' /\ CallLeaves(d)'
    BY <1>2, <2>3, <2>4 DEF RunInv, ProcHeld, CallLeaves, Only
  <2>. QED
    BY <2>1, <2>2, <2>4 DEF RunInv
<1>3. CASE Refuses(c)
  <2>1. Only(runs', c, "ended", "refused")
    BY <1>3, OnlyOne DEF Refuses, Concludes, CallAts, CallEnds
  <2>. QED
    BY <1>2, <1>3, <2>1 DEF Refuses, CallEnds
<1>4. CASE CallsFunction(c)
  <2>. DEFINE at == IF runs[c].tool.how = "thread" THEN "thread" ELSE "awaits"
  <2>1. at \in {"thread", "awaits"} /\ at \in CallAts /\ runs[c].end \in CallEnds
    BY DEF CallAts, Calls0
  <2>2. Only(runs', c, at, runs[c].end)
    BY <1>4, <2>1, OnlyOne DEF CallsFunction, Moves
  <2>3. c \in threads' => c \in threads \/ ~runs[c].tool.mutating
    BY <1>4 DEF CallsFunction, Accepts, Cancellable
  <2>4. threads' \subseteq threads \cup {c} /\ runs[c].at = "idle" /\ UNCHANGED <<slot, queue>>
    BY <1>4 DEF CallsFunction
  <2>. HIDE DEF at
  <2>. QED
    BY <1>2, <2>1, <2>2, <2>3, <2>4
<1>5. ASSUME NEW end \in {"ok", "failed", "timeout", "cancelled"}, FunctionEnds(c, end)
      PROVE RunInv'
  <2>1. Only(runs', c, "ended", end)
    BY <1>5, OnlyOne DEF FunctionEnds, Concludes, CallAts, CallEnds
  <2>2. threads' \subseteq threads
    BY <1>5 DEF FunctionEnds
  <2>. QED
    BY <1>2, <1>5, <2>1, <2>2 DEF FunctionEnds, CallEnds
<1>. QED
  BY <1>1, <1>3, <1>4, <1>5

(* The queue. *)

LEMMA HeadLeaves ==
  ASSUME RunInv, queue # <<>>
  PROVE  /\ Head(queue) \in Runs /\ runs[Head(queue)].at = "queued" /\ Tail(queue) \in Seq(Runs)
         /\ Len(Tail(queue)) <= MaxWaiting
         /\ \A i, j \in 1 .. Len(Tail(queue)) : Tail(queue)[i] = Tail(queue)[j] => i = j
         /\ \A d \in Runs \ {Head(queue)} :
              runs[d].at = "queued" <=> \E i \in 1 .. Len(Tail(queue)) : Tail(queue)[i] = d
         /\ ~\E i \in 1 .. Len(Tail(queue)) : Tail(queue)[i] = Head(queue)
<1>1. /\ queue \in Seq(Runs) /\ Len(queue) <= MaxWaiting
      /\ \A i, j \in 1 .. Len(queue) : queue[i] = queue[j] => i = j
      /\ \A d \in Runs : runs[d].at = "queued" <=> \E i \in 1 .. Len(queue) : queue[i] = d
  BY DEF RunInv, QueueKept
<1>2. /\ Len(queue) \in Nat \ {0} /\ Head(queue) = queue[1] /\ Head(queue) \in Runs
      /\ Tail(queue) \in Seq(Runs) /\ Len(Tail(queue)) = Len(queue) - 1
      /\ \A i \in 1 .. Len(Tail(queue)) : Tail(queue)[i] = queue[i + 1]
  BY <1>1, HeadTailProperties, LenProperties, EmptySeq
<1>3. \A i \in 1 .. Len(queue) - 1 : i + 1 \in 1 .. Len(queue) /\ i + 1 # 1
  BY <1>2
<1>4. \A k \in 1 .. Len(queue) : k = 1 \/ (k - 1 \in 1 .. Len(queue) - 1 /\ (k - 1) + 1 = k)
  BY <1>2
<1>5. \A i, j \in 1 .. Len(Tail(queue)) : Tail(queue)[i] = Tail(queue)[j] => i = j
  <2>. SUFFICES ASSUME NEW i \in 1 .. Len(queue) - 1, NEW j \in 1 .. Len(queue) - 1,
                       queue[i + 1] = queue[j + 1]
                PROVE  i = j
    BY <1>2
  <2>1. i + 1 = j + 1
    BY <1>1, <1>3
  <2>. QED
    BY <1>2, <2>1
<1>6. ASSUME NEW d \in Runs \ {Head(queue)}
      PROVE runs[d].at = "queued" <=> \E i \in 1 .. Len(Tail(queue)) : Tail(queue)[i] = d
  <2>1. ASSUME runs[d].at = "queued" PROVE \E i \in 1 .. Len(Tail(queue)) : Tail(queue)[i] = d
    <3>1. PICK k \in 1 .. Len(queue) : queue[k] = d
      BY <1>1, <2>1
    <3>2. k - 1 \in 1 .. Len(queue) - 1 /\ (k - 1) + 1 = k
      BY <1>2, <1>4, <3>1
    <3>. QED
      BY <1>2, <3>1, <3>2
  <2>2. ASSUME NEW i \in 1 .. Len(Tail(queue)), Tail(queue)[i] = d PROVE runs[d].at = "queued"
    BY <1>1, <1>2, <1>3, <2>2
  <2>. QED
    BY <2>1, <2>2
<1>7. ~\E i \in 1 .. Len(Tail(queue)) : Tail(queue)[i] = Head(queue)
  <2>. SUFFICES ASSUME NEW i \in 1 .. Len(queue) - 1, queue[i + 1] = queue[1] PROVE FALSE
    BY <1>2
  <2>1. 1 \in 1 .. Len(queue)
    BY <1>2
  <2>. QED
    BY <1>1, <1>3, <2>1
<1>8. runs[Head(queue)].at = "queued" /\ Len(Tail(queue)) <= MaxWaiting
  <2>1. 1 \in 1 .. Len(queue)
    BY <1>2
  <2>. QED
    BY <1>1, <1>2, <2>1, RunAssumption
<1>. QED
  BY <1>2, <1>5, <1>6, <1>7, <1>8

\* The call c gave the slot away and has ended.
GivesWay(c, end) ==
  /\ runs' \in [Runs -> Calls0] /\ runs'[c].at = "ended" /\ runs'[c].end = end
  /\ \A d \in Runs : /\ runs'[d].tool = runs[d].tool
                     /\ d # c /\ runs'[d] # runs[d] =>
                          runs[d].at = "queued" /\ runs'[d].at = "prepare"

LEMMA PassesOn ==
  ASSUME RunInv, NEW c \in Runs, runs[c].at \in Holding, NEW end \in CallEnds, NEW STATE R,
         Only(R, c, "ended", end), Passes(R)
  PROVE  GivesWay(c, end) /\ SlotHeld' /\ QueueKept'
<1>. /\ runs \in [Runs -> Calls0] /\ R \in [Runs -> Calls0] /\ slot = c
     /\ \A d \in Runs : slot = d <=> runs[d].at \in Holding
  BY DEF RunInv, RunShape, Only, SlotHeld
<1>1. CASE queue = <<>>
  <2>1. runs' = R /\ slot' = NoRun /\ queue' = queue
    BY <1>1 DEF Passes
  <2>2. GivesWay(c, end)
    BY <2>1 DEF GivesWay, Only
  <2>3. SlotHeld'
    BY <2>1, RunAssumption DEF SlotHeld, Only, Holding
  <2>4. ASSUME NEW d \in Runs PROVE runs'[d].at = "queued" <=> runs[d].at = "queued"
    BY <2>1 DEF Only, Holding
  <2>5. QueueKept'
    BY <1>1, <2>1, <2>4 DEF RunInv, QueueKept
  <2>. QED
    BY <2>2, <2>3, <2>5
<1>2. CASE queue # <<>>
  <2>. DEFINE h == Head(queue)
  <2>1. slot' = h /\ queue' = Tail(queue) /\ runs' = [R EXCEPT ![h].at = "prepare"]
    BY <1>2 DEF Passes
  <2>2. h \in Runs /\ runs[h].at = "queued" /\ h # c
    BY <1>2, HeadLeaves DEF Holding
  <2>3. R[h] = runs[h] /\ R[h] \in Calls0
    BY <2>2 DEF Only
  <2>. HIDE DEF h
  <2>4. PICK u \in Calls0 : u = [R[h] EXCEPT !.at = "prepare"] /\ u.at = "prepare" /\ u.tool = R[h].tool
    <3>. DEFINE w == [R[h] EXCEPT !.at = "prepare"]
    <3>1. w \in Calls0 /\ w.at = "prepare" /\ w.tool = R[h].tool
      BY <2>3 DEF Calls0, CallAts
    <3>. HIDE DEF w
    <3>2. w = [R[h] EXCEPT !.at = "prepare"]
      BY DEF w
    <3>. QED
      BY <3>1, <3>2
  <2>5. runs' = [R EXCEPT ![h] = u]
    BY <2>1, <2>2, <2>4
  <2>6. runs' = [d \in Runs |-> IF d = h THEN u ELSE R[d]]
    BY <2>2, <2>5
  <2>7. /\ runs' \in [Runs -> Calls0] /\ runs'[h].at = "prepare"
        /\ runs'[c].at = "ended" /\ runs'[c].end = end
        /\ \A d \in Runs \ {h, c} : runs'[d] = runs[d]
        /\ \A d \in Runs : runs'[d].tool = runs[d].tool
    BY <2>2, <2>3, <2>4, <2>6 DEF Only
  <2>8. GivesWay(c, end)
    BY <2>2, <2>7 DEF GivesWay
  <2>9. SlotHeld'
    <3>1. ASSUME NEW d \in Runs PROVE h = d <=> runs'[d].at \in Holding
      BY <2>2, <2>7 DEF Holding
    <3>. QED
      BY <2>1, <2>2, <3>1 DEF SlotHeld
  <2>10. QueueKept'
    <3>1. ASSUME NEW d \in Runs
          PROVE runs'[d].at = "queued" <=> \E i \in 1 .. Len(Tail(queue)) : Tail(queue)[i] = d
      <4>1. CASE d = h
        BY <1>2, <2>7, <4>1, HeadLeaves DEF h
      <4>2. CASE d = c
        BY <1>2, <2>7, <2>2, <4>2, HeadLeaves DEF h, Holding
      <4>3. CASE d \in Runs \ {h, c}
        BY <1>2, <2>7, <4>3, HeadLeaves DEF h
      <4>. QED
        BY <4>1, <4>2, <4>3
    <3>2. slot' # NoRun
      BY <2>1, <2>2, RunAssumption
    <3>. QED
      BY <1>2, <2>1, <3>1, <3>2, HeadLeaves DEF QueueKept
  <2>. QED
    BY <2>8, <2>9, <2>10
<1>. QED
  BY <1>1, <1>2

LEMMA EntersSlot ==
  ASSUME RunInv, NEW c \in Runs, Enters(c)
  PROVE  RunInv'
<1>. /\ runs \in [Runs -> Calls0] /\ runs[c].at = "idle" /\ runs[c].end \in CallEnds
     /\ UNCHANGED <<procs, spaces, threads>>
  BY DEF RunInv, RunShape, Enters, Calls0
<1>0. runs[c].tool.how = "isolated" /\ c \notin spaces
  BY DEF Enters, RunInv, CallLeaves
<1>1. ASSUME NEW at \in {"prepare", "queued", "ended"}, NEW end \in CallEnds, Only(runs', c, at, end),
             SlotHeld', QueueKept'
      PROVE  RunInv'
  <2>1. RunShape'
    BY <1>1 DEF RunInv, RunShape, Only
  <2>2. ASSUME NEW d \in Runs PROVE ProcHeld(d)' /\ CallLeaves(d)'
    BY <1>0, <1>1, <2>2 DEF RunInv, ProcHeld, CallLeaves, Only
  <2>. QED
    BY <1>1, <2>1, <2>2 DEF RunInv
<1>2. CASE slot = NoRun
  <2>1. Only(runs', c, "prepare", runs[c].end) /\ slot' = c /\ UNCHANGED queue
    BY <1>2, OnlyOne DEF Enters, Moves, CallAts
  <2>2. SlotHeld'
    BY <1>2, <2>1, RunAssumption DEF RunInv, SlotHeld, Only, Holding
  <2>3. QueueKept'
    <3>1. \A d \in Runs : runs'[d].at = "queued" <=> runs[d].at = "queued"
      BY <2>1 DEF Only
    <3>2. slot' # NoRun
      BY <2>1, RunAssumption
    <3>. QED
      BY <2>1, <3>1, <3>2 DEF RunInv, QueueKept
  <2>. QED
    BY <1>1, <2>1, <2>2, <2>3
<1>3. CASE slot # NoRun /\ Len(queue) >= MaxWaiting
  <2>1. Only(runs', c, "ended", "busy") /\ UNCHANGED <<slot, queue>>
    BY <1>3, OnlyOne DEF Enters, Concludes, CallAts, CallEnds
  <2>2. SlotHeld' /\ QueueKept'
    BY <2>1, StaysPut DEF Holding
  <2>. QED
    BY <1>1, <2>1, <2>2 DEF CallEnds
<1>4. CASE slot # NoRun /\ ~(Len(queue) >= MaxWaiting)
  <2>1. Only(runs', c, "queued", runs[c].end) /\ UNCHANGED slot /\ queue' = Append(queue, c)
    BY <1>4, OnlyOne DEF Enters, Moves, CallAts
  <2>2. SlotHeld'
    BY <2>1 DEF RunInv, SlotHeld, Only, Holding
  <2>3. /\ queue \in Seq(Runs) /\ Len(queue) \in Nat
        /\ \A i, j \in 1 .. Len(queue) : queue[i] = queue[j] => i = j
        /\ \A d \in Runs : runs[d].at = "queued" <=> \E i \in 1 .. Len(queue) : queue[i] = d
    BY LenProperties DEF RunInv, QueueKept
  <2>4. /\ queue' \in Seq(Runs) /\ Len(queue') = Len(queue) + 1
        /\ \A i \in 1 .. Len(queue) : queue'[i] = queue[i]
        /\ queue'[Len(queue) + 1] = c
    BY <2>1, <2>3, AppendProperties
  <2>5. \A i \in 1 .. Len(queue') : i \in 1 .. Len(queue) \/ i = Len(queue) + 1
    BY <2>3, <2>4
  <2>6. 1 .. Len(queue) \subseteq 1 .. Len(queue') /\ Len(queue) + 1 \in 1 .. Len(queue')
    BY <2>3, <2>4
  <2>7. \A i \in 1 .. Len(queue) : queue[i] # c
    BY <2>3
  <2>8. \A i, j \in 1 .. Len(queue') : queue'[i] = queue'[j] => i = j
    BY <2>3, <2>4, <2>5, <2>7
  <2>9. ASSUME NEW d \in Runs
        PROVE runs'[d].at = "queued" <=> \E i \in 1 .. Len(queue') : queue'[i] = d
    <3>1. CASE d = c
      BY <2>1, <2>4, <2>6, <3>1 DEF Only
    <3>2. CASE d # c
      <4>1. runs'[d].at = "queued" <=> runs[d].at = "queued"
        BY <2>1, <3>2 DEF Only
      <4>2. (\E i \in 1 .. Len(queue') : queue'[i] = d) <=> \E i \in 1 .. Len(queue) : queue[i] = d
        BY <2>4, <2>5, <2>6, <3>2
      <4>. QED
        BY <2>3, <4>1, <4>2
    <3>. QED
      BY <3>1, <3>2
  <2>10. Len(queue') <= MaxWaiting
    BY <1>4, <2>3, <2>4, RunAssumption
  <2>11. QueueKept'
    BY <1>4, <2>1, <2>4, <2>8, <2>9, <2>10 DEF QueueKept
  <2>. QED
    BY <1>1, <2>1, <2>2, <2>11
<1>. QED
  BY <1>2, <1>3, <1>4

\* A sequence without the element at k: the elements before it keep their
\* places, those after it move up by one.
LEMMA WithoutOne ==
  ASSUME NEW S, NEW s \in Seq(S), NEW k \in 1 .. Len(s)
  PROVE  /\ RemoveAt(s, k) \in Seq(S) /\ Len(RemoveAt(s, k)) = Len(s) - 1
         /\ \A i \in 1 .. Len(s) - 1 : RemoveAt(s, k)[i] = IF i < k THEN s[i] ELSE s[i + 1]
<1>. DEFINE front == SubSeq(s, 1, k - 1)
            back  == SubSeq(s, k + 1, Len(s))
<1>1. Len(s) \in Nat /\ k \in Int /\ k - 1 \in Int /\ k + 1 \in Int
      /\ \A i \in 1 .. Len(s) : s[i] \in S
  BY LenProperties, ElementOfSeq
<1>2. /\ front \in Seq(S) /\ Len(front) = k - 1
      /\ \A i \in 1 .. k - 1 : front[i] = s[i]
  <2>1. \A i \in 1 .. k - 1 : s[i] \in S /\ 1 + i - 1 = i
    BY <1>1
  <2>2. /\ front \in Seq(S) /\ Len(front) = IF 1 <= k - 1 THEN (k - 1) - 1 + 1 ELSE 0
        /\ \A i \in 1 .. (k - 1) - 1 + 1 : front[i] = s[1 + i - 1]
    BY <1>1, <2>1, SubSeqProperties
  <2>3. (k - 1) - 1 + 1 = k - 1
    BY <1>1
  <2>. QED
    BY <1>1, <2>1, <2>2, <2>3
<1>3. /\ back \in Seq(S) /\ Len(back) = Len(s) - k
      /\ \A i \in 1 .. Len(s) - k : back[i] = s[k + i]
  <2>1. \A i \in k + 1 .. Len(s) : s[i] \in S
    BY <1>1
  <2>2. /\ back \in Seq(S) /\ Len(back) = IF k + 1 <= Len(s) THEN Len(s) - (k + 1) + 1 ELSE 0
        /\ \A i \in 1 .. Len(s) - (k + 1) + 1 : back[i] = s[(k + 1) + i - 1]
    BY <1>1, <2>1, SubSeqProperties
  <2>3. Len(s) - (k + 1) + 1 = Len(s) - k /\ \A i \in 1 .. Len(s) - k : (k + 1) + i - 1 = k + i
    BY <1>1
  <2>4. CASE k + 1 <= Len(s)
    BY <2>2, <2>3, <2>4
  <2>5. CASE ~(k + 1 <= Len(s))
    <3>1. Len(back) = 0 /\ Len(s) - k = 0
      BY <1>1, <2>2, <2>5
    <3>. QED
      BY <2>2, <2>3, <3>1
  <2>. QED
    BY <2>4, <2>5
<1>. HIDE DEF front, back
<1>4. RemoveAt(s, k) = front \o back
  BY DEF RemoveAt, front, back
<1>5. /\ front \o back \in Seq(S) /\ Len(front \o back) = Len(front) + Len(back)
      /\ \A i \in 1 .. Len(front) + Len(back) :
           (front \o back)[i] = IF i <= Len(front) THEN front[i] ELSE back[i - Len(front)]
  BY <1>2, <1>3, ConcatProperties
<1>6. Len(front) + Len(back) = Len(s) - 1
  BY <1>1, <1>2, <1>3
<1>7. ASSUME NEW i \in 1 .. Len(s) - 1
      PROVE RemoveAt(s, k)[i] = IF i < k THEN s[i] ELSE s[i + 1]
  <2>1. CASE i < k
    <3>1. i <= Len(front) /\ i \in 1 .. k - 1
      BY <1>1, <1>2, <2>1
    <3>. QED
      BY <1>2, <1>4, <1>5, <1>6, <2>1, <3>1
  <2>2. CASE ~(i < k)
    <3>1. ~(i <= Len(front)) /\ i - Len(front) \in 1 .. Len(s) - k /\ k + (i - Len(front)) = i + 1
      BY <1>1, <1>2, <2>2
    <3>. QED
      BY <1>3, <1>4, <1>5, <1>6, <2>2, <3>1
  <2>. QED
    BY <2>1, <2>2
<1>. QED
  BY <1>4, <1>5, <1>6, <1>7

LEMMA WaiterLeaves ==
  ASSUME RunInv, NEW c \in Runs, NEW end \in {"timeout", "cancelled"}, LeavesQueue(c, end)
  PROVE  RunInv'
<1>1. /\ runs \in [Runs -> Calls0] /\ runs[c].at = "queued" /\ UNCHANGED <<procs, slot, spaces, threads>>
      /\ end \in CallEnds
  BY DEF RunInv, RunShape, LeavesQueue, CallEnds
<1>2. Only(runs', c, "ended", end)
  BY <1>1, OnlyOne DEF LeavesQueue, Concludes, CallAts
<1>3. RunShape'
  BY <1>1, <1>2 DEF RunInv, RunShape, Only
<1>4. ASSUME NEW d \in Runs PROVE ProcHeld(d)' /\ CallLeaves(d)'
  BY <1>1, <1>2, <1>4 DEF RunInv, ProcHeld, CallLeaves, Only
<1>5. SlotHeld'
  BY <1>1, <1>2 DEF RunInv, SlotHeld, Only, Holding
<1>6. /\ queue \in Seq(Runs) /\ Len(queue) \in Nat /\ DOMAIN queue = 1 .. Len(queue)
      /\ Len(queue) <= MaxWaiting /\ (queue # <<>> => slot # NoRun)
      /\ \A i, j \in 1 .. Len(queue) : queue[i] = queue[j] => i = j
      /\ \A d \in Runs : runs[d].at = "queued" <=> \E i \in 1 .. Len(queue) : queue[i] = d
  BY LenProperties DEF RunInv, QueueKept
<1>7. PICK k \in 1 .. Len(queue) : queue[k] = c /\ queue' = RemoveAt(queue, k)
  BY <1>6 DEF LeavesQueue
<1>8. /\ queue' \in Seq(Runs) /\ Len(queue') = Len(queue) - 1
      /\ \A i \in 1 .. Len(queue) - 1 : queue'[i] = IF i < k THEN queue[i] ELSE queue[i + 1]
  <2>1. /\ RemoveAt(queue, k) \in Seq(Runs) /\ Len(RemoveAt(queue, k)) = Len(queue) - 1
        /\ \A i \in 1 .. Len(queue) - 1 :
             RemoveAt(queue, k)[i] = IF i < k THEN queue[i] ELSE queue[i + 1]
    <3>1. queue \in Seq(Runs) /\ k \in 1 .. Len(queue)
      BY <1>6, <1>7
    <3>. QED
      BY <3>1, WithoutOne, Zenon
  <2>. QED
    BY <1>7, <2>1
\* Where the element that is now at i was before.
<1>. DEFINE was == [i \in 1 .. Len(queue) - 1 |-> IF i < k THEN i ELSE i + 1]
<1>9. \A i \in 1 .. Len(queue) - 1 : /\ was[i] \in 1 .. Len(queue) /\ was[i] # k
                                     /\ queue'[i] = queue[was[i]]
  BY <1>6, <1>8
<1>10. \A i, j \in 1 .. Len(queue) - 1 : was[i] = was[j] => i = j
  BY <1>6
<1>11. \A m \in 1 .. Len(queue) : m = k \/ \E i \in 1 .. Len(queue) - 1 : was[i] = m
  <2>. SUFFICES ASSUME NEW m \in 1 .. Len(queue), m # k
                PROVE  \E i \in 1 .. Len(queue) - 1 : was[i] = m
    OBVIOUS
  <2>1. CASE m < k
    <3>1. m \in 1 .. Len(queue) - 1
      BY <1>6, <2>1
    <3>. QED
      BY <2>1, <3>1
  <2>2. CASE ~(m < k)
    <3>1. m - 1 \in 1 .. Len(queue) - 1 /\ ~(m - 1 < k) /\ (m - 1) + 1 = m
      BY <1>6, <2>2
    <3>. QED
      BY <3>1
  <2>. QED
    BY <2>1, <2>2
<1>. HIDE DEF was
<1>12. \A i, j \in 1 .. Len(queue') : queue'[i] = queue'[j] => i = j
  BY <1>6, <1>8, <1>9, <1>10
<1>13. ASSUME NEW d \in Runs
       PROVE runs'[d].at = "queued" <=> \E i \in 1 .. Len(queue') : queue'[i] = d
  <2>1. CASE d = c
    BY <1>2, <1>6, <1>7, <1>8, <1>9, <2>1 DEF Only
  <2>2. CASE d # c
    <3>1. runs'[d].at = "queued" <=> runs[d].at = "queued"
      BY <1>2, <2>2 DEF Only
    <3>2. (\E i \in 1 .. Len(queue') : queue'[i] = d) => \E i \in 1 .. Len(queue) : queue[i] = d
      BY <1>8, <1>9
    <3>3. (\E i \in 1 .. Len(queue) : queue[i] = d) => \E i \in 1 .. Len(queue') : queue'[i] = d
      <4>. SUFFICES ASSUME NEW m \in 1 .. Len(queue), queue[m] = d
                    PROVE  \E i \in 1 .. Len(queue') : queue'[i] = d
        OBVIOUS
      <4>1. PICK i \in 1 .. Len(queue) - 1 : was[i] = m
        BY <1>7, <1>11, <2>2
      <4>. QED
        BY <1>8, <1>9, <4>1
    <3>. QED
      BY <1>6, <3>1, <3>2, <3>3
  <2>. QED
    BY <2>1, <2>2
<1>14. Len(queue') <= MaxWaiting
  BY <1>6, <1>8, RunAssumption
<1>15. slot' # NoRun
  <2>1. queue # <<>>
    BY <1>6, <1>7, EmptySeq
  <2>. QED
    BY <1>1, <1>6, <2>1
<1>16. QueueKept'
  BY <1>8, <1>12, <1>13, <1>14, <1>15 DEF QueueKept
<1>. QED
  BY <1>3, <1>4, <1>5, <1>16 DEF RunInv

-----------------------------------------------------------------------------
(* The process. *)

\* The process of c does something.
LEMMA ProcActs ==
  ASSUME RunInv, NEW c \in Runs, NEW STATE p, p \in Procs0, Proc(c, p),
         p.code => Fences(runs[c].tool) \subseteq p.up, p.said = "mine" => p.code
  PROVE  RunInv'
<1>1. /\ procs \in [Runs -> Procs0] /\ procs[c].is = "alive" /\ runs[c].at = "runs"
      /\ procs' = [procs EXCEPT ![c] = p] /\ UNCHANGED <<runs, slot, queue, spaces, threads>>
  BY DEF RunInv, RunShape, ProcHeld, Proc
<1>2. procs' = [d \in Runs |-> IF d = c THEN p ELSE procs[d]]
  BY <1>1
<1>3. RunShape' /\ SlotHeld' /\ QueueKept'
  BY <1>1, <1>2 DEF RunInv, RunShape, SlotHeld, QueueKept
<1>4. ASSUME NEW d \in Runs PROVE ProcHeld(d)' /\ CallLeaves(d)'
  BY <1>1, <1>2, <1>4 DEF RunInv, ProcHeld, CallLeaves
<1>. QED
  BY <1>3, <1>4 DEF RunInv

LEMMA ProcessSteps ==
  ASSUME RunInv, NEW c \in Runs, Launches(c) \/ Confines(c) \/ LoadsTool(c) \/ ToolActs(c)
  PROVE  RunInv'
<1>. DEFINE now == procs[c]
<1>1. now \in Procs0 /\ (now.code => Fences(runs[c].tool) \subseteq now.up) /\ (now.said = "mine" => now.code)
  BY DEF RunInv, RunShape, ProcHeld
<1>2. now.up \subseteq DOMAIN FenceRank /\ now.disk \in {"ok", "over"}
  BY <1>1 DEF Procs0
<1>3. ASSUME NEW f \in DOMAIN FenceRank, Raises(c, f) PROVE RunInv'
  <2>. DEFINE p == [now EXCEPT !.up = now.up \cup {f}]
  <2>1. p \in Procs0 /\ p.up = now.up \cup {f} /\ p.code = now.code /\ p.said = now.said
    BY <1>1, <1>2, <1>3 DEF Procs0
  <2>2. Proc(c, p)
    BY <1>3 DEF Raises
  <2>3. (p.code => Fences(runs[c].tool) \subseteq p.up) /\ (p.said = "mine" => p.code)
    BY <1>1, <2>1
  <2>. HIDE DEF p
  <2>. QED
    BY <2>1, <2>2, <2>3, ProcActs
<1>4. ASSUME Proc(c, [now EXCEPT !.is = "exited"]) PROVE RunInv'
  <2>. DEFINE p == [now EXCEPT !.is = "exited"]
  <2>1. p \in Procs0 /\ p.up = now.up /\ p.code = now.code /\ p.said = now.said
    BY <1>1 DEF Procs0
  <2>2. Proc(c, p)
    BY <1>4
  <2>3. (p.code => Fences(runs[c].tool) \subseteq p.up) /\ (p.said = "mine" => p.code)
    BY <1>1, <2>1
  <2>. HIDE DEF p
  <2>. QED
    BY <2>1, <2>2, <2>3, ProcActs
<1>5. ASSUME NEW said \in {"nothing", "mine", "other", "error"}, said = "mine" => now.code,
             Proc(c, [now EXCEPT !.is = "exited", !.said = said])
      PROVE RunInv'
  <2>. DEFINE p == [now EXCEPT !.is = "exited", !.said = said]
  <2>1. p \in Procs0 /\ p.up = now.up /\ p.code = now.code /\ p.said = said
    BY <1>1, <1>5 DEF Procs0
  <2>2. Proc(c, p)
    BY <1>5
  <2>3. (p.code => Fences(runs[c].tool) \subseteq p.up) /\ (p.said = "mine" => p.code)
    BY <1>1, <1>5, <2>1
  <2>. HIDE DEF p
  <2>. QED
    BY <2>1, <2>2, <2>3, ProcActs
<1>6. CASE Launches(c)
  <2>1. PICK f \in DOMAIN FenceRank : Raises(c, f) \/ Proc(c, [now EXCEPT !.is = "exited"])
    BY <1>6 DEF Launches
  <2>. QED
    BY <1>3, <1>4, <2>1
<1>7. CASE Confines(c)
  <2>1. PICK f \in Worker : Raises(c, f) \/ Proc(c, [now EXCEPT !.is = "exited", !.said = "error"])
    BY <1>7 DEF Confines
  <2>2. f \in DOMAIN FenceRank
    BY <2>1 DEF Worker, FenceRank
  <2>. QED
    BY <1>3, <1>5, <2>1, <2>2
<1>8. CASE LoadsTool(c)
  <2>. DEFINE p == [now EXCEPT !.code = TRUE]
  <2>1. p \in Procs0 /\ p.up = now.up /\ p.code = TRUE /\ p.said = now.said
    BY <1>1 DEF Procs0
  <2>2. Proc(c, p) /\ Fences(runs[c].tool) \subseteq now.up
    BY <1>8 DEF LoadsTool, Missing
  <2>. HIDE DEF p
  <2>. QED
    BY <2>1, <2>2, ProcActs
<1>9. CASE ToolActs(c)
  <2>1. CASE Proc(c, [procs[c] EXCEPT !.disk = IF @ = "ok" THEN "over" ELSE "ok"])
    <3>. DEFINE x == IF now.disk = "ok" THEN "over" ELSE "ok"
                p == [now EXCEPT !.disk = x]
    <3>1. p \in Procs0 /\ p.up = now.up /\ p.code = now.code /\ p.said = now.said
      BY <1>1 DEF Procs0
    <3>2. Proc(c, p)
      BY <2>1
    <3>3. (p.code => Fences(runs[c].tool) \subseteq p.up) /\ (p.said = "mine" => p.code)
      BY <1>1, <3>1
    <3>. HIDE DEF p
    <3>. QED
      BY <3>1, <3>2, <3>3, ProcActs
  <2>2. CASE Proc(c, [procs[c] EXCEPT !.loud = TRUE])
    <3>. DEFINE p == [now EXCEPT !.loud = TRUE]
    <3>1. p \in Procs0 /\ p.up = now.up /\ p.code = now.code /\ p.said = now.said
      BY <1>1 DEF Procs0
    <3>2. Proc(c, p)
      BY <2>2
    <3>3. (p.code => Fences(runs[c].tool) \subseteq p.up) /\ (p.said = "mine" => p.code)
      BY <1>1, <3>1
    <3>. HIDE DEF p
    <3>. QED
      BY <3>1, <3>2, <3>3, ProcActs
  <2>. QED
    BY <1>5, <1>9, <2>1, <2>2 DEF ToolActs
<1>. QED
  BY <1>6, <1>7, <1>8, <1>9

\* The processes P are those of now but for that of c.
OnlyProc(P, c) ==
  P \in [Runs -> Procs0] /\ \A d \in Runs : d # c => P[d] = procs[d]

LEMMA KilledIsDead ==
  ASSUME procs \in [Runs -> Procs0], NEW c \in Runs
  PROVE  /\ OnlyProc(Killed(c), c) /\ Killed(c)[c].is # "alive"
         /\ Killed(c)[c].up = procs[c].up /\ Killed(c)[c].code = procs[c].code
         /\ Killed(c)[c].said = procs[c].said
<1>. DEFINE x == IF procs[c].is = "alive" THEN "killed" ELSE procs[c].is
            p == [procs[c] EXCEPT !.is = x]
<1>1. /\ p \in Procs0 /\ p.is # "alive" /\ p.up = procs[c].up /\ p.code = procs[c].code
      /\ p.said = procs[c].said
  BY DEF Procs0
<1>2. Killed(c) = [procs EXCEPT ![c] = p]
  BY DEF Killed
<1>. HIDE DEF p
<1>3. Killed(c) = [d \in Runs |-> IF d = c THEN p ELSE procs[d]]
  BY <1>2
<1>. QED
  BY <1>1, <1>3 DEF OnlyProc

LEMMA ForgottenIsGone ==
  ASSUME procs \in [Runs -> Procs0], NEW c \in Runs, procs[c].is # "alive"
  PROVE  OnlyProc(Forget(c), c) /\ Forget(c)[c] = NoProc
<1>1. NoProc \in Procs0
  BY DEF NoProc, Procs0
<1>2. Forget(c) = [procs EXCEPT ![c] = NoProc]
  BY DEF Forget
<1>. QED
  BY <1>1, <1>2 DEF OnlyProc

\* What closes the run of a call, or fails to start it.
LEMMA RunCloses ==
  ASSUME RunInv, NEW c \in Runs, NEW end \in CallEnds, runs[c].at \in {"start", "runs"},
         runs' = Closes(c, end), UNCHANGED <<slot, queue, spaces, threads>>,
         OnlyProc(procs', c), procs'[c].is # "alive", procs'[c].up = procs[c].up,
         procs'[c].code = procs[c].code, procs'[c].said = procs[c].said,
         end = "ok" => procs'[c].is = "exited" /\ Good(procs'[c])
  PROVE  RunInv'
<1>1. runs \in [Runs -> Calls0]
  BY DEF RunInv, RunShape
<1>2. Only(runs', c, "closing", end)
  BY <1>1, OnlyOne DEF Closes, CallAts
<1>3. SlotHeld' /\ QueueKept'
  BY <1>2, StaysPut DEF Holding
<1>4. RunShape'
  BY <1>2 DEF RunInv, RunShape, Only, OnlyProc
<1>5. ASSUME NEW d \in Runs \ {c} PROVE ProcHeld(d)' /\ CallLeaves(d)'
  BY <1>2, <1>5 DEF RunInv, ProcHeld, CallLeaves, Only, OnlyProc
<1>6. ProcHeld(c)'
  BY <1>2 DEF RunInv, ProcHeld, Only
<1>7. CallLeaves(c)'
  BY <1>2 DEF RunInv, CallLeaves, Only
<1>. QED
  BY <1>3, <1>4, <1>5, <1>6, <1>7 DEF RunInv

LEMMA ClosingSteps ==
  ASSUME RunInv, NEW c \in Runs,
         \/ Stops(c) \/ Collects(c)
         \/ \E end \in {"timeout", "cancelled"} : Interrupts(c, end)
         \/ \E end \in {"failed", "timeout", "cancelled"} : SpawnFails(c, end)
  PROVE  RunInv'
<1>1. procs \in [Runs -> Procs0] /\ (procs[c].is = "alive" => runs[c].at = "runs")
  BY DEF RunInv, RunShape, ProcHeld
<1>2. /\ OnlyProc(Killed(c), c) /\ Killed(c)[c].is # "alive"
      /\ Killed(c)[c].up = procs[c].up /\ Killed(c)[c].code = procs[c].code
      /\ Killed(c)[c].said = procs[c].said
  BY <1>1, KilledIsDead
<1>3. CASE Stops(c)
  BY <1>2, <1>3, RunCloses DEF Stops, CallEnds
<1>4. CASE Collects(c)
  <2>. DEFINE end == IF Good(procs[c]) THEN "ok" ELSE "failed"
  <2>1. end \in CallEnds /\ (end = "ok" => Good(procs[c]))
    BY DEF CallEnds
  <2>2. OnlyProc(procs', c) /\ procs' = procs /\ procs[c].is = "exited" /\ runs[c].at = "runs"
    BY <1>1, <1>4 DEF OnlyProc, Collects
  <2>3. runs' = Closes(c, end) /\ UNCHANGED <<slot, queue, spaces, threads>>
    BY <1>4 DEF Collects
  <2>. HIDE DEF end
  <2>. QED
    BY <2>1, <2>2, <2>3, RunCloses
<1>5. ASSUME NEW end \in {"timeout", "cancelled"}, Interrupts(c, end) PROVE RunInv'
  BY <1>2, <1>5, RunCloses DEF Interrupts, CallEnds
<1>6. ASSUME NEW end \in {"failed", "timeout", "cancelled"}, SpawnFails(c, end) PROVE RunInv'
  <2>1. OnlyProc(procs', c) /\ procs' = procs /\ procs[c].is # "alive" /\ runs[c].at = "start"
    BY <1>1, <1>6 DEF OnlyProc, SpawnFails
  <2>. QED
    BY <1>6, <2>1, RunCloses DEF SpawnFails, CallEnds
<1>. QED
  BY <1>3, <1>4, <1>5, <1>6

LEMMA StartSteps ==
  ASSUME RunInv, NEW c \in Runs, Prepares(c) \/ Spawns(c)
  PROVE  RunInv'
<1>1. /\ runs \in [Runs -> Calls0] /\ procs \in [Runs -> Procs0] /\ runs[c].end \in CallEnds
      /\ spaces \subseteq Runs
  BY DEF RunInv, RunShape, Calls0
<1>2. CASE Prepares(c)
  <2>1. Only(runs', c, "start", runs[c].end) /\ runs[c].at = "prepare"
    BY <1>1, <1>2, OnlyOne DEF Prepares, Moves, CallAts
  <2>2. SlotHeld' /\ QueueKept'
    BY <1>2, <2>1, StaysPut DEF Holding, Prepares
  <2>3. RunShape'
    BY <1>2, <2>1 DEF RunInv, RunShape, Only, Prepares
  <2>4. ASSUME NEW d \in Runs PROVE ProcHeld(d)' /\ CallLeaves(d)'
    BY <1>2, <2>1, <2>4 DEF RunInv, ProcHeld, CallLeaves, Only, Prepares
  <2>. QED
    BY <2>2, <2>3, <2>4 DEF RunInv
<1>3. CASE Spawns(c)
  <2>1. Only(runs', c, "runs", runs[c].end) /\ runs[c].at = "start"
    BY <1>1, <1>3, OnlyOne DEF Spawns, Moves, CallAts
  <2>2. SlotHeld' /\ QueueKept'
    BY <1>3, <2>1, StaysPut DEF Holding, Spawns
  <2>3. PICK p \in Procs0 : /\ procs' = [procs EXCEPT ![c] = p] /\ p.up = procs[c].up
                            /\ p.code = procs[c].code /\ p.said = procs[c].said
    <3>. DEFINE w == [procs[c] EXCEPT !.is = "alive"]
    <3>1. w \in Procs0 /\ w.up = procs[c].up /\ w.code = procs[c].code /\ w.said = procs[c].said
      BY <1>1 DEF Procs0
    <3>2. procs' = [procs EXCEPT ![c] = w]
      BY <1>3 DEF Spawns
    <3>. HIDE DEF w
    <3>. QED
      BY <3>1, <3>2
  <2>4. procs' = [d \in Runs |-> IF d = c THEN p ELSE procs[d]]
    BY <1>1, <2>3
  <2>5. RunShape'
    BY <1>3, <2>1, <2>3, <2>4 DEF RunInv, RunShape, Only, Spawns
  <2>6. ASSUME NEW d \in Runs PROVE ProcHeld(d)' /\ CallLeaves(d)'
    BY <1>3, <2>1, <2>3, <2>4, <2>6 DEF RunInv, ProcHeld, CallLeaves, Only, Spawns
  <2>. QED
    BY <2>2, <2>5, <2>6 DEF RunInv
<1>. QED
  BY <1>2, <1>3

LEMMA EndSteps ==
  ASSUME RunInv, NEW c \in Runs,
         \/ Removes(c) \/ BreaksOff(c)
         \/ \E end \in {"timeout", "cancelled"} : Abandons(c, end)
  PROVE  RunInv'
<1>1. /\ runs \in [Runs -> Calls0] /\ procs \in [Runs -> Procs0] /\ runs[c].end \in CallEnds
      /\ spaces \subseteq Runs
      /\ procs[c].is = "alive" => runs[c].at = "runs"
  BY DEF RunInv, RunShape, Calls0, ProcHeld
<1>2. ASSUME NEW end \in CallEnds, NEW R, R = Concludes(c, end), Passes(R), runs[c].at \in Holding
      PROVE  GivesWay(c, end) /\ SlotHeld' /\ QueueKept'
  <2>1. Only(R, c, "ended", end)
    BY <1>1, <1>2, OnlyOne DEF Concludes, CallAts
  <2>. QED
    BY <1>2, <2>1, PassesOn
<1>3. ASSUME NEW end \in CallEnds, GivesWay(c, end), SlotHeld', QueueKept', UNCHANGED threads,
             OnlyProc(procs', c), procs'[c] = NoProc \/ (procs'[c] = procs[c] /\ procs[c].is # "alive"),
             spaces' \subseteq spaces \cup {c}, spaces \ {c} \subseteq spaces',
             c \in spaces' => end \in {"timeout", "cancelled"}
      PROVE  RunInv'
  <2>1. RunShape'
    BY <1>1, <1>3 DEF RunInv, RunShape, GivesWay, OnlyProc
  <2>2. ASSUME NEW d \in Runs \ {c} PROVE ProcHeld(d)' /\ CallLeaves(d)'
    <3>1. /\ procs'[d] = procs[d] /\ runs'[d].tool = runs[d].tool
          /\ d \in spaces' <=> d \in spaces
          /\ runs'[d] = runs[d] \/ (runs[d].at = "queued" /\ runs'[d].at = "prepare")
      BY <1>3, <2>2 DEF GivesWay, OnlyProc
    <3>. QED
      BY <1>3, <3>1 DEF RunInv, ProcHeld, CallLeaves
  <2>3. ProcHeld(c)' /\ CallLeaves(c)'
    BY <1>3 DEF RunInv, ProcHeld, CallLeaves, GivesWay, NoProc
  <2>. QED
    BY <1>3, <2>1, <2>2, <2>3 DEF RunInv
<1>4. CASE Removes(c)
  <2>1. OnlyProc(procs', c) /\ procs'[c] = NoProc
    BY <1>1, <1>4, ForgottenIsGone DEF Removes
  <2>2. GivesWay(c, runs[c].end) /\ SlotHeld' /\ QueueKept'
    BY <1>1, <1>2, <1>4 DEF Removes, Holding
  <2>3. spaces' = spaces \ {c} /\ UNCHANGED threads
    BY <1>4 DEF Removes
  <2>. QED
    BY <1>1, <1>3, <2>1, <2>2, <2>3
<1>5. CASE BreaksOff(c)
  <2>1. OnlyProc(procs', c) /\ procs'[c] = NoProc
    BY <1>1, <1>5, ForgottenIsGone DEF BreaksOff
  <2>2. GivesWay(c, "cancelled") /\ SlotHeld' /\ QueueKept'
    BY <1>1, <1>2, <1>5 DEF BreaksOff, Holding, CallEnds
  <2>3. spaces' \in {spaces, spaces \ {c}} /\ UNCHANGED threads
    BY <1>5 DEF BreaksOff
  <2>. QED
    BY <1>3, <2>1, <2>2, <2>3 DEF CallEnds
<1>6. ASSUME NEW end \in {"timeout", "cancelled"}, Abandons(c, end) PROVE RunInv'
  <2>1. OnlyProc(procs', c) /\ procs'[c] = procs[c] /\ procs[c].is # "alive"
    BY <1>1, <1>6 DEF Abandons, OnlyProc
  <2>2. end \in CallEnds
    BY DEF CallEnds
  <2>3. GivesWay(c, end) /\ SlotHeld' /\ QueueKept'
    BY <1>1, <1>2, <1>6, <2>2 DEF Abandons, Holding
  <2>4. spaces' = spaces \cup {c} /\ UNCHANGED threads
    BY <1>6 DEF Abandons
  <2>. QED
    BY <1>3, <2>1, <2>2, <2>3, <2>4
<1>. QED
  BY <1>4, <1>5, <1>6

LEMMA RunsStep ==
  ASSUME RunInv, [RunNext]_runVars
  PROVE  RunInv'
<1>1. CASE UNCHANGED runVars
  BY <1>1 DEF runVars, RunInv, RunShape, SlotHeld, QueueKept, ProcHeld, CallLeaves
<1>2. ASSUME NEW c \in Runs, NEW end \in {"timeout", "cancelled"}, LeavesQueue(c, end) PROVE RunInv'
  BY <1>2, WaiterLeaves
<1>. QED
  BY <1>1, <1>2, FunctionSteps, EntersSlot, ProcessSteps, ClosingSteps, StartSteps, EndSteps DEF RunNext

-----------------------------------------------------------------------------
(* The Redis gate.                                                           *)

\* The elements at some positions of a sequence are as many as the positions,
\* each at one of them and none left out.
LEMMA PickedFacts ==
  ASSUME NEW S, NEW q \in Seq(S), NEW I \in SUBSET (1 .. Len(q))
  PROVE  /\ Picked(q, I) \in Seq(S)
         /\ \E f \in [1 .. Len(Picked(q, I)) -> I] :
              /\ \A k, m \in 1 .. Len(Picked(q, I)) : f[k] = f[m] => k = m
              /\ \A i \in I : \E k \in 1 .. Len(Picked(q, I)) : f[k] = i
              /\ \A k \in 1 .. Len(Picked(q, I)) : Picked(q, I)[k] = q[f[k]]
<1>. DEFINE upto(i) == {j \in I : j <= i}
            n == Cardinality(I)
            rank == [i \in I |-> Place(I, i)]
<1>1. IsFiniteSet(I) /\ n \in Nat /\ Len(q) \in Nat
  <2>1. Len(q) \in Nat
    BY LenProperties
  <2>2. IsFiniteSet(1 .. Len(q))
    BY <2>1, FS_Interval
  <2>3. IsFiniteSet(I)
    BY <2>2, FS_Subset
  <2>. QED
    BY <2>1, <2>3, FS_CardinalityType
<1>0. \A i \in I : i \in Nat
  BY <1>1
<1>2. ASSUME NEW i \in I
      PROVE  IsFiniteSet(upto(i)) /\ rank[i] = Cardinality(upto(i)) /\ rank[i] \in 1 .. n
  <2>1. upto(i) \in SUBSET I /\ i \in upto(i) /\ Place(I, i) = Cardinality(upto(i))
    BY <1>0 DEF Place
  <2>2. IsFiniteSet(upto(i)) /\ Cardinality(upto(i)) <= n
    BY <1>1, <2>1, FS_Subset
  <2>3. Cardinality(upto(i)) \in Nat /\ Cardinality(upto(i)) # 0
    BY <2>1, <2>2, FS_CardinalityType, FS_EmptySet
  <2>4. rank[i] = Cardinality(upto(i))
    BY <2>1
  <2>. HIDE DEF rank, upto
  <2>5. Cardinality(upto(i)) \in 1 .. n
    BY <1>1, <2>2, <2>3
  <2>. QED
    BY <2>2, <2>4, <2>5
<1>3. ASSUME NEW i \in I, NEW j \in I, i < j PROVE rank[i] < rank[j]
  <2>1. \A k \in upto(i) : k \in upto(j)
    <3>. TAKE k \in upto(i)
    <3>1. k \in I /\ k <= i
      BY Zenon
    <3>2. k <= j
      BY <1>0, <1>3, <3>1
    <3>. QED
      BY <3>1, <3>2, Zenon
  <2>2. j \in upto(j) /\ j \notin upto(i)
    <3>1. j <= j /\ ~(j <= i)
      BY <1>0, <1>3
    <3>. QED
      BY <3>1
  <2>3. IsFiniteSet(upto(j)) /\ rank[i] = Cardinality(upto(i)) /\ rank[j] = Cardinality(upto(j))
    BY <1>2
  <2>6. rank[i] \in Nat /\ rank[j] \in Nat
    <3>. HIDE DEF rank, upto
    <3>1. rank[i] \in 1 .. n /\ rank[j] \in 1 .. n
      BY <1>2
    <3>. QED
      BY <1>1, <3>1
  <2>. HIDE DEF upto, n, rank
  <2>4. upto(i) \in SUBSET upto(j) /\ upto(i) # upto(j)
    BY <2>1, <2>2
  <2>5. Cardinality(upto(i)) <= Cardinality(upto(j)) /\ Cardinality(upto(i)) # Cardinality(upto(j))
    BY <2>3, <2>4, FS_Subset
  <2>. QED
    BY <2>3, <2>5, <2>6
<1>. HIDE DEF upto
<1>4. \A i, j \in I : rank[i] = rank[j] => i = j
  <2>. SUFFICES ASSUME NEW i \in I, NEW j \in I, rank[i] = rank[j], i # j PROVE FALSE
    OBVIOUS
  <2>1. i < j \/ j < i
    BY <1>1
  <2>. HIDE DEF rank
  <2>. QED
    BY <1>1, <1>2, <1>3, <2>1
<1>5. rank \in Injection(I, 1 .. n)
  BY <1>2, <1>4 DEF Injection, IsInjective
<1>6. rank \in Surjection(I, 1 .. n)
  <2>1. IsFiniteSet(1 .. n) /\ Cardinality(1 .. n) = n
    BY <1>1, FS_Interval
  <2>. QED
    BY <1>5, <2>1, FS_Injection
<1>7. \A k \in 1 .. n : \E i \in I : rank[i] = k
  BY <1>6 DEF Surjection
<1>. DEFINE f == [k \in 1 .. n |-> CHOOSE i \in I : Place(I, i) = k]
<1>8. \A k \in 1 .. n : f[k] \in I /\ rank[f[k]] = k
  <2>. TAKE k \in 1 .. n
  <2>1. PICK i \in I : Place(I, i) = k
    BY <1>7
  <2>. QED
    BY <2>1
<1>9. Picked(q, I) = [k \in 1 .. n |-> q[f[k]]]
  BY DEF Picked
<1>. HIDE DEF n, rank, f
<1>10. \A k \in 1 .. n : q[f[k]] \in S
  BY <1>8, ElementOfSeq
<1>11. Picked(q, I) \in Seq(S) /\ Len(Picked(q, I)) = n
  <2>1. Picked(q, I) \in [1 .. n -> S]
    BY <1>9, <1>10
  <2>2. Picked(q, I) \in Seq(S)
    BY <1>1, <2>1, SeqDef
  <2>. QED
    BY <1>1, <2>1, <2>2, LenProperties
<1>12. \A k, m \in 1 .. n : f[k] = f[m] => k = m
  BY <1>8
<1>13. \A i \in I : \E k \in 1 .. n : f[k] = i
  <2>. TAKE i \in I
  <2>1. rank[i] \in 1 .. n
    BY <1>2
  <2>. WITNESS rank[i] \in 1 .. n
  <2>. QED
    BY <1>4, <1>8, <2>1
<1>14. f \in [1 .. n -> I]
  BY <1>8 DEF f
<1>15. \A k \in 1 .. n : Picked(q, I)[k] = q[f[k]]
  BY <1>9
<1>. QED
  BY <1>11, <1>12, <1>13, <1>14, <1>15

Looser == [owner : Requests \cup {Nobody}, user : Users, active : BOOLEAN, left : Int]

\* The operations take no longer than their timeout, nor the timers.
Timely ==
  \A r \in Requests :
    /\ requests[r].at \in Asking => requests[r].age <= Slowest
    /\ beats[r].at = "off" => beats[r] = NoBeat
    /\ beats[r].at = "sleep" => beats[r].age <= Heartbeat
    /\ beats[r].at = "renew" => beats[r].age <= Slowest

GateBase == GateTypeOK /\ Timely

\* A lease with an owner is that of a request on its way through Redis, and
\* is active only when the request may know of it.
Owned(q, rs) ==
  \A i \in 1 .. Len(q) : q[i].owner # Nobody =>
    /\ q[i].user = UserOf[q[i].owner]
    /\ rs[q[i].owner].at \in {"activate", "wait", "run", "release"}
    /\ rs[q[i].owner].at \in {"activate", "wait"} => ~q[i].active

Distinct(q) ==
  \A i, j \in 1 .. Len(q) : q[i].owner # Nobody /\ q[i].owner = q[j].owner => i = j

\* What is left of the lease that the last answer promised.
LeftFor(b) == ActiveTTL - b.since

Beating(q, rs, bs) ==
  \A r \in Requests : rs[r].at = "run" /\ ~rs[r].told /\ bs[r].since < ActiveTTL =>
    /\ bs[r].at # "off"
    /\ \E i \in 1 .. Len(q) : q[i].owner = r /\ q[i].active /\ q[i].left >= LeftFor(bs[r])

\* No more leases are active than the gate allows, one of each user.
Narrow(q) ==
  /\ Active(q) <= MaxActive
  /\ \A i, j \in 1 .. Len(q) : q[i].active /\ q[j].active /\ q[i].user = q[j].user => i = j

LeasesFit(q, rs, bs) ==
  /\ q \in Seq(Lease) /\ Owned(q, rs) /\ Distinct(q) /\ Beating(q, rs, bs) /\ Narrow(q)

GateInv == GateBase /\ LeasesFit(leases, requests, beats)

LEMMA GateNumbers ==
  /\ MaxActive \in Nat /\ PendingTTL \in Nat /\ ActiveTTL \in Nat /\ Heartbeat \in Nat
  /\ Slowest \in Nat /\ CooldownTTL \in Nat /\ Poll \in Nat /\ LongestTTL \in Nat
  /\ PendingTTL > 0 /\ ActiveTTL > 0 /\ Slowest > 0 /\ CooldownTTL > 0 /\ MaxActive > 0
  /\ PendingTTL <= LongestTTL /\ ActiveTTL <= LongestTTL
  /\ Nobody \notin Requests
<1>1. \A x \in {MaxActive, MaxPending, MaxPerUser, PendingTTL, ActiveTTL, Poll,
                Heartbeat, CooldownTTL, Slowest} : x \in Nat /\ x > 0
  BY GateAssumption
<1>. QED
  BY <1>1, GateAssumption DEF LongestTTL

\* Leases are narrow when their active ones are, one for one, active ones of
\* narrow leases with the same users.
LEMMA Narrower ==
  ASSUME NEW q, Len(q) \in Nat, Narrow(q), NEW p, Len(p) \in Nat, NEW f,
         \A k \in 1 .. Len(p) : p[k].active =>
           f[k] \in 1 .. Len(q) /\ q[f[k]].active /\ q[f[k]].user = p[k].user,
         \A k, m \in 1 .. Len(p) : p[k].active /\ p[m].active /\ f[k] = f[m] => k = m
  PROVE  Narrow(p)
<1>. DEFINE S == {i \in 1 .. Len(p) : p[i].active}
            T == {i \in 1 .. Len(q) : q[i].active}
            g == [k \in S |-> f[k]]
<1>1. g \in Injection(S, T)
  BY DEF Injection, IsInjective
<1>2. IsFiniteSet(T)
  <2>1. T \in SUBSET (1 .. Len(q)) /\ IsFiniteSet(1 .. Len(q))
    BY FS_Interval
  <2>. QED
    BY <2>1, FS_Subset
<1>3. Active(p) = Cardinality(S) /\ Active(q) = Cardinality(T)
  BY DEF Active
<1>4. Active(p) <= MaxActive
  <2>. HIDE DEF S, T, g
  <2>1. IsFiniteSet(S) /\ Cardinality(S) <= Cardinality(T)
    BY <1>1, <1>2, FS_Injection
  <2>2. Cardinality(S) \in Nat /\ Cardinality(T) \in Nat
    BY <1>2, <2>1, FS_CardinalityType
  <2>. QED
    BY <1>3, <2>1, <2>2, GateNumbers DEF Narrow
<1>5. \A i, j \in 1 .. Len(p) : p[i].active /\ p[j].active /\ p[i].user = p[j].user => i = j
  BY DEF Narrow
<1>. QED
  BY <1>4, <1>5 DEF Narrow

LEMMA NarrowerHere ==
  ASSUME NEW q, Len(q) \in Nat, Narrow(q), NEW p, Len(p) \in Nat,
         \A k \in 1 .. Len(p) : p[k].active =>
           k \in 1 .. Len(q) /\ q[k].active /\ q[k].user = p[k].user
  PROVE  Narrow(p)
<1>. DEFINE f == [k \in 1 .. Len(p) |-> k]
<1>1. \A k \in 1 .. Len(p) : f[k] = k
  OBVIOUS
<1>. HIDE DEF f
<1>2. \A k \in 1 .. Len(p) : p[k].active =>
        f[k] \in 1 .. Len(q) /\ q[f[k]].active /\ q[f[k]].user = p[k].user
  BY <1>1
<1>3. \A k, m \in 1 .. Len(p) : p[k].active /\ p[m].active /\ f[k] = f[m] => k = m
  BY <1>1
<1>. QED
  BY <1>2, <1>3, Narrower

\* A part of the leases, by their positions.
LEMMA PartOfLeases ==
  ASSUME NEW q \in Seq(Looser), NEW I \in SUBSET (1 .. Len(q))
  PROVE  /\ Picked(q, I) \in Seq(Looser) /\ Len(Picked(q, I)) \in Nat
         /\ \A k \in 1 .. Len(Picked(q, I)) : \E i \in I : Picked(q, I)[k] = q[i]
         /\ \A i \in I : \E k \in 1 .. Len(Picked(q, I)) : Picked(q, I)[k] = q[i]
         /\ Distinct(q) => Distinct(Picked(q, I))
         /\ Narrow(q) => Narrow(Picked(q, I))
<1>. DEFINE p == Picked(q, I)
<1>1. /\ p \in Seq(Looser)
      /\ \E f \in [1 .. Len(p) -> I] :
              /\ \A k, m \in 1 .. Len(p) : f[k] = f[m] => k = m
              /\ \A i \in I : \E k \in 1 .. Len(p) : f[k] = i
              /\ \A k \in 1 .. Len(p) : p[k] = q[f[k]]
  BY PickedFacts
<1>. HIDE DEF p
<1>2. PICK f \in [1 .. Len(p) -> I] :
              /\ \A k, m \in 1 .. Len(p) : f[k] = f[m] => k = m
              /\ \A i \in I : \E k \in 1 .. Len(p) : f[k] = i
              /\ \A k \in 1 .. Len(p) : p[k] = q[f[k]]
  BY <1>1
<1>3. \A k \in 1 .. Len(p) : f[k] \in I /\ f[k] \in 1 .. Len(q)
  BY <1>2
<1>4. Distinct(q) => Distinct(p)
  BY <1>2, <1>3 DEF Distinct
<1>5. \A k \in 1 .. Len(p) : \E i \in I : p[k] = q[i]
  BY <1>2, <1>3
<1>6. \A i \in I : \E k \in 1 .. Len(p) : p[k] = q[i]
  BY <1>2
<1>7. Len(p) \in Nat /\ Len(q) \in Nat
  BY <1>1, LenProperties
<1>8. ASSUME Narrow(q) PROVE Narrow(p)
  <2>1. \A k \in 1 .. Len(p) : p[k].active =>
          f[k] \in 1 .. Len(q) /\ q[f[k]].active /\ q[f[k]].user = p[k].user
    BY <1>2, <1>3
  <2>2. \A k, m \in 1 .. Len(p) : p[k].active /\ p[m].active /\ f[k] = f[m] => k = m
    BY <1>2
  <2>. QED
    BY <1>7, <1>8, <2>1, <2>2, Narrower
<1>. QED
  BY <1>1, <1>4, <1>5, <1>6, <1>7, <1>8 DEF p

\* A sequence of looser leases with times in their range is one of leases.
LEMMA Tighter ==
  ASSUME NEW q \in Seq(Looser),
         \A i \in 1 .. Len(q) : q[i].left \in -Slowest .. LongestTTL
  PROVE  q \in Seq(Lease)
<1>1. Len(q) \in Nat /\ q \in [1 .. Len(q) -> Looser]
  BY LenProperties
<1>2. \A i \in 1 .. Len(q) : q[i] \in Lease
  BY <1>1 DEF Looser, Lease
<1>3. q \in [1 .. Len(q) -> Lease]
  BY <1>1, <1>2
<1>. QED
  BY <1>1, <1>3, SeqDef

LEMMA Loosen ==
  ASSUME NEW q \in Seq(Lease)
  PROVE  /\ q \in Seq(Looser) /\ Len(q) \in Nat /\ q \in [1 .. Len(q) -> Lease]
         /\ \A i \in 1 .. Len(q) : q[i] \in Lease
<1>1. Lease \subseteq Looser
  BY GateNumbers DEF Lease, Looser
<1>. QED
  BY <1>1, SeqMonotonic, LenProperties, ElementOfSeq

LEMMA PartIsLeases ==
  ASSUME NEW q \in Seq(Lease), NEW I \in SUBSET (1 .. Len(q))
  PROVE  Picked(q, I) \in Seq(Lease)
<1>1. q \in Seq(Looser) /\ \A i \in 1 .. Len(q) : q[i] \in Lease
  BY Loosen
<1>2. /\ Picked(q, I) \in Seq(Looser)
      /\ \A k \in 1 .. Len(Picked(q, I)) : \E i \in I : Picked(q, I)[k] = q[i]
  BY <1>1, PartOfLeases
<1>3. \A k \in 1 .. Len(Picked(q, I)) : Picked(q, I)[k] \in Lease
  BY <1>1, <1>2
<1>. QED
  BY <1>2, <1>3, Tighter DEF Lease

\* What an operation sees is again a part, and the lease of every healthy
\* heartbeat is in it.
LEMMA LiveFits ==
  ASSUME GateBase, LeasesFit(leases, requests, beats), NEW age \in 0 .. Slowest
  PROVE  /\ LeasesFit(Live(age), requests, beats)
         /\ \A k \in 1 .. Len(Live(age)) : Live(age)[k].left + age > 0
<1>. DEFINE I == {i \in 1 .. Len(leases) : leases[i].left + age > 0}
            p == Live(age)
<1>1. leases \in Seq(Lease) /\ leases \in Seq(Looser) /\ \A i \in 1 .. Len(leases) : leases[i] \in Lease
  BY Loosen DEF LeasesFit
<1>2. /\ p \in Seq(Lease)
      /\ \A k \in 1 .. Len(p) : \E i \in I : p[k] = leases[i]
      /\ \A i \in I : \E k \in 1 .. Len(p) : p[k] = leases[i]
      /\ Distinct(p) /\ Narrow(p)
  <2>1. p = Picked(leases, I)
    BY DEF Live
  <2>. HIDE DEF p
  <2>2. I \in SUBSET (1 .. Len(leases)) /\ Distinct(leases) /\ Narrow(leases)
    BY DEF LeasesFit
  <2>. HIDE DEF I
  <2>. QED
    BY <1>1, <2>1, <2>2, PartOfLeases, PartIsLeases
<1>. HIDE DEF p
<1>3. \A k \in 1 .. Len(p) : p[k].left + age > 0 /\ \E i \in 1 .. Len(leases) : p[k] = leases[i]
  BY <1>2
<1>4. Owned(p, requests)
  BY <1>3 DEF Owned, LeasesFit
<1>5. Beating(p, requests, beats)
  <2>. SUFFICES ASSUME NEW r \in Requests, requests[r].at = "run", ~requests[r].told,
                       beats[r].since < ActiveTTL
                PROVE  /\ beats[r].at # "off"
                       /\ \E k \in 1 .. Len(p) : p[k].owner = r /\ p[k].active /\ p[k].left >= LeftFor(beats[r])
    BY DEF Beating
  <2>1. PICK i \in 1 .. Len(leases) : leases[i].owner = r /\ leases[i].active /\ leases[i].left >= LeftFor(beats[r])
    BY DEF Beating, LeasesFit
  <2>2. beats[r].at # "off"
    BY DEF Beating, LeasesFit
  <2>3. leases[i].left \in Int /\ beats[r].since \in Nat
    BY <1>1, GateNumbers DEF Lease, GateBase, GateTypeOK
  <2>4. LeftFor(beats[r]) > 0 /\ LeftFor(beats[r]) \in Int
    BY <2>3, GateNumbers DEF LeftFor
  <2>6. leases[i].left + age > 0
    BY <2>1, <2>3, <2>4
  <2>7. PICK k \in 1 .. Len(p) : p[k] = leases[i]
    BY <1>2, <2>6
  <2>. QED
    BY <2>1, <2>2, <2>7
<1>. QED
  BY <1>2, <1>3, <1>4, <1>5 DEF LeasesFit, p

\* Every request that its last answer covers has an active lease of its own.
LEMMA EntitledAreFew ==
  ASSUME GateInv
  PROVE  /\ Cardinality(Entitled) <= MaxActive
         /\ \A r, s \in Entitled : UserOf[r] = UserOf[s] => r = s
<1>. DEFINE T == {i \in 1 .. Len(leases) : leases[i].active}
            f == [r \in Entitled |-> CHOOSE i \in T : leases[i].owner = r]
<1>0. LeasesFit(leases, requests, beats)
  BY DEF GateInv
<1>1. Len(leases) \in Nat
  BY <1>0, Loosen DEF LeasesFit
<1>2. \A r \in Entitled : \E i \in T : leases[i].owner = r
  BY <1>0 DEF LeasesFit, Beating, Entitled, Running
<1>3. \A r \in Entitled : f[r] \in T /\ leases[f[r]].owner = r
  BY <1>2
<1>4. f \in Injection(Entitled, T)
  BY <1>3 DEF Injection, IsInjective
<1>5. IsFiniteSet(T)
  <2>1. T \in SUBSET (1 .. Len(leases)) /\ IsFiniteSet(1 .. Len(leases))
    BY <1>1, FS_Interval
  <2>. QED
    BY <2>1, FS_Subset
<1>8. \A r, s \in Entitled : UserOf[r] = UserOf[s] => r = s
  <2>. SUFFICES ASSUME NEW r \in Entitled, NEW s \in Entitled, UserOf[r] = UserOf[s]
                PROVE  r = s
    OBVIOUS
  <2>1. r \in Requests /\ s \in Requests
    BY DEF Entitled, Running
  <2>2. PICK i \in T : leases[i].owner = r
    BY <1>2
  <2>3. PICK j \in T : leases[j].owner = s
    BY <1>2
  <2>4. leases[i].user = leases[j].user
    BY <1>0, <2>1, <2>2, <2>3, GateNumbers DEF LeasesFit, Owned
  <2>5. i = j
    BY <1>0, <2>4 DEF LeasesFit, Narrow
  <2>. QED
    BY <2>2, <2>3, <2>5
<1>6. Active(leases) = Cardinality(T)
  BY DEF Active
<1>. HIDE DEF T, f
<1>7. IsFiniteSet(Entitled) /\ Cardinality(Entitled) <= Cardinality(T)
  BY <1>4, <1>5, FS_Injection
<1>9. Cardinality(T) \in Nat /\ Cardinality(Entitled) \in Nat
  BY <1>5, <1>7, FS_CardinalityType
<1>. QED
  BY <1>0, <1>6, <1>7, <1>8, <1>9, GateNumbers DEF LeasesFit, Narrow

\* p has the leases of the others as q has them.
Others(p, q, r) ==
  /\ \A k \in 1 .. Len(p) : p[k].owner \notin {Nobody, r} => \E i \in 1 .. Len(q) : p[k] = q[i]
  /\ \A i \in 1 .. Len(q) : q[i].owner \notin {Nobody, r} => \E k \in 1 .. Len(p) : p[k] = q[i]

LEMMA Refit ==
  ASSUME NEW r \in Requests, NEW q, LeasesFit(q, requests, beats),
         NEW p \in Seq(Lease), Distinct(p), Narrow(p), Others(p, q, r),
         NEW rs, NEW bs,
         \A s \in Requests : s # r =>
           rs[s].at = requests[s].at /\ rs[s].told = requests[s].told /\ bs[s] = beats[s],
         \A k \in 1 .. Len(p) : p[k].owner = r =>
           /\ p[k].user = UserOf[r]
           /\ rs[r].at \in {"activate", "wait", "run", "release"}
           /\ rs[r].at \in {"activate", "wait"} => ~p[k].active,
         rs[r].at = "run" /\ ~rs[r].told /\ bs[r].since < ActiveTTL =>
           /\ bs[r].at # "off"
           /\ \E k \in 1 .. Len(p) : p[k].owner = r /\ p[k].active /\ p[k].left >= LeftFor(bs[r])
  PROVE  LeasesFit(p, rs, bs)
<1>1. Owned(p, rs)
  <2>. SUFFICES ASSUME NEW k \in 1 .. Len(p), p[k].owner # Nobody, p[k].owner # r
                PROVE  /\ p[k].user = UserOf[p[k].owner]
                       /\ rs[p[k].owner].at \in {"activate", "wait", "run", "release"}
                       /\ rs[p[k].owner].at \in {"activate", "wait"} => ~p[k].active
    BY DEF Owned
  <2>1. PICK i \in 1 .. Len(q) : p[k] = q[i]
    BY DEF Others
  <2>2. p[k].owner \in Requests
    BY Loosen DEF Lease
  <2>. QED
    BY <2>1, <2>2 DEF LeasesFit, Owned
<1>2. Beating(p, rs, bs)
  <2>. SUFFICES ASSUME NEW s \in Requests, s # r, rs[s].at = "run", ~rs[s].told,
                       bs[s].since < ActiveTTL
                PROVE  /\ bs[s].at # "off"
                       /\ \E k \in 1 .. Len(p) : p[k].owner = s /\ p[k].active /\ p[k].left >= LeftFor(bs[s])
    BY DEF Beating
  <2>1. /\ bs[s].at # "off"
        /\ \E i \in 1 .. Len(q) : q[i].owner = s /\ q[i].active /\ q[i].left >= LeftFor(bs[s])
    BY DEF LeasesFit, Beating
  <2>2. PICK i \in 1 .. Len(q) : q[i].owner = s /\ q[i].active /\ q[i].left >= LeftFor(bs[s])
    BY <2>1
  <2>3. PICK k \in 1 .. Len(p) : p[k] = q[i]
    BY <2>2, GateNumbers DEF Others
  <2>. QED
    BY <2>1, <2>2, <2>3
<1>. QED
  BY <1>1, <1>2 DEF LeasesFit

LEMMA ByAppend ==
  ASSUME NEW q \in Seq(Lease), Distinct(q), Narrow(q), NEW r \in Requests, NEW l \in Lease,
         l.owner \in {r, Nobody}, ~l.active, Mine(q, r) = {}
  PROVE  /\ Append(q, l) \in Seq(Lease) /\ Distinct(Append(q, l)) /\ Narrow(Append(q, l)) /\ Others(Append(q, l), q, r)
         /\ \A k \in 1 .. Len(Append(q, l)) : Append(q, l)[k].owner = r => Append(q, l)[k] = l
<1>. DEFINE p == Append(q, l)
<1>1. /\ p \in Seq(Lease) /\ Len(p) = Len(q) + 1 /\ Len(q) \in Nat
      /\ \A i \in 1 .. Len(q) : p[i] = q[i]
      /\ p[Len(q) + 1] = l
  BY AppendProperties, LenProperties
<1>. HIDE DEF p
<1>2. \A k \in 1 .. Len(p) : k \in 1 .. Len(q) \/ k = Len(q) + 1
  BY <1>1
<1>3. \A i \in 1 .. Len(q) : q[i].owner # r /\ i \in 1 .. Len(p)
  BY <1>1 DEF Mine
<1>4. Distinct(p)
  <2>. SUFFICES ASSUME NEW i \in 1 .. Len(p), NEW j \in 1 .. Len(p),
                       p[i].owner # Nobody, p[i].owner = p[j].owner
                PROVE  i = j
    BY DEF Distinct
  <2>1. CASE i \in 1 .. Len(q) /\ j \in 1 .. Len(q)
    BY <1>1, <2>1 DEF Distinct
  <2>2. CASE i = Len(q) + 1 /\ j = Len(q) + 1
    BY <2>2
  <2>3. CASE i \in 1 .. Len(q) /\ j = Len(q) + 1
    BY <1>1, <1>3, <2>3
  <2>4. CASE j \in 1 .. Len(q) /\ i = Len(q) + 1
    BY <1>1, <1>3, <2>4
  <2>. QED
    BY <1>2, <2>1, <2>2, <2>3, <2>4
<1>5. Others(p, q, r)
  BY <1>1, <1>2, <1>3 DEF Others
<1>6. \A k \in 1 .. Len(p) : p[k].owner = r => p[k] = l
  BY <1>1, <1>2, <1>3
<1>7. Narrow(p)
  <2>1. \A k \in 1 .. Len(p) : p[k].active =>
          k \in 1 .. Len(q) /\ q[k].active /\ q[k].user = p[k].user
    BY <1>1, <1>2
  <2>2. Len(p) \in Nat
    BY <1>1
  <2>. QED
    BY <1>1, <2>1, <2>2, NarrowerHere
<1>. QED
  BY <1>1, <1>4, <1>5, <1>6, <1>7 DEF p

LEMMA ByEdit ==
  ASSUME NEW q \in Seq(Lease), Distinct(q), Narrow(q), NEW r \in Requests, NEW i \in Mine(q, r),
         NEW w \in Lease, w.owner = r, w.user = q[i].user,
         w.active => q[i].active \/ MayActivate(q, i)
  PROVE  /\ [q EXCEPT ![i] = w] \in Seq(Lease) /\ Distinct([q EXCEPT ![i] = w])
         /\ Others([q EXCEPT ![i] = w], q, r) /\ Narrow([q EXCEPT ![i] = w])
         /\ i \in 1 .. Len([q EXCEPT ![i] = w]) /\ [q EXCEPT ![i] = w][i] = w
         /\ \A k \in 1 .. Len([q EXCEPT ![i] = w]) :
              [q EXCEPT ![i] = w][k].owner = r => [q EXCEPT ![i] = w][k] = w
<1>. DEFINE p == [q EXCEPT ![i] = w]
<1>1. i \in 1 .. Len(q) /\ q[i].owner = r /\ r # Nobody
  BY GateNumbers DEF Mine
<1>2. /\ p \in Seq(Lease) /\ Len(p) = Len(q)
      /\ \A j \in 1 .. Len(q) : p[j] = IF j = i THEN w ELSE q[j]
  BY <1>1, ExceptSeq
<1>. HIDE DEF p
<1>3. \A j \in 1 .. Len(q) : q[j].owner = r => j = i
  BY <1>1 DEF Distinct
<1>4. Distinct(p)
  <2>1. \A j \in 1 .. Len(q) : p[j].owner = q[j].owner
    BY <1>1, <1>2
  <2>. QED
    BY <1>2, <2>1 DEF Distinct
<1>5. Others(p, q, r)
  BY <1>1, <1>2, <1>3 DEF Others
<1>6. p[i] = w /\ \A k \in 1 .. Len(p) : p[k].owner = r => p[k] = w
  BY <1>1, <1>2, <1>3
<1>7. Len(p) \in Nat /\ Len(q) \in Nat
  BY <1>2, LenProperties
<1>8. ASSUME w.active => q[i].active PROVE Narrow(p)
  <2>1. \A k \in 1 .. Len(p) : p[k].active =>
          k \in 1 .. Len(q) /\ q[k].active /\ q[k].user = p[k].user
    <3>. TAKE k \in 1 .. Len(p)
    <3>1. CASE k = i
      BY <1>2, <1>8, <3>1
    <3>2. CASE k # i
      BY <1>2, <3>2
    <3>. QED
      BY <3>1, <3>2
  <2>. QED
    BY <1>7, <2>1, NarrowerHere
<1>9. ASSUME w.active, ~q[i].active, MayActivate(q, i) PROVE Narrow(p)
  <2>. DEFINE S == {k \in 1 .. Len(p) : p[k].active}
              T == {k \in 1 .. Len(q) : q[k].active}
  <2>1. IsFiniteSet(T)
    <3>1. T \in SUBSET (1 .. Len(q)) /\ IsFiniteSet(1 .. Len(q))
      BY <1>7, FS_Interval
    <3>. QED
      BY <3>1, FS_Subset
  <2>2. S \in SUBSET (T \cup {i}) /\ i \notin T
    BY <1>2, <1>9
  <2>3. Active(p) = Cardinality(S) /\ Active(q) = Cardinality(T)
    BY DEF Active
  <2>4. \A k \in T : q[k].user # q[i].user
    BY <1>1, <1>9 DEF MayActivate, Chosen
  <2>5. \A k, m \in 1 .. Len(p) : p[k].active /\ p[m].active /\ p[k].user = p[m].user => k = m
    <3>. SUFFICES ASSUME NEW k \in 1 .. Len(p), NEW m \in 1 .. Len(p),
                         p[k].active, p[m].active, p[k].user = p[m].user
                  PROVE  k = m
      OBVIOUS
    <3>1. /\ (k = i /\ p[k].user = q[i].user) \/ (k \in T /\ p[k].user = q[k].user)
          /\ (m = i /\ p[m].user = q[i].user) \/ (m \in T /\ p[m].user = q[m].user)
      BY <1>2
    <3>2. \A a, b \in T : q[a].user = q[b].user => a = b
      BY DEF Narrow
    <3>. HIDE DEF T
    <3>. QED
      BY <2>4, <3>1, <3>2
  <2>. HIDE DEF S, T
  <2>6. IsFiniteSet(T \cup {i}) /\ Cardinality(T \cup {i}) = Cardinality(T) + 1
    BY <2>1, <2>2, FS_AddElement
  <2>7. IsFiniteSet(S) /\ Cardinality(S) <= Cardinality(T \cup {i})
    BY <2>2, <2>6, FS_Subset
  <2>8. Cardinality(S) \in Nat /\ Cardinality(T) \in Nat
    BY <2>1, <2>7, FS_CardinalityType
  <2>9. Active(q) < MaxActive
    BY <1>9 DEF MayActivate
  <2>10. Active(p) <= MaxActive
    BY <2>3, <2>6, <2>7, <2>8, <2>9, GateNumbers
  <2>. QED
    BY <2>5, <2>10 DEF Narrow
<1>10. Narrow(p)
  BY <1>8, <1>9
<1>. QED
  BY <1>1, <1>2, <1>4, <1>5, <1>6, <1>10 DEF p

LEMMA ByWithout ==
  ASSUME NEW q \in Seq(Lease), Distinct(q), Narrow(q), NEW r \in Requests
  PROVE  /\ Without(q, r) \in Seq(Lease) /\ Distinct(Without(q, r)) /\ Narrow(Without(q, r)) /\ Others(Without(q, r), q, r)
         /\ \A k \in 1 .. Len(Without(q, r)) : Without(q, r)[k].owner # r
<1>. DEFINE I == {i \in 1 .. Len(q) : q[i].owner # r}
            p == Without(q, r)
<1>1. /\ p \in Seq(Lease) /\ Distinct(p) /\ Narrow(p)
      /\ \A k \in 1 .. Len(p) : \E i \in I : p[k] = q[i]
      /\ \A i \in I : \E k \in 1 .. Len(p) : p[k] = q[i]
  <2>1. p = Picked(q, I) /\ q \in Seq(Looser)
    BY Loosen DEF Without
  <2>. HIDE DEF p
  <2>2. I \in SUBSET (1 .. Len(q))
    OBVIOUS
  <2>. HIDE DEF I
  <2>. QED
    BY <2>1, <2>2, PartOfLeases, PartIsLeases
<1>. HIDE DEF p
<1>2. \A k \in 1 .. Len(p) : p[k].owner # r /\ \E i \in 1 .. Len(q) : p[k] = q[i]
  BY <1>1
<1>3. \A i \in 1 .. Len(q) : q[i].owner # r => \E k \in 1 .. Len(p) : p[k] = q[i]
  BY <1>1
<1>4. Others(p, q, r)
  BY <1>2, <1>3 DEF Others
<1>. QED
  BY <1>1, <1>2, <1>4 DEF p

LEMMA ByOrphan ==
  ASSUME NEW q \in Seq(Lease), Distinct(q), Narrow(q), NEW r \in Requests
  PROVE  /\ Orphan(q, r) \in Seq(Lease) /\ Distinct(Orphan(q, r)) /\ Narrow(Orphan(q, r)) /\ Others(Orphan(q, r), q, r)
         /\ \A k \in 1 .. Len(Orphan(q, r)) : Orphan(q, r)[k].owner # r
<1>. DEFINE p == Orphan(q, r)
<1>1. Len(q) \in Nat /\ \A i \in 1 .. Len(q) : q[i] \in Lease
  BY Loosen
<1>2. /\ p = [i \in 1 .. Len(q) |-> IF q[i].owner = r THEN [q[i] EXCEPT !.owner = Nobody] ELSE q[i]]
      /\ \A i \in 1 .. Len(q) : p[i] = IF q[i].owner = r THEN [q[i] EXCEPT !.owner = Nobody] ELSE q[i]
  BY DEF Orphan
<1>. HIDE DEF p
<1>3. \A i \in 1 .. Len(q) : p[i] \in Lease /\ p[i].owner = IF q[i].owner = r THEN Nobody ELSE q[i].owner
  BY <1>1, <1>2 DEF Lease
<1>4. p \in Seq(Lease) /\ Len(p) = Len(q)
  <2>1. p \in [1 .. Len(q) -> Lease]
    BY <1>2, <1>3
  <2>2. p \in Seq(Lease)
    BY <1>1, <2>1, SeqDef
  <2>. QED
    BY <1>1, <2>1, <2>2, LenProperties
<1>5. Distinct(p)
  BY <1>3, <1>4 DEF Distinct
<1>6. Others(p, q, r)
  BY <1>2, <1>4 DEF Others
<1>7. \A k \in 1 .. Len(p) : p[k].owner # r
  BY <1>3, <1>4, GateNumbers
<1>8. Narrow(p)
  <2>1. \A i \in 1 .. Len(q) : p[i].active = q[i].active /\ p[i].user = q[i].user
    BY <1>1, <1>2 DEF Lease
  <2>2. \A k \in 1 .. Len(p) : p[k].active =>
          k \in 1 .. Len(q) /\ q[k].active /\ q[k].user = p[k].user
    BY <1>4, <2>1
  <2>. QED
    BY <1>1, <1>4, <2>2, NarrowerHere
<1>. QED
  BY <1>4, <1>5, <1>6, <1>7, <1>8 DEF p

\* The leases stay leases.
LEMMA LeasesTyped ==
  ASSUME NEW q \in Seq(Lease), NEW age \in 0 .. Slowest, NEW r \in Requests
  PROVE  /\ NewLease(r, age) \in Lease
         /\ [NewLease(r, age) EXCEPT !.owner = Nobody] \in Lease
         /\ \A l \in Lease : /\ Until(l, ActiveTTL - age) \in Lease
                             /\ Until(l, PendingTTL - age) \in Lease
                             /\ [Until(l, ActiveTTL - age) EXCEPT !.active = TRUE] \in Lease
         /\ \A l \in Lease : Append(q, l) \in Seq(Lease)
         /\ Without(q, r) \in Seq(Lease) /\ Orphan(q, r) \in Seq(Lease)
         /\ \A i \in Mine(q, r) :
              /\ i \in 1 .. Len(q) /\ q[i] \in Lease /\ q[i].owner = r
              /\ Activated(q, i, age) \in Seq(Lease) /\ Waited(q, i, age) \in Seq(Lease)
              /\ Renewed(q, i, age) \in Seq(Lease)
              /\ Activated(q, i, age) = [q EXCEPT ![i] = [Until(q[i], ActiveTTL - age) EXCEPT !.active = TRUE]]
              /\ Renewed(q, i, age) = [q EXCEPT ![i] = Until(q[i], ActiveTTL - age)]
              /\ \/ Waited(q, i, age) = q
                 \/ Waited(q, i, age) = [q EXCEPT ![i] = Until(q[i], PendingTTL - age)]
<1>1. UserOf[r] \in Users
  BY DEF Users
<1>2. ActiveTTL - age \in -Slowest .. LongestTTL /\ PendingTTL - age \in -Slowest .. LongestTTL
  BY GateNumbers
<1>3. NewLease(r, age) \in Lease /\ [NewLease(r, age) EXCEPT !.owner = Nobody] \in Lease
  BY <1>1, <1>2 DEF NewLease, Lease
<1>4. \A l \in Lease : /\ Until(l, ActiveTTL - age) \in Lease
                       /\ Until(l, PendingTTL - age) \in Lease
                       /\ [Until(l, ActiveTTL - age) EXCEPT !.active = TRUE] \in Lease
  BY <1>2 DEF Until, Lease
<1>5. \A l \in Lease : Append(q, l) \in Seq(Lease)
  BY AppendProperties
<1>6. Without(q, r) \in Seq(Lease)
  <2>1. {i \in 1 .. Len(q) : q[i].owner # r} \in SUBSET (1 .. Len(q))
    OBVIOUS
  <2>. QED
    BY <2>1, PartIsLeases DEF Without
<1>7. Orphan(q, r) \in Seq(Lease)
  <2>1. Len(q) \in Nat /\ \A i \in 1 .. Len(q) : q[i] \in Lease
    BY Loosen
  <2>2. Orphan(q, r) \in [1 .. Len(q) -> Lease]
    BY <2>1 DEF Orphan, Lease
  <2>. QED
    BY <2>1, <2>2, SeqDef
<1>8. ASSUME NEW i \in Mine(q, r)
      PROVE  /\ i \in 1 .. Len(q) /\ q[i] \in Lease /\ q[i].owner = r
             /\ \A l \in Lease : [q EXCEPT ![i] = l] \in Seq(Lease)
             /\ Activated(q, i, age) = [q EXCEPT ![i] = [Until(q[i], ActiveTTL - age) EXCEPT !.active = TRUE]]
             /\ Renewed(q, i, age) = [q EXCEPT ![i] = Until(q[i], ActiveTTL - age)]
             /\ \/ Waited(q, i, age) = q
                \/ Waited(q, i, age) = [q EXCEPT ![i] = Until(q[i], PendingTTL - age)]
  <2>1. i \in 1 .. Len(q) /\ q[i].owner = r
    BY DEF Mine
  <2>2. q[i] \in Lease
    BY <2>1, ElementOfSeq
  <2>3. \A l \in Lease : [q EXCEPT ![i] = l] \in Seq(Lease)
    BY <2>1, ExceptSeq
  <2>4. Activated(q, i, age) = [q EXCEPT ![i] = [Until(q[i], ActiveTTL - age) EXCEPT !.active = TRUE]]
    BY DEF Activated
  <2>5. Renewed(q, i, age) = [q EXCEPT ![i] = Until(q[i], ActiveTTL - age)]
    BY DEF Renewed
  <2>6. \/ Waited(q, i, age) = q
        \/ Waited(q, i, age) = [q EXCEPT ![i] = Until(q[i], PendingTTL - age)]
    BY DEF Waited
  <2>. QED
    BY <2>1, <2>2, <2>3, <2>4, <2>5, <2>6
<1>9. \A i \in Mine(q, r) : /\ Activated(q, i, age) \in Seq(Lease) /\ Waited(q, i, age) \in Seq(Lease)
                            /\ Renewed(q, i, age) \in Seq(Lease)
  BY <1>4, <1>8
<1>. QED
  BY <1>3, <1>4, <1>5, <1>6, <1>7, <1>8, <1>9

LEMMA UntilMeans ==
  ASSUME NEW l \in Lease, NEW left
  PROVE  /\ Until(l, left).owner = l.owner /\ Until(l, left).user = l.user
         /\ Until(l, left).active = l.active /\ Until(l, left).left = left
         /\ [Until(l, left) EXCEPT !.active = TRUE].owner = l.owner
         /\ [Until(l, left) EXCEPT !.active = TRUE].user = l.user
         /\ [Until(l, left) EXCEPT !.active = TRUE].active
         /\ [Until(l, left) EXCEPT !.active = TRUE].left = left
BY DEF Until, Lease

\* What an operation makes of the lease that it changes.
LEMMA EditMeans ==
  ASSUME NEW q \in Seq(Lease), NEW age \in 0 .. Slowest, NEW r \in Requests, NEW i \in Mine(q, r)
  PROVE  /\ i \in 1 .. Len(q) /\ q[i] \in Lease /\ q[i].owner = r
         /\ \E w \in Lease : /\ Activated(q, i, age) = [q EXCEPT ![i] = w]
                            /\ w.owner = r /\ w.user = q[i].user /\ w.active
                            /\ w.left = ActiveTTL - age
         /\ \E w \in Lease : /\ Renewed(q, i, age) = [q EXCEPT ![i] = w]
                            /\ w.owner = r /\ w.user = q[i].user /\ w.active = q[i].active
                            /\ w.left = ActiveTTL - age
         /\ \/ Waited(q, i, age) = q
            \/ \E w \in Lease : /\ Waited(q, i, age) = [q EXCEPT ![i] = w]
                               /\ w.owner = r /\ w.user = q[i].user /\ w.active = q[i].active
<1>1. i \in 1 .. Len(q) /\ q[i].owner = r
  BY DEF Mine
<1>2. q[i] \in Lease
  BY <1>1, ElementOfSeq
<1>3. \A l \in Lease : /\ Until(l, ActiveTTL - age) \in Lease
                       /\ Until(l, PendingTTL - age) \in Lease
                       /\ [Until(l, ActiveTTL - age) EXCEPT !.active = TRUE] \in Lease
  BY LeasesTyped
<1>. DEFINE l == q[i]
<1>4. /\ Activated(q, i, age) = [q EXCEPT ![i] = [Until(l, ActiveTTL - age) EXCEPT !.active = TRUE]]
      /\ Renewed(q, i, age) = [q EXCEPT ![i] = Until(l, ActiveTTL - age)]
      /\ Waited(q, i, age) = q \/ Waited(q, i, age) = [q EXCEPT ![i] = Until(l, PendingTTL - age)]
  BY DEF Activated, Renewed, Waited
<1>5. l \in Lease /\ l.owner = r
  BY <1>1, <1>2
<1>6. \E w \in Lease : /\ Activated(q, i, age) = [q EXCEPT ![i] = w]
                       /\ w.owner = r /\ w.user = l.user /\ w.active
                       /\ w.left = ActiveTTL - age
  <2>. HIDE DEF l
  <2>. DEFINE w == [Until(l, ActiveTTL - age) EXCEPT !.active = TRUE]
  <2>1. w \in Lease /\ w.owner = r /\ w.user = l.user /\ w.active /\ w.left = ActiveTTL - age
    BY <1>3, <1>5, UntilMeans
  <2>2. Activated(q, i, age) = [q EXCEPT ![i] = w]
    BY <1>4
  <2>. HIDE DEF w
  <2>. QED
    BY <2>1, <2>2
<1>7. \E w \in Lease : /\ Renewed(q, i, age) = [q EXCEPT ![i] = w]
                       /\ w.owner = r /\ w.user = l.user /\ w.active = l.active
                       /\ w.left = ActiveTTL - age
  <2>. HIDE DEF l
  <2>. DEFINE w == Until(l, ActiveTTL - age)
  <2>1. w \in Lease /\ w.owner = r /\ w.user = l.user /\ w.active = l.active /\ w.left = ActiveTTL - age
    BY <1>3, <1>5, UntilMeans
  <2>2. Renewed(q, i, age) = [q EXCEPT ![i] = w]
    BY <1>4
  <2>. HIDE DEF w
  <2>. QED
    BY <2>1, <2>2
<1>8. \/ Waited(q, i, age) = q
      \/ \E w \in Lease : /\ Waited(q, i, age) = [q EXCEPT ![i] = w]
                          /\ w.owner = r /\ w.user = l.user /\ w.active = l.active
  <2>. HIDE DEF l
  <2>. DEFINE w == Until(l, PendingTTL - age)
  <2>1. w \in Lease /\ w.owner = r /\ w.user = l.user /\ w.active = l.active
    BY <1>3, <1>5, UntilMeans
  <2>2. Waited(q, i, age) = q \/ Waited(q, i, age) = [q EXCEPT ![i] = w]
    BY <1>4
  <2>. HIDE DEF w
  <2>. QED
    BY <2>1, <2>2
<1>. QED
  BY <1>1, <1>2, <1>6, <1>7, <1>8

LEMMA LiveTyped ==
  ASSUME leases \in Seq(Lease), NEW age
  PROVE  Live(age) \in Seq(Lease)
<1>1. {i \in 1 .. Len(leases) : leases[i].left + age > 0} \in SUBSET (1 .. Len(leases))
  OBVIOUS
<1>. QED
  BY <1>1, PartIsLeases DEF Live

\* What a move and a release make of the requests.
LEMMA MoveMeans ==
  ASSUME requests \in [Requests -> Request], NEW r \in Requests,
         NEW to \in Asking \cup {"rest", "wait", "run", "unsuccessful", "queue", "local"},
         Move(r, to)
  PROVE  /\ requests' \in [Requests -> Request]
         /\ \A s \in Requests : s # r => requests'[s] = requests[s]
         /\ requests'[r].at = to /\ requests'[r].age = 0 /\ requests'[r].told = requests[r].told
BY DEF Move, Request

LEMMA ReleaseMeans ==
  ASSUME requests \in [Requests -> Request], NEW r \in Requests,
         NEW then \in {"rest", "failed", "refused", "cancelled"}, Release(r, then)
  PROVE  /\ requests' \in [Requests -> Request]
         /\ \A s \in Requests : s # r => requests'[s] = requests[s]
         /\ requests'[r].at = "release" /\ requests'[r].age = 0
BY DEF Release, Request, Asking

LEMMA RestMeans ==
  ASSUME requests \in [Requests -> Request], NEW r \in Requests,
         requests' = [requests EXCEPT ![r] = Resting]
  PROVE  /\ requests' \in [Requests -> Request]
         /\ \A s \in Requests : s # r => requests'[s] = requests[s]
         /\ requests'[r].at = "rest" /\ requests'[r].age = 0
BY DEF Resting, Request

LEMMA ClaimMeans ==
  ASSUME requests \in [Requests -> Request], NEW r \in Requests, requests[r].age = 0,
         NEW how \in {"redis", "memory"},
         requests' = [requests EXCEPT ![r].at = "reserve", ![r].claim = how]
  PROVE  /\ requests' \in [Requests -> Request]
         /\ \A s \in Requests : s # r => requests'[s] = requests[s]
         /\ requests'[r].at = "reserve" /\ requests'[r].age = 0
BY DEF Request, Asking

LEMMA RefusedMeans ==
  ASSUME requests \in [Requests -> Request], NEW r \in Requests, Refused(r)
  PROVE  /\ requests' \in [Requests -> Request]
         /\ \A s \in Requests : s # r => requests'[s] = requests[s]
         /\ requests'[r].at \in {"queue", "unsuccessful"} /\ requests'[r].age = 0
<1>1. \E to \in {"queue", "unsuccessful"} : Move(r, to)
  BY DEF Refused
<1>. QED
  BY <1>1, MoveMeans

\* A request that is not running has no heartbeat.
LEMMA NoBeatThen ==
  ASSUME GateBase, NEW r \in Requests, requests[r].at # "run"
  PROVE  beats[r] = NoBeat /\ beats[r].at = "off"
BY DEF GateBase, GateTypeOK, Timely

Beats == [at : {"off", "sleep", "renew"}, age : Nat, since : Nat]

\* A step of one request.
LEMMA OneMoves ==
  ASSUME GateBase, NEW r \in Requests,
         leases' \in Seq(Lease),
         cooldowns' \in [Users -> [owner : Requests \cup {Nobody}, left : 0 .. CooldownTTL]],
         requests' \in [Requests -> Request], beats' \in [Requests -> Beats],
         \A s \in Requests : s # r => requests'[s] = requests[s] /\ beats'[s] = beats[s],
         requests'[r].at \in Asking => requests'[r].age <= Slowest,
         beats'[r].at = "off" => beats'[r] = NoBeat,
         beats'[r].at = "sleep" => beats'[r].age <= Heartbeat,
         beats'[r].at = "renew" => beats'[r].age <= Slowest,
         beats'[r].at # "off" => requests'[r].at = "run"
  PROVE  GateBase'
<1>1. \A s \in Requests :
       /\ requests'[s].at \in Asking => requests'[s].age <= Slowest
       /\ beats'[s].at = "off" => beats'[s] = NoBeat
       /\ beats'[s].at = "sleep" => beats'[s].age <= Heartbeat
       /\ beats'[s].at = "renew" => beats'[s].age <= Slowest
       /\ beats'[s].at # "off" => requests'[s].at = "run"
  BY DEF GateBase, Timely, GateTypeOK
<1>. QED
  BY <1>1 DEF GateBase, Timely, GateTypeOK, Beats, Lease, Request

LEMMA GateTypes ==
  ASSUME GateBase
  PROVE  /\ leases \in Seq(Lease) /\ requests \in [Requests -> Request]
         /\ beats \in [Requests -> Beats]
         /\ cooldowns \in [Users -> [owner : Requests \cup {Nobody}, left : 0 .. CooldownTTL]]
         /\ \A r \in Requests : /\ UserOf[r] \in Users
                                /\ requests[r] \in Request /\ beats[r] \in Beats
                                /\ requests[r].age \in Nat /\ beats[r].age \in Nat
                                /\ requests[r].at \in Asking => requests[r].age \in 0 .. Slowest
                                /\ beats[r].at = "renew" => beats[r].age \in 0 .. Slowest
<1>1. /\ leases \in Seq(Lease) /\ requests \in [Requests -> Request]
      /\ beats \in [Requests -> Beats]
      /\ cooldowns \in [Users -> [owner : Requests \cup {Nobody}, left : 0 .. CooldownTTL]]
  BY DEF GateBase, GateTypeOK, Beats
<1>2. \A r \in Requests : requests[r] \in Request /\ beats[r] \in Beats
  BY <1>1
<1>3. \A r \in Requests : requests[r].age \in Nat /\ beats[r].age \in Nat
  BY <1>2 DEF Request, Beats
<1>. QED
  BY <1>1, <1>2, <1>3, GateNumbers DEF GateBase, Timely, Users

\* A step of one request that is not running.
LEMMA QuietMoves ==
  ASSUME GateBase, NEW r \in Requests, requests[r].at # "run", beats' = beats,
         leases' \in Seq(Lease),
         cooldowns' \in [Users -> [owner : Requests \cup {Nobody}, left : 0 .. CooldownTTL]],
         requests' \in [Requests -> Request], requests'[r].age = 0,
         \A s \in Requests : s # r => requests'[s] = requests[s]
  PROVE  GateBase'
<1>1. beats[r] = NoBeat /\ beats[r].at = "off"
  BY NoBeatThen
<1>2. beats' \in [Requests -> Beats]
  BY GateTypes
<1>3. 0 <= Slowest
  BY GateNumbers
<1>. QED
  BY <1>1, <1>2, <1>3, OneMoves

\* What an operation that read TIME in time writes.
LEMMA WritesLeases ==
  ASSUME GateBase, NEW r \in Requests, NEW age \in 0 .. Slowest,
         \/ leases' = leases
         \/ leases' \in {Live(age), Append(Live(age), NewLease(r, age)),
                         Append(Live(age), [NewLease(r, age) EXCEPT !.owner = Nobody]),
                         Without(Live(age), r), Orphan(leases, r)}
         \/ \E i \in Mine(Live(age), r) :
              leases' \in {Activated(Live(age), i, age), Waited(Live(age), i, age),
                           Renewed(Live(age), i, age)}
  PROVE  leases' \in Seq(Lease)
<1>1. leases \in Seq(Lease) /\ Live(age) \in Seq(Lease)
  BY GateTypes, LiveTyped
<1>2. Orphan(leases, r) \in Seq(Lease)
  BY <1>1, LeasesTyped
<1>. DEFINE q == Live(age)
<1>. HIDE DEF q
<1>3. ASSUME q \in Seq(Lease)
      PROVE  /\ Append(q, NewLease(r, age)) \in Seq(Lease)
             /\ Append(q, [NewLease(r, age) EXCEPT !.owner = Nobody]) \in Seq(Lease)
             /\ Without(q, r) \in Seq(Lease)
             /\ \A i \in Mine(q, r) : /\ Activated(q, i, age) \in Seq(Lease)
                                      /\ Waited(q, i, age) \in Seq(Lease)
                                      /\ Renewed(q, i, age) \in Seq(Lease)
  BY <1>3, LeasesTyped
<1>. QED
  BY <1>1, <1>2, <1>3 DEF q

LEMMA CooldownBase ==
  ASSUME GateBase, NEW r \in Requests, Claim(r) \/ ClaimFails(r) \/ GiveBack(r)
  PROVE  GateBase'
<1>a. /\ leases \in Seq(Lease) /\ requests \in [Requests -> Request]
      /\ beats \in [Requests -> Beats]
      /\ cooldowns \in [Users -> [owner : Requests \cup {Nobody}, left : 0 .. CooldownTTL]]
      /\ requests[r].age \in Nat /\ beats[r].age \in Nat
      /\ requests[r].at \in Asking => requests[r].age \in 0 .. Slowest
      /\ beats[r].at = "renew" => beats[r].age \in 0 .. Slowest
      /\ UserOf[r] \in Users
  BY GateTypes
<1>1. requests[r].at # "run"
  BY DEF Claim, ClaimFails, GiveBack, Resting
<1>2. beats' = beats /\ beats[r] = NoBeat /\ beats[r].at = "off" /\ leases' = leases
  BY <1>1, NoBeatThen DEF Claim, ClaimFails, GiveBack
<1>3. cooldowns' \in [Users -> [owner : Requests \cup {Nobody}, left : 0 .. CooldownTTL]]
  <2>1. \A o \in Requests \cup {Nobody} :
          [owner |-> o, left |-> CooldownTTL] \in [owner : Requests \cup {Nobody}, left : 0 .. CooldownTTL]
    BY GateNumbers
  <2>2. Unclaimed \in [owner : Requests \cup {Nobody}, left : 0 .. CooldownTTL]
    BY GateNumbers DEF Unclaimed
  <2>3. CASE Claim(r)
    BY <1>a, <2>1, <2>3 DEF Claim
  <2>4. CASE ClaimFails(r)
    <3>1. \/ cooldowns' = cooldowns
          \/ cooldowns' = [cooldowns EXCEPT ![UserOf[r]] = [owner |-> Nobody, left |-> CooldownTTL]]
      BY <2>4 DEF ClaimFails
    <3>. QED
      BY <1>a, <2>1, <3>1
  <2>5. CASE GiveBack(r)
    BY <1>a, <2>2, <2>5 DEF GiveBack
  <2>. QED
    BY <2>3, <2>4, <2>5
<1>4. /\ requests' \in [Requests -> Request] /\ requests'[r].age = 0
      /\ \A s \in Requests : s # r => requests'[s] = requests[s]
  <2>1. CASE Claim(r)
    <3>1. /\ requests[r].age = 0
          /\ requests' = [requests EXCEPT ![r].at = "reserve", ![r].claim = "redis"]
      BY <2>1 DEF Claim, Resting
    <3>. QED
      BY <1>a, <3>1, ClaimMeans
  <2>2. CASE ClaimFails(r)
    <3>1. /\ requests[r].age = 0
          /\ \/ requests' = requests
             \/ requests' = [requests EXCEPT ![r].at = "reserve", ![r].claim = "memory"]
      BY <2>2 DEF ClaimFails, Resting
    <3>. QED
      BY <1>a, <3>1, ClaimMeans
  <2>3. CASE GiveBack(r)
    BY <1>a, <2>3, RestMeans DEF GiveBack
  <2>. QED
    BY <2>1, <2>2, <2>3
<1>. QED
  BY <1>1, <1>2, <1>3, <1>4, <1>a, QuietMoves

LEMMA WayInBase ==
  ASSUME GateBase, NEW r \in Requests,
         \/ Reserve(r) \/ ReserveFails(r) \/ PollAgain(r) \/ TryAgain(r)
         \/ EnterLocally(r) \/ LeaveLocally(r)
  PROVE  GateBase'
<1>a. /\ leases \in Seq(Lease) /\ requests \in [Requests -> Request]
      /\ beats \in [Requests -> Beats]
      /\ cooldowns \in [Users -> [owner : Requests \cup {Nobody}, left : 0 .. CooldownTTL]]
      /\ requests[r].age \in Nat /\ beats[r].age \in Nat
      /\ requests[r].at \in Asking => requests[r].age \in 0 .. Slowest
      /\ beats[r].at = "renew" => beats[r].age \in 0 .. Slowest
      /\ UserOf[r] \in Users
  BY GateTypes
<1>1. /\ requests[r].at # "run" /\ beats' = beats /\ cooldowns' = cooldowns
      /\ requests[r].at = "reserve" => requests[r].age \in 0 .. Slowest
  BY <1>a DEF Reserve, ReserveFails, PollAgain, TryAgain, EnterLocally, LeaveLocally, Asking
<1>2. beats[r] = NoBeat /\ beats[r].at = "off"
  BY <1>1, NoBeatThen
<1>3. leases' \in Seq(Lease)
  <2>. DEFINE age == requests[r].age
  <2>1. \/ leases' = leases
        \/ /\ requests[r].at = "reserve"
           /\ leases' \in {Append(Live(age), NewLease(r, age)),
                           Append(Live(age), [NewLease(r, age) EXCEPT !.owner = Nobody])}
    BY DEF Reserve, ReserveFails, PollAgain, TryAgain, EnterLocally, LeaveLocally, Written
  <2>. HIDE DEF age
  <2>. QED
    BY <1>1, <1>a, <2>1, WritesLeases DEF age
<1>4. \/ \E to \in Asking \cup {"rest", "wait", "run", "unsuccessful", "queue", "local"} :
           Move(r, to) /\ to # "run"
      \/ requests' = [requests EXCEPT ![r] = Resting]
  BY DEF Reserve, ReserveFails, PollAgain, TryAgain, EnterLocally, LeaveLocally, Refused, Asking
<1>5. /\ requests' \in [Requests -> Request] /\ requests'[r].age = 0
      /\ \A s \in Requests : s # r => requests'[s] = requests[s]
  BY <1>4, <1>a, MoveMeans, RestMeans
<1>. QED
  BY <1>1, <1>3, <1>5, <1>a, QuietMoves

LEMMA ActivateBase ==
  ASSUME GateBase, NEW r \in Requests, Activate(r) \/ ActivateFails(r)
  PROVE  GateBase'
<1>a. /\ leases \in Seq(Lease) /\ requests \in [Requests -> Request]
      /\ beats \in [Requests -> Beats]
      /\ cooldowns \in [Users -> [owner : Requests \cup {Nobody}, left : 0 .. CooldownTTL]]
      /\ requests[r].age \in Nat /\ beats[r].age \in Nat
      /\ requests[r].at \in Asking => requests[r].age \in 0 .. Slowest
      /\ beats[r].at = "renew" => beats[r].age \in 0 .. Slowest
      /\ UserOf[r] \in Users
  BY GateTypes
<1>. DEFINE age == requests[r].age
<1>1. /\ requests[r].at # "run" /\ cooldowns' = cooldowns
      /\ requests[r].at = "activate" => age \in 0 .. Slowest
  BY <1>a DEF Activate, ActivateFails, Asking
<1>2. beats[r] = NoBeat /\ beats[r].at = "off"
  BY <1>1, NoBeatThen
<1>3. leases' \in Seq(Lease)
  <2>1. \/ leases' = leases
        \/ /\ requests[r].at = "activate"
           /\ \E i \in Mine(Live(age), r) :
                leases' \in {Live(age), Activated(Live(age), i, age), Waited(Live(age), i, age)}
    BY DEF Activate, ActivateFails, Written
  <2>. HIDE DEF age
  <2>. QED
    BY <1>1, <1>a, <2>1, WritesLeases
<1>4. \/ beats' = beats /\ \E then \in {"rest", "failed", "refused", "cancelled"} : Release(r, then)
      \/ beats' = beats /\ Move(r, "wait")
      \/ /\ requests[r].at = "activate" /\ Move(r, "run")
         /\ beats' = [beats EXCEPT ![r] = [at |-> "sleep", age |-> 0, since |-> age]]
  BY DEF Activate, ActivateFails
<1>5. CASE beats' = beats
  <2>1. /\ requests' \in [Requests -> Request] /\ requests'[r].age = 0
        /\ \A s \in Requests : s # r => requests'[s] = requests[s]
    <3>1. CASE \E then \in {"rest", "failed", "refused", "cancelled"} : Release(r, then)
      BY <1>a, <3>1, ReleaseMeans
    <3>2. CASE Move(r, "wait")
      BY <1>a, <3>2, MoveMeans
    <3>3. CASE beats' = [beats EXCEPT ![r] = [at |-> "sleep", age |-> 0, since |-> age]]
      <4>1. beats'[r].at = "sleep"
        BY <1>a, <3>3
      <4>. QED
        BY <1>2, <1>5, <4>1
    <3>. QED
      BY <1>4, <3>1, <3>2, <3>3
  <2>. QED
    BY <1>1, <1>3, <1>5, <1>a, <2>1, QuietMoves
<1>6. CASE /\ requests[r].at = "activate" /\ Move(r, "run")
           /\ beats' = [beats EXCEPT ![r] = [at |-> "sleep", age |-> 0, since |-> age]]
  <2>0. age \in Nat
    BY <1>1, <1>6, GateNumbers
  <2>1. /\ beats' \in [Requests -> Beats] /\ beats'[r].at = "sleep" /\ beats'[r].age = 0
        /\ \A s \in Requests : s # r => beats'[s] = beats[s]
    <3>. HIDE DEF age
    <3>. QED
      BY <1>6, <1>a, <2>0 DEF Beats
  <2>2. /\ requests' \in [Requests -> Request] /\ requests'[r].at = "run" /\ "run" \notin Asking
        /\ \A s \in Requests : s # r => requests'[s] = requests[s]
    BY <1>6, <1>a, MoveMeans DEF Asking
  <2>3. 0 <= Heartbeat
    BY GateNumbers
  <2>. QED
    BY <1>1, <1>3, <1>a, <2>1, <2>2, <2>3, OneMoves
<1>. QED
  BY <1>4, <1>5, <1>6

LEMMA WayOutBase ==
  ASSUME GateBase, NEW r \in Requests, Leave(r) \/ Released(r) \/ ReleaseFails(r)
  PROVE  GateBase'
<1>a. /\ leases \in Seq(Lease) /\ requests \in [Requests -> Request]
      /\ beats \in [Requests -> Beats]
      /\ cooldowns \in [Users -> [owner : Requests \cup {Nobody}, left : 0 .. CooldownTTL]]
      /\ requests[r].age \in Nat /\ beats[r].age \in Nat
      /\ requests[r].at \in Asking => requests[r].age \in 0 .. Slowest
      /\ beats[r].at = "renew" => beats[r].age \in 0 .. Slowest
      /\ UserOf[r] \in Users
  BY GateTypes
<1>1. CASE Leave(r)
  <2>. DEFINE age == beats[r].age
  <2>1. leases' \in Seq(Lease)
    <3>1. leases' = leases \/ (age \in 0 .. Slowest /\ \E i \in Mine(Live(age), r) : leases' = Renewed(Live(age), i, age))
      BY <1>1, <1>a DEF Leave, Written
    <3>2. 0 \in 0 .. Slowest
      BY GateNumbers
    <3>. HIDE DEF age
    <3>. QED
      BY <1>a, <3>1, WritesLeases
  <2>2. /\ beats' \in [Requests -> Beats] /\ beats'[r] = NoBeat /\ beats'[r].at = "off"
        /\ \A s \in Requests : s # r => beats'[s] = beats[s]
    BY <1>1, <1>a DEF Leave, NoBeat, Beats
  <2>3. (Release(r, "rest") \/ Release(r, "failed")) /\ cooldowns' = cooldowns
    BY <1>1 DEF Leave
  <2>4. /\ requests' \in [Requests -> Request] /\ requests'[r].age <= Slowest
        /\ \A s \in Requests : s # r => requests'[s] = requests[s]
    BY <1>a, <2>3, ReleaseMeans, GateNumbers
  <2>. QED
    BY <1>a, <2>1, <2>2, <2>3, <2>4, OneMoves
<1>2. CASE Released(r) \/ ReleaseFails(r)
  <2>. DEFINE age == requests[r].age
  <2>1. requests[r].at = "release" /\ age \in 0 .. Slowest /\ beats' = beats /\ cooldowns' = cooldowns
    BY <1>2, <1>a DEF Released, ReleaseFails, Asking
  <2>2. leases' \in Seq(Lease)
    <3>1. leases' \in {Without(Live(age), r), Orphan(leases, r)}
      BY <1>2 DEF Released, ReleaseFails, Written
    <3>. HIDE DEF age
    <3>. QED
      BY <2>1, <3>1, WritesLeases
  <2>4. Refused(r) \/ Move(r, "unsuccessful") \/ requests' = [requests EXCEPT ![r] = Resting]
    BY <1>2 DEF Released, ReleaseFails
  <2>5. /\ requests' \in [Requests -> Request] /\ requests'[r].age = 0
        /\ \A s \in Requests : s # r => requests'[s] = requests[s]
    BY <1>a, <2>4, RefusedMeans, RestMeans, MoveMeans
  <2>. QED
    BY <1>a, <2>1, <2>2, <2>5, QuietMoves
<1>. QED
  BY <1>1, <1>2

LEMMA BeatBase ==
  ASSUME GateBase, NEW r \in Requests,
         BeatDue(r) \/ Renew(r) \/ RenewAgain(r) \/ BeatFails(r)
  PROVE  GateBase'
<1>a. /\ leases \in Seq(Lease) /\ requests \in [Requests -> Request]
      /\ beats \in [Requests -> Beats]
      /\ cooldowns \in [Users -> [owner : Requests \cup {Nobody}, left : 0 .. CooldownTTL]]
      /\ requests[r].age \in Nat /\ beats[r].age \in Nat
      /\ requests[r].at \in Asking => requests[r].age \in 0 .. Slowest
      /\ beats[r].at = "renew" => beats[r].age \in 0 .. Slowest
      /\ UserOf[r] \in Users
  BY GateTypes
<1>0. requests[r].at = "run" /\ cooldowns' = cooldowns /\ "run" \notin Asking /\ 0 <= Slowest /\ 0 <= Heartbeat
  BY GateNumbers DEF BeatDue, Renew, RenewAgain, BeatFails, GateBase, GateTypeOK, Asking
<1>. DEFINE age == beats[r].age
<1>1. leases' \in Seq(Lease)
  <2>1. \/ leases' = leases
        \/ age \in 0 .. Slowest /\ \E i \in Mine(Live(age), r) : leases' = Renewed(Live(age), i, age)
    BY <1>a DEF BeatDue, Renew, RenewAgain, BeatFails, Written
  <2>. HIDE DEF age
  <2>. QED
    BY <1>a, <2>1, WritesLeases
<1>2. CASE BeatDue(r) \/ Renew(r) \/ RenewAgain(r)
  <2>1. /\ requests' = requests
        /\ \E at \in {"sleep", "renew"}, n \in Nat :
             \A s \in Requests :
               beats'[s] = IF s = r THEN [at |-> at, age |-> 0, since |-> n] ELSE beats[s]
    <3>1. beats[r].since \in Nat
      BY <1>a DEF Beats
    <3>2. CASE BeatDue(r)
      <4>1. \A s \in Requests :
              beats'[s] = IF s = r THEN [at |-> "renew", age |-> 0, since |-> beats[r].since]
                          ELSE beats[s]
        BY <1>a, <3>2 DEF BeatDue, Beats
      <4>. QED
        BY <3>1, <3>2, <4>1 DEF BeatDue
    <3>3. CASE Renew(r)
      <4>1. \A s \in Requests :
              beats'[s] = IF s = r THEN [at |-> "sleep", age |-> 0, since |-> beats[r].age]
                          ELSE beats[s]
        BY <1>a, <3>3 DEF Renew
      <4>. QED
        BY <1>a, <3>3, <4>1 DEF Renew
    <3>4. CASE RenewAgain(r)
      <4>1. \A s \in Requests :
              beats'[s] = IF s = r THEN [at |-> "renew", age |-> 0, since |-> beats[r].since]
                          ELSE beats[s]
        BY <1>a, <3>4 DEF RenewAgain, Beats
      <4>. QED
        BY <3>1, <3>4, <4>1 DEF RenewAgain
    <3>. QED
      BY <1>2, <3>2, <3>3, <3>4
  <2>2. PICK at \in {"sleep", "renew"}, n \in Nat :
          \A s \in Requests :
            beats'[s] = IF s = r THEN [at |-> at, age |-> 0, since |-> n] ELSE beats[s]
    BY <2>1
  <2>3. beats'[r].at = at /\ beats'[r].age = 0 /\ \A s \in Requests : s # r => beats'[s] = beats[s]
    BY <2>2
  <2>4. \A s \in Requests : beats'[s] \in Beats
    <3>1. [at |-> at, age |-> 0, since |-> n] \in Beats
      BY DEF Beats
    <3>. QED
      BY <1>a, <2>2, <3>1
  <2>5. beats' \in [Requests -> Beats]
    <3>1. \E g : beats' = [beats EXCEPT ![r] = g] \/ beats' = [beats EXCEPT ![r].at = "renew", ![r].age = 0]
                 \/ beats' = [beats EXCEPT ![r].age = 0]
      BY <1>2 DEF BeatDue, Renew, RenewAgain
    <3>2. DOMAIN beats' = Requests /\ beats' = [s \in Requests |-> beats'[s]]
      BY <1>a, <3>1
    <3>. QED
      BY <2>4, <3>2
  <2>. QED
    BY <1>0, <1>1, <1>a, <2>1, <2>3, <2>5, OneMoves
<1>3. CASE BeatFails(r)
  <2>1. /\ beats' = [beats EXCEPT ![r] = NoBeat] /\ requests' = [requests EXCEPT ![r].told = TRUE]
    BY <1>3 DEF BeatFails
  <2>2. /\ beats' \in [Requests -> Beats] /\ beats'[r] = NoBeat /\ beats'[r].at = "off"
        /\ \A s \in Requests : s # r => beats'[s] = beats[s]
    BY <1>a, <2>1 DEF NoBeat, Beats
  <2>3. /\ requests' \in [Requests -> Request] /\ requests'[r].at = "run"
        /\ \A s \in Requests : s # r => requests'[s] = requests[s]
    BY <1>0, <1>a, <2>1 DEF Request
  <2>. QED
    BY <1>0, <1>1, <1>a, <2>2, <2>3, OneMoves
<1>. QED
  BY <1>2, <1>3

\* Time takes one tick from every lease and removes those long over.
LEMMA TimeTakes ==
  ASSUME leases \in Seq(Lease), TimePasses
  PROVE  /\ leases' \in Seq(Lease)
         /\ Distinct(leases) => Distinct(leases')
         /\ Narrow(leases) => Narrow(leases')
         /\ \A k \in 1 .. Len(leases') : \E i \in 1 .. Len(leases) :
              leases'[k] = Until(leases[i], leases[i].left - 1)
         /\ \A i \in 1 .. Len(leases) : leases[i].left > 0 =>
              \E k \in 1 .. Len(leases') : leases'[k] = Until(leases[i], leases[i].left - 1)
<1>. DEFINE p == [i \in 1 .. Len(leases) |-> Until(leases[i], leases[i].left - 1)]
            I == {i \in 1 .. Len(leases) : leases[i].left - 1 > -Slowest}
<1>1. /\ Len(leases) \in Nat
      /\ \A i \in 1 .. Len(leases) : leases[i] \in Lease /\ leases[i] \in Looser
  <2>1. leases \in Seq(Looser) /\ Len(leases) \in Nat /\ \A i \in 1 .. Len(leases) : leases[i] \in Lease
    BY Loosen
  <2>. QED
    BY <2>1, ElementOfSeq
<1>0. \A l \in Looser : /\ l.left \in Int /\ Until(l, l.left - 1) \in Looser
                        /\ Until(l, l.left - 1).left = l.left - 1
                        /\ Until(l, l.left - 1).owner = l.owner
                        /\ Until(l, l.left - 1).user = l.user
                        /\ Until(l, l.left - 1).active = l.active
  BY DEF Until, Looser
<1>2. /\ p \in [1 .. Len(leases) -> Looser]
      /\ \A i \in 1 .. Len(leases) : p[i] = Until(leases[i], leases[i].left - 1)
  BY <1>0, <1>1
<1>3. p \in Seq(Looser) /\ Len(p) = Len(leases)
  <2>. HIDE DEF p
  <2>1. p \in Seq(Looser)
    BY <1>1, <1>2, SeqDef
  <2>. QED
    BY <1>1, <1>2, <2>1, LenProperties
<1>4. leases' = Picked(p, I)
  BY DEF TimePasses
<1>5. I \in SUBSET (1 .. Len(p)) /\ \A i \in 1 .. Len(leases) : leases[i].left > 0 => i \in I
  <2>1. \A i \in 1 .. Len(leases) : leases[i].left > 0 => leases[i].left - 1 > -Slowest
    BY <1>0, <1>1, GateNumbers
  <2>2. I \in SUBSET (1 .. Len(leases))
    OBVIOUS
  <2>. HIDE DEF p
  <2>. QED
    BY <1>3, <2>1, <2>2
<1>6. \A i \in I : i \in 1 .. Len(leases) /\ leases[i].left - 1 > -Slowest
  OBVIOUS
<1>. HIDE DEF p, I
<1>7. /\ leases' \in Seq(Looser)
      /\ \A k \in 1 .. Len(leases') : \E i \in I : leases'[k] = p[i]
      /\ \A i \in I : \E k \in 1 .. Len(leases') : leases'[k] = p[i]
      /\ Distinct(p) => Distinct(leases')
      /\ Narrow(p) => Narrow(leases')
  BY <1>3, <1>4, <1>5, PartOfLeases
<1>8. \A i \in 1 .. Len(leases) : p[i].left = leases[i].left - 1 /\ p[i].owner = leases[i].owner
  BY <1>0, <1>1, <1>2
<1>9. leases' \in Seq(Lease)
  <2>1. \A k \in 1 .. Len(leases') : leases'[k].left \in -Slowest .. LongestTTL
    <3>. TAKE k \in 1 .. Len(leases')
    <3>1. PICK i \in I : leases'[k] = p[i]
      BY <1>7
    <3>2. leases[i].left \in -Slowest .. LongestTTL
      BY <1>1, <1>6 DEF Lease
    <3>. QED
      BY <1>6, <1>8, <3>1, <3>2, GateNumbers
  <2>. QED
    BY <1>7, <2>1, Tighter
<1>10. Distinct(leases) => Distinct(p)
  BY <1>3, <1>8 DEF Distinct
<1>11. ASSUME Narrow(leases) PROVE Narrow(p)
  <2>1. \A k \in 1 .. Len(p) : p[k].active =>
          k \in 1 .. Len(leases) /\ leases[k].active /\ leases[k].user = p[k].user
    BY <1>0, <1>1, <1>2, <1>3
  <2>. QED
    BY <1>1, <1>3, <1>11, <2>1, NarrowerHere
<1>. QED
  BY <1>2, <1>5, <1>6, <1>7, <1>9, <1>10, <1>11

LEMMA TimeBase ==
  ASSUME GateBase, TimePasses
  PROVE  GateBase'
<1>1. leases' \in Seq(Lease)
  BY GateTypes, TimeTakes
<1>2. cooldowns' \in [Users -> [owner : Requests \cup {Nobody}, left : 0 .. CooldownTTL]]
  <2>1. /\ cooldowns' = [u \in Users |-> IF cooldowns[u].left <= 1 THEN Unclaimed
                                         ELSE [cooldowns[u] EXCEPT !.left = @ - 1]]
        /\ cooldowns \in [Users -> [owner : Requests \cup {Nobody}, left : 0 .. CooldownTTL]]
    BY GateTypes DEF TimePasses
  <2>. QED
    BY <2>1, GateNumbers DEF Unclaimed
<1>3. \A r \in Requests :
        /\ requests'[r] \in Request
        /\ requests'[r].at = requests[r].at
        /\ requests'[r].at \in Asking => requests'[r].age <= Slowest
  <2>. TAKE r \in Requests
  <2>1. requests[r] \in Request /\ requests[r].age \in Nat
    BY GateTypes
  <2>2. requests'[r] = IF requests[r].at \in Asking \cup {"wait"}
                         THEN [requests[r] EXCEPT !.age = @ + 1] ELSE requests[r]
    BY DEF TimePasses
  <2>3. requests[r].at \in Asking => requests[r].age < Slowest
    BY DEF TimePasses
  <2>. QED
    BY <2>1, <2>2, <2>3, GateNumbers DEF Request
<1>4. \A r \in Requests :
        /\ beats'[r] \in Beats /\ beats'[r].at = beats[r].at
        /\ beats'[r].at = "off" => beats'[r] = NoBeat
        /\ beats'[r].at = "sleep" => beats'[r].age <= Heartbeat
        /\ beats'[r].at = "renew" => beats'[r].age <= Slowest
  <2>. TAKE r \in Requests
  <2>1. beats[r] \in Beats /\ beats[r].age \in Nat
    BY GateTypes
  <2>2. beats'[r] = IF beats[r].at = "off" THEN NoBeat
                    ELSE [beats[r] EXCEPT !.age = @ + 1,
                                          !.since = IF @ < ActiveTTL THEN @ + 1 ELSE @]
    BY DEF TimePasses
  <2>3. /\ beats[r].at = "renew" => beats[r].age < Slowest
        /\ beats[r].at = "sleep" => beats[r].age < Heartbeat
    BY DEF TimePasses
  <2>4. CASE beats[r].at = "off"
    BY <2>2, <2>4, GateNumbers DEF Beats, NoBeat
  <2>5. CASE beats[r].at # "off"
    <3>. DEFINE b == beats[r]
                n == IF b.since < ActiveTTL THEN b.since + 1 ELSE b.since
    <3>1. beats'[r] = [b EXCEPT !.age = b.age + 1, !.since = n]
      BY <2>2, <2>5
    <3>2. b \in Beats /\ b.age + 1 \in Nat /\ n \in Nat
      BY <2>1, GateNumbers DEF Beats
    <3>. HIDE DEF b, n
    <3>3. /\ beats'[r] \in Beats /\ beats'[r].at = b.at /\ beats'[r].age = b.age + 1
      BY <3>1, <3>2 DEF Beats
    <3>. QED
      BY <2>1, <2>3, <2>5, <3>3, GateNumbers DEF b
  <2>. QED
    BY <2>4, <2>5
<1>5. requests' \in [Requests -> Request] /\ beats' \in [Requests -> Beats]
  BY <1>3, <1>4 DEF TimePasses
<1>6. Timely'
  BY <1>3, <1>4 DEF Timely
<1>7. \A r \in Requests : beats'[r].at # "off" => requests'[r].at = "run"
  BY <1>3, <1>4 DEF GateBase, GateTypeOK
<1>. QED
  BY <1>1, <1>2, <1>5, <1>6, <1>7 DEF GateBase, GateTypeOK, Beats

LEMMA GateBaseStep ==
  ASSUME GateBase, [GateNext]_gateVars
  PROVE  GateBase'
<1>1. CASE UNCHANGED gateVars
  BY <1>1 DEF gateVars, GateBase, GateTypeOK, Timely
<1>. QED
  BY <1>1, CooldownBase, WayInBase, ActivateBase, WayOutBase, BeatBase, TimeBase DEF GateNext

LEMMA GateBaseBegins == GateInit => GateBase
<1>. SUFFICES ASSUME GateInit PROVE GateBase
  OBVIOUS
<1>1. leases = <<>> /\ <<>> \in Seq(Lease)
  BY DEF GateInit
<1>2. Resting \in Request /\ NoBeat \in Beats
  BY DEF Resting, Request, NoBeat, Beats
<1>3. Unclaimed \in [owner : Requests \cup {Nobody}, left : 0 .. CooldownTTL]
  BY GateNumbers DEF Unclaimed
<1>4. \A r \in Requests : requests[r] = Resting /\ beats[r] = NoBeat
  BY DEF GateInit
<1>5. /\ requests \in [Requests -> Request] /\ beats \in [Requests -> Beats]
      /\ cooldowns \in [Users -> [owner : Requests \cup {Nobody}, left : 0 .. CooldownTTL]]
  BY <1>2, <1>3 DEF GateInit
<1>6. Timely /\ \A r \in Requests : beats[r].at = "off"
  BY <1>4 DEF Timely, Resting, NoBeat, Asking
<1>. QED
  BY <1>1, <1>5, <1>6 DEF GateBase, GateTypeOK, Beats

\* The leases are those of before, and only the request changed.
LEMMA SameLeases ==
  ASSUME NEW q, NEW r
  PROVE  Others(q, q, r)
BY DEF Others

\* A request that is not on its way through Redis owns no lease.
LEMMA OwnsNothing ==
  ASSUME NEW q, NEW r \in Requests, Owned(q, requests),
         requests[r].at \notin {"activate", "wait", "run", "release"}
  PROVE  Mine(q, r) = {}
BY GateNumbers DEF Owned, Mine

\* A request moves that has no lease and none is made for it.
LEMMA NoLease ==
  ASSUME GateInv, NEW r \in Requests, NEW q, LeasesFit(q, requests, beats), Mine(q, r) = {},
         NEW p, p \in {q, leases}, p = q, leases' = p, beats' = beats,
         \A s \in Requests : s # r => requests'[s] = requests[s],
         requests'[r].at # "run"
  PROVE  LeasesFit(leases', requests', beats')
<1>1. \A k \in 1 .. Len(q) : q[k].owner # r
  BY DEF Mine
<1>2. q \in Seq(Lease) /\ Distinct(q) /\ Narrow(q) /\ Others(q, q, r)
  BY SameLeases DEF LeasesFit
<1>3. LeasesFit(q, requests', beats')
  BY <1>1, <1>2, Refit
<1>. QED
  BY <1>3

LEMMA WayInFits ==
  ASSUME GateInv, NEW r \in Requests,
         \/ Claim(r) \/ ClaimFails(r) \/ GiveBack(r)
         \/ Reserve(r) \/ ReserveFails(r) \/ EnterLocally(r) \/ LeaveLocally(r)
  PROVE  LeasesFit(leases', requests', beats')
<1>a. /\ leases \in Seq(Lease) /\ requests \in [Requests -> Request]
      /\ beats \in [Requests -> Beats]
      /\ requests[r].age \in Nat /\ beats[r].age \in Nat
      /\ requests[r].at \in Asking => requests[r].age \in 0 .. Slowest
      /\ beats[r].at = "renew" => beats[r].age \in 0 .. Slowest
  BY GateTypes DEF GateInv
<1>b. LeasesFit(leases, requests, beats) /\ GateBase /\ Distinct(leases)
  BY DEF GateInv, LeasesFit
<1>1. /\ requests[r].at \notin {"activate", "wait", "run", "release"} /\ beats' = beats
  BY DEF Claim, ClaimFails, GiveBack, Reserve, ReserveFails, EnterLocally, LeaveLocally, Resting
<1>2. /\ \A s \in Requests : s # r => requests'[s] = requests[s]
      /\ requests'[r].at \notin {"wait", "run", "release"}
      /\ requests'[r].at = "activate" => Reserve(r)
  <2>1. CASE Claim(r) \/ ClaimFails(r)
    <3>1. /\ requests[r].age = 0 /\ requests[r].at = "rest"
          /\ \/ requests' = requests
             \/ \E how \in {"redis", "memory"} : requests' = [requests EXCEPT ![r].at = "reserve", ![r].claim = how]
      BY <2>1 DEF Claim, ClaimFails, Resting
    <3>. QED
      BY <1>a, <3>1, ClaimMeans
  <2>2. CASE requests' = [requests EXCEPT ![r] = Resting]
    BY <1>a, <2>2, RestMeans
  <2>3. CASE \E to \in {"unsuccessful", "queue", "local"} : Move(r, to)
    <3>1. \A to \in {"unsuccessful", "queue", "local"} :
            to \in Asking \cup {"rest", "wait", "run", "unsuccessful", "queue", "local"}
      OBVIOUS
    <3>. QED
      BY <1>a, <2>3, <3>1, MoveMeans
  <2>4. CASE Reserve(r) /\ Move(r, "activate")
    BY <1>a, <2>4, MoveMeans DEF Asking
  <2>. QED
    BY <2>1, <2>2, <2>3, <2>4
    DEF Claim, ClaimFails, GiveBack, Reserve, ReserveFails, EnterLocally, LeaveLocally, Refused
<1>3. CASE leases' = leases
  <2>1. Mine(leases, r) = {}
    BY <1>1, <1>b, OwnsNothing DEF LeasesFit
  <2>. QED
    BY <1>1, <1>2, <1>3, <1>b, <2>1, NoLease
<1>4. CASE leases' # leases
  <2>. DEFINE age == requests[r].age
              q == Live(age)
  <2>1. /\ requests[r].at = "reserve"
        /\ \/ leases' = Append(q, NewLease(r, age)) /\ Move(r, "activate")
           \/ leases' = Append(q, [NewLease(r, age) EXCEPT !.owner = Nobody])
    BY <1>4 DEF Claim, ClaimFails, GiveBack, Reserve, ReserveFails, EnterLocally, LeaveLocally, Written
  <2>2. age \in 0 .. Slowest
    BY <1>a, <2>1 DEF Asking
  <2>9. Move(r, "activate") => requests'[r].at = "activate"
    BY <1>a, MoveMeans DEF Asking
  <2>0. /\ NewLease(r, age) \in Lease /\ [NewLease(r, age) EXCEPT !.owner = Nobody] \in Lease
        /\ NewLease(r, age).owner = r /\ NewLease(r, age).user = UserOf[r] /\ ~NewLease(r, age).active
        /\ [NewLease(r, age) EXCEPT !.owner = Nobody].owner = Nobody
        /\ ~[NewLease(r, age) EXCEPT !.owner = Nobody].active
    BY <1>a, <2>2, LeasesTyped DEF NewLease
  <2>3. PICK l \in Lease :
          /\ leases' = Append(q, l) /\ l.owner \in {r, Nobody} /\ ~l.active
          /\ l.owner = r => l.user = UserOf[r] /\ requests'[r].at = "activate"
    <3>. HIDE DEF age, q
    <3>. QED
      BY <2>0, <2>1, <2>9, GateNumbers
  <2>4. LeasesFit(q, requests, beats)
    BY <1>b, <2>2, LiveFits
  <2>. HIDE DEF age, q
  <2>5. q \in Seq(Lease) /\ Distinct(q) /\ Narrow(q) /\ Mine(q, r) = {}
    BY <1>1, <2>4, OwnsNothing DEF LeasesFit
  <2>6. /\ leases' \in Seq(Lease) /\ Distinct(leases') /\ Narrow(leases') /\ Others(leases', q, r)
        /\ \A k \in 1 .. Len(leases') : leases'[k].owner = r => leases'[k] = l
    BY <2>3, <2>5, ByAppend
  <2>8. LeasesFit(leases', requests', beats')
    BY <1>1, <1>2, <2>3, <2>4, <2>6, Refit
  <2>. QED
    BY <2>8
<1>. QED
  BY <1>3, <1>4

\* A request changes its own lease, or none.
LEMMA OwnEdit ==
  ASSUME NEW r \in Requests, NEW q, LeasesFit(q, requests, beats),
         NEW i \in Mine(q, r), NEW w \in Lease, w.owner = r, w.user = q[i].user,
         w.active => q[i].active \/ MayActivate(q, i),
         NEW rs, NEW bs, \A s \in Requests : s # r => rs[s] = requests[s] /\ bs[s] = beats[s],
         rs[r].at \in {"activate", "wait", "run", "release"},
         rs[r].at \in {"activate", "wait"} => ~w.active,
         rs[r].at = "run" /\ ~rs[r].told /\ bs[r].since < ActiveTTL =>
           bs[r].at # "off" /\ w.active /\ w.left >= LeftFor(bs[r])
  PROVE  LeasesFit([q EXCEPT ![i] = w], rs, bs)
<1>. DEFINE p == [q EXCEPT ![i] = w]
<1>1. q \in Seq(Lease) /\ Distinct(q) /\ Narrow(q)
  BY DEF LeasesFit
<1>7. w.user = UserOf[r]
  BY GateNumbers DEF LeasesFit, Owned, Mine
<1>2. /\ p \in Seq(Lease) /\ Distinct(p) /\ Narrow(p) /\ Others(p, q, r)
      /\ i \in 1 .. Len(p) /\ p[i] = w
      /\ \A k \in 1 .. Len(p) : p[k].owner = r => p[k] = w
  BY <1>1, ByEdit
<1>. HIDE DEF p
<1>3. \A s \in Requests : s # r =>
        rs[s].at = requests[s].at /\ rs[s].told = requests[s].told /\ bs[s] = beats[s]
  OBVIOUS
<1>4. \A k \in 1 .. Len(p) : p[k].owner = r =>
        /\ p[k].user = UserOf[r]
        /\ rs[r].at \in {"activate", "wait", "run", "release"}
        /\ rs[r].at \in {"activate", "wait"} => ~p[k].active
  BY <1>2, <1>7
<1>5. rs[r].at = "run" /\ ~rs[r].told /\ bs[r].since < ActiveTTL =>
        /\ bs[r].at # "off"
        /\ \E k \in 1 .. Len(p) : p[k].owner = r /\ p[k].active /\ p[k].left >= LeftFor(bs[r])
  BY <1>2
<1>6. LeasesFit(p, rs, bs)
  BY <1>2, <1>3, <1>4, <1>5, Refit
<1>. QED
  BY <1>6 DEF p

LEMMA OwnKept ==
  ASSUME NEW r \in Requests, NEW q, LeasesFit(q, requests, beats),
         NEW rs, NEW bs, \A s \in Requests : s # r => rs[s] = requests[s] /\ bs[s] = beats[s],
         rs[r].at \in {"activate", "wait", "run", "release"},
         rs[r].at \in {"activate", "wait"} => requests[r].at \in {"activate", "wait"},
         rs[r].at = "run" /\ ~rs[r].told =>
           /\ requests[r].at = "run" /\ ~requests[r].told /\ bs[r].at # "off"
           /\ bs[r].since = beats[r].since
  PROVE  LeasesFit(q, rs, bs)
<1>1. q \in Seq(Lease) /\ Distinct(q) /\ Narrow(q) /\ Others(q, q, r)
  BY SameLeases DEF LeasesFit
<1>2. \A k \in 1 .. Len(q) : q[k].owner = r =>
        /\ q[k].user = UserOf[r]
        /\ rs[r].at \in {"activate", "wait", "run", "release"}
        /\ rs[r].at \in {"activate", "wait"} => ~q[k].active
  BY GateNumbers DEF LeasesFit, Owned
<1>3. ASSUME rs[r].at = "run", ~rs[r].told, bs[r].since < ActiveTTL
      PROVE  /\ bs[r].at # "off"
             /\ \E k \in 1 .. Len(q) : q[k].owner = r /\ q[k].active /\ q[k].left >= LeftFor(bs[r])
  BY <1>3 DEF LeasesFit, Beating, LeftFor
<1>4. \A s \in Requests : s # r =>
        rs[s].at = requests[s].at /\ rs[s].told = requests[s].told /\ bs[s] = beats[s]
  OBVIOUS
<1>. QED
  BY <1>1, <1>2, <1>3, <1>4, Refit

LEMMA ActivateFits ==
  ASSUME GateInv, NEW r \in Requests, Activate(r) \/ ActivateFails(r) \/ PollAgain(r)
  PROVE  LeasesFit(leases', requests', beats')
<1>a. /\ leases \in Seq(Lease) /\ requests \in [Requests -> Request]
      /\ beats \in [Requests -> Beats]
      /\ requests[r].age \in Nat /\ beats[r].age \in Nat
      /\ requests[r].at \in Asking => requests[r].age \in 0 .. Slowest
      /\ beats[r].at = "renew" => beats[r].age \in 0 .. Slowest
  BY GateTypes DEF GateInv
<1>b. LeasesFit(leases, requests, beats) /\ GateBase /\ Distinct(leases)
  BY DEF GateInv, LeasesFit
<1>. DEFINE age == requests[r].age
            q == Live(age)
<1>1. /\ requests[r].at \in {"activate", "wait"} /\ requests[r].at # "run"
      /\ requests[r].at = "activate" => age \in 0 .. Slowest
      /\ requests[r].at = "activate" => LeasesFit(q, requests, beats)
  BY <1>a, <1>b, LiveFits DEF Activate, ActivateFails, PollAgain, Asking
<1>2. beats[r] = NoBeat
  BY <1>1, <1>b, NoBeatThen
<1>3. \A then \in {"rest", "failed", "refused", "cancelled"} :
        Release(r, then) => /\ \A s \in Requests : s # r => requests'[s] = requests[s]
                            /\ requests'[r].at = "release"
  BY <1>a, ReleaseMeans
<1>4. \A to \in {"activate", "wait", "run"} :
        Move(r, to) => /\ \A s \in Requests : s # r => requests'[s] = requests[s]
                       /\ requests'[r].at = to
  BY <1>a, MoveMeans DEF Asking
<1>5. CASE leases' = leases /\ beats' = beats
  <2>1. /\ \A s \in Requests : s # r => requests'[s] = requests[s]
        /\ requests'[r].at \in {"activate", "wait", "release"}
    <3>1. \/ \E then \in {"rest", "failed", "refused", "cancelled"} : Release(r, then)
          \/ \E to \in {"activate", "wait"} : Move(r, to)
          \/ beats' = [beats EXCEPT ![r] = [at |-> "sleep", age |-> 0, since |-> age]]
      BY DEF Activate, ActivateFails, PollAgain
    <3>3. beats' # [beats EXCEPT ![r] = [at |-> "sleep", age |-> 0, since |-> age]]
      BY <1>2, <1>5, <1>a DEF NoBeat
    <3>. QED
      BY <1>3, <1>4, <3>1, <3>3
  <2>. QED
    BY <1>1, <1>5, <1>b, <2>1, OwnKept
<1>6. CASE /\ requests[r].at = "activate"
           /\ \E i \in Mine(q, r) : leases' = Activated(q, i, age) /\ MayActivate(q, i)
           /\ \/ \E then \in {"rest", "failed", "refused", "cancelled"} : Release(r, then) /\ beats' = beats
              \/ /\ Move(r, "run")
                 /\ beats' = [beats EXCEPT ![r] = [at |-> "sleep", age |-> 0, since |-> age]]
  <2>. HIDE DEF q
  <2>1. PICK i \in Mine(q, r) : leases' = Activated(q, i, age) /\ MayActivate(q, i)
    BY <1>6
  <2>2. LeasesFit(q, requests, beats) /\ age \in 0 .. Slowest
    BY <1>1, <1>6
  <2>. HIDE DEF age
  <2>3. PICK w \in Lease : /\ leases' = [q EXCEPT ![i] = w]
                           /\ w.owner = r /\ w.user = q[i].user /\ w.active
                           /\ w.left = ActiveTTL - age
    BY <2>1, <2>2, EditMeans DEF LeasesFit
  <2>5. /\ \A s \in Requests : s # r => requests'[s] = requests[s] /\ beats'[s] = beats[s]
        /\ \/ requests'[r].at = "release"
           \/ requests'[r].at = "run" /\ beats'[r] = [at |-> "sleep", age |-> 0, since |-> age]
    <3>2. beats' = [beats EXCEPT ![r] = [at |-> "sleep", age |-> 0, since |-> age]] =>
            /\ \A s \in Requests : s # r => beats'[s] = beats[s]
            /\ beats'[r] = [at |-> "sleep", age |-> 0, since |-> age]
      BY <1>a
    <3>. QED
      BY <1>3, <1>4, <1>6, <3>2
  <2>6. beats'[r] = [at |-> "sleep", age |-> 0, since |-> age] =>
          beats'[r].at # "off" /\ w.left >= LeftFor(beats'[r])
    <3>. SUFFICES ASSUME beats'[r] = [at |-> "sleep", age |-> 0, since |-> age]
                  PROVE  beats'[r].at # "off" /\ w.left >= LeftFor(beats'[r])
      OBVIOUS
    <3>1. beats'[r].at = "sleep" /\ beats'[r].since = age
      OBVIOUS
    <3>2. w.left >= ActiveTTL - age
      BY <2>2, <2>3, GateNumbers
    <3>. QED
      BY <3>1, <3>2 DEF LeftFor
  <2>7. /\ \A s \in Requests : s # r => requests'[s] = requests[s] /\ beats'[s] = beats[s]
        /\ requests'[r].at \in {"activate", "wait", "run", "release"}
        /\ requests'[r].at \in {"activate", "wait"} => ~w.active
        /\ requests'[r].at = "run" /\ ~requests'[r].told /\ beats'[r].since < ActiveTTL =>
             beats'[r].at # "off" /\ w.active /\ w.left >= LeftFor(beats'[r])
        /\ w.owner = r /\ w.user = q[i].user
        /\ w.active => q[i].active \/ MayActivate(q, i)
    <3>. HIDE DEF q
    <3>. QED
      BY <2>1, <2>3, <2>5, <2>6
  <2>8. LeasesFit([q EXCEPT ![i] = w], requests', beats')
    BY <2>2, <2>7, OwnEdit
  <2>. QED
    BY <2>3, <2>8
<1>7. CASE /\ requests[r].at = "activate" /\ beats' = beats
           /\ \E i \in Mine(q, r) : leases' = Waited(q, i, age)
           /\ Move(r, "wait") \/ \E then \in {"rest", "failed", "refused", "cancelled"} : Release(r, then)
  <2>. HIDE DEF q
  <2>1. PICK i \in Mine(q, r) : leases' = Waited(q, i, age)
    BY <1>7
  <2>2. requests[r].at = "activate" /\ LeasesFit(q, requests, beats) /\ age \in 0 .. Slowest
    BY <1>1, <1>7
  <2>3. /\ \A s \in Requests : s # r => requests'[s] = requests[s] /\ beats'[s] = beats[s]
        /\ requests'[r].at \in {"wait", "release"}
    BY <1>3, <1>4, <1>7
  <2>. HIDE DEF age
  <2>4. i \in 1 .. Len(q) /\ q[i].owner = r /\ q[i].user = UserOf[r] /\ ~q[i].active
    BY <2>2, GateNumbers DEF LeasesFit, Owned, Mine
  <2>6. CASE leases' = q
    BY <2>2, <2>3, <2>6, OwnKept
  <2>7. ASSUME NEW w \in Lease, leases' = [q EXCEPT ![i] = w],
               w.owner = r, w.user = q[i].user, w.active = q[i].active
        PROVE  LeasesFit(leases', requests', beats')
    BY <2>2, <2>3, <2>4, <2>7, OwnEdit
  <2>. QED
    BY <2>1, <2>2, <2>6, <2>7, EditMeans DEF LeasesFit
<1>. QED
  <2>1. CASE Activate(r)
    <3>1. requests[r].at = "activate"
      BY <2>1 DEF Activate
    <3>2. \A i \in Mine(q, r) : ~q[i].active
      BY <1>1, <3>1, GateNumbers DEF LeasesFit, Owned, Mine
    <3>3. \/ leases' = leases /\ beats' = beats
          \/ \E i \in Mine(q, r) :
               \/ /\ q[i].active \/ MayActivate(q, i)
                  /\ leases' = (IF q[i].active THEN q ELSE Activated(q, i, age))
                  /\ Move(r, "run")
                  /\ beats' = [beats EXCEPT ![r] = [at |-> "sleep", age |-> 0, since |-> age]]
               \/ Move(r, "wait") /\ leases' = Waited(q, i, age) /\ beats' = beats
      BY <2>1 DEF Activate, Written
    <3>. HIDE DEF q, age
    <3>. QED
      BY <1>5, <1>6, <1>7, <3>1, <3>2, <3>3
  <2>2. CASE ActivateFails(r)
    <3>1. \/ leases' = leases /\ beats' = beats
          \/ /\ requests[r].at = "activate" /\ beats' = beats
             /\ \E i \in Mine(q, r) :
                  leases' = (IF MayActivate(q, i) THEN Activated(q, i, age) ELSE Waited(q, i, age))
             /\ \E then \in {"rest", "failed", "refused", "cancelled"} : Release(r, then)
      BY <2>2 DEF ActivateFails, Written
    <3>. HIDE DEF q, age
    <3>. QED
      BY <1>5, <1>6, <1>7, <3>1
  <2>3. CASE PollAgain(r)
    BY <1>5, <2>3 DEF PollAgain
  <2>. QED
    BY <2>1, <2>2, <2>3

\* A request that leaves gives up its lease.
LEMMA WayOutFits ==
  ASSUME GateInv, NEW r \in Requests, Released(r) \/ ReleaseFails(r)
  PROVE  LeasesFit(leases', requests', beats')
<1>a. /\ leases \in Seq(Lease) /\ requests \in [Requests -> Request]
      /\ beats \in [Requests -> Beats]
      /\ requests[r].age \in Nat /\ beats[r].age \in Nat
      /\ requests[r].at \in Asking => requests[r].age \in 0 .. Slowest
      /\ beats[r].at = "renew" => beats[r].age \in 0 .. Slowest
  BY GateTypes DEF GateInv
<1>b. LeasesFit(leases, requests, beats) /\ GateBase /\ Distinct(leases)
  BY DEF GateInv, LeasesFit
<1>. DEFINE age == requests[r].age
<1>1. requests[r].at = "release" /\ age \in 0 .. Slowest /\ beats' = beats
  BY <1>a DEF Released, ReleaseFails, Asking
<1>2. /\ \A s \in Requests : s # r => requests'[s] = requests[s]
      /\ requests'[r].at \in {"rest", "queue", "unsuccessful"}
  <2>1. Refused(r) \/ Move(r, "unsuccessful") \/ requests' = [requests EXCEPT ![r] = Resting]
    BY DEF Released, ReleaseFails
  <2>. QED
    BY <1>a, <2>1, RefusedMeans, RestMeans, MoveMeans
<1>3. PICK q \in {leases, Live(age)} :
        /\ LeasesFit(q, requests, beats)
        /\ leases' \in {Without(q, r), Orphan(q, r)}
  <2>1. leases' = Without(Live(age), r) \/ leases' = Orphan(leases, r)
    BY DEF Released, ReleaseFails, Written
  <2>2. LeasesFit(Live(age), requests, beats)
    BY <1>1, <1>b, LiveFits
  <2>. HIDE DEF age
  <2>. QED
    BY <1>b, <2>1, <2>2
<1>. HIDE DEF age
<1>4. /\ leases' \in Seq(Lease) /\ Distinct(leases') /\ Narrow(leases') /\ Others(leases', q, r)
      /\ \A k \in 1 .. Len(leases') : leases'[k].owner # r
  BY <1>3, ByWithout, ByOrphan DEF LeasesFit
<1>5. LeasesFit(leases', requests', beats')
  BY <1>1, <1>2, <1>3, <1>4, Refit
<1>. QED
  BY <1>5

\* An operation begins again.
LEMMA AgainFits ==
  ASSUME GateInv, NEW r \in Requests, TryAgain(r)
  PROVE  LeasesFit(leases', requests', beats')
<1>1. /\ leases' = leases /\ beats' = beats
      /\ \A s \in Requests : /\ requests'[s].at = requests[s].at
                             /\ requests'[s].told = requests[s].told
  <2>1. requests \in [Requests -> Request] /\ Move(r, requests[r].at)
    BY GateTypes DEF GateInv, TryAgain
  <2>2. requests[r].at \in Asking \cup {"rest", "wait", "run", "unsuccessful", "queue", "local"}
    BY DEF TryAgain
  <2>. QED
    BY <2>1, <2>2, MoveMeans DEF TryAgain
<1>2. \A i \in 1 .. Len(leases) : leases[i].owner \in Requests \cup {Nobody}
  BY Loosen DEF GateInv, LeasesFit, Lease
<1>3. Owned(leases, requests') /\ Beating(leases, requests', beats)
  BY <1>1, <1>2 DEF GateInv, LeasesFit, Owned, Beating
<1>. QED
  BY <1>1, <1>3 DEF GateInv, LeasesFit

\* A heartbeat is due, renews or fails, or its request leaves.
LEMMA BeatFits ==
  ASSUME GateInv, NEW r \in Requests,
         Leave(r) \/ BeatDue(r) \/ Renew(r) \/ RenewAgain(r) \/ BeatFails(r)
  PROVE  LeasesFit(leases', requests', beats')
<1>a. /\ leases \in Seq(Lease) /\ requests \in [Requests -> Request]
      /\ beats \in [Requests -> Beats]
      /\ requests[r].age \in Nat /\ beats[r].age \in Nat
      /\ requests[r].at \in Asking => requests[r].age \in 0 .. Slowest
      /\ beats[r].at = "renew" => beats[r].age \in 0 .. Slowest
  BY GateTypes DEF GateInv
<1>b. LeasesFit(leases, requests, beats) /\ GateBase /\ Distinct(leases)
  BY DEF GateInv, LeasesFit
<1>. DEFINE age == beats[r].age
<1>1. requests[r].at = "run" /\ (beats[r].at = "renew" => LeasesFit(Live(age), requests, beats))
  BY <1>a, <1>b, LiveFits DEF Leave, BeatDue, Renew, RenewAgain, BeatFails, GateBase, GateTypeOK
<1>2. \/ /\ Leave(r) /\ requests'[r].at = "release"
         /\ \A s \in Requests : s # r => requests'[s] = requests[s] /\ beats'[s] = beats[s]
      \/ /\ BeatDue(r) \/ RenewAgain(r)
         /\ requests' = requests /\ beats'[r].at = "renew" /\ beats'[r].since = beats[r].since
         /\ \A s \in Requests : s # r => requests'[s] = requests[s] /\ beats'[s] = beats[s]
      \/ /\ Renew(r) /\ requests' = requests /\ beats'[r] = [at |-> "sleep", age |-> 0, since |-> age]
         /\ \A s \in Requests : s # r => requests'[s] = requests[s] /\ beats'[s] = beats[s]
      \/ /\ BeatFails(r) /\ requests'[r].at = "run" /\ requests'[r].told
         /\ \A s \in Requests : s # r => requests'[s] = requests[s] /\ beats'[s] = beats[s]
  <2>1. CASE Leave(r)
    BY <1>a, <2>1, ReleaseMeans DEF Leave
  <2>2. CASE BeatDue(r)
    BY <1>a, <2>2 DEF BeatDue, Beats
  <2>3. CASE Renew(r)
    BY <1>a, <2>3 DEF Renew
  <2>4. CASE BeatFails(r)
    BY <1>1, <1>a, <2>4 DEF BeatFails, Request
  <2>5. CASE RenewAgain(r)
    BY <1>a, <2>5 DEF RenewAgain, Beats
  <2>. QED
    BY <2>1, <2>2, <2>3, <2>4, <2>5
<1>4. CASE leases' = leases /\ ~Renew(r)
  <2>2. LeasesFit(leases, requests', beats')
    <3>1. requests'[r].at \in {"run", "release"}
      BY <1>1, <1>2
    <3>2. ASSUME requests'[r].at = "run", ~requests'[r].told
          PROVE  /\ requests[r].at = "run" /\ ~requests[r].told /\ beats'[r].at # "off"
                 /\ beats'[r].since = beats[r].since
      BY <1>1, <1>2, <1>4, <3>2 DEF GateInv, LeasesFit
    <3>. QED
      BY <1>2, <1>b, <3>1, <3>2, OwnKept
  <2>. QED
    BY <1>4, <2>2
<1>5. CASE /\ beats[r].at = "renew"
           /\ \E i \in Mine(Live(age), r) : /\ leases' = Renewed(Live(age), i, age)
                                            /\ Renew(r) => Live(age)[i].active
                                            /\ ~BeatDue(r) /\ ~RenewAgain(r)
  <2>. DEFINE q == Live(age)
  <2>1. LeasesFit(q, requests, beats) /\ age \in 0 .. Slowest
    BY <1>1, <1>5, <1>a
  <2>2. PICK i \in Mine(q, r) : leases' = Renewed(q, i, age) /\ (Renew(r) => q[i].active)
    BY <1>5
  <2>. HIDE DEF q, age
  <2>3. PICK w \in Lease : /\ leases' = [q EXCEPT ![i] = w]
                           /\ w.owner = r /\ w.user = q[i].user /\ w.active = q[i].active
                           /\ w.left = ActiveTTL - age
    BY <2>1, <2>2, EditMeans DEF LeasesFit
  <2>5. requests'[r].at \in {"run", "release"}
    BY <1>1, <1>2
  <2>6. ASSUME requests'[r].at = "run", ~requests'[r].told
        PROVE  beats'[r].at # "off" /\ w.active /\ w.left >= LeftFor(beats'[r])
    <3>2. Renew(r) /\ beats'[r] = [at |-> "sleep", age |-> 0, since |-> age]
      BY <1>2, <1>5, <2>6
    <3>3. LeftFor(beats'[r]) = ActiveTTL - age
      BY <3>2 DEF LeftFor
    <3>. QED
      BY <2>1, <2>2, <2>3, <3>2, <3>3, GateNumbers
  <2>7. LeasesFit(leases', requests', beats')
    BY <1>2, <2>1, <2>3, <2>5, <2>6, OwnEdit
  <2>. QED
    BY <2>7
<1>. QED
  <2>1. \/ leases' = leases /\ ~Renew(r)
        \/ /\ beats[r].at = "renew"
           /\ \E i \in Mine(Live(age), r) : leases' = Renewed(Live(age), i, age) /\ (Renew(r) => Live(age)[i].active)
           /\ ~BeatDue(r) /\ ~RenewAgain(r)
    <3>0. BeatDue(r) \/ RenewAgain(r) => leases' = leases /\ beats'[r].at = "renew"
      BY <1>a DEF BeatDue, RenewAgain, Beats
    <3>5. Renew(r) => beats'[r].at = "sleep"
      BY <1>a DEF Renew
    <3>6. Leave(r) \/ BeatFails(r) => beats'[r].at = "off"
      BY <1>a DEF Leave, BeatFails, NoBeat
    <3>1. CASE Leave(r)
      BY <3>0, <3>1, <3>5, <3>6 DEF Leave, Written
    <3>2. CASE BeatDue(r) \/ RenewAgain(r)
      BY <3>0, <3>2, <3>5
    <3>3. CASE Renew(r)
      BY <3>0, <3>3, <3>5 DEF Renew, Written
    <3>4. CASE BeatFails(r)
      BY <3>0, <3>4, <3>5, <3>6 DEF BeatFails, Written
    <3>. QED
      BY <3>1, <3>2, <3>3, <3>4
  <2>. QED
    BY <1>4, <1>5, <2>1

LEMMA TimeFits ==
  ASSUME GateInv, TimePasses
  PROVE  LeasesFit(leases', requests', beats')
<1>1. /\ leases \in Seq(Lease) /\ LeasesFit(leases, requests, beats) /\ Distinct(leases) /\ GateBase
      /\ \A r \in Requests : /\ requests[r] \in Request /\ beats[r] \in Beats /\ beats[r].age \in Nat
                            /\ beats[r].since \in Nat
      /\ \A i \in 1 .. Len(leases) : leases[i] \in Lease /\ leases[i].left \in Int
  <2>1. leases \in Seq(Lease) /\ LeasesFit(leases, requests, beats) /\ Distinct(leases) /\ GateBase
    BY DEF GateInv, LeasesFit
  <2>2. \A r \in Requests : /\ requests[r] \in Request /\ beats[r] \in Beats /\ beats[r].age \in Nat
                           /\ beats[r].since \in Nat
    BY <2>1, GateTypes DEF Beats
  <2>3. leases \in Seq(Looser) /\ \A i \in 1 .. Len(leases) : leases[i] \in Lease
    BY <2>1, Loosen
  <2>4. \A i \in 1 .. Len(leases) : leases[i] \in Looser
    BY <2>3, ElementOfSeq
  <2>. QED
    BY <2>1, <2>2, <2>3, <2>4 DEF Looser
<1>2. /\ leases' \in Seq(Lease) /\ Distinct(leases') /\ Narrow(leases')
      /\ \A k \in 1 .. Len(leases') : \E i \in 1 .. Len(leases) :
           leases'[k] = Until(leases[i], leases[i].left - 1)
      /\ \A i \in 1 .. Len(leases) : leases[i].left > 0 =>
           \E k \in 1 .. Len(leases') : leases'[k] = Until(leases[i], leases[i].left - 1)
  BY <1>1, TimeTakes DEF LeasesFit
<1>3. \A r \in Requests : requests'[r].at = requests[r].at /\ requests'[r].told = requests[r].told
  <2>. TAKE r \in Requests
  <2>1. requests'[r] = IF requests[r].at \in Asking \cup {"wait"}
                         THEN [requests[r] EXCEPT !.age = @ + 1] ELSE requests[r]
    BY DEF TimePasses
  <2>. QED
    BY <1>1, <2>1 DEF Request
<1>4. Owned(leases', requests')
  <2>. SUFFICES ASSUME NEW k \in 1 .. Len(leases'), leases'[k].owner # Nobody
                PROVE  /\ leases'[k].user = UserOf[leases'[k].owner]
                       /\ requests'[leases'[k].owner].at \in {"activate", "wait", "run", "release"}
                       /\ requests'[leases'[k].owner].at \in {"activate", "wait"} => ~leases'[k].active
    BY DEF Owned
  <2>1. PICK i \in 1 .. Len(leases) : leases'[k] = Until(leases[i], leases[i].left - 1)
    BY <1>2
  <2>2. /\ leases'[k].owner = leases[i].owner /\ leases'[k].user = leases[i].user
        /\ leases'[k].active = leases[i].active
    BY <1>1, <2>1, UntilMeans
  <2>3. leases[i].owner \in Requests
    BY <1>1, <2>2 DEF Lease
  <2>. QED
    BY <1>1, <1>3, <2>2, <2>3 DEF LeasesFit, Owned
<1>5. Beating(leases', requests', beats')
  <2>. SUFFICES ASSUME NEW r \in Requests, requests'[r].at = "run", ~requests'[r].told,
                       beats'[r].since < ActiveTTL
                PROVE  /\ beats'[r].at # "off"
                       /\ \E k \in 1 .. Len(leases') :
                            leases'[k].owner = r /\ leases'[k].active /\ leases'[k].left >= LeftFor(beats'[r])
    BY DEF Beating
  <2>1. /\ beats[r].since < ActiveTTL
        /\ beats[r].at # "off" =>
             /\ beats'[r].at # "off" /\ LeftFor(beats[r]) > 0 /\ LeftFor(beats[r]) \in Int
             /\ LeftFor(beats'[r]) = LeftFor(beats[r]) - 1
    <3>1. CASE beats[r].at = "off"
      <4>1. beats[r] = NoBeat
        BY <1>1, <3>1 DEF GateBase, Timely
      <4>. QED
        BY <3>1, <4>1, GateNumbers DEF NoBeat
    <3>2. CASE beats[r].at # "off"
      <4>1. /\ beats'[r].at = beats[r].at
            /\ beats'[r].since = IF beats[r].since < ActiveTTL THEN beats[r].since + 1
                                ELSE beats[r].since
        BY <1>1, <3>2 DEF TimePasses, Beats
      <4>. QED
        BY <1>1, <3>2, <4>1, GateNumbers DEF LeftFor
    <3>. QED
      BY <3>1, <3>2
  <2>2. PICK i \in 1 .. Len(leases) : leases[i].owner = r /\ leases[i].active /\ leases[i].left >= LeftFor(beats[r])
    BY <1>1, <1>3, <2>1 DEF LeasesFit, Beating
  <2>3. beats[r].at # "off"
    BY <1>1, <1>3, <2>1 DEF LeasesFit, Beating
  <2>4. /\ LeftFor(beats[r]) \in Int /\ LeftFor(beats[r]) > 0
        /\ LeftFor(beats'[r]) = LeftFor(beats[r]) - 1 /\ beats'[r].at # "off"
    BY <2>1, <2>3
  <2>5. leases[i].left > 0
    BY <1>1, <2>2, <2>4
  <2>6. PICK k \in 1 .. Len(leases') : leases'[k] = Until(leases[i], leases[i].left - 1)
    BY <1>2, <2>5
  <2>7. leases'[k].owner = r /\ leases'[k].active /\ leases'[k].left = leases[i].left - 1
    BY <1>1, <2>2, <2>6, UntilMeans
  <2>8. leases'[k].left >= LeftFor(beats'[r])
    BY <1>1, <2>2, <2>4, <2>7
  <2>. QED
    BY <2>4, <2>7, <2>8
<1>. QED
  BY <1>2, <1>4, <1>5 DEF LeasesFit

LEMMA GateStep ==
  ASSUME GateInv, [GateNext]_gateVars
  PROVE  GateInv'
<1>1. GateBase'
  BY GateBaseStep DEF GateInv
<1>2. LeasesFit(leases', requests', beats')
  <2>1. CASE UNCHANGED gateVars
    BY <2>1 DEF gateVars, GateInv
  <2>. QED
    BY <2>1, WayInFits, ActivateFits, WayOutFits, AgainFits, BeatFits, TimeFits DEF GateNext
<1>. QED
  BY <1>1, <1>2 DEF GateInv

LEMMA GateBegins == GateInit => GateInv
<1>. SUFFICES ASSUME GateInit PROVE GateInv
  OBVIOUS
<1>1. leases = <<>> /\ <<>> \in Seq(Lease) /\ Len(<<>>) = 0
  BY DEF GateInit
<1>2. \A r \in Requests : requests[r].at = "rest"
  BY DEF GateInit, Resting
<1>3. LeasesFit(leases, requests, beats)
  <2>1. {i \in 1 .. Len(leases) : leases[i].active} = {}
    BY <1>1
  <2>2. Narrow(leases)
    BY <1>1, <2>1, FS_EmptySet, GateNumbers DEF Narrow, Active
  <2>. QED
    BY <1>1, <1>2, <2>2 DEF LeasesFit, Owned, Distinct, Beating
<1>. QED
  BY <1>3, GateBaseBegins DEF GateInv

\* A cooldown changes hands only when its time is over or its owner's
\* request ended without success.
LEMMA CooldownsStay ==
  ASSUME GateBase, [GateNext]_gateVars, NEW u \in Users, cooldowns'[u].owner # cooldowns[u].owner
  PROVE  cooldowns[u].left <= 1 \/ requests[cooldowns[u].owner].at = "unsuccessful"
<1>1. /\ cooldowns \in [Users -> [owner : Requests \cup {Nobody}, left : 0 .. CooldownTTL]]
      /\ \A r \in Requests : UserOf[r] \in Users
  BY GateTypes
<1>2. CASE cooldowns' = cooldowns
  BY <1>2
<1>3. CASE TimePasses
  <2>1. cooldowns'[u] = IF cooldowns[u].left <= 1 THEN Unclaimed ELSE [cooldowns[u] EXCEPT !.left = @ - 1]
    BY <1>3 DEF TimePasses
  <2>2. [cooldowns[u] EXCEPT !.left = @ - 1].owner = cooldowns[u].owner
    BY <1>1
  <2>. QED
    BY <2>1, <2>2
<1>4. ASSUME NEW r \in Requests, Claim(r) \/ ClaimFails(r)
      PROVE  cooldowns[u].left <= 1
  <2>1. cooldowns[UserOf[r]] = Unclaimed /\ \E c : cooldowns' = [cooldowns EXCEPT ![UserOf[r]] = c]
    BY <1>4 DEF Claim, ClaimFails
  <2>2. u = UserOf[r]
    BY <1>1, <2>1
  <2>. QED
    BY <2>1, <2>2 DEF Unclaimed
<1>5. ASSUME NEW r \in Requests, GiveBack(r)
      PROVE  requests[cooldowns[u].owner].at = "unsuccessful"
  <2>1. /\ cooldowns[UserOf[r]].owner = r /\ cooldowns' = [cooldowns EXCEPT ![UserOf[r]] = Unclaimed]
        /\ requests[r].at = "unsuccessful"
    BY <1>5 DEF GiveBack
  <2>2. u = UserOf[r]
    BY <1>1, <2>1
  <2>. QED
    BY <2>1, <2>2
<1>6. \/ cooldowns' = cooldowns \/ TimePasses
      \/ \E r \in Requests : Claim(r) \/ ClaimFails(r) \/ GiveBack(r)
  BY DEF GateNext, gateVars, Reserve, ReserveFails, Activate, ActivateFails, PollAgain, Leave,
     Released, ReleaseFails, TryAgain, BeatDue, Renew, RenewAgain, BeatFails, EnterLocally, LeaveLocally
<1>. QED
  BY <1>2, <1>3, <1>4, <1>5, <1>6

-----------------------------------------------------------------------------
(* The offer of tools.                                                       *)

\* Made-up names are among what is selected, and among the residents.
Names == ToolNames \cup (UNION {c.names : c \in Selections}) \cup (UNION {s.residents : s \in Settings})
Scopes   == {p.scope : p \in Profiles}
Withheld == {p.suppressed : p \in Profiles} \cup {{}}

Pin == [generation : 1 .. MaxCatalogs, tools : BOOLEAN, search : BOOLEAN,
        barred : SUBSET DOMAIN Selectors, residents : SUBSET Names, cutover : BOOLEAN]
BriefKeys ==
  [generation : 1 .. MaxCatalogs, cutover : BOOLEAN, barred : SUBSET DOMAIN Selectors,
   tools : BOOLEAN, search : BOOLEAN, super : BOOLEAN, scope : Scopes, suppressed : Withheld]
SchemaKeys ==
  [generation : 1 .. MaxCatalogs, cutover : BOOLEAN, barred : SUBSET DOMAIN Selectors,
   tools : BOOLEAN, search : BOOLEAN, super : BOOLEAN, scope : Scopes, suppressed : Withheld,
   selected : SUBSET Names]
OfferStages == {"idle", "asked", "reading", "selected", "prepared", "bound", "called",
                "confirmed", "ended"}

\* The records that tell the truth about the snapshot of their key.
TrueBriefs(g) ==
  {x \in [key : BriefKeys, view : SUBSET ToolNames] :
     /\ x.key.generation = g /\ g <= Len(catalogs)
     /\ x.view = Brief(x.key)}
TrueSchemas(g) ==
  {x \in [key : SchemaKeys, view : SUBSET ToolNames] :
     /\ x.key.generation = g /\ g <= Len(catalogs)
     /\ x.view = Schema(x.key)}

Turn0 ==
  [at : OfferStages, as : Profiles, pin : Pin, selected : SUBSET Names, able : BOOLEAN,
   record : SUBSET [key : SchemaKeys, view : SUBSET ToolNames], shown : SUBSET ToolNames,
   offered : SUBSET ToolNames, ran : SUBSET ToolNames, waits : SUBSET ToolNames]

\* What a request has been told is what its own snapshot says.
TurnTrue(t) ==
  /\ t \in Turn0
  /\ t.pin.generation <= Len(catalogs)
  /\ t.at = "reading" => t.shown = Brief(BriefKey(t))
  /\ \A x \in t.record : x \in TrueSchemas(x.key.generation)
  /\ t.at = "bound" => t.offered = Schema(SchemaKey(t))
  /\ t.at \notin {"called", "confirmed"} => t.ran = {} /\ t.waits = {}
  /\ \A n \in t.ran \cup t.waits : Usable(t, n)
  /\ \A n \in t.ran : n \in Catalog(t.pin).mutating \ Catalog(t.pin).plugins => t.at = "confirmed"

CatalogsRead ==
  /\ catalogs \in Seq(DOMAIN Inventories) /\ Len(catalogs) \in 1 .. MaxCatalogs
  /\ \A g \in 1 .. Len(catalogs) : Publishable(Inventories[catalogs[g]])
  /\ current \in Pin /\ current.generation = Len(catalogs)
  /\ command \in {<<>>} \cup ({"before", "check", "after"} \X DOMAIN Selectors)
  /\ patches \in 0 .. MaxPatches /\ verified \subseteq 1 .. MaxCatalogs
CachesTrue ==
  /\ DOMAIN briefs = 1 .. MaxCatalogs /\ DOMAIN schemas = 1 .. MaxCatalogs
  /\ \A g \in 1 .. MaxCatalogs :
       /\ briefs[g] \in Seq(TrueBriefs(g)) /\ Len(briefs[g]) <= MaxRecords
       /\ schemas[g] \in Seq(TrueSchemas(g)) /\ Len(schemas[g]) <= MaxRecords
OfferInv ==
  /\ CatalogsRead /\ CachesTrue
  /\ DOMAIN turns = Asks /\ \A r \in Asks : TurnTrue(turns[r])

-----------------------------------------------------------------------------
\* What a catalog that can be published looks like.
LEMMA CatalogFacts ==
  ASSUME NEW i \in Inventory, Publishable(i), i.super \cap (ProtocolTools \cup {Search}) = {}
  PROVE  /\ i.plugins \cap Customs(i) = {} /\ i.plugins \cap Builtins = {}
         /\ Customs(i) \cap Builtins = {} /\ i.super \cap i.plugins = {}
         /\ Known(i) \subseteq ToolNames
         /\ i.super \cap Builtins = {}
<1>. DEFINE b == <<i.registered, i.file, i.generated, i.mcp, i.plugins, Builtins>>
<1>1. \A x \in 1 .. 6 : \A y \in 1 .. x - 1 : b[x] \cap b[y] = {}
  BY DEF Publishable, UniqueNames
<1>2. /\ b[1] = i.registered /\ b[2] = i.file /\ b[3] = i.generated /\ b[4] = i.mcp
      /\ b[5] = i.plugins /\ b[6] = Builtins
  OBVIOUS
<1>. HIDE DEF b
<1>3. /\ b[5] \cap b[1] = {} /\ b[5] \cap b[2] = {} /\ b[5] \cap b[3] = {} /\ b[5] \cap b[4] = {}
      /\ b[6] \cap b[1] = {} /\ b[6] \cap b[2] = {} /\ b[6] \cap b[3] = {} /\ b[6] \cap b[4] = {}
      /\ b[6] \cap b[5] = {}
  BY <1>1
<1>4. /\ i.plugins \cap Customs(i) = {} /\ Customs(i) \cap Builtins = {} /\ i.plugins \cap Builtins = {}
  BY <1>2, <1>3 DEF Customs
<1>5. Known(i) \subseteq ToolNames
  BY OfferAssumption DEF Inventory, Known, Customs, Builtins
<1>6. i.super \cap i.plugins = {}
  BY DEF Publishable, PluginsAgree
<1>. QED
  BY <1>4, <1>5, <1>6 DEF Builtins

\* The closure has the seeds and what they lead to.
LEMMA ClosureClosed ==
  ASSUME NEW seeds, NEW next, NEW m \in Closure(seeds, next), m \in DOMAIN next,
         NEW n \in next[m], n \in ToolNames
  PROVE  n \in Closure(seeds, next)
<1>. DEFINE Shut(S) == \A k \in (seeds \cup S) \cap DOMAIN next : next[k] \subseteq seeds \cup S
<1>1. ASSUME n \notin seeds, NEW S \in SUBSET ToolNames, Shut(S)
      PROVE  n \in S
  <2>1. m \in seeds \cup S
    BY <1>1 DEF Closure
  <2>. QED
    BY <1>1, <2>1
<1>. QED
  BY <1>1 DEF Closure

LEMMA ClosureSeeds == ASSUME NEW seeds, NEW next PROVE seeds \subseteq Closure(seeds, next)
BY DEF Closure

-----------------------------------------------------------------------------
\* What a snapshot says of a key does not change as long as its catalog stays.
LEMMA CatalogKept ==
  ASSUME NEW k, Catalog(k)' = Catalog(k)
  PROVE  Brief(k)' = Brief(k) /\ Schema(k)' = Schema(k)
<1>1. \A n : Permits(k, n)' <=> Permits(k, n)
  BY DEF Permits
<1>2. ProviderBrief(k)' = ProviderBrief(k)
  <2>1. ProviderListed(k)' = ProviderListed(k)
    BY <1>1 DEF ProviderListed
  <2>. QED
    BY <2>1 DEF ProviderBrief, Readable, Rendered
<1>3. LegacyBrief(k)' = LegacyBrief(k)
  <2>1. LegacyListed(k)' = LegacyListed(k)
    BY <1>1 DEF LegacyListed
  <2>. QED
    BY <2>1 DEF LegacyBrief, Readable, Rendered
<1>4. LegacyNext(k)' = LegacyNext(k) /\ ProviderNext(k)' = ProviderNext(k)
  BY DEF LegacyNext, ProviderNext
<1>5. LegacyClosure(k)' = LegacyClosure(k) /\ ProviderClosure(k)' = ProviderClosure(k)
  BY <1>4 DEF LegacyClosure, ProviderClosure
<1>6. \A S : LegacyOf(k, S)' = LegacyOf(k, S) /\ ProviderOf(k, S)' = ProviderOf(k, S)
  BY <1>1 DEF LegacyOf, ProviderOf
<1>. QED
  BY <1>2, <1>3, <1>5, <1>6 DEF Brief, Schema

-----------------------------------------------------------------------------
\* A key of a turn, and the catalog it means.
LEMMA KeyFacts ==
  ASSUME CatalogsRead, NEW t \in Turn0, t.pin.generation <= Len(catalogs)
  PROVE  /\ BriefKey(t) \in BriefKeys /\ SchemaKey(t) \in SchemaKeys
         /\ BriefKey(t).generation = t.pin.generation
         /\ SchemaKey(t).generation = t.pin.generation
         /\ t.pin.generation \in 1 .. MaxCatalogs /\ t.pin.generation \in 1 .. Len(catalogs)
         /\ Catalog(BriefKey(t)) = Catalog(t.pin) /\ Catalog(SchemaKey(t)) = Catalog(t.pin)
         /\ Barred(BriefKey(t)) = Barred(t.pin) /\ Barred(SchemaKey(t)) = Barred(t.pin)
<1>1. t.pin \in Pin /\ t.as \in Profiles /\ t.selected \in SUBSET Names /\ t.able \in BOOLEAN
  BY DEF Turn0
<1>2. /\ t.pin.generation \in 1 .. MaxCatalogs /\ t.pin.cutover \in BOOLEAN
      /\ t.pin.barred \in SUBSET DOMAIN Selectors /\ t.pin.tools \in BOOLEAN
      /\ t.pin.search \in BOOLEAN /\ t.pin.residents \in SUBSET Names
  BY <1>1 DEF Pin
<1>3. /\ t.as.super \in BOOLEAN /\ t.as.scope \in Scopes /\ t.as.suppressed \in Withheld
      /\ {} \in Withheld
  BY <1>1, OfferAssumption DEF Scopes, Withheld
<1>4. BriefKey(t) \in BriefKeys
  <2>1. (IF t.pin.tools THEN t.as.suppressed ELSE {}) \in Withheld
    BY <1>3
  <2>. QED
    BY <1>2, <1>3, <2>1 DEF BriefKey, BriefKeys
<1>5. SchemaKey(t) \in SchemaKeys
  <2>. DEFINE on == t.pin.tools /\ t.able
  <2>1. on \in BOOLEAN /\ (on /\ t.pin.search) \in BOOLEAN
    OBVIOUS
  <2>2. (IF on THEN t.as.suppressed ELSE {}) \in Withheld
    BY <1>3
  <2>3. t.selected \cup t.pin.residents \in SUBSET Names
    BY <1>1, <1>2
  <2>4. SchemaKey(t) =
          [generation |-> t.pin.generation, cutover |-> t.pin.cutover,
           barred |-> t.pin.barred, tools |-> on, search |-> on /\ t.pin.search,
           super |-> t.as.super, scope |-> t.as.scope,
           suppressed |-> IF on THEN t.as.suppressed ELSE {},
           selected |-> t.selected \cup t.pin.residents]
    BY DEF SchemaKey
  <2>. HIDE DEF on
  <2>. QED
    BY <1>2, <1>3, <2>1, <2>2, <2>3, <2>4 DEF SchemaKeys
<1>6. /\ BriefKey(t).generation = t.pin.generation /\ BriefKey(t).barred = t.pin.barred
      /\ SchemaKey(t).generation = t.pin.generation /\ SchemaKey(t).barred = t.pin.barred
  BY DEF BriefKey, SchemaKey
<1>7. t.pin.generation \in 1 .. Len(catalogs)
  BY <1>2, LenProperties DEF CatalogsRead
<1>. QED
  BY <1>2, <1>4, <1>5, <1>6, <1>7 DEF Catalog, Barred

LEMMA CatalogTyped ==
  ASSUME CatalogsRead, NEW k, k.generation \in 1 .. Len(catalogs)
  PROVE  /\ Catalog(k) \in Inventory /\ Publishable(Catalog(k))
         /\ Catalog(k).super \cap (ProtocolTools \cup {Search}) = {}
         /\ Search \notin Catalog(k).mutating
<1>1. catalogs[k.generation] \in DOMAIN Inventories
  BY ElementOfSeq DEF CatalogsRead
<1>. QED
  BY <1>1, OfferAssumption DEF CatalogsRead, Catalog

LEMMA RowsName ==
  ASSUME NEW i \in Inventory, NEW j \in DOMAIN i.rows
  PROVE  i.rows[j].of \in ToolNames
<1>. DEFINE Row == [of : ToolNames, hidden : BOOLEAN]
<1>1. i.rows \in Seq(Row)
  BY DEF Inventory
<1>2. ASSUME NEW x \in Row PROVE x.of \in ToolNames
  OBVIOUS
<1>. HIDE DEF Row
<1>3. i.rows[j] \in Row
  BY <1>1, LenProperties, ElementOfSeq
<1>. QED
  BY <1>2, <1>3

\* What is rendered are tools.
LEMMA RenderedTools ==
  ASSUME NEW i \in Inventory, NEW J, J \subseteq DOMAIN i.rows
  PROVE  Rendered(i.rows, J) \subseteq ToolNames
BY RowsName DEF Rendered

\* What a request reads is the same in both views, and are the rows of what it
\* may use, as far as they are not hidden from it nor beyond the limit.
LEMMA BriefMeans ==
  ASSUME CatalogsRead, NEW t \in Turn0, t.pin.generation <= Len(catalogs)
  PROVE  /\ BriefsAgree(BriefKey(t))
         /\ Brief(BriefKey(t)) =
              Rendered(Catalog(t.pin).rows,
                       {j \in DOMAIN Catalog(t.pin).rows : MayRead(t, Catalog(t.pin).rows[j])})
         /\ Brief(BriefKey(t)) \subseteq ToolNames
<1>. DEFINE k == BriefKey(t)
            i == Catalog(t.pin)
            may == {n \in ToolNames : Usable(t, n) /\ (n # Search => t.pin.tools)}
<1>1. /\ Catalog(k) = i /\ Barred(k) = Barred(t.pin)
      /\ i \in Inventory /\ Publishable(i) /\ i.super \cap (ProtocolTools \cup {Search}) = {}
  BY KeyFacts, CatalogTyped
<1>2. /\ i.plugins \cap Customs(i) = {} /\ i.plugins \cap Builtins = {}
      /\ Customs(i) \cap Builtins = {} /\ i.super \cap i.plugins = {}
      /\ Known(i) \subseteq ToolNames /\ i.super \cap Builtins = {}
  BY <1>1, CatalogFacts
<1>3. /\ k.tools <=> t.pin.tools
      /\ k.search <=> t.pin.search
      /\ k.super = t.as.super /\ k.scope = t.as.scope
      /\ k.tools => k.suppressed = t.as.suppressed
  BY DEF BriefKey
<1>. HIDE DEF k, i
<1>4. /\ Builtins = ProtocolTools \cup {Search} /\ Search \notin ProtocolTools
      /\ ForSuperusers \subseteq ProtocolTools /\ Known(i) = i.plugins \cup Customs(i) \cup Builtins
  BY OfferAssumption DEF Builtins, Known
<1>5. ProviderListed(k) = may
  <2>1. ASSUME NEW n \in ProviderListed(k) PROVE n \in may
    <3>1. /\ n \in (IF k.tools THEN i.plugins \cup Customs(i) \cup Protocols(k) ELSE {}) \cup Finder(k)
          /\ n \notin Barred(k) /\ Permits(k, n)
      BY <1>1, <2>1 DEF ProviderListed
    <3>2. n \in Known(i)
      BY <3>1, <1>4 DEF Protocols, Finder
    <3>3. n \in i.super \cup ForSuperusers => t.as.super
      BY <3>1, <1>1, <1>3 DEF Permits
    <3>4. n = Search => t.pin.search
      BY <3>1, <1>2, <1>3, <1>4 DEF Protocols, Finder
    <3>5. n \in ProtocolTools => n \in t.as.scope.tools \ t.as.suppressed
      BY <3>1, <1>2, <1>3, <1>4 DEF Protocols, Finder, Available
    <3>6. n # Search => t.pin.tools
      BY <3>1, <1>3 DEF Finder
    <3>. QED
      BY <3>1, <3>2, <3>3, <3>4, <3>5, <3>6, <1>1, <1>2 DEF Usable, i
  <2>2. ASSUME NEW n \in may PROVE n \in ProviderListed(k)
    <3>1. /\ n \in Known(i) \ Barred(k) /\ (n \in i.super \cup ForSuperusers => t.as.super)
          /\ (n = Search => t.pin.search)
          /\ (n \in ProtocolTools => n \in t.as.scope.tools \ t.as.suppressed)
          /\ (n # Search => t.pin.tools)
      BY <1>1, <2>2 DEF Usable, i
    <3>2. Permits(k, n)
      BY <3>1, <1>1, <1>3 DEF Permits
    <3>3. n \in ProtocolTools => n \in Protocols(k)
      BY <3>1, <1>3, <1>4 DEF Protocols, Available
    <3>4. n = Search => n \in Finder(k)
      BY <3>1, <1>3 DEF Finder
    <3>. QED
      BY <3>1, <3>2, <3>3, <3>4, <1>1, <1>3, <1>4 DEF ProviderListed
  <2>. QED
    BY <2>1, <2>2
<1>6. LegacyListed(k) = ProviderListed(k)
  <2>1. \A n \in i.plugins \cup Protocols(k) \cup Finder(k) : Permits(k, n)
    BY <1>1, <1>2, <1>4 DEF Permits, Protocols, Finder, Available
  <2>. QED
    BY <2>1, <1>1 DEF LegacyListed, ProviderListed
<1>7. LegacyBrief(k) = ProviderBrief(k)
  BY <1>6 DEF LegacyBrief, ProviderBrief
<1>9. \A j \in DOMAIN i.rows : i.rows[j].of \in ToolNames
  BY <1>1, RowsName
<1>10. Readable(k, ProviderListed(k)) = {j \in DOMAIN i.rows : MayRead(t, i.rows[j])}
  <2>1. ASSUME NEW j \in DOMAIN i.rows
        PROVE  i.rows[j].of \in ProviderListed(k) /\ (i.rows[j].hidden => k.super) <=> MayRead(t, i.rows[j])
    BY <1>3, <1>5, <1>9, <2>1 DEF MayRead
  <2>. QED
    BY <1>1, <2>1 DEF Readable
<1>11. ProviderBrief(k) = Rendered(i.rows, {j \in DOMAIN i.rows : MayRead(t, i.rows[j])})
  BY <1>1, <1>10 DEF ProviderBrief
<1>12. ProviderBrief(k) \subseteq ToolNames
  BY <1>1, <1>11, RenderedTools
<1>. QED
  BY <1>7, <1>11, <1>12 DEF BriefsAgree, Brief, k, i

\* What a request is offered is what it may use, with all that was asked for and
\* all that this needs.
LEMMA SchemaMeans ==
  ASSUME CatalogsRead, NEW t \in Turn0, t.pin.generation <= Len(catalogs),
         NEW S, S = Schema(SchemaKey(t))
  PROVE  /\ S \in SUBSET ToolNames
         /\ S # {} => t.pin.tools /\ t.able
         /\ \A n \in S : Usable(t, n)
         /\ t.pin.tools /\ t.able =>
              \A n \in t.selected \cup t.pin.residents \cup
                       UNION {Catalog(t.pin).needs[m] \ Builtins : m \in S} :
                Usable(t, n) => n \in S
<1>. DEFINE k == SchemaKey(t)
            i == Catalog(t.pin)
<1>1. /\ Catalog(k) = i /\ Barred(k) = Barred(t.pin)
      /\ i \in Inventory /\ Publishable(i) /\ i.super \cap (ProtocolTools \cup {Search}) = {}
  BY KeyFacts, CatalogTyped
<1>2. /\ i.plugins \cap Customs(i) = {} /\ i.plugins \cap Builtins = {}
      /\ Customs(i) \cap Builtins = {} /\ i.super \cap i.plugins = {}
      /\ Known(i) \subseteq ToolNames /\ i.super \cap Builtins = {}
  BY <1>1, CatalogFacts
<1>3. /\ k.tools <=> t.pin.tools /\ t.able
      /\ k.search <=> t.pin.tools /\ t.able /\ t.pin.search
      /\ k.super = t.as.super /\ k.scope = t.as.scope
      /\ k.tools => k.suppressed = t.as.suppressed
      /\ k.selected = t.selected \cup t.pin.residents
      /\ k.cutover = t.pin.cutover
  BY DEF SchemaKey
<1>. HIDE DEF k, i
<1>4. /\ Builtins = ProtocolTools \cup {Search} /\ Search \notin ProtocolTools
      /\ ForSuperusers \subseteq ProtocolTools /\ Known(i) = i.plugins \cup Customs(i) \cup Builtins
  BY OfferAssumption DEF Builtins, Known
<1>5. ASSUME NEW n \in i.plugins \cup Customs(i) \cup Protocols(k) \cup Finder(k),
             n \notin Barred(k), n \in Customs(i) => Permits(k, n), k.tools
      PROVE  Usable(t, n) /\ n \in ToolNames
  <2>1. n \in Known(i)
    BY <1>4 DEF Protocols, Finder
  <2>2. n \in i.super \cup ForSuperusers => t.as.super
    BY <1>5, <1>1, <1>2, <1>3, <1>4 DEF Permits, Protocols, Finder, Available
  <2>3. n = Search => t.pin.search
    BY <1>5, <1>2, <1>3, <1>4 DEF Protocols, Finder
  <2>4. n \in ProtocolTools => n \in t.as.scope.tools \ t.as.suppressed
    BY <1>5, <1>2, <1>3, <1>4 DEF Protocols, Finder, Available
  <2>. QED
    BY <1>5, <2>1, <2>2, <2>3, <2>4, <1>1, <1>2 DEF Usable, i
<1>6. ASSUME NEW n, Usable(t, n), k.tools
      PROVE  /\ n \notin Barred(k) /\ Permits(k, n) /\ n \in ToolNames /\ n \in Known(i)
             /\ n \in i.plugins \cup Customs(i) \cup Protocols(k) \cup Finder(k)
             /\ n = Search => n \in Finder(k)
  <2>1. /\ n \in Known(i) \ Barred(k) /\ (n \in i.super \cup ForSuperusers => t.as.super)
        /\ (n = Search => t.pin.search)
        /\ (n \in ProtocolTools => n \in t.as.scope.tools \ t.as.suppressed)
    BY <1>1, <1>6 DEF Usable, i
  <2>2. Permits(k, n)
    BY <2>1, <1>1, <1>3 DEF Permits
  <2>3. n \in ProtocolTools => n \in Protocols(k)
    BY <1>6, <2>1, <1>3, <1>4 DEF Protocols, Available
  <2>4. n = Search => n \in Finder(k)
    BY <1>6, <2>1, <1>3 DEF Finder
  <2>. QED
    BY <2>1, <2>2, <2>3, <2>4, <1>2, <1>4
<1>7. CASE ~k.tools
  <2>1. S = {}
    BY <1>7 DEF Schema, LegacyOf, k
  <2>. QED
    BY <2>1, <1>7, <1>3
<1>8. CASE k.tools /\ k.cutover
  <2>. DEFINE C == ProviderClosure(k)
  <2>1. S = ProviderOf(k, C)
    BY <1>8 DEF Schema, k
  <2>2. \A n \in k.selected : n \notin Barred(k) => n \in C
    BY ClosureSeeds DEF ProviderClosure
  <2>3. ASSUME NEW m \in C, m \in Known(i), NEW n \in i.needs[m], n \notin Barred(k), n \in ToolNames
        PROVE  n \in C
    <3>1. m \in DOMAIN ProviderNext(k) /\ n \in ProviderNext(k)[m]
      BY <2>3, <1>1 DEF ProviderNext
    <3>. QED
      BY <2>3, <3>1, ClosureClosed DEF ProviderClosure
  <2>. HIDE DEF C
  <2>4. S = {n \in C \cap (i.plugins \cup Customs(i) \cup Protocols(k) \cup Finder(k)) :
               n \notin Barred(k) /\ Permits(k, n)}
    BY <2>1, <1>1 DEF ProviderOf
  <2>5. \A n \in S : n \in C /\ n \in ToolNames /\ Usable(t, n) /\ n \in Known(i)
    BY <2>4, <1>5, <1>8, <1>1 DEF Usable, i
  <2>6. ASSUME NEW n \in C, Usable(t, n) PROVE n \in S
    BY <2>6, <2>4, <1>6, <1>8
  <2>7. ASSUME NEW n \in k.selected, Usable(t, n) PROVE n \in S
    BY <2>7, <2>6, <2>2, <1>6, <1>8
  <2>8. ASSUME NEW m \in S, NEW n \in i.needs[m] \ Builtins, Usable(t, n) PROVE n \in S
    BY <2>8, <2>6, <2>5, <2>3, <1>6, <1>8
  <2>. QED
    BY <2>5, <2>7, <2>8, <1>3, <1>8 DEF i
<1>9. CASE k.tools /\ ~k.cutover
  <2>. DEFINE C == LegacyClosure(k)
  <2>1. S = LegacyOf(k, C)
    BY <1>9 DEF Schema, k
  <2>2. \A n \in k.selected : n \notin Barred(k) => n \in C
    BY ClosureSeeds DEF LegacyClosure
  <2>3. ASSUME NEW m \in C, m \in Known(i), NEW n \in i.needs[m], n \notin Barred(k), n \in ToolNames,
               n \in i.plugins \cup Customs(i)
        PROVE  n \in C
    <3>1. m \in DOMAIN LegacyNext(k) /\ n \in LegacyNext(k)[m]
      BY <2>3, <1>1 DEF LegacyNext, LegacyNeeds
    <3>. QED
      BY <2>3, <3>1, ClosureClosed DEF LegacyClosure
  <2>. HIDE DEF C
  <2>4. S = ((i.plugins \cap (C \ {Search}))
             \cup {n \in Customs(i) \cap (C \ {Search}) : Permits(k, n)}
             \cup (Protocols(k) \cap (C \ {Search})) \cup (Finder(k) \cap C)) \ Barred(k)
    BY <2>1, <1>1, <1>9 DEF LegacyOf
  <2>9. \A n \in S : /\ n \in C /\ n \notin Barred(k)
                     /\ n \in i.plugins \cup Customs(i) \cup Protocols(k) \cup Finder(k)
                     /\ n \in Customs(i) => Permits(k, n)
    BY <2>4, <1>2, <1>4 DEF Protocols, Finder
  <2>5. \A n \in S : n \in C /\ n \in ToolNames /\ Usable(t, n) /\ n \in Known(i)
    BY <2>9, <1>5, <1>9, <1>1 DEF Usable, i
  <2>6. ASSUME NEW n \in C, Usable(t, n) PROVE n \in S
    BY <2>6, <2>4, <1>6, <1>9, <1>2, <1>4
  <2>7. ASSUME NEW n \in k.selected, Usable(t, n) PROVE n \in S
    BY <2>7, <2>6, <2>2, <1>6, <1>9
  <2>8. ASSUME NEW m \in S, NEW n \in i.needs[m] \ Builtins, Usable(t, n) PROVE n \in S
    BY <2>8, <2>6, <2>5, <2>3, <1>4, <1>6, <1>9
  <2>. QED
    BY <2>5, <2>7, <2>8, <1>3, <1>9 DEF i
<1>. QED
  BY <1>7, <1>8, <1>9, <1>3 DEF SchemaKey, k

-----------------------------------------------------------------------------
(* The caches.                                                               *)

LEMMA MovedTyped ==
  ASSUME NEW R, NEW c \in Seq(R), NEW key, NEW view, [key |-> key, view |-> view] \in R,
         Len(c) <= MaxRecords
  PROVE  Touched(c, key, view) \in Seq(R) /\ Len(Touched(c, key, view)) <= MaxRecords
<1>. DEFINE at == {i \in 1 .. Len(c) : c[i].key = key}
            x == [key |-> key, view |-> view]
            rest == IF at = {} THEN c ELSE RemoveAt(c, CHOOSE i \in at : TRUE)
<1>1. Len(c) \in Nat /\ MaxRecords \in Nat \ {0}
  BY LenProperties, OfferAssumption
<1>2. rest \in Seq(R) /\ Len(rest) <= Len(c)
  <2>1. CASE at = {}
    BY <2>1, <1>1
  <2>2. CASE at # {}
    <3>1. PICK i \in at : i = CHOOSE j \in at : TRUE
      BY <2>2
    <3>2. i \in 1 .. Len(c) /\ rest = RemoveAt(c, i)
      BY <2>2, <3>1
    <3>. HIDE DEF rest
    <3>3. /\ SubSeq(c, 1, i - 1) \in Seq(R) /\ Len(SubSeq(c, 1, i - 1)) = i - 1
          /\ SubSeq(c, i + 1, Len(c)) \in Seq(R) /\ Len(SubSeq(c, i + 1, Len(c))) = Len(c) - i
      <4>1. \A j \in 1 .. Len(c) : c[j] \in R
        BY ElementOfSeq
      <4>2. /\ i - 1 \in Int /\ i + 1 \in Int /\ Len(c) \in Int /\ i \in 1 .. Len(c)
            /\ \A j \in 1 .. i - 1 : c[j] \in R
            /\ \A j \in i + 1 .. Len(c) : c[j] \in R
        BY <1>1, <3>2, <4>1
      <4>3. SubSeq(c, 1, i - 1) \in Seq(R) /\ Len(SubSeq(c, 1, i - 1)) = IF 1 <= i - 1 THEN (i - 1) - 1 + 1 ELSE 0
        BY <4>2, SubSeqProperties
      <4>4. /\ SubSeq(c, i + 1, Len(c)) \in Seq(R)
            /\ Len(SubSeq(c, i + 1, Len(c))) = IF i + 1 <= Len(c) THEN Len(c) - (i + 1) + 1 ELSE 0
        BY <4>2, SubSeqProperties
      <4>5. /\ (IF 1 <= i - 1 THEN (i - 1) - 1 + 1 ELSE 0) = i - 1
            /\ (IF i + 1 <= Len(c) THEN Len(c) - (i + 1) + 1 ELSE 0) = Len(c) - i
        BY <4>2
      <4>. QED
        BY <4>3, <4>4, <4>5
    <3>. DEFINE before == SubSeq(c, 1, i - 1)
                after == SubSeq(c, i + 1, Len(c))
    <3>4. rest = before \o after
      BY <3>2 DEF RemoveAt
    <3>7. before \in Seq(R) /\ after \in Seq(R) /\ Len(before) = i - 1 /\ Len(after) = Len(c) - i
      BY <3>3
    <3>. HIDE DEF before, after
    <3>5. before \o after \in Seq(R) /\ Len(before \o after) = Len(before) + Len(after)
      BY <3>7, ConcatProperties
    <3>6. (i - 1) + (Len(c) - i) <= Len(c)
      BY <1>1, <3>2
    <3>. QED
      BY <3>4, <3>5, <3>6, <3>7
  <2>. QED
    BY <2>1, <2>2
<1>. HIDE DEF rest, x
<1>3. Moved(c, key, view) = Append(rest, x)
  BY DEF Moved, rest, x
<1>4. x \in R
  BY DEF x
<1>5. Append(rest, x) \in Seq(R) /\ Len(Append(rest, x)) = Len(rest) + 1 /\ Append(rest, x) # <<>>
  BY <1>2, <1>4, AppendProperties
<1>6. Tail(Append(rest, x)) \in Seq(R) /\ Len(Tail(Append(rest, x))) = Len(rest)
  <2>1. Len(rest) \in Nat
    BY <1>2, LenProperties
  <2>. QED
    BY <2>1, <1>5, HeadTailProperties
<1>. QED
  BY <1>1, <1>2, <1>3, <1>5, <1>6, LenProperties DEF Touched

-----------------------------------------------------------------------------
(* What was true of a snapshot stays true of it.                             *)

\* Catalogs are only added.
Grown == Len(catalogs) <= Len(catalogs') /\ \A g \in 1 .. Len(catalogs) : catalogs'[g] = catalogs[g]

LEMMA RecordsKept ==
  ASSUME CatalogsRead, Grown, Len(catalogs') \in Nat, NEW g \in Nat \ {0}
  PROVE  /\ TrueBriefs(g) \subseteq TrueBriefs(g)' /\ TrueSchemas(g) \subseteq TrueSchemas(g)'
         /\ \A k : k.generation = g /\ g <= Len(catalogs) =>
              /\ Catalog(k)' = Catalog(k)
              /\ Brief(k)' = Brief(k) /\ Schema(k)' = Schema(k)
<1>1. Len(catalogs) \in Nat
  BY LenProperties DEF CatalogsRead
<1>2. ASSUME NEW k, k.generation = g, g <= Len(catalogs)
      PROVE  /\ Catalog(k)' = Catalog(k)
             /\ Brief(k)' = Brief(k) /\ Schema(k)' = Schema(k)
  <2>1. Catalog(k)' = Catalog(k)
    BY <1>1, <1>2 DEF Grown, Catalog
  <2>. QED
    BY <2>1, CatalogKept
<1>3. g <= Len(catalogs) => g <= Len(catalogs')
  BY <1>1 DEF Grown
<1>4. TrueBriefs(g) \subseteq TrueBriefs(g)'
  BY <1>2, <1>3 DEF TrueBriefs
<1>5. TrueSchemas(g) \subseteq TrueSchemas(g)'
  BY <1>2, <1>3 DEF TrueSchemas
<1>. QED
  BY <1>2, <1>4, <1>5

LEMMA CachesKept ==
  ASSUME CatalogsRead, CachesTrue, Grown, Len(catalogs') \in Nat, UNCHANGED <<briefs, schemas>>
  PROVE  CachesTrue'
<1>1. ASSUME NEW g \in 1 .. MaxCatalogs
      PROVE  briefs[g] \in Seq(TrueBriefs(g)') /\ schemas[g] \in Seq(TrueSchemas(g)')
  <2>1. /\ g \in Nat \ {0} /\ briefs[g] \in Seq(TrueBriefs(g)) /\ schemas[g] \in Seq(TrueSchemas(g))
    BY DEF CachesTrue
  <2>2. TrueBriefs(g) \subseteq TrueBriefs(g)' /\ TrueSchemas(g) \subseteq TrueSchemas(g)'
    BY <2>1, RecordsKept
  <2>. QED
    BY <2>1, <2>2, SeqMonotonic
<1>. QED
  BY <1>1 DEF CachesTrue

LEMMA TurnKept ==
  ASSUME CatalogsRead, Grown, Len(catalogs') \in Nat, NEW t, TurnTrue(t)
  PROVE  TurnTrue(t)'
<1>1. t \in Turn0 /\ t.pin.generation \in Nat \ {0} /\ t.pin.generation <= Len(catalogs)
  BY DEF TurnTrue, Turn0, Pin
<1>2. Catalog(t.pin)' = Catalog(t.pin)
  BY <1>1, RecordsKept
<1>3. /\ Brief(BriefKey(t))' = Brief(BriefKey(t)) /\ Schema(SchemaKey(t))' = Schema(SchemaKey(t))
  <2>1. BriefKey(t).generation = t.pin.generation /\ SchemaKey(t).generation = t.pin.generation
    BY DEF BriefKey, SchemaKey
  <2>. QED
    BY <1>1, <2>1, RecordsKept
<1>4. \A n : Usable(t, n)' <=> Usable(t, n)
  BY <1>2 DEF Usable
<1>5. \A x \in t.record : x.key.generation \in Nat \ {0}
  BY <1>1 DEF Turn0, SchemaKeys
<1>6. \A x \in t.record : x \in TrueSchemas(x.key.generation)'
  BY <1>5, RecordsKept DEF TurnTrue
<1>7. Len(catalogs) \in Nat
  BY LenProperties DEF CatalogsRead
<1>8. t.pin.generation <= Len(catalogs')
  BY <1>1, <1>7 DEF Grown
<1>. QED
  BY <1>1, <1>2, <1>3, <1>4, <1>6, <1>8 DEF TurnTrue

-----------------------------------------------------------------------------
(* The steps of the administration.                                          *)

OfferAdmin ==
  \/ SetUseTools \/ SetWebSearch \/ DoBar \/ NewDay
  \/ \E s \in DOMAIN Selectors : AskBar(s) \/ Unbar(s)
  \/ \E v \in DOMAIN Inventories : Reload(v) \/ ReloadFails(v)

LEMMA PinChanges ==
  ASSUME NEW p \in Pin
  PROVE  /\ [p EXCEPT !.tools = ~@] \in Pin /\ [p EXCEPT !.search = ~@] \in Pin
         /\ [p EXCEPT !.tools = ~@].generation = p.generation
         /\ [p EXCEPT !.search = ~@].generation = p.generation
         /\ \A B \in SUBSET DOMAIN Selectors :
              /\ [p EXCEPT !.barred = B] \in Pin /\ [p EXCEPT !.barred = B].generation = p.generation
         /\ \A g \in 1 .. MaxCatalogs :
              /\ [p EXCEPT !.generation = g] \in Pin /\ [p EXCEPT !.generation = g].generation = g
BY DEF Pin

LEMMA AdminReads ==
  ASSUME CatalogsRead, OfferAdmin
  PROVE  CatalogsRead' /\ Grown /\ Len(catalogs') \in Nat
<1>. DEFINE Commands == {<<>>} \cup ({"before", "check", "after"} \X DOMAIN Selectors)
<1>0. /\ Len(catalogs) \in Nat /\ catalogs \in Seq(DOMAIN Inventories)
      /\ current \in Pin /\ current.generation = Len(catalogs)
      /\ patches \in 0 .. MaxPatches /\ verified \subseteq 1 .. MaxCatalogs
      /\ MaxPatches \in Nat /\ MaxCatalogs \in Nat
      /\ command \in Commands
  BY LenProperties, OfferAssumption DEF CatalogsRead
<1>1. ASSUME NEW new \in Pin, new.generation = current.generation, Patch(new)
      PROVE  /\ current' \in Pin /\ current'.generation = Len(catalogs)
             /\ patches' \in 0 .. MaxPatches
  BY <1>0, <1>1 DEF Patch
<1>2. ASSUME UNCHANGED <<catalogs, verified>>, current' \in Pin, current'.generation = Len(catalogs),
             patches' \in 0 .. MaxPatches, command' \in Commands
      PROVE  CatalogsRead' /\ Grown /\ Len(catalogs') \in Nat
  BY <1>0, <1>2 DEF CatalogsRead, Grown
<1>3. ASSUME SetUseTools \/ SetWebSearch
      PROVE  CatalogsRead' /\ Grown /\ Len(catalogs') \in Nat
  <2>1. /\ UNCHANGED <<catalogs, verified, command>>
        /\ Patch([current EXCEPT !.tools = ~@]) \/ Patch([current EXCEPT !.search = ~@])
    BY <1>3 DEF SetUseTools, SetWebSearch
  <2>. QED
    BY <1>0, <1>1, <1>2, <2>1, PinChanges
<1>4. ASSUME command # <<>> PROVE command[2] \in DOMAIN Selectors
  BY <1>0, <1>4
<1>5. ASSUME DoBar
      PROVE  CatalogsRead' /\ Grown /\ Len(catalogs') \in Nat
  <2>1. command[2] \in DOMAIN Selectors
    BY <1>5, <1>4 DEF DoBar, Stage
  <2>2. /\ UNCHANGED <<catalogs, verified>>
        /\ \/ /\ Patch([current EXCEPT !.barred = @ \cup {command[2]}])
              /\ command' = <<"after", command[2]>>
           \/ command' = <<>> /\ UNCHANGED <<current, patches>>
    BY <1>5 DEF DoBar
  <2>3. current.barred \cup {command[2]} \in SUBSET DOMAIN Selectors
    BY <1>0, <2>1 DEF Pin
  <2>4. /\ [current EXCEPT !.barred = current.barred \cup {command[2]}] \in Pin
        /\ [current EXCEPT !.barred = current.barred \cup {command[2]}].generation = current.generation
    BY <1>0, <2>3, PinChanges
  <2>5. <<>> \in Commands /\ <<"after", command[2]>> \in Commands
    BY <2>1
  <2>. HIDE DEF Commands
  <2>6. CASE command' = <<>> /\ UNCHANGED <<current, patches>>
    BY <1>0, <1>2, <2>2, <2>5, <2>6
  <2>7. CASE Patch([current EXCEPT !.barred = @ \cup {command[2]}]) /\ command' = <<"after", command[2]>>
    <3>1. Patch([current EXCEPT !.barred = current.barred \cup {command[2]}])
      BY <2>7
    <3>2. current' \in Pin /\ current'.generation = Len(catalogs) /\ patches' \in 0 .. MaxPatches
      BY <1>1, <2>4, <3>1
    <3>. QED
      BY <1>2, <2>2, <2>5, <2>7, <3>2
  <2>. QED
    BY <2>2, <2>6, <2>7
<1>6. ASSUME NEW s \in DOMAIN Selectors, AskBar(s) \/ Unbar(s)
      PROVE  CatalogsRead' /\ Grown /\ Len(catalogs') \in Nat
  <2>1. CASE AskBar(s)
    <3>1. UNCHANGED <<catalogs, verified, current, patches>> /\ command' = <<"before", s>>
      BY <2>1 DEF AskBar
    <3>. QED
      BY <1>0, <1>2, <3>1
  <2>2. CASE Unbar(s)
    <3>1. /\ UNCHANGED <<catalogs, verified>> /\ command' = <<"after", s>>
          /\ Patch([current EXCEPT !.barred = @ \ {s}])
      BY <2>2 DEF Unbar
    <3>2. current.barred \ {s} \in SUBSET DOMAIN Selectors
      BY <1>0 DEF Pin
    <3>3. /\ [current EXCEPT !.barred = current.barred \ {s}] \in Pin
          /\ [current EXCEPT !.barred = current.barred \ {s}].generation = current.generation
      BY <1>0, <3>2, PinChanges
    <3>. QED
      BY <1>0, <1>1, <1>2, <3>1, <3>3
  <2>. QED
    BY <1>6, <2>1, <2>2
<1>7. ASSUME NEW v \in DOMAIN Inventories, Reload(v)
      PROVE  CatalogsRead' /\ Grown /\ Len(catalogs') \in Nat
  <2>1. /\ Len(catalogs) < MaxCatalogs /\ Publishable(Inventories[v])
        /\ catalogs' = Append(catalogs, v)
        /\ current' = [current EXCEPT !.generation = @ + 1]
        /\ command' \in Commands /\ UNCHANGED <<patches, verified>>
    <3>1. Stage = "before" => command[2] \in DOMAIN Selectors
      BY <1>4 DEF Stage
    <3>. QED
      BY <1>7, <3>1 DEF Reload
  <2>2. /\ catalogs' \in Seq(DOMAIN Inventories) /\ Len(catalogs') = Len(catalogs) + 1
        /\ \A g \in 1 .. Len(catalogs) : catalogs'[g] = catalogs[g]
        /\ catalogs'[Len(catalogs) + 1] = v
    BY <1>0, <2>1, AppendProperties
  <2>3. current' \in Pin /\ current'.generation = Len(catalogs) + 1
    <3>1. Len(catalogs) + 1 \in 1 .. MaxCatalogs
      BY <1>0, <2>1
    <3>2. current' = [current EXCEPT !.generation = Len(catalogs) + 1]
      BY <1>0, <2>1
    <3>. QED
      BY <1>0, <3>1, <3>2, PinChanges
  <2>4. \A g \in 1 .. Len(catalogs) + 1 : Publishable(Inventories[catalogs'[g]])
    <3>1. \A g \in 1 .. Len(catalogs) + 1 : g \in 1 .. Len(catalogs) \/ g = Len(catalogs) + 1
      BY <1>0
    <3>. QED
      BY <2>1, <2>2, <3>1 DEF CatalogsRead
  <2>. QED
    BY <1>0, <2>1, <2>2, <2>3, <2>4 DEF CatalogsRead, Grown
<1>8. ASSUME NEW v \in DOMAIN Inventories, ReloadFails(v)
      PROVE  CatalogsRead' /\ Grown /\ Len(catalogs') \in Nat
  BY <1>0, <1>2, <1>8 DEF ReloadFails
<1>9. ASSUME NewDay
      PROVE  CatalogsRead' /\ Grown /\ Len(catalogs') \in Nat
  BY <1>0, <1>9 DEF NewDay, CatalogsRead, Grown
<1>. QED
  BY <1>3, <1>5, <1>6, <1>7, <1>8, <1>9 DEF OfferAdmin

LEMMA AdminStep ==
  ASSUME OfferInv, OfferAdmin
  PROVE  OfferInv'
<1>1. UNCHANGED <<briefs, schemas, turns>>
  BY DEF OfferAdmin, SetUseTools, SetWebSearch, DoBar, NewDay, AskBar, Unbar, Reload, ReloadFails
<1>2. CatalogsRead' /\ Grown /\ Len(catalogs') \in Nat
  BY AdminReads DEF OfferInv
<1>3. CachesTrue'
  BY <1>1, <1>2, CachesKept DEF OfferInv
<1>4. \A r \in Asks : TurnTrue(turns[r])'
  <2>. TAKE r \in Asks
  <2>1. \E t : t = turns[r] /\ TurnTrue(t)
    BY DEF OfferInv
  <2>2. PICK t : t = turns[r] /\ TurnTrue(t)
    BY <2>1
  <2>3. TurnTrue(t)'
    BY <1>2, <2>2, TurnKept DEF OfferInv
  <2>4. t = turns'[r]
    BY <1>1, <2>2
  <2>. QED
    BY <2>3, <2>4
<1>. QED
  BY <1>1, <1>2, <1>3, <1>4 DEF OfferInv

-----------------------------------------------------------------------------
(* The steps of a request.                                                   *)

\* Keys and rights do not depend on what a request has been told.
LEMMA SameRequest ==
  ASSUME NEW t, NEW u, u.pin = t.pin, u.as = t.as
  PROVE  /\ BriefKey(u) = BriefKey(t)
         /\ \A n : Usable(u, n) <=> Usable(t, n)
         /\ Catalog(u.pin) = Catalog(t.pin)
         /\ u.selected = t.selected /\ u.able = t.able => SchemaKey(u) = SchemaKey(t)
BY DEF BriefKey, SchemaKey, Usable

\* A turn that has not called anything, by its fields.
LEMMA QuietTurn ==
  ASSUME NEW u \in Turn0, u.pin.generation <= Len(catalogs), u.ran = {}, u.waits = {},
         u.at = "reading" => u.shown = Brief(BriefKey(u)),
         u.at = "bound" => u.offered = Schema(SchemaKey(u)),
         \A x \in u.record : x \in TrueSchemas(x.key.generation)
  PROVE  TurnTrue(u)
BY DEF TurnTrue

LEMMA EndedTrue ==
  ASSUME CatalogsRead
  PROVE  TurnTrue(Ended) /\ TurnTrue(NoRequest)
<1>1. (CHOOSE p \in Profiles : TRUE) \in Profiles
  BY OfferAssumption
<1>2. Unbound \in Pin /\ Unbound.generation = 1
  BY OfferAssumption DEF Unbound, Pin
<1>3. NoRequest \in Turn0
  BY <1>1, <1>2 DEF NoRequest, Turn0, OfferStages
<1>4. /\ NoRequest.pin = Unbound /\ NoRequest.ran = {} /\ NoRequest.waits = {} /\ NoRequest.record = {}
      /\ NoRequest.at = "idle"
  BY DEF NoRequest
<1>5. /\ Ended \in Turn0 /\ Ended.pin = Unbound /\ Ended.ran = {} /\ Ended.waits = {} /\ Ended.record = {}
      /\ Ended.at = "ended"
  BY <1>1, <1>2 DEF Ended, NoRequest, Turn0, OfferStages
<1>6. 1 <= Len(catalogs)
  BY DEF CatalogsRead
<1>. QED
  BY <1>2, <1>3, <1>4, <1>5, <1>6, QuietTurn

\* What a request becomes, when it does not touch a cache.
RequestMoves(r) ==
  \E new : TurnTrue(new) /\ turns' = [turns EXCEPT ![r] = new]

LEMMA TurnFields ==
  ASSUME NEW t, TurnTrue(t)
  PROVE  /\ t \in Turn0 /\ t.pin \in Pin /\ t.pin.generation <= Len(catalogs) /\ t.as \in Profiles
         /\ t.selected \subseteq Names /\ t.able \in BOOLEAN
         /\ t.at \notin {"called", "confirmed"} => t.ran = {} /\ t.waits = {}
         /\ t.shown \subseteq ToolNames /\ t.offered \subseteq ToolNames
         /\ t.ran \subseteq ToolNames /\ t.waits \subseteq ToolNames
         /\ \A x \in t.record : x \in TrueSchemas(x.key.generation)
BY DEF TurnTrue, Turn0

LEMMA BeginTrue ==
  ASSUME CatalogsRead, NEW t, TurnTrue(t), t.at = "idle", NEW p \in Profiles
  PROVE  TurnTrue([t EXCEPT !.at = "asked", !.as = p, !.pin = current])
<1>. DEFINE u == [t EXCEPT !.at = "asked", !.as = p, !.pin = current]
<1>0. t \in Turn0 /\ current \in Pin
  BY TurnFields DEF CatalogsRead
<1>1. u \in Turn0
  BY <1>0 DEF Turn0, OfferStages
<1>2. u.at = "asked" /\ u.pin = current /\ u.ran = {} /\ u.waits = {} /\ u.record = t.record
  BY TurnFields DEF Turn0
<1>3. current.generation <= Len(catalogs)
  BY LenProperties DEF CatalogsRead
<1>. HIDE DEF u
<1>4. TurnTrue(u)
  BY <1>1, <1>2, <1>3, QuietTurn, TurnFields
<1>. QED
  BY <1>4 DEF u

\* Going on to "selected", whatever was selected.
LEMMA SelectedTrue ==
  ASSUME CatalogsRead, NEW t, TurnTrue(t), t.at \notin {"called", "confirmed"},
         NEW u \in Turn0, u.at \in {"selected", "asked", "prepared"}, u.pin = t.pin, u.ran = t.ran,
         u.waits = t.waits, u.record = t.record
  PROVE  TurnTrue(u)
BY TurnFields, QuietTurn

LEMMA SelectsTrue ==
  ASSUME CatalogsRead, NEW t, TurnTrue(t), t.at \notin {"called", "confirmed"}
  PROVE  /\ TurnTrue([t EXCEPT !.at = "selected"])
         /\ TurnTrue([t EXCEPT !.at = "prepared"])
         /\ \A p \in Catalog(t.pin).plugins : TurnTrue([t EXCEPT !.at = "selected", !.selected = {p}])
         /\ \A c \in Selections :
              TurnTrue([t EXCEPT !.at = "selected", !.selected = c.names, !.able = c.able, !.shown = {}])
<1>1. TurnTrue([t EXCEPT !.at = "selected"])
  <2>. DEFINE u == [t EXCEPT !.at = "selected"]
  <2>1. /\ u \in Turn0 /\ u.at = "selected" /\ u.pin = t.pin /\ u.ran = t.ran
        /\ u.waits = t.waits /\ u.record = t.record
    BY TurnFields DEF Turn0, OfferStages
  <2>. HIDE DEF u
  <2>2. TurnTrue(u)
    BY <2>1, SelectedTrue
  <2>. QED
    BY <2>2 DEF u
<1>2. TurnTrue([t EXCEPT !.at = "prepared"])
  <2>. DEFINE u == [t EXCEPT !.at = "prepared"]
  <2>1. /\ u \in Turn0 /\ u.at = "prepared" /\ u.pin = t.pin /\ u.ran = t.ran
        /\ u.waits = t.waits /\ u.record = t.record
    BY TurnFields DEF Turn0, OfferStages
  <2>. HIDE DEF u
  <2>2. TurnTrue(u)
    BY <2>1, SelectedTrue
  <2>. QED
    BY <2>2 DEF u
<1>3. ASSUME NEW p \in Catalog(t.pin).plugins
      PROVE  TurnTrue([t EXCEPT !.at = "selected", !.selected = {p}])
  <2>. DEFINE u == [t EXCEPT !.at = "selected", !.selected = {p}]
  <2>1. p \in Names
    BY TurnFields, KeyFacts, CatalogTyped DEF Inventory, Names
  <2>0. t \in Turn0
    BY TurnFields
  <2>2. /\ u \in Turn0 /\ u.at = "selected" /\ u.pin = t.pin /\ u.ran = t.ran
        /\ u.waits = t.waits /\ u.record = t.record
    BY <2>0, <2>1 DEF Turn0, OfferStages
  <2>. HIDE DEF u
  <2>3. TurnTrue(u)
    BY <2>2, SelectedTrue
  <2>. QED
    BY <2>3 DEF u
<1>4. ASSUME NEW c \in Selections
      PROVE  TurnTrue([t EXCEPT !.at = "selected", !.selected = c.names, !.able = c.able, !.shown = {}])
  <2>. DEFINE u == [t EXCEPT !.at = "selected", !.selected = c.names, !.able = c.able, !.shown = {}]
  <2>1. c.names \subseteq Names /\ c.able \in BOOLEAN
    BY OfferAssumption DEF Names
  <2>0. t \in Turn0
    BY TurnFields
  <2>2. /\ u \in Turn0 /\ u.at = "selected" /\ u.pin = t.pin /\ u.ran = t.ran
        /\ u.waits = t.waits /\ u.record = t.record
    BY <2>0, <2>1 DEF Turn0, OfferStages
  <2>. HIDE DEF u
  <2>3. TurnTrue(u)
    BY <2>2, SelectedTrue
  <2>. QED
    BY <2>3 DEF u
<1>. QED
  BY <1>1, <1>2, <1>3, <1>4

\* A tool is called, or waits for its confirmation.
LEMMA CallTrue ==
  ASSUME CatalogsRead, NEW t, TurnTrue(t), t.at = "bound", NEW n \in t.offered, NEW k,
         k = SchemaKey(t)
  PROVE  LET called == [t EXCEPT !.at = "called", !.selected = {}, !.offered = {}]
         IN  TurnTrue(IF Waits(k, n) THEN [called EXCEPT !.waits = {n}] ELSE [called EXCEPT !.ran = {n}])
<1>. DEFINE called == [t EXCEPT !.at = "called", !.selected = {}, !.offered = {}]
            u == IF Waits(k, n) THEN [called EXCEPT !.waits = {n}] ELSE [called EXCEPT !.ran = {n}]
            i == Catalog(t.pin)
<1>1. t \in Turn0 /\ t.pin.generation <= Len(catalogs) /\ t.offered = Schema(k) /\ n \in ToolNames
  BY TurnFields DEF TurnTrue
<1>2. Usable(t, n)
  BY <1>1, SchemaMeans
<1>3. t.ran = {} /\ t.waits = {} /\ \A x \in t.record : x \in TrueSchemas(x.key.generation)
  BY TurnFields
<1>4. /\ u \in Turn0 /\ u.at = "called" /\ u.pin = t.pin /\ u.as = t.as /\ u.record = t.record
      /\ u.ran = IF Waits(k, n) THEN {} ELSE {n}
      /\ u.waits = IF Waits(k, n) THEN {n} ELSE {}
  <2>1. /\ called \in Turn0 /\ called.at = "called" /\ called.pin = t.pin /\ called.as = t.as
        /\ called.record = t.record /\ called.ran = {} /\ called.waits = {}
    BY <1>1, <1>3 DEF Turn0, OfferStages
  <2>. HIDE DEF called
  <2>2. CASE Waits(k, n)
    <3>1. u = [called EXCEPT !.waits = {n}]
      BY <2>2
    <3>. HIDE DEF u
    <3>2. /\ u \in Turn0 /\ u.at = "called" /\ u.pin = t.pin /\ u.as = t.as /\ u.record = t.record
          /\ u.ran = {} /\ u.waits = {n}
      BY <3>1, <2>1, <1>1 DEF Turn0
    <3>. QED
      BY <3>2, <2>2
  <2>3. CASE ~Waits(k, n)
    <3>1. u = [called EXCEPT !.ran = {n}]
      BY <2>3
    <3>. HIDE DEF u
    <3>2. /\ u \in Turn0 /\ u.at = "called" /\ u.pin = t.pin /\ u.as = t.as /\ u.record = t.record
          /\ u.ran = {n} /\ u.waits = {}
      BY <3>1, <2>1, <1>1 DEF Turn0
    <3>. QED
      BY <3>2, <2>3
  <2>. QED
    BY <2>2, <2>3
<1>. HIDE DEF u
<1>5. n \in i.mutating \ i.plugins => Waits(k, n)
  <2>. SUFFICES ASSUME n \in i.mutating, n \notin i.plugins PROVE Waits(k, n)
    OBVIOUS
  <2>1. /\ Catalog(k) = i /\ i \in Inventory /\ Publishable(i) /\ Search \notin i.mutating
        /\ i.super \cap (ProtocolTools \cup {Search}) = {}
    BY <1>1, KeyFacts, CatalogTyped
  <2>2. Customs(i) \cap Builtins = {}
    BY <2>1, CatalogFacts
  <2>3. /\ n \in Known(i) /\ (n \in ForSuperusers => t.as.super)
        /\ n \in ProtocolTools => n \in t.as.scope.tools
    BY <1>2 DEF Usable
  <2>4. (k.super <=> t.as.super) /\ k.scope = t.as.scope
    BY DEF SchemaKey
  <2>. HIDE DEF i
  <2>5. n # Search /\ (n \in ProtocolTools \/ n \in Customs(i))
    BY <2>1, <2>3 DEF Known, Builtins
  <2>6. n \in ProtocolTools => Route(k, n) = "protocol"
    <3>1. n \in ProtocolTools => Available(k, n)
      BY <2>3, <2>4 DEF Available
    <3>2. n \in ProtocolTools => n \notin Customs(Catalog(k)) /\ n \notin Catalog(k).plugins
      BY <2>1, <2>2 DEF Builtins
    <3>. QED
      BY <2>5, <3>1, <3>2 DEF Route
  <2>7. n \notin ProtocolTools => Route(k, n) = "custom"
    BY <2>1, <2>5 DEF Route
  <2>. QED
    BY <2>1, <2>6, <2>7 DEF Waits
<1>6. \A m \in u.ran \cup u.waits : Usable(u, m)
  BY <1>2, <1>4, SameRequest
<1>7. TurnTrue(u)
  BY <1>1, <1>3, <1>4, <1>5, <1>6, SameRequest DEF TurnTrue
<1>. QED
  BY <1>7 DEF u

LEMMA ConfirmTrue ==
  ASSUME CatalogsRead, NEW t, TurnTrue(t), t.at = "called"
  PROVE  TurnTrue([t EXCEPT !.at = "confirmed", !.ran = t.waits, !.waits = {}])
<1>. DEFINE u == [t EXCEPT !.at = "confirmed", !.ran = t.waits, !.waits = {}]
<1>0. t \in Turn0
  BY TurnFields
<1>1. /\ u \in Turn0 /\ u.at = "confirmed" /\ u.pin = t.pin /\ u.as = t.as /\ u.record = t.record
      /\ u.ran = t.waits /\ u.waits = {}
  BY <1>0 DEF Turn0, OfferStages
<1>. HIDE DEF u
<1>2. \A m \in u.ran \cup u.waits : Usable(u, m)
  BY <1>1, SameRequest DEF TurnTrue
<1>3. TurnTrue(u)
  BY <1>1, <1>2, TurnFields DEF TurnTrue
<1>. QED
  BY <1>3 DEF u

LEMMA ReadTrue ==
  ASSUME CatalogsRead, CachesTrue, NEW t, TurnTrue(t), t.at = "asked", NEW k, k = BriefKey(t),
         NEW view, view = Resolved(briefs[k.generation], k, Brief(k))
  PROVE  /\ k.generation \in 1 .. MaxCatalogs
         /\ Touched(briefs[k.generation], k, view) \in Seq(TrueBriefs(k.generation))
         /\ Len(Touched(briefs[k.generation], k, view)) <= MaxRecords
         /\ TurnTrue([t EXCEPT !.at = "reading", !.shown = view])
<1>. DEFINE g == k.generation
            R == TrueBriefs(g)
            u == [t EXCEPT !.at = "reading", !.shown = view]
<1>1. /\ k \in BriefKeys /\ g = t.pin.generation /\ g \in 1 .. MaxCatalogs /\ g <= Len(catalogs)
      /\ t \in Turn0
  BY TurnFields, KeyFacts
<1>2. Brief(k) \subseteq ToolNames
  BY <1>1, BriefMeans, TurnFields
<1>3. briefs[g] \in Seq(R) /\ Len(briefs[g]) <= MaxRecords
  BY <1>1 DEF CachesTrue
<1>4. \A x \in R : x.key = k => x.view = Brief(k)
  BY DEF TrueBriefs
<1>5. view = Brief(k)
  <2>1. ASSUME NEW i \in 1 .. Len(briefs[g]), briefs[g][i].key = k PROVE briefs[g][i].view = Brief(k)
    BY <1>3, <1>4, <2>1, ElementOfSeq
  <2>2. \A v \in Stored(briefs[g], k) : v = Brief(k)
    BY <2>1 DEF Stored
  <2>. QED
    BY <2>2 DEF Resolved
<1>6. [key |-> k, view |-> view] \in R
  BY <1>1, <1>2, <1>5 DEF TrueBriefs
<1>7. Touched(briefs[g], k, view) \in Seq(R) /\ Len(Touched(briefs[g], k, view)) <= MaxRecords
  <2>. HIDE DEF R
  <2>. QED
    BY <1>3, <1>6, MovedTyped
<1>8. TurnTrue(u)
  <2>1. /\ u \in Turn0 /\ u.at = "reading" /\ u.shown = view /\ u.pin = t.pin /\ u.as = t.as
        /\ u.record = t.record /\ u.ran = t.ran /\ u.waits = t.waits
    BY <1>1, <1>2, <1>5 DEF Turn0, OfferStages
  <2>. HIDE DEF u
  <2>2. BriefKey(u) = k
    BY <2>1, SameRequest
  <2>. QED
    BY <2>1, <2>2, <1>5, TurnFields, QuietTurn
<1>. QED
  BY <1>1, <1>7, <1>8

LEMMA PrepareTrue ==
  ASSUME CatalogsRead, CachesTrue, NEW t, TurnTrue(t), t.at = "selected", NEW k, k = SchemaKey(t),
         NEW view, view = Resolved(schemas[k.generation], k, Schema(k))
  PROVE  /\ k.generation \in 1 .. MaxCatalogs
         /\ Touched(schemas[k.generation], k, view) \in Seq(TrueSchemas(k.generation))
         /\ Len(Touched(schemas[k.generation], k, view)) <= MaxRecords
         /\ TurnTrue([t EXCEPT !.at = "prepared", !.record = {[key |-> k, view |-> view]}])
<1>. DEFINE g == k.generation
            R == TrueSchemas(g)
            rec == [key |-> k, view |-> view]
            u == [t EXCEPT !.at = "prepared", !.record = {rec}]
<1>1. /\ k \in SchemaKeys /\ g = t.pin.generation /\ g \in 1 .. MaxCatalogs /\ g <= Len(catalogs)
      /\ t \in Turn0
  BY TurnFields, KeyFacts
<1>2. Schema(k) \subseteq ToolNames
  BY <1>1, SchemaMeans, TurnFields
<1>3. schemas[g] \in Seq(R) /\ Len(schemas[g]) <= MaxRecords
  BY <1>1 DEF CachesTrue
<1>4. \A x \in R : x.key = k => x.view = Schema(k)
  BY DEF TrueSchemas
<1>5. view = Schema(k)
  <2>1. ASSUME NEW i \in 1 .. Len(schemas[g]), schemas[g][i].key = k PROVE schemas[g][i].view = Schema(k)
    BY <1>3, <1>4, <2>1, ElementOfSeq
  <2>2. \A v \in Stored(schemas[g], k) : v = Schema(k)
    BY <2>1 DEF Stored
  <2>. QED
    BY <2>2 DEF Resolved
<1>6. rec \in R /\ rec \in [key : SchemaKeys, view : SUBSET ToolNames] /\ rec.key.generation = g
  BY <1>1, <1>2, <1>5 DEF TrueSchemas
<1>7. Touched(schemas[g], k, view) \in Seq(R) /\ Len(Touched(schemas[g], k, view)) <= MaxRecords
  <2>. HIDE DEF R
  <2>. QED
    BY <1>3, <1>6, MovedTyped
<1>8. TurnTrue(u)
  <2>. HIDE DEF rec
  <2>1. /\ u \in Turn0 /\ u.at = "prepared" /\ u.pin = t.pin /\ u.as = t.as
        /\ u.record = {rec} /\ u.ran = t.ran /\ u.waits = t.waits
    BY <1>1, <1>6 DEF Turn0, OfferStages
  <2>. HIDE DEF u
  <2>2. \A x \in u.record : x \in TrueSchemas(x.key.generation)
    BY <2>1, <1>6
  <2>. QED
    BY <2>1, <2>2, TurnFields, QuietTurn
<1>. QED
  BY <1>1, <1>7, <1>8

LEMMA BuildTrue ==
  ASSUME CatalogsRead, NEW t, TurnTrue(t), t.at = "prepared", NEW k, k = SchemaKey(t)
  PROVE  /\ TurnTrue([t EXCEPT !.at = "bound", !.offered = Schema(k)])
         /\ \A x \in t.record : x.key = k =>
              TurnTrue([t EXCEPT !.at = "bound", !.offered = x.view, !.record = {}])
<1>1. t \in Turn0 /\ t.pin.generation <= Len(catalogs) /\ Schema(k) \subseteq ToolNames
  <2>1. t \in Turn0 /\ t.pin.generation <= Len(catalogs)
    BY TurnFields
  <2>. QED
    BY <2>1, SchemaMeans
<1>2. ASSUME NEW u \in Turn0, u.at = "bound", u.offered = Schema(k), u.pin = t.pin, u.as = t.as,
             u.selected = t.selected, u.able = t.able, u.ran = t.ran, u.waits = t.waits,
             u.record \subseteq t.record
      PROVE  TurnTrue(u)
  <2>1. SchemaKey(u) = k
    BY <1>2, SameRequest
  <2>. QED
    BY <1>2, <2>1, TurnFields, QuietTurn
<1>3. TurnTrue([t EXCEPT !.at = "bound", !.offered = Schema(k)])
  <2>. DEFINE u == [t EXCEPT !.at = "bound", !.offered = Schema(k)]
  <2>1. /\ u \in Turn0 /\ u.at = "bound" /\ u.offered = Schema(k) /\ u.pin = t.pin /\ u.as = t.as
        /\ u.selected = t.selected /\ u.able = t.able /\ u.ran = t.ran /\ u.waits = t.waits
        /\ u.record = t.record
    BY <1>1 DEF Turn0, OfferStages
  <2>. HIDE DEF u
  <2>2. TurnTrue(u)
    BY <2>1, <1>2
  <2>. QED
    BY <2>2 DEF u
<1>4. ASSUME NEW x \in t.record, x.key = k
      PROVE  TurnTrue([t EXCEPT !.at = "bound", !.offered = x.view, !.record = {}])
  <2>. DEFINE u == [t EXCEPT !.at = "bound", !.offered = x.view, !.record = {}]
  <2>1. x.view = Schema(k)
    BY <1>4, TurnFields DEF TrueSchemas
  <2>2. /\ u \in Turn0 /\ u.at = "bound" /\ u.offered = Schema(k) /\ u.pin = t.pin /\ u.as = t.as
        /\ u.selected = t.selected /\ u.able = t.able /\ u.ran = t.ran /\ u.waits = t.waits
        /\ u.record = {}
    BY <1>1, <2>1 DEF Turn0, OfferStages
  <2>. HIDE DEF u
  <2>3. TurnTrue(u)
    BY <2>2, <1>2
  <2>. QED
    BY <2>3 DEF u
<1>. QED
  BY <1>3, <1>4

-----------------------------------------------------------------------------
\* A step of a request leaves the snapshots alone and the caches true.
LEMMA RequestStep ==
  ASSUME OfferInv, UNCHANGED <<catalogs, current, command, patches>>,
         verified' \subseteq 1 .. MaxCatalogs, CachesTrue', NEW r \in Asks, RequestMoves(r)
  PROVE  OfferInv'
<1>0. Grown /\ Len(catalogs') \in Nat /\ CatalogsRead
  BY LenProperties DEF OfferInv, CatalogsRead, Grown
<1>1. CatalogsRead'
  BY DEF OfferInv, CatalogsRead
<1>2. PICK new : TurnTrue(new) /\ turns' = [turns EXCEPT ![r] = new]
  BY DEF RequestMoves
<1>3. DOMAIN turns' = Asks /\ \A s \in Asks : turns'[s] = IF s = r THEN new ELSE turns[s]
  BY <1>2 DEF OfferInv
<1>4. ASSUME NEW s \in Asks PROVE TurnTrue(turns[s])'
  <2>1. PICK t : t = turns'[s] /\ TurnTrue(t)
    BY <1>2, <1>3 DEF OfferInv
  <2>2. TurnTrue(t)'
    BY <1>0, <2>1, TurnKept
  <2>. QED
    BY <2>1, <2>2
<1>. QED
  BY <1>1, <1>3, <1>4 DEF OfferInv

-----------------------------------------------------------------------------
\* Which of the requests moves, and how.
OfferMoves(r) ==
  \/ Unclassified(r) \/ ReadCatalog(r) \/ PrepareSchema(r) \/ BuildPayload(r)
  \/ Confirm(r) \/ End(r)
  \/ \E profile \in Profiles : Begin(r, profile)
  \/ \E j \in DOMAIN Catalog(turns[r].pin).rows : OwnsIntent(r, j)
  \/ \E choice \in Selections : Selects(r, choice)
  \/ \E n \in ToolNames : Call(r, n)

\* A step that sets a request and no cache.
LEMMA PlainStep ==
  ASSUME OfferInv, NEW r \in Asks, NEW new, TurnTrue(new), SetTurn(r, new), NoCache
  PROVE  OfferInv'
<1>1. /\ UNCHANGED <<catalogs, current, command, patches, verified, briefs, schemas>>
      /\ RequestMoves(r)
  BY DEF SetTurn, NoCache, RequestMoves
<1>2. CachesTrue'
  <2>1. Grown /\ Len(catalogs') \in Nat /\ CatalogsRead /\ CachesTrue
    BY <1>1, LenProperties DEF OfferInv, CatalogsRead, Grown
  <2>. QED
    BY <1>1, <2>1, CachesKept
<1>3. verified' \subseteq 1 .. MaxCatalogs
  BY <1>1 DEF OfferInv, CatalogsRead
<1>. QED
  BY <1>1, <1>2, <1>3, RequestStep

\* One cache changes, at the generation of the request.
LEMMA CacheChanged ==
  ASSUME CatalogsRead, CachesTrue, UNCHANGED catalogs, NEW g \in 1 .. MaxCatalogs,
         \/ /\ UNCHANGED schemas
            /\ \E c \in Seq(TrueBriefs(g)) :
                 Len(c) <= MaxRecords /\ briefs' = [briefs EXCEPT ![g] = c]
         \/ /\ UNCHANGED briefs
            /\ \E c \in Seq(TrueSchemas(g)) :
                 Len(c) <= MaxRecords /\ schemas' = [schemas EXCEPT ![g] = c]
  PROVE  CachesTrue'
<1>1. ASSUME NEW h \in 1 .. MaxCatalogs
      PROVE  TrueBriefs(h) \subseteq TrueBriefs(h)' /\ TrueSchemas(h) \subseteq TrueSchemas(h)'
  <2>1. h \in Nat \ {0} /\ Grown /\ Len(catalogs') \in Nat
    BY LenProperties DEF CatalogsRead, Grown
  <2>. QED
    BY <2>1, RecordsKept
<1>2. ASSUME NEW h \in 1 .. MaxCatalogs
      PROVE  /\ briefs'[h] \in Seq(TrueBriefs(h)) /\ Len(briefs'[h]) <= MaxRecords
             /\ schemas'[h] \in Seq(TrueSchemas(h)) /\ Len(schemas'[h]) <= MaxRecords
  <2>1. /\ briefs[h] \in Seq(TrueBriefs(h)) /\ Len(briefs[h]) <= MaxRecords
        /\ schemas[h] \in Seq(TrueSchemas(h)) /\ Len(schemas[h]) <= MaxRecords
    BY DEF CachesTrue
  <2>2. CASE /\ UNCHANGED schemas
             /\ \E c \in Seq(TrueBriefs(g)) :
                  Len(c) <= MaxRecords /\ briefs' = [briefs EXCEPT ![g] = c]
    <3>1. PICK c \in Seq(TrueBriefs(g)) : Len(c) <= MaxRecords /\ briefs' = [briefs EXCEPT ![g] = c]
      BY <2>2
    <3>2. briefs'[h] = IF h = g THEN c ELSE briefs[h]
      BY <3>1 DEF CachesTrue
    <3>. QED
      BY <2>1, <2>2, <3>1, <3>2
  <2>3. CASE /\ UNCHANGED briefs
             /\ \E c \in Seq(TrueSchemas(g)) :
                  Len(c) <= MaxRecords /\ schemas' = [schemas EXCEPT ![g] = c]
    <3>1. PICK c \in Seq(TrueSchemas(g)) : Len(c) <= MaxRecords /\ schemas' = [schemas EXCEPT ![g] = c]
      BY <2>3
    <3>2. schemas'[h] = IF h = g THEN c ELSE schemas[h]
      BY <3>1 DEF CachesTrue
    <3>. QED
      BY <2>1, <2>3, <3>1, <3>2
  <2>. QED
    BY <2>2, <2>3
<1>3. ASSUME NEW h \in 1 .. MaxCatalogs
      PROVE  briefs'[h] \in Seq(TrueBriefs(h)') /\ schemas'[h] \in Seq(TrueSchemas(h)')
  BY <1>1, <1>2, SeqMonotonic
<1>4. DOMAIN briefs' = 1 .. MaxCatalogs /\ DOMAIN schemas' = 1 .. MaxCatalogs
  BY DEF CachesTrue
<1>. QED
  BY <1>2, <1>3, <1>4 DEF CachesTrue

LEMMA OfferMovesStep ==
  ASSUME OfferInv, NEW r \in Asks, OfferMoves(r)
  PROVE  OfferInv'
<1>. DEFINE t == turns[r]
<1>0. CatalogsRead /\ CachesTrue /\ TurnTrue(t) /\ TurnTrue(Ended)
  BY EndedTrue DEF OfferInv
<1>1. ASSUME NEW p \in Profiles, Begin(r, p) PROVE OfferInv'
  <2>1. /\ t.at = "idle" /\ NoCache
        /\ SetTurn(r, [t EXCEPT !.at = "asked", !.as = p, !.pin = current])
    BY <1>1 DEF Begin
  <2>. HIDE DEF t
  <2>2. TurnTrue([t EXCEPT !.at = "asked", !.as = p, !.pin = current])
    BY <1>0, <2>1, BeginTrue
  <2>. QED
    BY <2>1, <2>2, PlainStep
<1>2. ASSUME NEW j \in DOMAIN Catalog(t.pin).rows, OwnsIntent(r, j) PROVE OfferInv'
  <2>. DEFINE p == Catalog(t.pin).rows[j].of
  <2>1. /\ t.at = "asked" /\ NoCache /\ p \in Catalog(t.pin).plugins
        /\ \/ SetTurn(r, Ended)
           \/ SetTurn(r, [t EXCEPT !.at = "selected", !.selected = {p}])
    BY <1>2 DEF OwnsIntent
  <2>2. p \in ToolNames
    <3>1. Catalog(t.pin) \in Inventory
      BY <1>0, KeyFacts, CatalogTyped, TurnFields
    <3>. QED
      BY <2>1, <3>1 DEF Inventory
  <2>. HIDE DEF t, p
  <2>3. TurnTrue([t EXCEPT !.at = "selected", !.selected = {p}])
    BY <1>0, <2>1, <2>2, SelectsTrue
  <2>. QED
    BY <1>0, <2>1, <2>3, PlainStep
<1>3. ASSUME Unclassified(r) PROVE OfferInv'
  <2>1. t.at = "asked" /\ NoCache /\ SetTurn(r, [t EXCEPT !.at = "selected"])
    BY <1>3 DEF Unclassified
  <2>. HIDE DEF t
  <2>2. TurnTrue([t EXCEPT !.at = "selected"])
    BY <1>0, <2>1, SelectsTrue
  <2>. QED
    BY <2>1, <2>2, PlainStep
<1>4. ASSUME NEW c \in Selections, Selects(r, c) PROVE OfferInv'
  <2>1. /\ t.at = "reading" /\ NoCache
        /\ SetTurn(r, [t EXCEPT !.at = "selected", !.selected = c.names, !.able = c.able, !.shown = {}])
    BY <1>4 DEF Selects
  <2>. HIDE DEF t
  <2>2. TurnTrue([t EXCEPT !.at = "selected", !.selected = c.names, !.able = c.able, !.shown = {}])
    BY <1>0, <2>1, SelectsTrue
  <2>. QED
    BY <2>1, <2>2, PlainStep
<1>5. ASSUME NEW n \in ToolNames, Call(r, n) PROVE OfferInv'
  <2>. DEFINE k == SchemaKey(t)
              called == [t EXCEPT !.at = "called", !.selected = {}, !.offered = {}]
              u == IF Waits(k, n) THEN [called EXCEPT !.waits = {n}] ELSE [called EXCEPT !.ran = {n}]
  <2>1. t.at = "bound" /\ n \in t.offered /\ NoCache /\ SetTurn(r, u)
    BY <1>5 DEF Call
  <2>. HIDE DEF t
  <2>2. TurnTrue(u)
    BY <1>0, <2>1, CallTrue
  <2>. HIDE DEF u
  <2>. QED
    BY <2>1, <2>2, PlainStep
<1>6. ASSUME Confirm(r) PROVE OfferInv'
  <2>1. /\ t.at = "called" /\ NoCache
        /\ SetTurn(r, [t EXCEPT !.at = "confirmed", !.ran = t.waits, !.waits = {}])
    BY <1>6 DEF Confirm
  <2>. HIDE DEF t
  <2>2. TurnTrue([t EXCEPT !.at = "confirmed", !.ran = t.waits, !.waits = {}])
    BY <1>0, <2>1, ConfirmTrue
  <2>. QED
    BY <2>1, <2>2, PlainStep
<1>7. ASSUME End(r) PROVE OfferInv'
  BY <1>0, <1>7, PlainStep DEF End
<1>8. ASSUME NEW new, TurnTrue(new), SetTurn(r, new), verified' \subseteq 1 .. MaxCatalogs,
             CachesTrue'
      PROVE  OfferInv'
  BY <1>8, RequestStep DEF SetTurn, RequestMoves
<1>9. ASSUME ReadCatalog(r) PROVE OfferInv'
  <2>. DEFINE k == BriefKey(t)
              view == Resolved(briefs[k.generation], k, Brief(k))
              c == Touched(briefs[k.generation], k, view)
              u == [t EXCEPT !.at = "reading", !.shown = view]
  <2>1. /\ t.at = "asked" /\ UNCHANGED <<verified, schemas>>
        /\ \/ briefs' = [briefs EXCEPT ![k.generation] = c] /\ SetTurn(r, u)
           \/ SetTurn(r, [t EXCEPT !.at = "selected"]) /\ UNCHANGED briefs
    BY <1>9 DEF ReadCatalog
  <2>. HIDE DEF t
  <2>2. TurnTrue([t EXCEPT !.at = "selected"])
    BY <1>0, <2>1, SelectsTrue
  <2>3. /\ k.generation \in 1 .. MaxCatalogs /\ c \in Seq(TrueBriefs(k.generation))
        /\ Len(c) <= MaxRecords /\ TurnTrue(u)
    BY <1>0, <2>1, ReadTrue
  <2>. HIDE DEF u, c, view, k
  <2>4. CASE SetTurn(r, [t EXCEPT !.at = "selected"]) /\ UNCHANGED briefs
    BY <2>1, <2>2, <2>4, PlainStep DEF NoCache
  <2>5. CASE briefs' = [briefs EXCEPT ![k.generation] = c] /\ SetTurn(r, u)
    <3>1. UNCHANGED catalogs /\ verified' \subseteq 1 .. MaxCatalogs
      BY <1>0, <2>1, <2>5 DEF SetTurn, CatalogsRead
    <3>2. CachesTrue'
      BY <1>0, <2>1, <2>3, <2>5, <3>1, CacheChanged
    <3>. QED
      BY <2>3, <2>5, <3>1, <3>2, <1>8
  <2>. QED
    BY <2>1, <2>4, <2>5
<1>10. ASSUME NEW k, k = SchemaKey(t), Verify(k) PROVE verified' \subseteq 1 .. MaxCatalogs
  <2>1. k.generation \in 1 .. MaxCatalogs
    BY <1>0, <1>10, TurnFields, KeyFacts
  <2>. QED
    BY <1>0, <1>10, <2>1 DEF Verify, CatalogsRead
<1>11. ASSUME PrepareSchema(r) PROVE OfferInv'
  <2>. DEFINE k == SchemaKey(t)
              view == Resolved(schemas[k.generation], k, Schema(k))
              c == Touched(schemas[k.generation], k, view)
              u == [t EXCEPT !.at = "prepared", !.record = {[key |-> k, view |-> view]}]
  <2>1. /\ t.at = "selected"
        /\ \/ SetTurn(r, Ended) /\ NoCache
           \/ /\ Verify(k) /\ UNCHANGED briefs
              /\ \/ schemas' = [schemas EXCEPT ![k.generation] = c] /\ SetTurn(r, u)
                 \/ SetTurn(r, [t EXCEPT !.at = "prepared"]) /\ UNCHANGED schemas
    BY <1>11 DEF PrepareSchema
  <2>. HIDE DEF t
  <2>2. TurnTrue([t EXCEPT !.at = "prepared"])
    BY <1>0, <2>1, SelectsTrue
  <2>3. /\ k.generation \in 1 .. MaxCatalogs /\ c \in Seq(TrueSchemas(k.generation))
        /\ Len(c) <= MaxRecords /\ TurnTrue(u)
    BY <1>0, <2>1, PrepareTrue
  <2>4. Verify(k) => verified' \subseteq 1 .. MaxCatalogs
    BY <1>10
  <2>. HIDE DEF u, c, view, k
  <2>5. CASE SetTurn(r, Ended) /\ NoCache
    BY <1>0, <2>5, PlainStep
  <2>6. CASE /\ Verify(k) /\ UNCHANGED briefs
             /\ schemas' = [schemas EXCEPT ![k.generation] = c] /\ SetTurn(r, u)
    <3>1. UNCHANGED catalogs
      BY <2>6 DEF SetTurn
    <3>2. CachesTrue'
      BY <1>0, <2>3, <2>6, <3>1, CacheChanged
    <3>. QED
      BY <2>3, <2>4, <2>6, <3>2, <1>8
  <2>7. CASE /\ Verify(k) /\ UNCHANGED <<briefs, schemas>>
             /\ SetTurn(r, [t EXCEPT !.at = "prepared"])
    <3>1. CachesTrue'
      <4>1. Grown /\ Len(catalogs') \in Nat
        BY <1>0, <2>7, LenProperties DEF CatalogsRead, Grown, SetTurn
      <4>. QED
        BY <1>0, <2>7, <4>1, CachesKept
    <3>. QED
      BY <2>2, <2>4, <2>7, <3>1, <1>8
  <2>. QED
    BY <2>1, <2>5, <2>6, <2>7
<1>12. ASSUME BuildPayload(r) PROVE OfferInv'
  <2>. DEFINE k == SchemaKey(t)
              x == CHOOSE y \in t.record : TRUE
              direct == [t EXCEPT !.at = "bound", !.offered = Schema(k)]
              left == [t EXCEPT !.at = "bound", !.offered = x.view, !.record = {}]
  <2>1. /\ t.at = "prepared" /\ UNCHANGED <<briefs, schemas>>
        /\ verified' = verified \/ Verify(k)
        /\ \/ SetTurn(r, Ended) \/ SetTurn(r, direct)
           \/ t.record # {} /\ x.key = k /\ SetTurn(r, left)
    BY <1>12 DEF BuildPayload
  <2>. HIDE DEF t
  <2>2. TurnTrue(direct)
    BY <1>0, <2>1, BuildTrue
  <2>3. t.record # {} /\ x.key = k => TurnTrue(left)
    <3>. SUFFICES ASSUME t.record # {}, x.key = k PROVE TurnTrue(left)
      OBVIOUS
    <3>1. x \in t.record
      OBVIOUS
    <3>. HIDE DEF x
    <3>. QED
      BY <1>0, <2>1, <3>1, BuildTrue
  <2>4. verified' \subseteq 1 .. MaxCatalogs
    BY <1>0, <1>10, <2>1 DEF CatalogsRead
  <2>5. CachesTrue'
    <3>1. UNCHANGED catalogs
      BY <2>1 DEF SetTurn
    <3>2. Grown /\ Len(catalogs') \in Nat
      BY <1>0, <3>1, LenProperties DEF CatalogsRead, Grown
    <3>. QED
      BY <1>0, <2>1, <3>2, CachesKept
  <2>. HIDE DEF direct, left, x, k
  <2>. QED
    BY <1>0, <1>8, <2>1, <2>2, <2>3, <2>4, <2>5
<1>. QED
  BY <1>1, <1>2, <1>3, <1>4, <1>5, <1>6, <1>7, <1>9, <1>11, <1>12 DEF OfferMoves

LEMMA OfferGoesOn ==
  ASSUME OfferInv, [OfferNext]_offerVars
  PROVE  OfferInv'
<1>1. CASE UNCHANGED offerVars
  <2>1. /\ CatalogsRead /\ CachesTrue /\ Grown /\ Len(catalogs') \in Nat
        /\ UNCHANGED <<briefs, schemas, turns>>
    BY <1>1, LenProperties DEF offerVars, OfferInv, CatalogsRead, Grown
  <2>2. CatalogsRead'
    BY <1>1, <2>1 DEF offerVars, CatalogsRead
  <2>3. CachesTrue'
    BY <2>1, CachesKept
  <2>4. ASSUME NEW r \in Asks PROVE TurnTrue(turns[r])'
    <3>1. PICK t : t = turns[r] /\ TurnTrue(t)
      BY DEF OfferInv
    <3>2. TurnTrue(t)'
      BY <2>1, <3>1, TurnKept
    <3>. QED
      BY <2>1, <3>1, <3>2
  <2>. QED
    BY <2>1, <2>2, <2>3, <2>4 DEF OfferInv
<1>2. CASE OfferAdmin
  BY <1>2, AdminStep
<1>3. CASE \E r \in Asks : OfferMoves(r)
  BY <1>3, OfferMovesStep
<1>. QED
  BY <1>1, <1>2, <1>3 DEF OfferNext, OfferAdmin, OfferMoves

LEMMA ResidentsNamed == \A x \in Settings : x.residents \subseteq Names
BY DEF Names

LEMMA OfferBegins == OfferInit => OfferInv
<1>. SUFFICES ASSUME OfferInit PROVE OfferInv
  OBVIOUS
<1>1. PICK v \in DOMAIN Inventories : Publishable(Inventories[v]) /\ catalogs = <<v>>
  BY DEF OfferInit
<1>2. PICK s \in Settings :
        current = [generation |-> 1, tools |-> s.tools, search |-> s.search,
                   barred |-> s.barred, residents |-> s.residents, cutover |-> s.cutover]
  BY DEF OfferInit
<1>3. MaxCatalogs \in Nat \ {0} /\ MaxRecords \in Nat \ {0} /\ MaxPatches \in Nat
  BY OfferAssumption
<1>4. catalogs \in Seq(DOMAIN Inventories) /\ Len(catalogs) = 1 /\ catalogs[1] = v
  BY <1>1
<1>5. current \in Pin /\ current.generation = 1
  <2>1. /\ s.tools \in BOOLEAN /\ s.search \in BOOLEAN /\ s.cutover \in BOOLEAN
        /\ s.barred \in SUBSET DOMAIN Selectors /\ 1 \in 1 .. MaxCatalogs
    BY <1>3, OfferAssumption
  <2>2. s.residents \in SUBSET Names
    BY ResidentsNamed
  <2>. QED
    BY <1>2, <2>1, <2>2 DEF Pin
<1>6. CatalogsRead
  <2>1. Len(catalogs) \in 1 .. MaxCatalogs /\ \A g \in 1 .. Len(catalogs) : Publishable(Inventories[catalogs[g]])
    BY <1>1, <1>3, <1>4
  <2>2. command = <<>> /\ patches \in 0 .. MaxPatches /\ verified = {}
    BY <1>3 DEF OfferInit
  <2>. QED
    BY <1>4, <1>5, <2>1, <2>2 DEF CatalogsRead
<1>7. CachesTrue
  <2>1. \A g \in 1 .. MaxCatalogs : briefs[g] = <<>> /\ schemas[g] = <<>>
    BY DEF OfferInit
  <2>2. ASSUME NEW S PROVE Len(<<>>) = 0 /\ <<>> \in Seq(S)
    BY EmptySeq
  <2>3. DOMAIN briefs = 1 .. MaxCatalogs /\ DOMAIN schemas = 1 .. MaxCatalogs
    BY DEF OfferInit
  <2>4. ASSUME NEW g \in 1 .. MaxCatalogs
        PROVE  /\ briefs[g] \in Seq(TrueBriefs(g)) /\ Len(briefs[g]) <= MaxRecords
               /\ schemas[g] \in Seq(TrueSchemas(g)) /\ Len(schemas[g]) <= MaxRecords
    <3>1. briefs[g] = <<>> /\ schemas[g] = <<>>
      BY <2>1
    <3>2. <<>> \in Seq(TrueBriefs(g)) /\ <<>> \in Seq(TrueSchemas(g)) /\ Len(<<>>) <= MaxRecords
      BY <1>3, <2>2
    <3>. QED
      BY <3>1, <3>2
  <2>. QED
    BY <2>3, <2>4 DEF CachesTrue
<1>8. DOMAIN turns = Asks /\ \A r \in Asks : TurnTrue(turns[r])
  BY <1>6, EndedTrue DEF OfferInit
<1>. QED
  BY <1>6, <1>7, <1>8 DEF OfferInv

LEMMA OfferMeans == OfferInv => OffersWhatItMay /\ OfferTypeOK
<1>. SUFFICES ASSUME OfferInv PROVE OffersWhatItMay /\ OfferTypeOK
  OBVIOUS
<1>1. ASSUME NEW r \in Asks
      PROVE  LET t == turns[r]
                 i == Catalog(t.pin)
             IN  /\ t.at = "reading" =>
                      /\ BriefsAgree(BriefKey(t))
                      /\ t.shown = Rendered(i.rows, {j \in DOMAIN i.rows : MayRead(t, i.rows[j])})
                 /\ t.at = "bound" =>
                      /\ t.offered # {} => t.pin.tools /\ t.able
                      /\ \A n \in t.offered : Usable(t, n)
                      /\ t.pin.tools /\ t.able =>
                           \A n \in t.selected \cup t.pin.residents \cup
                                    UNION {i.needs[m] \ Builtins : m \in t.offered} :
                             Usable(t, n) => n \in t.offered
                 /\ \A n \in t.ran : Usable(t, n) /\ (n \in i.mutating \ i.plugins => t.at = "confirmed")
  <2>. DEFINE t == turns[r]
              i == Catalog(t.pin)
  <2>1. CatalogsRead /\ TurnTrue(t) /\ t \in Turn0 /\ t.pin.generation <= Len(catalogs)
    BY TurnFields DEF OfferInv
  <2>. HIDE DEF t
  <2>2. t.at = "reading" =>
          /\ BriefsAgree(BriefKey(t))
          /\ t.shown = Rendered(i.rows, {j \in DOMAIN i.rows : MayRead(t, i.rows[j])})
    BY <2>1, BriefMeans DEF TurnTrue
  <2>3. t.at = "bound" =>
          /\ t.offered # {} => t.pin.tools /\ t.able
          /\ \A n \in t.offered : Usable(t, n)
          /\ t.pin.tools /\ t.able =>
               \A n \in t.selected \cup t.pin.residents \cup
                        UNION {i.needs[m] \ Builtins : m \in t.offered} :
                 Usable(t, n) => n \in t.offered
    BY <2>1, SchemaMeans DEF TurnTrue
  <2>4. \A n \in t.ran : Usable(t, n) /\ (n \in i.mutating \ i.plugins => t.at = "confirmed")
    BY <2>1 DEF TurnTrue
  <2>. QED
    BY <2>2, <2>3, <2>4 DEF t
<1>2. OffersWhatItMay
  BY <1>1 DEF OffersWhatItMay
<1>3. OfferTypeOK
  <2>1. \A r \in Asks : turns[r].at \in OfferStages /\ turns[r].shown \cup turns[r].offered \subseteq ToolNames
    BY DEF OfferInv, TurnTrue, Turn0
  <2>2. \A g \in 1 .. Len(catalogs) : catalogs[g] \in DOMAIN Inventories
    BY ElementOfSeq DEF OfferInv, CatalogsRead
  <2>. QED
    BY <2>1, <2>2 DEF OfferInv, CatalogsRead, CachesTrue, OfferTypeOK, OfferStages
<1>. QED
  BY <1>2, <1>3

-----------------------------------------------------------------------------
(* Read-only tools side by side.                                             *)

TaskEnds == {"returned", "failed", "stopped"}
AtWork   == {"running", "ended"}
Pooled   == {"queued", "running", "ended", "handled"}
Settled  == {"settle"} \cup ToolEnds

ToolCall ==
  [task : {"none", "created", "waiting", "draining", "tracing"} \cup TaskEnds,
   cancel : BOOLEAN,
   item : {"none", "finished"} \cup Pooled,
   reason : {"none", "timeout", "caller", "close"},
   result : {"none", "ok", "error", "dropped"},
   does : {"none", "completed", "failed", "cancelled"},
   says : {"none", "failed", "cancelled", "skipped"},
   writer : {"none", "handler", "invocation", "round"},
   trace : Statuses \cup {"none", "lost"},
   outcome : Statuses \cup {"none"}]

\* What the invocation knows of its item, and what it may say of it.
InvocationOK(c) ==
  /\ c.cancel => c.task \notin {"none"} \cup TaskEnds
  /\ c.task \in {"none", "created"} => c.item = "none" /\ c.reason = "none" /\ c.result = "none"
  /\ c.task = "created" => c.trace = "none"
  /\ c.task = "waiting" =>
       IF c.result = "none" THEN c.item \in Pooled
       ELSE c.item = "finished" /\ c.result \in {"ok", "error"}
  /\ c.result \in {"ok", "error"} => c.task = "waiting"
  /\ c.task \in {"draining", "tracing"} => c.says \in {"failed", "cancelled"}
  /\ c.task = "tracing" /\ c.trace \in Statuses => c.trace = c.says
  /\ c.task = "returned" \/ c.result = "ok" => c.outcome = "completed"

\* An item whose invocation has turned away is cancelled, and the trace that
\* may be there before the handler's says so.
ItemOK(c) ==
  /\ c.item = "queued" => c.task = "waiting" /\ c.trace = "none" /\ c.reason = "none"
  /\ c.item \in AtWork /\ c.task # "waiting" => c.reason # "none"
  /\ c.item \in Pooled /\ c.task # "waiting" => c.result = "dropped"
  /\ c.item \in AtWork /\ c.task = "tracing" => c.says = "cancelled"
  /\ c.item \in AtWork /\ c.trace \in Statuses => c.trace = "cancelled" /\ c.reason # "none"
  /\ c.item = "ended" => c.does # "none"

TraceOK(c) ==
  /\ c.outcome = IF c.trace \in Statuses THEN c.trace ELSE "none"
  /\ c.writer # "none" => c.trace = "lost"
  /\ c.writer = "handler" => c.item = "ended"
  /\ c.writer = "invocation" => c.task = "tracing"
  /\ c.writer = "round" =>
       /\ c.says = "skipped" /\ c.task \in {"none"} \cup TaskEnds
       /\ c.item \notin {"queued"} \cup AtWork

CallOK(c) == c \in ToolCall /\ InvocationOK(c) /\ ItemOK(c) /\ TraceOK(c)

\* Batches run one after the other, each after what it needs; what is not
\* launched is untouched until the round is settled.
RoundOK ==
  /\ phase = "ready" => Planned = RoundTools
  /\ phase \in {"batch", "unwind"} =>
       /\ batch \cap Planned = {}
       /\ \A t \in RoundTools \ (batch \cup Planned) : calls[t].task = "returned"
  /\ phase \notin Settled => \A t \in Planned : calls[t] = NoCall
  /\ phase = "settle" => \A t \in RoundTools : calls[t].task \in {"none"} \cup TaskEnds
  /\ \A t \in RoundTools : calls[t].writer = "round" => phase \in Settled

ToolInv ==
  /\ phase \in {"ready", "batch", "unwind"} \cup Settled
  /\ batch \subseteq RoundTools
  /\ calls \in [RoundTools -> ToolCall]
  /\ \A t \in RoundTools : CallOK(calls[t])
  /\ \A t, u \in RoundTools : calls[t].writer # "none" /\ calls[u].writer # "none" => t = u
  /\ RoundOK
  /\ \A t \in RoundTools \ Planned : \A u \in Needs(graph, t) : calls[u].outcome = "completed"
  /\ pool = "closed" => InPool = {}

-----------------------------------------------------------------------------
(* One call.                                                                  *)

\* What no step of a call takes back.
Follows(c, d) ==
  /\ CallOK(d)
  /\ c.task = "none" <=> d.task = "none"
  /\ c.task \in TaskEnds => d.task = c.task
  /\ c.trace \in Statuses => d.trace = c.trace

LEMMA NoCallOK ==
  /\ CallOK(NoCall) /\ NoCall \in ToolCall
  /\ NoCall.task = "none" /\ NoCall.item = "none" /\ NoCall.writer = "none"
  /\ NoCall.reason = "none" /\ ~NoCall.cancel /\ NoCall.trace = "none"
<1>1. NoCall \in ToolCall
  BY DEF NoCall, ToolCall
<1>2. /\ NoCall.task = "none" /\ NoCall.item = "none" /\ NoCall.writer = "none"
      /\ NoCall.reason = "none" /\ ~NoCall.cancel /\ NoCall.trace = "none"
      /\ NoCall.outcome = "none" /\ NoCall.result = "none"
  BY DEF NoCall
<1>. QED
  BY <1>1, <1>2 DEF CallOK, InvocationOK, ItemOK, TraceOK, Pooled, AtWork, TaskEnds, Statuses

LEMMA LaunchOK ==
  [NoCall EXCEPT !.task = "created"] \in ToolCall /\ CallOK([NoCall EXCEPT !.task = "created"])
<1>. DEFINE d == [NoCall EXCEPT !.task = "created"]
<1>1. d \in ToolCall
  BY NoCallOK DEF ToolCall
<1>2. /\ d.task = "created" /\ d.item = "none" /\ d.writer = "none" /\ d.reason = "none"
      /\ d.trace = "none" /\ d.outcome = "none" /\ d.result = "none"
  BY DEF NoCall
<1>. HIDE DEF d
<1>3. CallOK(d)
  BY <1>1, <1>2 DEF CallOK, InvocationOK, ItemOK, TraceOK, Pooled, AtWork, TaskEnds, Statuses
<1>. QED
  BY <1>1, <1>3 DEF d

LEMMA Unlocks ==
  ASSUME NEW c \in ToolCall
  PROVE  /\ Unlock(c) \in ToolCall
         /\ Unlock(c).writer = "none"
         /\ Unlock(c).item = IF c.writer = "handler" THEN "handled" ELSE c.item
         /\ Unlock(c).task = IF c.writer = "invocation" THEN "failed" ELSE c.task
         /\ Unlock(c).says = IF c.writer = "handler" THEN c.says ELSE "none"
         /\ Unlock(c).cancel = c.cancel /\ Unlock(c).reason = c.reason
         /\ Unlock(c).result = c.result /\ Unlock(c).does = c.does
         /\ Unlock(c).trace = c.trace /\ Unlock(c).outcome = c.outcome
<1>. DEFINE d == Unlock(c)
<1>1. CASE c.writer = "handler"
  <2>1. d = [c EXCEPT !.writer = "none", !.item = "handled"]
    BY <1>1 DEF Unlock, ToolCall
  <2>. QED
    BY <1>1, <2>1 DEF ToolCall, Pooled
<1>2. CASE c.writer = "invocation"
  <2>1. d = [c EXCEPT !.writer = "none", !.task = "failed", !.says = "none"]
    BY <1>2 DEF Unlock, ToolCall
  <2>. QED
    BY <1>2, <2>1 DEF ToolCall, TaskEnds
<1>3. CASE c.writer \notin {"handler", "invocation"}
  <2>1. d = [c EXCEPT !.writer = "none", !.says = "none"]
    BY <1>3 DEF Unlock, ToolCall
  <2>. QED
    BY <1>3, <2>1 DEF ToolCall
<1>. QED
  BY <1>1, <1>2, <1>3

LEMMA Tells ==
  ASSUME NEW c \in ToolCall, Said(c) \in Statuses
  PROVE  /\ Told(c) \in ToolCall /\ Told(c).outcome = Said(c)
         /\ Told(c).writer = c.writer /\ Told(c).item = c.item /\ Told(c).task = c.task
         /\ Told(c).says = c.says /\ Told(c).cancel = c.cancel /\ Told(c).reason = c.reason
         /\ Told(c).result = c.result /\ Told(c).does = c.does /\ Told(c).trace = c.trace
<1>. DEFINE s == Said(c)
<1>1. s \in Statuses \cup {"none"}
  OBVIOUS
<1>2. Told(c) = [c EXCEPT !.outcome = s]
  BY DEF Told
<1>. HIDE DEF s
<1>3. /\ Told(c) \in ToolCall /\ Told(c).outcome = s
      /\ Told(c).writer = c.writer /\ Told(c).item = c.item /\ Told(c).task = c.task
      /\ Told(c).says = c.says /\ Told(c).cancel = c.cancel /\ Told(c).reason = c.reason
      /\ Told(c).result = c.result /\ Told(c).does = c.does /\ Told(c).trace = c.trace
  BY <1>1, <1>2 DEF ToolCall
<1>. QED
  BY <1>3 DEF s

\* A second trace says what the first said.
LEMMA TraceFollows ==
  ASSUME NEW c \in ToolCall, CallOK(c), c.writer = "none", ~c.cancel,
         c.reason # "none" /\ c.item = "ended" => c.does = "cancelled",
         NEW who \in Wants(c)
  PROVE  Follows(c, BeginTrace(c, who))
<1>. DEFINE w == [c EXCEPT !.writer = who]
            d == BeginTrace(c, who)
<1>1. \/ who = "handler" /\ c.item = "ended"
      \/ who = "invocation" /\ c.task = "tracing"
  BY DEF Wants
<1>2. /\ w \in ToolCall /\ w.writer = who /\ w.item = c.item /\ w.task = c.task /\ w.says = c.says
      /\ w.cancel = c.cancel /\ w.reason = c.reason /\ w.result = c.result /\ w.does = c.does
      /\ w.trace = c.trace /\ w.outcome = c.outcome
  BY <1>1 DEF ToolCall
<1>3. CASE c.trace = "none"
  <2>1. d = [c EXCEPT !.writer = who, !.trace = "lost"]
    BY <1>3 DEF BeginTrace
  <2>2. /\ d \in ToolCall /\ d.writer = who /\ d.item = c.item /\ d.task = c.task /\ d.says = c.says
        /\ d.cancel = c.cancel /\ d.reason = c.reason /\ d.result = c.result /\ d.does = c.does
        /\ d.trace = "lost" /\ d.outcome = c.outcome
    BY <1>1, <2>1 DEF ToolCall
  <2>. SUFFICES Follows(c, d)
    OBVIOUS
  <2>. HIDE DEF d
  <2>. QED
    BY <1>1, <1>3, <2>2 DEF Follows, CallOK, InvocationOK, ItemOK, TraceOK, Pooled, AtWork, TaskEnds, Statuses
<1>4. CASE c.trace = "lost"
  <2>1. d = Unlock(w)
    BY <1>4 DEF BeginTrace
  <2>. SUFFICES Follows(c, d)
    OBVIOUS
  <2>. HIDE DEF d, w
  <2>. QED
    BY <1>1, <1>2, <1>4, <2>1, Unlocks DEF Follows, CallOK, InvocationOK, ItemOK, TraceOK, Pooled, AtWork, TaskEnds, Statuses
<1>5. CASE c.trace \in Statuses
  <2>. DEFINE v == Told(w)
  <2>1. d = Unlock(v)
    BY <1>5 DEF BeginTrace, Statuses
  <2>2. Said(w) = c.trace
    BY <1>1, <1>2, <1>5 DEF Said, CallOK, InvocationOK, ItemOK, AtWork
  <2>3. /\ v \in ToolCall /\ v.writer = who /\ v.item = c.item /\ v.task = c.task /\ v.says = c.says
        /\ v.cancel = c.cancel /\ v.reason = c.reason /\ v.result = c.result /\ v.does = c.does
        /\ v.trace = c.trace /\ v.outcome = c.trace
    BY <1>2, <1>5, <2>2, Tells
  <2>. SUFFICES Follows(c, d)
    OBVIOUS
  <2>. HIDE DEF d, v
  <2>. QED
    BY <1>1, <1>5, <2>1, <2>3, Unlocks DEF Follows, CallOK, InvocationOK, ItemOK, TraceOK, Pooled, AtWork, TaskEnds, Statuses
<1>. QED
  BY <1>3, <1>4, <1>5 DEF ToolCall

LEMMA TracedFollows ==
  ASSUME NEW c \in ToolCall, CallOK(c), c.writer # "none", ~c.cancel,
         c.reason # "none" /\ c.item = "ended" => c.does = "cancelled"
  PROVE  Follows(c, Unlock([Told(c) EXCEPT !.trace = Said(c)]))
<1>. DEFINE v == [Told(c) EXCEPT !.trace = Said(c)]
            d == Unlock(v)
<1>1. Said(c) \in Statuses
  BY DEF Said, Statuses, CallOK, InvocationOK, ItemOK, TraceOK, ToolCall
<1>2. v \in ToolCall /\ v.trace = Said(c)
  BY <1>1, Tells DEF ToolCall
<1>3. /\ v.writer = c.writer /\ v.item = c.item /\ v.task = c.task /\ v.says = c.says
      /\ v.cancel = c.cancel /\ v.reason = c.reason /\ v.result = c.result /\ v.does = c.does
      /\ v.outcome = Said(c)
  BY <1>1, Tells
<1>4. c.trace = "lost" /\ c.outcome = "none"
  BY DEF CallOK, TraceOK, Statuses
<1>5. d = Unlock(v)
  OBVIOUS
<1>. SUFFICES Follows(c, d)
  OBVIOUS
<1>. HIDE DEF v, d
<1>6. CASE c.writer = "handler"
  BY <1>1, <1>2, <1>3, <1>4, <1>5, <1>6, Unlocks DEF Said, Follows, CallOK, InvocationOK, ItemOK, TraceOK, Pooled, AtWork, TaskEnds, Statuses
<1>7. CASE c.writer = "invocation"
  BY <1>1, <1>2, <1>3, <1>4, <1>5, <1>7, Unlocks DEF Said, Follows, CallOK, InvocationOK, ItemOK, TraceOK, Pooled, AtWork, TaskEnds, Statuses
<1>8. CASE c.writer = "round"
  BY <1>1, <1>2, <1>3, <1>4, <1>5, <1>8, Unlocks DEF Said, Follows, CallOK, InvocationOK, ItemOK, TraceOK, Pooled, AtWork, TaskEnds, Statuses
<1>. QED
  BY <1>6, <1>7, <1>8 DEF ToolCall

LEMMA UnlockFollows ==
  ASSUME NEW c \in ToolCall, CallOK(c), c.writer # "none", ~c.cancel \/ c.writer = "handler"
  PROVE  Follows(c, Unlock(c))
<1>1. CASE c.writer = "handler"
  BY <1>1, Unlocks DEF Follows, CallOK, InvocationOK, ItemOK, TraceOK, Pooled, AtWork, TaskEnds, Statuses
<1>2. CASE c.writer = "invocation"
  BY <1>2, Unlocks DEF Follows, CallOK, InvocationOK, ItemOK, TraceOK, Pooled, AtWork, TaskEnds, Statuses
<1>3. CASE c.writer = "round"
  BY <1>3, Unlocks DEF Follows, CallOK, InvocationOK, ItemOK, TraceOK, Pooled, AtWork, TaskEnds, Statuses
<1>. QED
  BY <1>1, <1>2, <1>3 DEF ToolCall

LEMMA FailsOK ==
  ASSUME NEW c \in ToolCall, NEW status \in {"failed", "cancelled"},
         ~c.cancel, c.result \notin {"ok", "error"}, c.writer \in {"none", "handler"}, c.item # "queued",
         c.task \notin {"none"} \cup TaskEnds,
         c.outcome = IF c.trace \in Statuses THEN c.trace ELSE "none",
         c.writer = "handler" => c.item = "ended" /\ c.trace = "lost",
         c.item \in Pooled => c.result = "dropped",
         c.item \in AtWork =>
           /\ c.reason # "none" /\ status = "cancelled"
           /\ c.trace \in Statuses => c.trace = "cancelled",
         c.item = "ended" => c.does # "none"
  PROVE  /\ Follows(c, Fails(c, status))
         /\ Fails(c, status).writer = c.writer /\ Fails(c, status).item = c.item
<1>. DEFINE d == Fails(c, status)
<1>. SUFFICES Follows(c, d) /\ d.writer = c.writer /\ d.item = c.item
  OBVIOUS
<1>1. CASE c.trace # "none"
  <2>1. d = [c EXCEPT !.task = "failed"]
    BY <1>1 DEF Fails
  <2>2. d \in ToolCall
    BY <2>1 DEF ToolCall, TaskEnds
  <2>3. /\ d.task = "failed" /\ d.cancel = c.cancel /\ d.item = c.item
        /\ d.reason = c.reason /\ d.result = c.result /\ d.does = c.does /\ d.says = c.says
        /\ d.writer = c.writer /\ d.trace = c.trace /\ d.outcome = c.outcome
    BY <2>1 DEF ToolCall
  <2>. HIDE DEF d
  <2>. QED
    BY <2>2, <2>3 DEF Follows, CallOK, InvocationOK, ItemOK, TraceOK, Pooled, AtWork, TaskEnds, Statuses
<1>2. CASE c.trace = "none"
  <2>1. d = [c EXCEPT !.task = "tracing", !.says = status]
    BY <1>2 DEF Fails
  <2>2. d \in ToolCall
    BY <2>1 DEF ToolCall
  <2>3. /\ d.task = "tracing" /\ d.cancel = c.cancel /\ d.item = c.item
        /\ d.reason = c.reason /\ d.result = c.result /\ d.does = c.does /\ d.says = status
        /\ d.writer = c.writer /\ d.trace = c.trace /\ d.outcome = c.outcome
    BY <2>1 DEF ToolCall
  <2>. HIDE DEF d
  <2>. QED
    BY <1>2, <2>2, <2>3 DEF Follows, CallOK, InvocationOK, ItemOK, TraceOK, Pooled, AtWork, TaskEnds, Statuses
<1>. QED
  BY <1>1, <1>2

LEMMA QueueFollows ==
  ASSUME NEW c \in ToolCall, CallOK(c), c.task = "created", ~c.cancel
  PROVE  Follows(c, [c EXCEPT !.task = "waiting", !.item = "queued"])
<1>. DEFINE d == [c EXCEPT !.task = "waiting", !.item = "queued"]
<1>. SUFFICES Follows(c, d)
  OBVIOUS
<1>1. d \in ToolCall
  BY DEF ToolCall, TaskEnds, Pooled
<1>2. /\ d.task = "waiting" /\ d.cancel = c.cancel /\ d.item = "queued"
      /\ d.reason = c.reason /\ d.result = c.result /\ d.does = c.does /\ d.says = c.says
      /\ d.writer = c.writer /\ d.trace = c.trace /\ d.outcome = c.outcome
  BY DEF ToolCall
<1>. HIDE DEF d
<1>. QED
  BY <1>1, <1>2 DEF Follows, CallOK, InvocationOK, ItemOK, TraceOK, Pooled, AtWork, TaskEnds, Statuses

LEMMA StopFollows ==
  ASSUME NEW c \in ToolCall, CallOK(c), c.writer # "invocation",
         c.task = "created" \/ c.task = "tracing"
  PROVE  Follows(c, [c EXCEPT !.cancel = FALSE, !.task = "stopped", !.says = "none"])
<1>. DEFINE d == [c EXCEPT !.cancel = FALSE, !.task = "stopped", !.says = "none"]
<1>. SUFFICES Follows(c, d)
  OBVIOUS
<1>1. d \in ToolCall
  BY DEF ToolCall, TaskEnds, Pooled
<1>2. /\ d.task = "stopped" /\ d.cancel = FALSE /\ d.item = c.item /\ d.reason = c.reason
      /\ d.result = c.result /\ d.does = c.does /\ d.says = "none" /\ d.writer = c.writer
      /\ d.trace = c.trace /\ d.outcome = c.outcome
  BY DEF ToolCall
<1>. HIDE DEF d
<1>. QED
  BY <1>1, <1>2 DEF Follows, CallOK, InvocationOK, ItemOK, TraceOK, Pooled, AtWork, TaskEnds, Statuses

LEMMA ReturnFollows ==
  ASSUME NEW c \in ToolCall, CallOK(c), c.task = "waiting", ~c.cancel, c.result = "ok"
  PROVE  Follows(c, [c EXCEPT !.result = "none", !.task = "returned"])
<1>. DEFINE d == [c EXCEPT !.result = "none", !.task = "returned"]
<1>. SUFFICES Follows(c, d)
  OBVIOUS
<1>1. d \in ToolCall
  BY DEF ToolCall, TaskEnds, Pooled
<1>2. /\ d.task = "returned" /\ d.cancel = c.cancel /\ d.item = c.item
      /\ d.reason = c.reason /\ d.result = "none" /\ d.does = c.does /\ d.says = c.says
      /\ d.writer = c.writer /\ d.trace = c.trace /\ d.outcome = c.outcome
  BY DEF ToolCall
<1>. HIDE DEF d
<1>. QED
  BY <1>1, <1>2 DEF Follows, CallOK, InvocationOK, ItemOK, TraceOK, Pooled, AtWork, TaskEnds, Statuses

LEMMA TakeUpFollows ==
  ASSUME NEW c \in ToolCall, CallOK(c), c.item = "queued"
  PROVE  Follows(c, [c EXCEPT !.item = "running"])
<1>. DEFINE d == [c EXCEPT !.item = "running"]
<1>. SUFFICES Follows(c, d)
  OBVIOUS
<1>1. d \in ToolCall
  BY DEF ToolCall, TaskEnds, Pooled
<1>2. /\ d.task = c.task /\ d.cancel = c.cancel /\ d.item = "running"
      /\ d.reason = c.reason /\ d.result = c.result /\ d.does = c.does /\ d.says = c.says
      /\ d.writer = c.writer /\ d.trace = c.trace /\ d.outcome = c.outcome
  BY DEF ToolCall
<1>. HIDE DEF d
<1>. QED
  BY <1>1, <1>2 DEF Follows, CallOK, InvocationOK, ItemOK, TraceOK, Pooled, AtWork, TaskEnds, Statuses

LEMMA RefuseFollows ==
  ASSUME NEW c \in ToolCall, CallOK(c), c.item = "queued"
  PROVE  Follows(c, [c EXCEPT !.item = "finished", !.result = "error"])
<1>. DEFINE d == [c EXCEPT !.item = "finished", !.result = "error"]
<1>. SUFFICES Follows(c, d)
  OBVIOUS
<1>1. d \in ToolCall
  BY DEF ToolCall, TaskEnds, Pooled
<1>2. /\ d.task = c.task /\ d.cancel = c.cancel /\ d.item = "finished"
      /\ d.reason = c.reason /\ d.result = "error" /\ d.does = c.does /\ d.says = c.says
      /\ d.writer = c.writer /\ d.trace = c.trace /\ d.outcome = c.outcome
  BY DEF ToolCall
<1>. HIDE DEF d
<1>. QED
  BY <1>1, <1>2 DEF Follows, CallOK, InvocationOK, ItemOK, TraceOK, Pooled, AtWork, TaskEnds, Statuses

LEMMA EndFollows ==
  ASSUME NEW c \in ToolCall, CallOK(c), c.item = "running", c.reason = "none",
         NEW s \in {"completed", "failed"}
  PROVE  Follows(c, [c EXCEPT !.item = "ended", !.does = s])
<1>. DEFINE d == [c EXCEPT !.item = "ended", !.does = s]
<1>. SUFFICES Follows(c, d)
  OBVIOUS
<1>1. d \in ToolCall
  BY DEF ToolCall, TaskEnds, Pooled
<1>2. /\ d.task = c.task /\ d.cancel = c.cancel /\ d.item = "ended"
      /\ d.reason = c.reason /\ d.result = c.result /\ d.does = s /\ d.says = c.says
      /\ d.writer = c.writer /\ d.trace = c.trace /\ d.outcome = c.outcome
  BY DEF ToolCall
<1>. HIDE DEF d
<1>. QED
  BY <1>1, <1>2 DEF Follows, CallOK, InvocationOK, ItemOK, TraceOK, Pooled, AtWork, TaskEnds, Statuses

LEMMA ReasonFollows ==
  ASSUME NEW c \in ToolCall, CallOK(c), c.item \in Pooled, c.item # "queued",
         NEW r \in {"timeout", "caller", "close"}
  PROVE  Follows(c, [c EXCEPT !.reason = r])
<1>. DEFINE d == [c EXCEPT !.reason = r]
<1>. SUFFICES Follows(c, d)
  OBVIOUS
<1>1. d \in ToolCall
  BY DEF ToolCall, TaskEnds, Pooled
<1>2. /\ d.task = c.task /\ d.cancel = c.cancel /\ d.item = c.item /\ d.reason = r
      /\ d.result = c.result /\ d.does = c.does /\ d.says = c.says /\ d.writer = c.writer
      /\ d.trace = c.trace /\ d.outcome = c.outcome
  BY DEF ToolCall
<1>. HIDE DEF d
<1>. QED
  BY <1>1, <1>2 DEF Follows, CallOK, InvocationOK, ItemOK, TraceOK, Pooled, AtWork, TaskEnds, Statuses

LEMMA CutFollows ==
  ASSUME NEW c \in ToolCall, CallOK(c), c.item = "running", c.reason # "none"
  PROVE  Follows(c, [c EXCEPT !.item = "ended", !.does = "cancelled"])
<1>. DEFINE d == [c EXCEPT !.item = "ended", !.does = "cancelled"]
<1>. SUFFICES Follows(c, d)
  OBVIOUS
<1>1. d \in ToolCall
  BY DEF ToolCall, TaskEnds, Pooled
<1>2. /\ d.task = c.task /\ d.cancel = c.cancel /\ d.item = "ended"
      /\ d.reason = c.reason /\ d.result = c.result /\ d.does = "cancelled"
      /\ d.says = c.says /\ d.writer = c.writer /\ d.trace = c.trace
      /\ d.outcome = c.outcome
  BY DEF ToolCall
<1>. HIDE DEF d
<1>. QED
  BY <1>1, <1>2 DEF Follows, CallOK, InvocationOK, ItemOK, TraceOK, Pooled, AtWork, TaskEnds, Statuses

LEMMA LeaveFollows ==
  ASSUME NEW c \in ToolCall, CallOK(c), c.item = "ended", c.writer # "handler"
  PROVE  Follows(c, [c EXCEPT !.item = "handled"])
<1>. DEFINE d == [c EXCEPT !.item = "handled"]
<1>. SUFFICES Follows(c, d)
  OBVIOUS
<1>1. d \in ToolCall
  BY DEF ToolCall, TaskEnds, Pooled
<1>2. /\ d.task = c.task /\ d.cancel = c.cancel /\ d.item = "handled"
      /\ d.reason = c.reason /\ d.result = c.result /\ d.does = c.does /\ d.says = c.says
      /\ d.writer = c.writer /\ d.trace = c.trace /\ d.outcome = c.outcome
  BY DEF ToolCall
<1>. HIDE DEF d
<1>. QED
  BY <1>1, <1>2 DEF Follows, CallOK, InvocationOK, ItemOK, TraceOK, Pooled, AtWork, TaskEnds, Statuses

LEMMA FinishFollows ==
  ASSUME NEW c \in ToolCall, CallOK(c), c.item = "handled",
         NEW r \in {"none", "ok", "error"},
         r = "none" <=> c.result = "dropped", r = "ok" => c.outcome = "completed"
  PROVE  Follows(c, [c EXCEPT !.item = "finished", !.reason = "none", !.does = "none", !.result = r])
<1>. DEFINE d == [c EXCEPT !.item = "finished", !.reason = "none", !.does = "none", !.result = r]
<1>. SUFFICES Follows(c, d)
  OBVIOUS
<1>1. d \in ToolCall
  BY DEF ToolCall, TaskEnds, Pooled
<1>2. /\ d.task = c.task /\ d.cancel = c.cancel /\ d.item = "finished"
      /\ d.reason = "none" /\ d.result = r /\ d.does = "none" /\ d.says = c.says
      /\ d.writer = c.writer /\ d.trace = c.trace /\ d.outcome = c.outcome
  BY DEF ToolCall
<1>. HIDE DEF d
<1>. QED
  BY <1>1, <1>2 DEF Follows, CallOK, InvocationOK, ItemOK, TraceOK, Pooled, AtWork, TaskEnds, Statuses

LEMMA DrainFollows ==
  ASSUME NEW c \in ToolCall, CallOK(c), c.task = "waiting",
         NEW reason \in {"timeout", "caller"}
  PROVE  /\ Follows(c, Drained(c, reason)) /\ Drained(c, reason).item \in {c.item, "finished"}
         /\ Drained(c, reason).writer = c.writer
<1>. DEFINE s == IF reason = "timeout" THEN "failed" ELSE "cancelled"
            d == Drained(c, reason)
<1>. SUFFICES Follows(c, d) /\ d.item \in {c.item, "finished"} /\ d.writer = c.writer
  OBVIOUS
<1>1. s \in {"failed", "cancelled"}
  OBVIOUS
<1>2. CASE c.item = "queued"
  <2>1. d = [c EXCEPT !.reason = "none", !.result = "none", !.item = "finished",
                      !.cancel = FALSE, !.task = "draining", !.says = s]
    BY <1>2 DEF Drained, ToolCall
  <2>. HIDE DEF s, d
  <2>2. d \in ToolCall
    BY <1>1, <2>1 DEF ToolCall
  <2>3. /\ d.task = "draining" /\ d.cancel = FALSE /\ d.item = "finished"
        /\ d.reason = "none" /\ d.result = "none" /\ d.does = c.does /\ d.says = s
        /\ d.writer = c.writer /\ d.trace = c.trace /\ d.outcome = c.outcome
    BY <2>1 DEF ToolCall
  <2>. QED
    BY <1>1, <1>2, <2>2, <2>3 DEF Follows, CallOK, InvocationOK, ItemOK, TraceOK, Pooled, AtWork, TaskEnds, Statuses
<1>3. CASE c.item # "queued"
  <2>. DEFINE r == IF c.reason = "none" THEN reason ELSE c.reason
              o == IF c.result = "none" THEN "dropped" ELSE "none"
  <2>1. d = [c EXCEPT !.reason = r, !.result = o, !.cancel = FALSE, !.task = "draining", !.says = s]
    BY <1>3 DEF Drained, ToolCall
  <2>2. /\ r \in {"timeout", "caller", "close"}
        /\ o \in {"none", "dropped"}
        /\ (c.result = "none") => (o = "dropped")
    BY DEF ToolCall
  <2>. HIDE DEF s, d, r, o
  <2>3. d \in ToolCall
    BY <1>1, <2>1, <2>2 DEF ToolCall
  <2>4. /\ d.task = "draining" /\ d.cancel = FALSE /\ d.item = c.item /\ d.reason = r
        /\ d.result = o /\ d.does = c.does /\ d.says = s /\ d.writer = c.writer
        /\ d.trace = c.trace /\ d.outcome = c.outcome
    BY <2>1 DEF ToolCall
  <2>. QED
    BY <1>1, <1>3, <2>2, <2>3, <2>4 DEF Follows, CallOK, InvocationOK, ItemOK, TraceOK, Pooled, AtWork, TaskEnds, Statuses
<1>. QED
  BY <1>2, <1>3

\* Settling: the round writes what nobody wrote.
LEMMA SettleFollows ==
  ASSUME NEW c \in ToolCall, CallOK(c), c.writer = "none", c.outcome = "none",
         c.task \in {"none"} \cup TaskEnds, c.item \notin {"queued"} \cup AtWork
  PROVE  Follows(c, BeginTrace([c EXCEPT !.says = "skipped"], "round"))
<1>. DEFINE e == [c EXCEPT !.says = "skipped"]
            w == [e EXCEPT !.writer = "round"]
            d == BeginTrace(e, "round")
<1>. SUFFICES Follows(c, d)
  OBVIOUS
<1>1. e \in ToolCall /\ e.trace = c.trace /\ e.outcome = c.outcome
  BY DEF ToolCall
<1>2. w \in ToolCall
  BY DEF ToolCall
<1>3. /\ w.task = c.task /\ w.cancel = c.cancel /\ w.item = c.item /\ w.reason = c.reason
      /\ w.result = c.result /\ w.does = c.does /\ w.says = "skipped"
      /\ w.writer = "round" /\ w.trace = c.trace /\ w.outcome = c.outcome
  BY DEF ToolCall
<1>4. c.trace \in {"none", "lost"}
  BY DEF CallOK, TraceOK, ToolCall
<1>5. CASE c.trace = "none"
  <2>1. d = [w EXCEPT !.trace = "lost"]
    BY <1>1, <1>5 DEF BeginTrace, ToolCall
  <2>. HIDE DEF e, w, d
  <2>2. d \in ToolCall
    BY <1>2, <2>1 DEF ToolCall
  <2>3. /\ d.task = c.task /\ d.cancel = c.cancel /\ d.item = c.item /\ d.reason = c.reason
        /\ d.result = c.result /\ d.does = c.does /\ d.says = "skipped"
        /\ d.writer = "round" /\ d.trace = "lost" /\ d.outcome = c.outcome
    BY <1>2, <1>3, <2>1 DEF ToolCall
  <2>. QED
    BY <1>5, <2>2, <2>3 DEF Follows, CallOK, InvocationOK, ItemOK, TraceOK, Pooled, AtWork, TaskEnds, Statuses
<1>6. CASE c.trace = "lost"
  <2>1. d = Unlock(w)
    BY <1>1, <1>6 DEF BeginTrace
  <2>. HIDE DEF e, w, d
  <2>. QED
    BY <1>2, <1>3, <1>6, <2>1, Unlocks DEF Follows, CallOK, InvocationOK, ItemOK, TraceOK, Pooled, AtWork, TaskEnds, Statuses
<1>. QED
  BY <1>4, <1>5, <1>6

-----------------------------------------------------------------------------
(* A step of one call.                                                        *)

CallMoves(t, d) ==
  /\ Follows(calls[t], d)
  /\ calls' = [calls EXCEPT ![t] = d]
  /\ graph' = graph /\ batch' = batch /\ pool' = pool
  /\ phase' = phase \/ (phase \in Settled /\ phase' = "raised")
  /\ d.writer # "none" => calls[t].writer # "none" \/ Unlocked
  /\ d.writer = "round" => phase \in Settled
  /\ calls[t] # NoCall \/ phase \in Settled
  /\ d.item \in Pooled => calls[t].item \in Pooled \/ pool = "running"

LEMMA OneCall ==
  ASSUME ToolInv, NEW t \in RoundTools
  PROVE  /\ calls[t] \in ToolCall /\ CallOK(calls[t])
         /\ calls[t].writer = "round" => phase \in Settled
         /\ calls[t].task # "none" \/ calls[t].writer # "none" => calls[t] # NoCall
         /\ calls[t].item # "none" \/ calls[t].cancel => calls[t].task # "none"
BY NoCallOK DEF ToolInv, CallOK, InvocationOK, RoundOK

LEMMA PlainMove ==
  ASSUME ToolInv, NEW t \in RoundTools, NEW d, Follows(calls[t], d), Set(t, d), Stays,
         d.writer \in {calls[t].writer, "none"},
         calls[t].task # "none" \/ calls[t].writer # "none",
         d.item \in Pooled => calls[t].item \in Pooled \/ pool = "running"
  PROVE  CallMoves(t, d)
BY OneCall DEF CallMoves, Set, Stays, Settled

LEMMA TraceMoves ==
  ASSUME ToolInv, NEW t \in RoundTools, Trace(t), Delivered
  PROVE  \E d : CallMoves(t, d)
<1>. DEFINE c == calls[t]
<1>1. PICK who \in Wants(c) : Set(t, BeginTrace(c, who))
  BY DEF Trace
<1>. DEFINE d == BeginTrace(c, who)
<1>2. c \in ToolCall /\ CallOK(c) /\ c.writer = "none" /\ Unlocked
  BY OneCall DEF Trace, Unlocked
<1>3. ~c.cancel /\ (c.reason # "none" /\ c.item = "ended" => c.does = "cancelled")
  BY DEF Delivered
<1>4. Follows(c, d)
  BY <1>2, <1>3, TraceFollows
<1>5. \/ who = "handler" /\ c.item = "ended"
      \/ who = "invocation" /\ c.task = "tracing"
  BY DEF Wants
<1>6. /\ d.writer \in {who, "none"}
      /\ d.item = c.item \/ (who = "handler" /\ d.item = "handled")
  <2>. DEFINE w == [c EXCEPT !.writer = who]
  <2>1. w \in ToolCall /\ w.item = c.item /\ w.writer = who
    BY <1>2, <1>5 DEF ToolCall
  <2>2. CASE c.trace = "none"
    <3>1. d = [c EXCEPT !.writer = who, !.trace = "lost"]
      BY <2>2 DEF BeginTrace
    <3>. QED
      BY <1>2, <3>1 DEF ToolCall
  <2>3. CASE c.trace = "lost"
    <3>1. d = Unlock(w)
      BY <2>3 DEF BeginTrace
    <3>. QED
      BY <2>1, <3>1, Unlocks
  <2>4. CASE c.trace \in Statuses
    <3>1. d = Unlock(Told(w))
      BY <2>4 DEF BeginTrace, Statuses
    <3>2. Said(w) \in Statuses
      <4>1. w.does = c.does /\ w.says = c.says
        BY <1>2 DEF ToolCall
      <4>. QED
        BY <1>2, <1>5, <2>1, <4>1 DEF Said, Statuses, CallOK, ItemOK, InvocationOK, ToolCall
    <3>3. Told(w) \in ToolCall /\ Told(w).writer = w.writer /\ Told(w).item = w.item
      BY <2>1, <3>2, Tells
    <3>. QED
      BY <2>1, <3>1, <3>3, Unlocks
  <2>. QED
    BY <1>2, <2>2, <2>3, <2>4 DEF ToolCall
<1>7. c # NoCall
  BY <1>5, NoCallOK
<1>. HIDE DEF d
<1>8. calls' = [calls EXCEPT ![t] = d] /\ Stays
  BY <1>1 DEF Set, Trace, d
<1>9. CallMoves(t, d)
  BY <1>2, <1>4, <1>5, <1>6, <1>7, <1>8 DEF CallMoves, Stays, Pooled
<1>. QED
  BY <1>9

LEMMA TracedMoves ==
  ASSUME ToolInv, NEW t \in RoundTools, Traced(t), Delivered
  PROVE  \E d : CallMoves(t, d)
<1>. DEFINE c == calls[t]
            v == [Told(c) EXCEPT !.trace = Said(c)]
            d == Unlock(v)
<1>1. c \in ToolCall /\ CallOK(c) /\ c.writer # "none"
  BY OneCall DEF Traced
<1>2. ~c.cancel /\ (c.reason # "none" /\ c.item = "ended" => c.does = "cancelled")
  BY DEF Delivered
<1>3. Follows(c, d)
  BY <1>1, <1>2, TracedFollows
<1>4. Said(c) \in Statuses
  BY <1>1 DEF Said, Statuses, CallOK, InvocationOK, ItemOK, TraceOK, ToolCall
<1>5. v \in ToolCall
  BY <1>1, <1>4, Tells DEF ToolCall
<1>6. v.item = c.item /\ v.writer = c.writer
  BY <1>1, <1>4, Tells
<1>7. d.writer = "none" /\ d.item = IF v.writer = "handler" THEN "handled" ELSE v.item
  BY <1>5, Unlocks
<1>8. c.writer = "handler" => c.item \in Pooled
  BY <1>1 DEF CallOK, TraceOK, Pooled
<1>9. Set(t, d) /\ Stays
  BY DEF Traced
<1>. HIDE DEF d, v
<1>10. CallMoves(t, d)
  BY <1>1, <1>3, <1>6, <1>7, <1>8, <1>9, PlainMove
<1>. QED
  BY <1>10

LEMMA TraceBreaksMoves ==
  ASSUME ToolInv, NEW t \in RoundTools, TraceBreaks(t), Delivered
  PROVE  \E d : CallMoves(t, d)
<1>. DEFINE c == calls[t]
            d == Unlock(c)
<1>1. c \in ToolCall /\ CallOK(c) /\ c.writer # "none" /\ c # NoCall
  BY OneCall DEF TraceBreaks
<1>2. ~c.cancel
  BY DEF Delivered
<1>3. Follows(c, d)
  BY <1>1, <1>2, UnlockFollows
<1>4. d.writer = "none" /\ d.item = IF c.writer = "handler" THEN "handled" ELSE c.item
  BY <1>1, Unlocks
<1>5. c.writer = "handler" => c.item \in Pooled
  BY <1>1 DEF CallOK, TraceOK, Pooled
<1>6. c.writer = "round" => phase \in Settled
  BY OneCall
<1>7. /\ calls' = [calls EXCEPT ![t] = d]
      /\ phase' = IF c.writer = "round" THEN "raised" ELSE phase
      /\ UNCHANGED <<graph, batch, pool>>
  BY DEF TraceBreaks, Set
<1>. HIDE DEF d
<1>8. CallMoves(t, d)
  BY <1>1, <1>3, <1>4, <1>5, <1>6, <1>7 DEF CallMoves
<1>. QED
  BY <1>8

LEMMA SettleCallMoves ==
  ASSUME ToolInv, NEW t \in RoundTools, SettleCall(t), Delivered
  PROVE  \E d : CallMoves(t, d)
<1>. DEFINE c == calls[t]
            e == [c EXCEPT !.says = "skipped"]
            w == [e EXCEPT !.writer = "round"]
            d == BeginTrace(e, "round")
<1>1. /\ c \in ToolCall /\ CallOK(c) /\ c.writer = "none" /\ c.outcome = "none" /\ Unlocked
      /\ phase = "settle" /\ Wants(c) = {}
  BY OneCall DEF SettleCall, Unlocked
<1>2. c.task \in {"none"} \cup TaskEnds
  BY <1>1 DEF ToolInv, RoundOK
<1>3. c.item # "ended"
  BY <1>1 DEF Wants
<1>4. c.item # "running"
  BY <1>1, <1>2 DEF Delivered, CallOK, InvocationOK, ItemOK, AtWork, TaskEnds
<1>5. c.item # "queued"
  BY <1>1, <1>2 DEF CallOK, ItemOK, TaskEnds
<1>6. Follows(c, d)
  BY <1>1, <1>2, <1>3, <1>4, <1>5, SettleFollows DEF AtWork
<1>7. e \in ToolCall /\ e.item = c.item /\ e.trace = c.trace /\ w \in ToolCall /\ w.item = c.item
  BY <1>1 DEF ToolCall
<1>8. c.trace \in {"none", "lost"}
  BY <1>1 DEF CallOK, TraceOK, ToolCall
<1>9. d.item = c.item
  <2>1. CASE c.trace = "none"
    <3>1. d = [e EXCEPT !.writer = "round", !.trace = "lost"]
      BY <1>7, <2>1 DEF BeginTrace
    <3>. QED
      BY <1>7, <3>1 DEF ToolCall
  <2>2. CASE c.trace = "lost"
    <3>1. d = Unlock(w)
      BY <1>7, <2>2 DEF BeginTrace
    <3>2. w.writer = "round"
      BY <1>7 DEF ToolCall
    <3>. QED
      BY <1>7, <3>1, <3>2, Unlocks
  <2>. QED
    BY <1>8, <2>1, <2>2
<1>10. /\ calls' = [calls EXCEPT ![t] = d] /\ UNCHANGED <<graph, batch, pool>>
       /\ phase' = IF c.trace = "lost" THEN "raised" ELSE phase
  BY DEF SettleCall, Set
<1>. HIDE DEF d
<1>11. CallMoves(t, d)
  BY <1>1, <1>6, <1>9, <1>10 DEF CallMoves, Settled
<1>. QED
  BY <1>11

LEMMA SubmitMoves ==
  ASSUME ToolInv, NEW t \in RoundTools, Submit(t)
  PROVE  \E d : CallMoves(t, d)
<1>. DEFINE c == calls[t]
<1>1. /\ c \in ToolCall /\ CallOK(c) /\ c.task = "created" /\ ~c.cancel /\ Stays
      /\ c.item = "none" /\ c.reason = "none" /\ c.result = "none" /\ c.trace = "none"
      /\ c.writer = "none" /\ c.outcome = "none"
  BY OneCall DEF Submit, CallOK, InvocationOK, TraceOK, TaskEnds, Statuses, ToolCall
<1>2. CASE Set(t, Fails(c, "failed"))
  <2>. DEFINE d == Fails(c, "failed")
  <2>1. Follows(c, d) /\ d.writer = c.writer /\ d.item = c.item
    BY <1>1, FailsOK DEF Pooled, AtWork, TaskEnds, Statuses
  <2>. HIDE DEF d
  <2>. QED
    BY <1>1, <1>2, <2>1, PlainMove DEF d
<1>3. CASE pool = "running" /\ Set(t, [c EXCEPT !.task = "waiting", !.item = "queued"])
  <2>. DEFINE d == [c EXCEPT !.task = "waiting", !.item = "queued"]
  <2>1. Follows(c, d) /\ d.writer = c.writer
    BY <1>1, QueueFollows DEF ToolCall
  <2>2. CallMoves(t, d)
    BY <1>1, <1>3, <2>1, PlainMove
  <2>. QED
    BY <2>2
<1>. QED
  BY <1>1, <1>2, <1>3 DEF Submit

LEMMA WakeMoves ==
  ASSUME ToolInv, NEW t \in RoundTools, Wake(t)
  PROVE  \E d : CallMoves(t, d)
<1>. DEFINE c == calls[t]
            w == [c EXCEPT !.result = "none"]
<1>1. c \in ToolCall /\ CallOK(c) /\ c.task = "waiting" /\ ~c.cancel /\ Stays
  BY OneCall DEF Wake
<1>2. CASE c.result = "ok" /\ Set(t, [w EXCEPT !.task = "returned"])
  <2>. DEFINE d == [c EXCEPT !.result = "none", !.task = "returned"]
  <2>1. Follows(c, d) /\ d.writer = c.writer /\ d.item = c.item
    BY <1>1, <1>2, ReturnFollows DEF ToolCall
  <2>2. CallMoves(t, d)
    BY <1>1, <1>2, <2>1, PlainMove
  <2>. QED
    BY <2>2
<1>3. CASE c.result = "error" /\ Set(t, Fails(w, "failed"))
  <2>. DEFINE d == Fails(w, "failed")
  <2>1. /\ w \in ToolCall /\ w.task = c.task /\ w.cancel = c.cancel /\ w.item = c.item
        /\ w.reason = c.reason /\ w.result = "none" /\ w.does = c.does /\ w.says = c.says
        /\ w.writer = c.writer /\ w.trace = c.trace /\ w.outcome = c.outcome
    BY <1>1 DEF ToolCall
  <2>2. c.item = "finished" /\ c.writer \in {"none", "handler"}
    BY <1>1, <1>3 DEF CallOK, InvocationOK, TraceOK, ToolCall, TaskEnds
  <2>3. c.writer = "none"
    BY <1>1, <2>2 DEF CallOK, TraceOK
  <2>4. c.outcome = IF c.trace \in Statuses THEN c.trace ELSE "none"
    BY <1>1 DEF CallOK, TraceOK
  <2>. HIDE DEF w
  <2>5. Follows(w, d) /\ d.writer = w.writer /\ d.item = w.item
    BY <1>1, <2>1, <2>2, <2>3, <2>4, FailsOK DEF Pooled, AtWork, TaskEnds
  <2>6. Follows(c, d)
    BY <2>1, <2>5 DEF Follows
  <2>7. Set(t, d)
    BY <1>3 DEF w
  <2>. HIDE DEF d
  <2>8. CallMoves(t, d)
    BY <1>1, <2>1, <2>5, <2>6, <2>7, PlainMove
  <2>. QED
    BY <2>8
<1>. QED
  BY <1>1, <1>2, <1>3 DEF Wake

LEMMA TimeoutMoves ==
  ASSUME ToolInv, NEW t \in RoundTools, TimeoutInPool(t)
  PROVE  \E d : CallMoves(t, d)
<1>. DEFINE c == calls[t]
            d == Drained(c, "timeout")
<1>1. c \in ToolCall /\ CallOK(c) /\ c.task = "waiting" /\ Stays /\ Set(t, d)
  BY OneCall DEF TimeoutInPool
<1>2. Follows(c, d) /\ d.item \in {c.item, "finished"} /\ d.writer = c.writer
  BY <1>1, DrainFollows
<1>. HIDE DEF d
<1>3. CallMoves(t, d)
  BY <1>1, <1>2, PlainMove DEF Pooled
<1>. QED
  BY <1>3

LEMMA AfterDrainMoves ==
  ASSUME ToolInv, NEW t \in RoundTools, AfterDrain(t)
  PROVE  \E d : CallMoves(t, d)
<1>. DEFINE c == calls[t]
            d == Fails(c, c.says)
<1>1. /\ c \in ToolCall /\ CallOK(c) /\ c.task = "draining" /\ c.item = "finished" /\ ~c.cancel
      /\ Stays /\ Set(t, d)
  BY OneCall DEF AfterDrain
<1>2. /\ c.says \in {"failed", "cancelled"} /\ c.result \notin {"ok", "error"}
      /\ c.writer \in {"none", "handler"}
      /\ c.outcome = IF c.trace \in Statuses THEN c.trace ELSE "none"
  BY <1>1 DEF CallOK, InvocationOK, ItemOK, TraceOK, ToolCall, TaskEnds, Statuses
<1>3. c.writer = "none"
  BY <1>1, <1>2 DEF CallOK, TraceOK
<1>4. Follows(c, d) /\ d.item = c.item /\ d.writer = c.writer
  BY <1>1, <1>2, <1>3, FailsOK DEF Pooled, AtWork, TaskEnds
<1>. HIDE DEF d
<1>5. CallMoves(t, d)
  BY <1>1, <1>4, PlainMove
<1>. QED
  BY <1>5

\* The cancellation is taken first; then it ends the wait.
LEMMA CancelTaken ==
  ASSUME NEW c \in ToolCall
  PROVE  LET e == [c EXCEPT !.cancel = FALSE]
         IN  /\ e \in ToolCall /\ e.task = c.task /\ e.cancel = FALSE /\ e.item = c.item
             /\ e.reason = c.reason /\ e.result = c.result /\ e.does = c.does /\ e.says = c.says
             /\ e.writer = c.writer /\ e.trace = c.trace /\ e.outcome = c.outcome
             /\ CallOK(c) => CallOK(e)
<1>. DEFINE e == [c EXCEPT !.cancel = FALSE]
<1>1. /\ e \in ToolCall /\ e.task = c.task /\ e.cancel = FALSE /\ e.item = c.item
      /\ e.reason = c.reason /\ e.result = c.result /\ e.does = c.does /\ e.says = c.says
      /\ e.writer = c.writer /\ e.trace = c.trace /\ e.outcome = c.outcome
  BY DEF ToolCall
<1>. HIDE DEF e
<1>2. CallOK(c) => CallOK(e)
  BY <1>1 DEF CallOK, InvocationOK, ItemOK, TraceOK
<1>. QED
  BY <1>1, <1>2 DEF e

LEMMA StoppedMoves ==
  ASSUME ToolInv, NEW t \in RoundTools, Stopped(t)
  PROVE  \E d : CallMoves(t, d)
<1>. DEFINE c == calls[t]
            e == [c EXCEPT !.cancel = FALSE]
<1>1. c \in ToolCall /\ CallOK(c) /\ c.cancel /\ Stays /\ c.task # "none"
  BY OneCall DEF Stopped
<1>2. /\ e \in ToolCall /\ e.task = c.task /\ e.cancel = FALSE /\ e.item = c.item
      /\ e.reason = c.reason /\ e.result = c.result /\ e.does = c.does /\ e.says = c.says
      /\ e.writer = c.writer /\ e.trace = c.trace /\ e.outcome = c.outcome /\ CallOK(e)
  BY <1>1, CancelTaken
<1>3. \/ e.task = "created" /\ Set(t, [e EXCEPT !.task = "stopped", !.says = "none"])
      \/ e.task = "waiting" /\ Set(t, Drained(e, "caller"))
      \/ e.task = "draining" /\ Set(t, Fails(e, "cancelled"))
      \/ e.task = "tracing" /\ e.writer = "invocation" /\ Set(t, Unlock(e))
      \/ /\ e.task = "tracing" /\ e.writer # "invocation"
         /\ Set(t, [e EXCEPT !.task = "stopped", !.says = "none"])
  BY DEF Stopped
<1>4. ASSUME NEW d, Follows(e, d), Set(t, d), d.writer \in {e.writer, "none"},
             d.item \in Pooled => e.item \in Pooled
      PROVE  \E f : CallMoves(t, f)
  <2>1. Follows(c, d)
    BY <1>2, <1>4 DEF Follows
  <2>2. CallMoves(t, d)
    BY <1>1, <1>2, <1>4, <2>1, PlainMove
  <2>. QED
    BY <2>2
<1>. HIDE DEF e
<1>5. CASE /\ e.task = "created" \/ (e.task = "tracing" /\ e.writer # "invocation")
           /\ Set(t, [e EXCEPT !.task = "stopped", !.says = "none"])
  <2>. DEFINE d == [e EXCEPT !.cancel = FALSE, !.task = "stopped", !.says = "none"]
  <2>1. e.writer # "invocation"
    BY <1>2, <1>5 DEF CallOK, TraceOK
  <2>2. Follows(e, d)
    BY <1>2, <1>5, <2>1, StopFollows
  <2>3. d.item = e.item /\ d.writer = e.writer
    BY <1>2 DEF ToolCall
  <2>4. d = [e EXCEPT !.task = "stopped", !.says = "none"]
    BY <1>2 DEF ToolCall
  <2>5. Set(t, d)
    BY <1>5, <2>4
  <2>. HIDE DEF d
  <2>. QED
    BY <1>4, <2>2, <2>3, <2>5
<1>6. CASE e.task = "waiting" /\ Set(t, Drained(e, "caller"))
  BY <1>2, <1>4, <1>6, DrainFollows DEF Pooled
<1>7. CASE e.task = "draining" /\ Set(t, Fails(e, "cancelled"))
  <2>1. e.result \notin {"ok", "error"} /\ e.item # "queued" /\ e.writer \in {"none", "handler"}
    BY <1>2, <1>7 DEF CallOK, InvocationOK, ItemOK, TraceOK, ToolCall, TaskEnds
  <2>2. /\ e.item \in Pooled => e.result = "dropped"
        /\ e.item \in AtWork =>
             e.reason # "none" /\ (e.trace \in Statuses => e.trace = "cancelled")
        /\ e.item = "ended" => e.does # "none"
        /\ e.writer = "handler" => e.item = "ended" /\ e.trace = "lost"
        /\ e.outcome = IF e.trace \in Statuses THEN e.trace ELSE "none"
    BY <1>2, <1>7 DEF CallOK, ItemOK, TraceOK
  <2>3. ~e.cancel /\ e.task \notin {"none"} \cup TaskEnds
    BY <1>2, <1>7 DEF TaskEnds
  <2>4. /\ Follows(e, Fails(e, "cancelled"))
        /\ Fails(e, "cancelled").writer = e.writer /\ Fails(e, "cancelled").item = e.item
    BY <1>2, <2>1, <2>2, <2>3, FailsOK
  <2>. QED
    BY <1>4, <1>7, <2>4
<1>8. CASE e.task = "tracing" /\ e.writer = "invocation" /\ Set(t, Unlock(e))
  <2>1. Follows(e, Unlock(e))
    BY <1>2, <1>8, UnlockFollows
  <2>2. Unlock(e).writer = "none" /\ Unlock(e).item = e.item
    BY <1>2, <1>8, Unlocks
  <2>. QED
    BY <1>4, <1>8, <2>1, <2>2
<1>. QED
  BY <1>3, <1>5, <1>6, <1>7, <1>8

LEMMA TakeUpMoves ==
  ASSUME ToolInv, NEW t \in RoundTools, TakeUp(t)
  PROVE  \E d : CallMoves(t, d)
<1>. DEFINE c == calls[t]
<1>1. /\ c \in ToolCall /\ CallOK(c) /\ c.item = "queued" /\ c.task # "none" /\ Stays
      /\ c.item \in Pooled
  BY OneCall DEF TakeUp, Pooled
<1>2. CASE Set(t, [c EXCEPT !.item = "finished", !.result = "error"])
  <2>. DEFINE d == [c EXCEPT !.item = "finished", !.result = "error"]
  <2>1. Follows(c, d) /\ d.writer = c.writer
    BY <1>1, RefuseFollows DEF ToolCall
  <2>2. CallMoves(t, d)
    BY <1>1, <1>2, <2>1, PlainMove
  <2>. QED
    BY <2>2
<1>3. CASE Set(t, [c EXCEPT !.item = "running"])
  <2>. DEFINE d == [c EXCEPT !.item = "running"]
  <2>1. Follows(c, d) /\ d.writer = c.writer
    BY <1>1, TakeUpFollows DEF ToolCall
  <2>2. CallMoves(t, d)
    BY <1>1, <1>3, <2>1, PlainMove
  <2>. QED
    BY <2>2
<1>. QED
  BY <1>2, <1>3 DEF TakeUp

LEMMA HandlerEndsMoves ==
  ASSUME ToolInv, NEW t \in RoundTools, HandlerEnds(t), Delivered
  PROVE  \E d : CallMoves(t, d)
<1>. DEFINE c == calls[t]
<1>1. /\ c \in ToolCall /\ CallOK(c) /\ c.item = "running" /\ c.task # "none" /\ Stays
      /\ c.item \in Pooled /\ c.reason = "none"
  BY OneCall DEF HandlerEnds, Pooled, Delivered
<1>2. PICK s \in {"completed", "failed"} : Set(t, [c EXCEPT !.item = "ended", !.does = s])
  BY DEF HandlerEnds
<1>. DEFINE d == [c EXCEPT !.item = "ended", !.does = s]
<1>3. Follows(c, d)
  BY <1>1, EndFollows
<1>4. d.writer = c.writer
  BY <1>1 DEF ToolCall
<1>5. CallMoves(t, d)
  BY <1>1, <1>2, <1>3, <1>4, PlainMove
<1>. QED
  BY <1>5

LEMMA HandlerCancelledMoves ==
  ASSUME ToolInv, NEW t \in RoundTools, HandlerCancelled(t)
  PROVE  \E d : CallMoves(t, d)
<1>. DEFINE c == calls[t]
            r == IF c.reason = "none" THEN "timeout" ELSE c.reason
            e == [c EXCEPT !.reason = r]
<1>1. /\ c \in ToolCall /\ CallOK(c) /\ Stays /\ c.task # "none" 
      /\ c.item \in {"running", "ended"}
  <2>1. c \in ToolCall
    BY OneCall
  <2>2. [c EXCEPT !.reason = IF @ = "none" THEN "timeout" ELSE @].item = c.item
    BY <2>1 DEF ToolCall
  <2>. QED
    BY <2>2, OneCall DEF HandlerCancelled
<1>2. r \in {"timeout", "caller", "close"}
  BY <1>1 DEF ToolCall
<1>3. e = [c EXCEPT !.reason = IF @ = "none" THEN "timeout" ELSE @]
  BY <1>1 DEF ToolCall
<1>4. Follows(c, e)
  BY <1>1, <1>2, ReasonFollows DEF Pooled
<1>5. e \in ToolCall /\ e.item = c.item /\ e.writer = c.writer /\ e.reason = r
  BY <1>1, <1>2 DEF ToolCall
<1>6. \/ e.item = "running" /\ Set(t, [e EXCEPT !.item = "ended", !.does = "cancelled"])
      \/ e.item = "ended" /\ e.writer = "handler" /\ Set(t, Unlock(e))
      \/ e.item = "ended" /\ e.writer # "handler" /\ Set(t, [e EXCEPT !.item = "handled"])
  BY <1>3 DEF HandlerCancelled
<1>7. CallOK(e)
  BY <1>4 DEF Follows
<1>8. ASSUME NEW d, Follows(e, d), Set(t, d), d.writer \in {e.writer, "none"}
      PROVE  \E f : CallMoves(t, f)
  <2>1. Follows(c, d)
    BY <1>4, <1>8 DEF Follows
  <2>2. CallMoves(t, d)
    BY <1>1, <1>5, <1>8, <2>1, PlainMove DEF Pooled
  <2>. QED
    BY <2>2
<1>9. r # "none"
  BY <1>2
<1>. HIDE DEF e, r
<1>10. CASE e.item = "running" /\ Set(t, [e EXCEPT !.item = "ended", !.does = "cancelled"])
  <2>. DEFINE d == [e EXCEPT !.item = "ended", !.does = "cancelled"]
  <2>1. Follows(e, d)
    BY <1>5, <1>7, <1>9, <1>10, CutFollows
  <2>2. d.writer = e.writer
    BY <1>5 DEF ToolCall
  <2>. QED
    BY <1>8, <1>10, <2>1, <2>2
<1>11. CASE e.item = "ended" /\ e.writer = "handler" /\ Set(t, Unlock(e))
  <2>1. Follows(e, Unlock(e))
    BY <1>5, <1>7, <1>11, UnlockFollows
  <2>2. Unlock(e).writer = "none"
    BY <1>5, Unlocks
  <2>. QED
    BY <1>8, <1>11, <2>1, <2>2
<1>12. CASE e.item = "ended" /\ e.writer # "handler" /\ Set(t, [e EXCEPT !.item = "handled"])
  <2>. DEFINE d == [e EXCEPT !.item = "handled"]
  <2>1. Follows(e, d)
    BY <1>5, <1>7, <1>12, LeaveFollows
  <2>2. d.writer = e.writer
    BY <1>5 DEF ToolCall
  <2>. QED
    BY <1>8, <1>12, <2>1, <2>2
<1>. QED
  BY <1>6, <1>10, <1>11, <1>12

LEMMA FinishItemMoves ==
  ASSUME ToolInv, NEW t \in RoundTools, FinishItem(t)
  PROVE  \E d : CallMoves(t, d)
<1>. DEFINE c == calls[t]
            good == c.reason = "none" /\ c.outcome = "completed"
            r == IF c.result = "dropped" THEN "none" ELSE IF good THEN "ok" ELSE "error"
            d == [c EXCEPT !.item = "finished", !.reason = "none", !.does = "none", !.result = r]
<1>1. /\ c \in ToolCall /\ CallOK(c) /\ Stays /\ c.task # "none" /\ c.item = "handled"
  BY OneCall DEF FinishItem
<1>2. /\ r \in {"none", "ok", "error"} /\ (r = "none" <=> c.result = "dropped")
      /\ (r = "ok" => c.outcome = "completed")
  OBVIOUS
<1>3. Set(t, d)
  <2>1. d = [c EXCEPT !.item = "finished", !.reason = "none", !.does = "none",
               !.result = IF @ = "dropped" THEN "none" ELSE IF good THEN "ok" ELSE "error"]
    BY <1>1 DEF ToolCall
  <2>. QED
    BY <2>1 DEF FinishItem
<1>. HIDE DEF r
<1>4. Follows(c, d)
  BY <1>1, <1>2, FinishFollows
<1>5. d.writer = c.writer
  BY <1>1 DEF ToolCall
<1>6. CallMoves(t, d)
  BY <1>1, <1>3, <1>4, <1>5, PlainMove DEF Pooled
<1>. QED
  BY <1>6

-----------------------------------------------------------------------------
(* The round.                                                                 *)

TracesKept == \A t \in RoundTools : calls[t].trace \in Statuses => calls'[t].trace = calls[t].trace

PhaseGoesOn ==
  \/ phase' = phase
  \/ phase' \in ToolEnds
  \/ phase \in {"batch", "unwind"} /\ phase' = "unwind"
  \/ phase' = "settle" /\ \A t \in RoundTools : calls'[t].task \in {"none"} \cup TaskEnds

LEMMA CallsKeep ==
  ASSUME ToolInv, PhaseGoesOn, graph' = graph, batch' = batch,
         calls' \in [RoundTools -> ToolCall],
         \A t \in RoundTools : Follows(calls[t], calls'[t]),
         \A t, u \in RoundTools :
           calls'[t].writer # "none" /\ calls'[u].writer # "none" => t = u,
         \A t \in RoundTools : calls'[t].writer = "round" => phase \in Settled,
         phase \in Settled \/ \A t \in RoundTools : calls[t] = NoCall => calls'[t] = NoCall,
         pool' = "closed" => \A t \in RoundTools : calls'[t].item \notin Pooled
  PROVE  ToolInv' /\ TracesKept
<1>1. /\ \A t \in RoundTools : CallOK(calls'[t])
      /\ \A t \in RoundTools : calls[t].task = "none" <=> calls'[t].task = "none"
      /\ \A t \in RoundTools : calls[t].task \in TaskEnds => calls'[t].task = calls[t].task
      /\ \A t \in RoundTools : calls[t].trace \in Statuses => calls'[t].trace = calls[t].trace
  BY DEF Follows
<1>2. Planned' = Planned
  BY <1>1 DEF Planned
<1>3. phase' \in {"ready", "batch", "unwind"} \cup Settled
  BY DEF PhaseGoesOn, ToolInv, Settled
<1>4. phase \in Settled => phase' \in Settled
  BY DEF PhaseGoesOn, Settled, ToolEnds
<1>5. \A t \in RoundTools \ Planned' : \A u \in Needs(graph, t)' : calls'[u].outcome = "completed"
  <2>. SUFFICES ASSUME NEW t \in RoundTools, t \notin Planned, NEW u \in Needs(graph, t)
                PROVE  calls'[u].outcome = "completed"
    BY <1>2 DEF Needs
  <2>1. u \in RoundTools /\ calls[u].outcome = "completed"
    BY DEF ToolInv, Needs
  <2>2. CallOK(calls[u])
    BY <2>1 DEF ToolInv
  <2>3. calls[u].trace = "completed"
    BY <2>1, <2>2 DEF CallOK, TraceOK, Statuses
  <2>4. calls'[u].trace = "completed" /\ CallOK(calls'[u])
    BY <1>1, <2>1, <2>3 DEF Statuses
  <2>. QED
    BY <2>4 DEF CallOK, TraceOK, Statuses
<1>6. RoundOK'
  <2>1. phase' = "ready" => Planned' = RoundTools
    BY <1>2 DEF ToolInv, RoundOK, PhaseGoesOn, ToolEnds
  <2>2. phase' \in {"batch", "unwind"} =>
          /\ batch' \cap Planned' = {}
          /\ \A t \in RoundTools \ (batch' \cup Planned') : calls'[t].task = "returned"
    <3>. SUFFICES ASSUME phase' \in {"batch", "unwind"}
                  PROVE  /\ batch \cap Planned = {}
                         /\ \A t \in RoundTools \ (batch \cup Planned) : calls'[t].task = "returned"
      BY <1>2
    <3>1. phase \in {"batch", "unwind"}
      BY DEF PhaseGoesOn, ToolEnds
    <3>. QED
      BY <1>1, <3>1 DEF ToolInv, RoundOK, TaskEnds
  <2>3. phase' \notin Settled => \A t \in Planned' : calls'[t] = NoCall
    BY <1>2, <1>4 DEF ToolInv, RoundOK, Planned
  <2>4. phase' = "settle" => \A t \in RoundTools : calls'[t].task \in {"none"} \cup TaskEnds
    BY <1>1 DEF ToolInv, RoundOK, PhaseGoesOn, ToolEnds
  <2>5. \A t \in RoundTools : calls'[t].writer = "round" => phase' \in Settled
    BY <1>4
  <2>. QED
    BY <2>1, <2>2, <2>3, <2>4, <2>5 DEF RoundOK
<1>7. batch' \subseteq RoundTools
  BY DEF ToolInv
<1>8. pool' = "closed" => InPool' = {}
  BY DEF InPool, Pooled
<1>. QED
  BY <1>1, <1>3, <1>5, <1>6, <1>7, <1>8 DEF ToolInv, TracesKept

LEMMA FollowsItself ==
  ASSUME NEW c, CallOK(c)
  PROVE  Follows(c, c)
BY DEF Follows

LEMMA MovesKeep ==
  ASSUME ToolInv, NEW t \in RoundTools, NEW d, CallMoves(t, d)
  PROVE  ToolInv' /\ TracesKept /\ (phase' = "replied" => phase = "replied")
<1>1. d \in ToolCall /\ Follows(calls[t], d)
  BY DEF CallMoves, Follows, CallOK
<1>2. calls \in [RoundTools -> ToolCall] /\ \A u \in RoundTools : CallOK(calls[u])
  BY DEF ToolInv
<1>3. calls' \in [RoundTools -> ToolCall] /\ calls'[t] = d
      /\ \A u \in RoundTools : u # t => calls'[u] = calls[u]
  BY <1>1, <1>2 DEF CallMoves
<1>4. \A u \in RoundTools : Follows(calls[u], calls'[u])
  BY <1>1, <1>2, <1>3, FollowsItself
<1>5. \A u, v \in RoundTools : calls[u].writer # "none" /\ calls[v].writer # "none" => u = v
  BY DEF ToolInv
<1>6. \A u, v \in RoundTools : calls'[u].writer # "none" /\ calls'[v].writer # "none" => u = v
  BY <1>3, <1>5 DEF CallMoves, Unlocked
<1>7. \A u \in RoundTools : calls'[u].writer = "round" => phase \in Settled
  BY <1>3 DEF CallMoves, ToolInv, RoundOK
<1>8. phase \in Settled \/ \A u \in RoundTools : calls[u] = NoCall => calls'[u] = NoCall
  BY <1>3 DEF CallMoves
<1>9. pool' = "closed" => \A u \in RoundTools : calls'[u].item \notin Pooled
  BY <1>3 DEF CallMoves, ToolInv, InPool, Pooled
<1>10. PhaseGoesOn /\ (phase' = "replied" => phase = "replied")
  BY DEF CallMoves, PhaseGoesOn, ToolEnds
<1>11. graph' = graph /\ batch' = batch
  BY DEF CallMoves
<1>. QED
  BY <1>3, <1>4, <1>6, <1>7, <1>8, <1>9, <1>10, <1>11, CallsKeep

LEMMA LaunchKeeps ==
  ASSUME ToolInv, Launch, graph' = graph, pool' = pool,
         \/ phase = "ready"
         \/ phase = "batch" /\ \A t \in batch : calls[t].task = "returned"
  PROVE  ToolInv' /\ TracesKept
<1>. DEFINE B == NextBatch(graph, Planned)
            new == [NoCall EXCEPT !.task = "created"]
<1>1. B \subseteq Planned /\ \A t \in B : Needs(graph, t) \cap Planned = {}
  BY DEF NextBatch, ReadyIn
<1>2. \A t \in Planned : t \in RoundTools /\ calls[t] = NoCall
  BY DEF ToolInv, RoundOK, Settled, ToolEnds, Planned
<1>3. \A t \in RoundTools \ Planned : calls[t].task = "returned"
  BY DEF ToolInv, RoundOK
<1>4. new \in ToolCall /\ CallOK(new) /\ new.task = "created" /\ new.writer = "none" /\ new.item = "none"
  <2>1. new.task = "created" /\ new.writer = "none" /\ new.item = "none"
    BY NoCallOK DEF NoCall
  <2>. QED
    BY <2>1, LaunchOK
<1>5. /\ phase' = "batch" /\ batch' = B
      /\ calls' = [t \in RoundTools |-> IF t \in B THEN [calls[t] EXCEPT !.task = "created"] ELSE calls[t]]
  BY DEF Launch
<1>6. calls' = [t \in RoundTools |-> IF t \in B THEN new ELSE calls[t]]
  BY <1>1, <1>2, <1>5
<1>. HIDE DEF B, new
<1>7. calls \in [RoundTools -> ToolCall] /\ \A t \in RoundTools : CallOK(calls[t])
  BY DEF ToolInv
<1>8. /\ calls' \in [RoundTools -> ToolCall] /\ \A t \in RoundTools : CallOK(calls'[t])
      /\ \A t \in RoundTools : calls'[t] = IF t \in B THEN new ELSE calls[t]
  BY <1>4, <1>6, <1>7
<1>9. Planned' = Planned \ B
  BY <1>4, <1>8 DEF Planned
<1>10. \A t \in RoundTools \ Planned : calls[t].outcome = "completed"
  BY <1>3, <1>7 DEF CallOK, InvocationOK
<1>11. \A t \in RoundTools \ Planned' : \A u \in Needs(graph, t)' : calls'[u].outcome = "completed"
  <2>. SUFFICES ASSUME NEW t \in RoundTools, t \notin Planned \/ t \in B, NEW u \in Needs(graph, t)
                PROVE  calls'[u].outcome = "completed"
    BY <1>9 DEF Needs
  <2>1. u \in RoundTools
    BY DEF Needs
  <2>2. CASE t \in B
    BY <1>1, <1>8, <1>10, <2>1, <2>2
  <2>3. CASE t \notin Planned
    <3>1. calls[u].outcome = "completed"
      BY <2>3 DEF ToolInv
    <3>2. u \notin B
      BY <1>1, <1>2, <3>1 DEF NoCall
    <3>. QED
      BY <1>8, <2>1, <3>1, <3>2
  <2>. QED
    BY <2>2, <2>3
<1>12. RoundOK'
  <2>1. \A t \in Planned' : calls'[t] = NoCall
    BY <1>2, <1>8, <1>9
  <2>2. batch' \cap Planned' = {}
    BY <1>5, <1>9
  <2>3. \A t \in RoundTools \ (batch' \cup Planned') : calls'[t].task = "returned"
    BY <1>3, <1>5, <1>8, <1>9
  <2>4. \A t \in RoundTools : calls'[t].writer # "round"
    BY <1>4, <1>8 DEF ToolInv, RoundOK, Settled, ToolEnds
  <2>. QED
    BY <1>5, <2>1, <2>2, <2>3, <2>4 DEF RoundOK
<1>13. \A t, u \in RoundTools : calls'[t].writer # "none" /\ calls'[u].writer # "none" => t = u
  BY <1>4, <1>8 DEF ToolInv
<1>14. pool' = "closed" => InPool' = {}
  BY <1>4, <1>8 DEF ToolInv, InPool
<1>15. TracesKept
  <2>. SUFFICES ASSUME NEW t \in RoundTools, calls[t].trace \in Statuses
                PROVE  calls'[t].trace = calls[t].trace
    BY DEF TracesKept
  <2>1. t \notin B
    BY <1>1, <1>2, NoCallOK DEF Statuses
  <2>. QED
    BY <1>8, <2>1
<1>16. batch' \subseteq RoundTools /\ phase' \in {"ready", "batch", "unwind"} \cup Settled
  BY <1>1, <1>2, <1>5
<1>. QED
  BY <1>8, <1>11, <1>12, <1>13, <1>14, <1>15, <1>16 DEF ToolInv

\* A cancellation reaches invocations that are under way.
LEMMA UnwindKeeps ==
  ASSUME ToolInv, NEW reason, Unwind(reason), phase \in {"batch", "unwind"}
  PROVE  ToolInv' /\ TracesKept
<1>1. calls \in [RoundTools -> ToolCall] /\ \A t \in RoundTools : CallOK(calls[t])
  BY DEF ToolInv
<1>2. calls' = [t \in RoundTools |-> IF t \in batch /\ ~TaskOver(t)
                  THEN [calls[t] EXCEPT !.cancel = TRUE] ELSE calls[t]]
  BY DEF Unwind
<1>3. ASSUME NEW t \in RoundTools
      PROVE  /\ calls'[t] \in ToolCall /\ Follows(calls[t], calls'[t])
             /\ calls'[t].writer = calls[t].writer /\ calls'[t].item = calls[t].item
             /\ calls[t] = NoCall => calls'[t] = NoCall
  <2>. DEFINE c == calls[t]
              d == [c EXCEPT !.cancel = TRUE]
  <2>1. c \in ToolCall /\ CallOK(c)
    BY <1>1
  <2>2. CASE t \in batch /\ ~TaskOver(t)
    <3>1. c.task \notin {"none"} \cup TaskEnds
      BY <2>2 DEF ToolInv, RoundOK, Planned, TaskOver, TaskEnds
    <3>2. calls'[t] = d
      BY <1>2, <2>2
    <3>3. d \in ToolCall
      BY <2>1 DEF ToolCall
    <3>4. /\ d.task = c.task /\ d.item = c.item
          /\ d.reason = c.reason /\ d.result = c.result /\ d.does = c.does /\ d.says = c.says
          /\ d.writer = c.writer /\ d.trace = c.trace /\ d.outcome = c.outcome
      BY <2>1 DEF ToolCall
    <3>. HIDE DEF d
    <3>5. Follows(c, d)
      BY <2>1, <3>1, <3>3, <3>4 DEF Follows, CallOK, InvocationOK, ItemOK, TraceOK
    <3>6. c # NoCall
      BY <3>1, NoCallOK
    <3>. QED
      BY <3>2, <3>3, <3>4, <3>5, <3>6
  <2>3. CASE ~(t \in batch /\ ~TaskOver(t))
    <3>1. calls'[t] = c
      BY <1>2, <2>3
    <3>. QED
      BY <2>1, <3>1, FollowsItself
  <2>. QED
    BY <2>2, <2>3
<1>4. calls' \in [RoundTools -> ToolCall]
  BY <1>2, <1>3
<1>5. \A t, u \in RoundTools : calls[t].writer # "none" /\ calls[u].writer # "none" => t = u
  BY DEF ToolInv
<1>6. \A t \in RoundTools : calls[t].writer = "round" => phase \in Settled
  BY DEF ToolInv, RoundOK
<1>7. pool' = "closed" => \A t \in RoundTools : calls[t].item \notin Pooled
  BY DEF Unwind, ToolInv, InPool, Pooled
<1>8. PhaseGoesOn /\ graph' = graph /\ batch' = batch
  BY DEF Unwind, PhaseGoesOn
<1>. QED
  BY <1>3, <1>4, <1>5, <1>6, <1>7, <1>8, CallsKeep

LEMMA ClosePoolKeeps ==
  ASSUME ToolInv, ClosePool
  PROVE  ToolInv' /\ TracesKept
<1>1. calls \in [RoundTools -> ToolCall] /\ \A t \in RoundTools : CallOK(calls[t])
  BY DEF ToolInv
<1>2. calls' = [t \in RoundTools |->
         IF calls[t].item = "queued"
           THEN [calls[t] EXCEPT !.item = "finished", !.result = "error"]
         ELSE IF t \in InWorker /\ calls[t].reason = "none"
           THEN [calls[t] EXCEPT !.reason = "close"] ELSE calls[t]]
  BY DEF ClosePool
<1>3. ASSUME NEW t \in RoundTools
      PROVE  /\ calls'[t] \in ToolCall /\ Follows(calls[t], calls'[t])
             /\ calls'[t].writer = calls[t].writer
             /\ calls[t] = NoCall => calls'[t] = NoCall
  <2>. DEFINE c == calls[t]
  <2>1. c \in ToolCall /\ CallOK(c)
    BY <1>1
  <2>2. CASE c.item = "queued"
    <3>. DEFINE d == [c EXCEPT !.item = "finished", !.result = "error"]
    <3>1. calls'[t] = d
      BY <1>2, <2>2
    <3>2. Follows(c, d) /\ d.writer = c.writer
      BY <2>1, <2>2, RefuseFollows DEF ToolCall
    <3>3. d \in ToolCall
      BY <3>2 DEF Follows, CallOK
    <3>. QED
      BY <2>2, <3>1, <3>2, <3>3, NoCallOK
  <2>3. CASE c.item # "queued" /\ t \in InWorker /\ c.reason = "none"
    <3>. DEFINE d == [c EXCEPT !.reason = "close"]
    <3>1. calls'[t] = d
      BY <1>2, <2>3
    <3>2. c.item \in Pooled /\ c.item # "none"
      BY <2>3 DEF InWorker, Pooled
    <3>3. Follows(c, d)
      BY <2>1, <2>3, <3>2, ReasonFollows
    <3>4. d \in ToolCall /\ d.writer = c.writer
      BY <2>1 DEF ToolCall
    <3>. QED
      BY <3>1, <3>2, <3>3, <3>4, NoCallOK
  <2>4. CASE c.item # "queued" /\ ~(t \in InWorker /\ c.reason = "none")
    <3>1. calls'[t] = c
      BY <1>2, <2>4
    <3>. QED
      BY <2>1, <3>1, FollowsItself
  <2>. QED
    BY <2>2, <2>3, <2>4
<1>4. calls' \in [RoundTools -> ToolCall]
  BY <1>2, <1>3
<1>5. \A t, u \in RoundTools : calls[t].writer # "none" /\ calls[u].writer # "none" => t = u
  BY DEF ToolInv
<1>6. \A t \in RoundTools : calls[t].writer = "round" => phase \in Settled
  BY DEF ToolInv, RoundOK
<1>7. PhaseGoesOn /\ graph' = graph /\ batch' = batch /\ pool' # "closed"
  BY DEF ClosePool, PhaseGoesOn
<1>. QED
  BY <1>3, <1>4, <1>5, <1>6, <1>7, CallsKeep

\* The calls stay as they are.
LEMMA StillKeeps ==
  ASSUME ToolInv, PhaseGoesOn, UNCHANGED <<graph, batch, calls>>,
         pool' = pool \/ InPool = {}
  PROVE  ToolInv' /\ TracesKept
<1>1. calls \in [RoundTools -> ToolCall] /\ \A t \in RoundTools : CallOK(calls[t])
  BY DEF ToolInv
<1>2. \A t \in RoundTools : Follows(calls[t], calls'[t])
  BY <1>1, FollowsItself
<1>3. \A t, u \in RoundTools : calls[t].writer # "none" /\ calls[u].writer # "none" => t = u
  BY DEF ToolInv
<1>4. \A t \in RoundTools : calls[t].writer = "round" => phase \in Settled
  BY DEF ToolInv, RoundOK
<1>5. pool' = "closed" => \A t \in RoundTools : calls[t].item \notin Pooled
  BY DEF ToolInv, InPool, Pooled
<1>. QED
  BY <1>1, <1>2, <1>3, <1>4, <1>5, CallsKeep

LEMMA ToolsBegin == ToolInit => ToolInv
<1>. SUFFICES ASSUME ToolInit PROVE ToolInv
  OBVIOUS
<1>1. calls = [t \in RoundTools |-> NoCall] /\ \A t \in RoundTools : calls[t] = NoCall
  BY DEF ToolInit
<1>2. calls \in [RoundTools -> ToolCall]
  BY <1>1, NoCallOK
<1>3. Planned = RoundTools /\ InPool = {}
  BY <1>1, NoCallOK DEF Planned, InPool
<1>4. \A t \in RoundTools : CallOK(calls[t]) /\ calls[t].writer = "none"
  BY <1>1, NoCallOK
<1>5. RoundOK
  BY <1>1, <1>3, <1>4 DEF RoundOK, ToolInit
<1>. QED
  BY <1>2, <1>3, <1>4, <1>5 DEF ToolInv, ToolInit

\* The reply is what was traced for each call.
LEMMA RepliesAsTraced ==
  ASSUME ToolInv, Reply
  PROVE  \A t \in RoundTools : calls[t].outcome = calls[t].trace
BY DEF Reply, ToolInv, CallOK, TraceOK

LEMMA ToolStep ==
  ASSUME ToolInv, ToolNext
  PROVE  /\ ToolInv' /\ TracesKept
         /\ phase # "replied" /\ phase' = "replied" =>
              \A t \in RoundTools : calls[t].outcome = calls[t].trace
<1>. DEFINE Kept == /\ ToolInv' /\ TracesKept
                    /\ phase # "replied" /\ phase' = "replied" =>
                         \A t \in RoundTools : calls[t].outcome = calls[t].trace
<1>1. ASSUME NEW t \in RoundTools, \E d : CallMoves(t, d) PROVE Kept
  BY <1>1, MovesKeep
<1>2. ASSUME NEW t \in RoundTools, Stopped(t) \/ HandlerCancelled(t) PROVE Kept
  <2>1. \E d : CallMoves(t, d)
    BY <1>2, StoppedMoves, HandlerCancelledMoves
  <2>. QED
    BY <1>1, <2>1
<1>3. ASSUME NEW t \in RoundTools, Delivered,
             \/ Trace(t) \/ Traced(t) \/ TraceBreaks(t) \/ SettleCall(t)
             \/ Submit(t) \/ Wake(t) \/ TimeoutInPool(t) \/ AfterDrain(t)
             \/ TakeUp(t) \/ HandlerEnds(t) \/ FinishItem(t)
      PROVE  Kept
  <2>1. \E d : CallMoves(t, d)
    BY <1>3, TraceMoves, TracedMoves, TraceBreaksMoves, SettleCallMoves, SubmitMoves, WakeMoves,
       TimeoutMoves, AfterDrainMoves, TakeUpMoves, HandlerEndsMoves, FinishItemMoves
  <2>. QED
    BY <1>1, <2>1
<1>4. CASE StartRound
  BY <1>4, LaunchKeeps DEF StartRound, Launch
<1>5. CASE BatchReturns
  <2>1. CASE Planned # {}
    BY <1>5, <2>1, LaunchKeeps DEF BatchReturns, Launch
  <2>2. CASE Planned = {}
    <3>1. \A t \in RoundTools : calls[t].task = "returned"
      BY <1>5, <2>2 DEF BatchReturns, ToolInv, RoundOK
    <3>2. PhaseGoesOn /\ UNCHANGED <<graph, batch, calls, pool>> /\ phase' = "settle"
      BY <1>5, <2>2, <3>1 DEF BatchReturns, PhaseGoesOn, TaskEnds
    <3>. QED
      BY <3>2, StillKeeps
  <2>. QED
    BY <2>1, <2>2
<1>6. CASE CallFails \/ DeadlineFires \/ UserCancels
  <2>1. PICK reason : Unwind(reason)
    BY <1>6 DEF CallFails, DeadlineFires, UserCancels
  <2>2. phase \in {"batch", "unwind"}
    BY <1>6 DEF CallFails, DeadlineFires, UserCancels
  <2>. QED
    BY <2>1, <2>2, UnwindKeeps DEF Unwind
<1>7. CASE Unwound
  <2>1. \A t \in RoundTools : calls[t].task \in {"none"} \cup TaskEnds
    BY <1>7 DEF Unwound, ToolInv, RoundOK, TaskOver, TaskEnds, Planned
  <2>2. PhaseGoesOn /\ UNCHANGED <<graph, batch, calls, pool>> /\ phase' # "replied"
    BY <1>7, <2>1 DEF Unwound, PhaseGoesOn, ToolEnds
  <2>. QED
    BY <2>2, StillKeeps
<1>8. CASE Reply
  <2>1. PhaseGoesOn /\ UNCHANGED <<graph, batch, calls, pool>>
    BY <1>8 DEF Reply, PhaseGoesOn, ToolEnds
  <2>. QED
    BY <1>8, <2>1, StillKeeps, RepliesAsTraced
<1>9. CASE DeadlinePasses
  BY <1>9, StillKeeps DEF DeadlinePasses, PhaseGoesOn
<1>10. CASE ClosePool
  BY <1>10, ClosePoolKeeps DEF ClosePool
<1>11. CASE PoolClosed
  BY <1>11, StillKeeps DEF PoolClosed, PhaseGoesOn
<1>. QED
  BY <1>2, <1>3, <1>4, <1>5, <1>6, <1>7, <1>8, <1>9, <1>10, <1>11 DEF ToolNext

LEMMA ToolsGoOn ==
  ASSUME ToolInv, [ToolNext]_toolVars
  PROVE  /\ ToolInv'
         /\ [/\ phase # "replied" /\ phase' = "replied" =>
                  \A t \in RoundTools : calls[t].outcome = calls[t].trace
             /\ \A t \in RoundTools :
                  calls[t].trace \in Statuses => calls'[t].trace = calls[t].trace
             /\ \A t \in InWorker' : \A u \in Needs(graph, t) : calls'[u].outcome = "completed"
             /\ pool' = "closed" => InWorker' = {}]_toolVars
<1>1. CASE UNCHANGED toolVars
  BY <1>1 DEF toolVars, ToolInv, RoundOK, Planned, InPool, Needs
<1>2. CASE ToolNext
  <2>1. /\ ToolInv' /\ TracesKept
        /\ phase # "replied" /\ phase' = "replied" =>
             \A t \in RoundTools : calls[t].outcome = calls[t].trace
    BY <1>2, ToolStep
  <2>2. graph' = graph
    BY <1>2 DEF ToolNext, Stopped, HandlerCancelled, StartRound, BatchReturns, CallFails, DeadlineFires,
       UserCancels, Unwind, Unwound, Reply, DeadlinePasses, ClosePool, PoolClosed, Trace, Traced,
       TraceBreaks, SettleCall, Submit, Wake, TimeoutInPool, AfterDrain, TakeUp, HandlerEnds, FinishItem, Stays
  <2>3. \A t \in InWorker' : \A u \in Needs(graph, t) : calls'[u].outcome = "completed"
    <3>. SUFFICES ASSUME NEW t \in InWorker', NEW u \in Needs(graph, t)
                  PROVE  calls'[u].outcome = "completed"
      OBVIOUS
    <3>1. t \in RoundTools /\ calls'[t].item # "none"
      BY DEF InWorker
    <3>2. CallOK(calls'[t])
      BY <2>1, <3>1 DEF ToolInv
    <3>3. t \in RoundTools \ Planned'
      BY <3>1, <3>2 DEF CallOK, InvocationOK, Planned
    <3>4. u \in Needs(graph, t)'
      BY <2>2 DEF Needs
    <3>. QED
      BY <2>1, <3>3, <3>4 DEF ToolInv
  <2>4. pool' = "closed" => InWorker' = {}
    BY <2>1 DEF ToolInv, InPool, InWorker
  <2>. QED
    BY <2>1, <2>3, <2>4 DEF TracesKept
<1>. QED
  BY <1>1, <1>2
-----------------------------------------------------------------------------

-----------------------------------------------------------------------------
(* All of them.                                                              *)

ServicesInv == ActionInv /\ TurnInv /\ AnswersInv /\ ChoiceInv /\ RunInv

\* A step of the whole is a step of each service or leaves it as it is.
LEMMA OneServiceSteps ==
  ASSUME [ServicesNext]_serviceVars
  PROVE  /\ [ActionNext]_actionVars /\ [TurnNext]_turnVars /\ [AnswersNext]_answerVars
         /\ [ChoiceNext]_choiceVars /\ [RunNext]_runVars /\ [GateNext]_gateVars
         /\ [OfferNext]_offerVars /\ [ToolNext]_toolVars
         /\ [HistoryNext]_historyVars
BY DEF ServicesNext, Rest, serviceVars

LEMMA ActionsGoOn ==
  ASSUME ActionInv, [ActionNext]_actionVars
  PROVE  ActionInv' /\ [OnceEach]_actionVars
<1>1. CASE UNCHANGED actionVars
  BY <1>1 DEF actionVars, codes, limiter, ActionInv, CodesDistinct, OnlyNewest, HandlersKept,
              WellAsked, Dated, WindowKept, AllLapsed, Lapsed
<1>2. CASE ActionNext
  BY <1>2, ActionStep
<1>. QED
  BY <1>1, <1>2

LEMMA TurnsGoOn ==
  ASSUME TurnInv, [TurnNext]_turnVars
  PROVE  /\ TurnInv'
         /\ [/\ RanRightly
             /\ turn.at = "images" /\ turn'.at = "ask" => \A i \in 1 .. Len(answers) : answers[i] = 1]_turnVars
<1>1. CASE UNCHANGED turnVars
  BY <1>1 DEF turnVars, TurnInv, TurnShape, TurnAdvances, Script, InHand, Recalled
<1>2. CASE TurnNext
  BY <1>2, TurnStep
<1>. QED
  BY <1>1, <1>2

LEMMA AnswersGoOn ==
  ASSUME AnswersInv, [AnswersNext]_answerVars
  PROVE  AnswersInv'
<1>1. CASE UNCHANGED answerVars
  <2>1. UNCHANGED <<service, flights, inflight, kept, epoch, session, hours, askers, cleared, Flights>>
    BY <1>1 DEF answerVars, Flights
  <2>. QED
    BY <2>1 DEF AnswersInv, AnswersShape, AnswersBounded, FlightsDated, OneFlight, KeptGood, AskerGood
<1>. QED
  BY <1>1, AskersGoOn, TimeGoesOn, FlightsGoOn, AskersAsk DEF AnswersNext, Flights

LEMMA AnswersMean == AnswersInv => AnswersShared
<1>. SUFFICES ASSUME AnswersInv PROVE AnswersShared
  OBVIOUS
<1>1. Len(flights) \in Nat /\ \A g \in Flights : flights[g] \in Flight
  BY LenProperties, ElementOfSeq DEF AnswersInv, AnswersShape, Flights
<1>2. Serves(kept, session) =>
        /\ flights[kept.flight].state = "ok" /\ kept.flight > cleared
        /\ service = "probe" => flights[kept.flight].owner = session
  BY DEF AnswersInv, KeptGood, Serves
<1>3. \A f, g \in 1 .. Len(flights) :
       service # "name" /\ f < g /\ flights[f].state = "running" /\ flights[g].state = "running"
       => flights[f].epoch # flights[g].epoch \/ flights[f].owner # flights[g].owner
  BY <1>1 DEF AnswersInv, AnswersShape, OneFlight, Flights, Services
<1>. QED
  BY <1>2, <1>3 DEF AnswersInv, AnswersShared, AskerGood

LEMMA ChoicesGoOn ==
  ASSUME ChoiceInv, [ChoiceNext]_choiceVars
  PROVE  ChoiceInv'
<1>1. CASE UNCHANGED choiceVars
  BY <1>1 DEF choiceVars, ChoiceInv
<1>. QED
  BY <1>1, ChoiceStep

LEMMA ServicesGoOn ==
  ASSUME ServicesInv, [ServicesNext]_serviceVars
  PROVE  ServicesInv'
BY OneServiceSteps, ActionsGoOn, TurnsGoOn, AnswersGoOn, ChoicesGoOn, RunsStep DEF ServicesInv

LEMMA ServicesAlways == ServicesSpec => []ServicesInv
<1>1. ServicesInit => ServicesInv
  BY ActionsBegin, TurnBegins, AnswersBegin, ChoiceBegins, RunsBegin DEF ServicesInit, ServicesInv
<1>2. ServicesInv /\ [ServicesNext]_serviceVars => ServicesInv'
  BY ServicesGoOn
<1>. QED
  BY <1>1, <1>2, PTL DEF ServicesSpec

\* A confirmation is good for one execution of what was shown last, and on one
\* day no protocol call of a caller to a target is begun within the window of a
\* call of theirs with an unknown effect, but for a later answer that overwrote
\* it: an invariant ties the stored codes to what their callers were shown
\* and each tombstone to the calls behind it (pending_actions.py:346,
\* protocol_broker.py:402 and 446).
THEOREM NothingIsDoneTwice == ServicesSpec => NothingTwice
<1>1. ServicesInv /\ [ServicesNext]_serviceVars => [OnceEach]_actionVars
  BY OneServiceSteps, ActionsGoOn DEF ServicesInv
<1>2. OnceEach => \A h \in Handlers :
        /\ handlers[h].at = "asked" /\ handlers'[h].at = "agreed" =>
             latest[handlers[h].caller] =
               [code |-> handlers[h].code, args |-> handlers'[h].args, gen |-> handlers[h].gen]
        /\ handlers[h].at # "calling" /\ handlers'[h].at = "calling" =>
             LET past == unsure[handlers'[h].key]
             IN  \A i \in DOMAIN past : PassedOver(past, i)
  BY DEF OnceEach, Shown, NoneOpen
<1>. QED
  BY <1>1, <1>2, ServicesAlways, PTL DEF ServicesSpec, NothingTwice

\* What failed for good, or has an effect in doubt, is not carried out again in
\* a turn, no call more often than the limit or after a part of an answer was
\* sent, and the model is asked again only when each of its calls has one
\* answer.  That nothing was sent while tools are at work is an invariant:
\* only a stream sends within a try, and its tool calls are dropped
\* (moe_llm.py:443, llm_api.py:339, llm_tools.py:1302).
THEOREM TurnsAnswerOnce == ServicesSpec => AnsweredOnce
<1>1. ServicesInv /\ [ServicesNext]_serviceVars =>
        [/\ RanRightly
         /\ turn.at = "images" /\ turn'.at = "ask" => \A i \in 1 .. Len(answers) : answers[i] = 1]_turnVars
  BY OneServiceSteps, TurnsGoOn DEF ServicesInv
<1>2. RanRightly => \A c \in Called : ran'[c] # ran[c] =>
        /\ turn.tools /\ turn.sent = "nothing" /\ c.tool \notin doubtful /\ c \notin burnt
        /\ ran'[c] = ran[c] + 1 /\ ran[c] < MaxRepeats
  BY DEF RanRightly
<1>. QED
  BY <1>1, <1>2, ServicesAlways, PTL DEF ServicesSpec, AnsweredOnce

\* Whatever a cache serves is the answer of a flight that succeeded after the
\* last clear, for a probe to the bot object that is connected; but for member
\* names, of which two may be fetched at a time, no two flights work on one
\* question; nobody fails because another caller was cancelled
\* (classification_cache.py:946, protocol_context.py:165).
THEOREM AnswersAreShared == ServicesSpec => []AnswersShared
<1>1. ServicesInv => AnswersShared
  BY AnswersMean DEF ServicesInv
<1>. QED
  BY <1>1, ServicesAlways, PTL

\* The model that answers is listed and, under routing, able and the best there
\* is or the one pinned to the role; without routing, validated settings always
\* give one, except that a request for vision may be refused
\* (model_selector.py:422, model_routing.py:698).
THEOREM ModelsFit == ServicesSpec => []FitModel
<1>1. ServicesInv => FitModel
  BY FitMeans DEF ServicesInv
<1>. QED
  BY <1>1, ServicesAlways, PTL

\* One tool process lives, that of the call that holds the slot, its code
\* runs behind every fence, nothing of a call that has ended changes anything,
\* and the slot passes through the queue without being lost
\* (generated_tool_runner.py:545, tool_execution.py:30).
THEOREM ToolsStayContained == ServicesSpec => []ToolsContained
<1>1. ServicesInv => ToolsContained
  BY RunsMean DEF ServicesInv
<1>. QED
  BY <1>1, ServicesAlways, PTL

LEMMA OffersAlways == ServicesSpec => []OfferInv
<1>1. ServicesInit => OfferInv
  BY OfferBegins DEF ServicesInit
<1>2. OfferInv /\ [ServicesNext]_serviceVars => OfferInv'
  BY OneServiceSteps, OfferGoesOn
<1>. QED
  BY <1>1, <1>2, PTL DEF ServicesSpec

\* What the model is offered and may run are the tools its snapshot, its scope
\* and its caller allow, and all it selected and may have with what those need;
\* what it is shown are the first rows of these tools, up to the limit, without
\* the features hidden from its caller; though the catalog may have changed and
\* the caches are shared: an invariant says of every record that it is what the
\* snapshot of its key says (tool_catalog_cache.py:136, tool_schema_cache.py:214,
\* tool_discovery.py:661 and 681).
THEOREM OffersAreRight == ServicesSpec => []OffersWhatItMay
<1>1. OfferInv => OffersWhatItMay
  BY OfferMeans
<1>. QED
  BY <1>1, OffersAlways, PTL

LEMMA ToolsAlways == ServicesSpec => []ToolInv
<1>1. ServicesInit => ToolInv
  BY ToolsBegin DEF ServicesInit
<1>2. ToolInv /\ [ServicesNext]_serviceVars => ToolInv'
  BY OneServiceSteps, ToolsGoOn
<1>. QED
  BY <1>1, <1>2, PTL DEF ServicesSpec

\* The reply to the model has the outcome that was traced for each call, a
\* trace is never changed, no handler runs before what its call depends on,
\* and none after the pool was closed: whoever finds a call traced says what
\* the trace says, for its item was cancelled before
\* (llm_tools.py, parallel_execution.py, trusted_runner_pool.py).
THEOREM RepliesAreTraced == ServicesSpec => ToldAsTraced
<1>1. ToolInv /\ [ServicesNext]_serviceVars =>
        [/\ phase # "replied" /\ phase' = "replied" =>
              \A t \in RoundTools : calls[t].outcome = calls[t].trace
         /\ \A t \in RoundTools :
              calls[t].trace \in Statuses => calls'[t].trace = calls[t].trace
         /\ \A t \in InWorker' : \A u \in Needs(graph, t) : calls'[u].outcome = "completed"
         /\ pool' = "closed" => InWorker' = {}]_toolVars
  BY OneServiceSteps, ToolsGoOn
<1>. QED
  BY <1>1, ToolsAlways, PTL DEF ServicesSpec, ToldAsTraced

\* What the gate needs no leases for: its types, and that no attempt of an
\* operation outlasts its timeout, nor a timer its period.
LEMMA GateBaseAlways == ServicesSpec => []GateBase
<1>1. ServicesInit => GateBase
  BY GateBaseBegins DEF ServicesInit
<1>2. GateBase /\ [ServicesNext]_serviceVars => GateBase'
  BY OneServiceSteps, GateBaseStep
<1>. QED
  BY <1>1, <1>2, PTL DEF ServicesSpec

-----------------------------------------------------------------------------
(* The types.                                                                *)

\* Only as many commands are given as the bound of the model says.
CommandsCounted == commands \in 0 .. MaxSteps

LEMMA CommandsCount ==
  ASSUME CommandsCounted, [ChoiceNext]_choiceVars
  PROVE  CommandsCounted'
<1>1. CASE UNCHANGED commands
  BY <1>1 DEF CommandsCounted
<1>2. CASE Command0
  BY <1>2, StepsAssumption DEF Command0, CommandsCounted
<1>. QED
  BY <1>1, <1>2 DEF ChoiceNext, choiceVars, SetMoe, BuildModels, CommitModels, Refresh, EditFile,
     SetRole, Admit0, ChooseModel, Classify, SetChat

LEMMA ActionTypesGoOn ==
  ASSUME ActionInv, ActionBounded, [ActionNext]_actionVars
  PROVE  ActionBounded'
<1>1. CASE UNCHANGED actionVars
  BY <1>1 DEF actionVars, codes, limiter, ActionBounded, Placed
<1>. QED
  BY <1>1, BoundedStep

LEMMA TurnTyped == TurnInv => TurnTypeOK
<1>. SUFFICES ASSUME TurnInv PROVE TurnTypeOK
  OBVIOUS
<1>1. wanted = <<>> \/ wanted \in Scripts
  BY DEF TurnInv, TurnShape
<1>2. Len(wanted) \in Nat
  BY <1>1, ScriptMeans
<1>3. Len(answers) = Len(wanted)
  BY <1>2, LenProperties DEF TurnInv, TurnShape
<1>. QED
  BY <1>3 DEF TurnInv, TurnShape, TurnState, Recalled, TurnTypeOK

LEMMA AnswersTyped == AnswersInv => AnswersTypeOK
<1>. SUFFICES ASSUME AnswersInv PROVE AnswersTypeOK
  OBVIOUS
<1>1. Len(flights) \in Nat /\ \A f \in 1 .. Len(flights) : flights[f] \in Flight
  BY LenProperties, ElementOfSeq DEF AnswersInv, AnswersShape
<1>2. \A f \in 1 .. Len(flights) :
        /\ flights[f].state \in {"running", "ok", "failed", "unkept"}
        /\ flights[f].settled \in BOOLEAN /\ flights[f].owner \in Nat
  BY <1>1 DEF Flight, Ended0
<1>3. session \in 1 .. MaxSessions /\ hours \in 0 .. MaxHours
  BY AnswersAssumption DEF AnswersInv, AnswersShape, AnswersBounded
<1>4. \A f \in 1 .. Len(flights) : flights[f].owner \in 1 .. MaxSessions
  BY <1>2, <1>3, AnswersAssumption DEF AnswersInv, AnswersBounded, FlightsDated, Flights
<1>5. \A a \in Askers : askers[a].at \in AskerAts
  BY <1>1 DEF AnswersInv, AnswersShape, Asker
<1>. QED
  BY <1>2, <1>3, <1>4, <1>5 DEF AnswersInv, AnswersShape, AnswersBounded, AskerAts, AnswersTypeOK

LEMMA ChoiceTyped == ChoiceInv /\ CommandsCounted => ChoiceTypeOK
BY DEF ChoiceInv, CommandsCounted, ModelSets, Snapshots, ChatState, ChoiceTypeOK

LEMMA RunTyped == RunInv => RunTypeOK
<1>. SUFFICES ASSUME RunInv PROVE RunTypeOK
  OBVIOUS
<1>1. \A i \in DOMAIN queue : queue[i] \in Runs
  BY LenProperties, ElementOfSeq DEF RunInv, QueueKept
<1>2. Range(queue) \subseteq Runs
  BY <1>1 DEF Range
<1>. QED
  BY <1>2 DEF RunInv, RunShape, SlotHeld, Calls0, Procs0, CallAts, CallEnds, RunTypeOK

LEMMA ToolTyped == ToolInv => ToolTypeOK
<1>. SUFFICES ASSUME ToolInv PROVE ToolTypeOK
  OBVIOUS
<1>. DEFINE W == {t \in RoundTools : calls[t].writer # "none"}
<1>1. W = {} \/ \E t \in W : W = {t}
  BY DEF ToolInv
<1>2. Cardinality(W) <= 1
  <2>. HIDE DEF W
  <2>1. CASE W = {}
    BY <2>1, FS_EmptySet
  <2>2. ASSUME NEW t \in W, W = {t} PROVE Cardinality(W) <= 1
    <3>1. Cardinality({t}) = 1
      BY FS_Singleton, Zenon
    <3>. QED
      BY <2>2, <3>1
  <2>. QED
    BY <1>1, <2>1, <2>2
<1>3. \A t \in RoundTools :
        /\ {calls[t].trace, calls[t].outcome} \subseteq Statuses \cup {"none", "lost"}
        /\ calls[t].writer # "none" => calls[t].trace = "lost"
  BY DEF ToolInv, CallOK, TraceOK, ToolCall
<1>. QED
  BY <1>2, <1>3 DEF ToolInv, Settled, ToolTypeOK

\* Every service keeps its types: the codes and budgets of the confirmations,
\* the leases of the gate, the calls of a round, the turn, the records of the
\* offer, the flights of the shared answers, the requests of the models, the
\* runs and the cache of the history, for every value of the constants.
THEOREM ServicesTyped == ServicesSpec => []ServicesTypeOK
<1>1. ServicesSpec => []HistoryTypeOK
  <2>1. ServicesInit => HistoryInit
    BY DEF ServicesInit
  <2>2. [ServicesNext]_serviceVars => [HistoryNext]_historyVars
    BY OneServiceSteps
  <2>. QED
    BY <2>1, <2>2, HistoryTyped, PTL DEF ServicesSpec, HistorySpec
<1>2. ServicesSpec => [](ActionBounded /\ CommandsCounted)
  <2>1. ServicesInit => ActionBounded /\ CommandsCounted
    BY ActionsBounded, StepsAssumption DEF ServicesInit, ChoiceInit, CommandsCounted
  <2>2. ServicesInv /\ ActionBounded /\ CommandsCounted /\ [ServicesNext]_serviceVars
          => (ActionBounded /\ CommandsCounted)'
    BY OneServiceSteps, ActionTypesGoOn, CommandsCount DEF ServicesInv
  <2>. QED
    BY <2>1, <2>2, ServicesAlways, PTL DEF ServicesSpec
<1>3. ServicesSpec => []OfferTypeOK
  BY OffersAlways, OfferMeans, PTL
<1>4. /\ HistoryTypeOK /\ ActionBounded /\ CommandsCounted /\ ServicesInv /\ GateBase /\ ToolInv
      /\ OfferTypeOK
      => ServicesTypeOK
  BY ActionsTyped, TurnTyped, AnswersTyped, ChoiceTyped, RunTyped, ToolTyped
     DEF ServicesInv, GateBase, ServicesTypeOK
<1>. QED
  BY <1>1, <1>2, <1>3, <1>4, ServicesAlways, GateBaseAlways, ToolsAlways, PTL

-----------------------------------------------------------------------------
(* The leases.                                                               *)

LEMMA GateAlways == ServicesSpec => []GateInv
<1>1. ServicesInit => GateInv
  BY GateBegins DEF ServicesInit
<1>2. GateInv /\ [ServicesNext]_serviceVars => GateInv'
  BY OneServiceSteps, GateStep
<1>. QED
  BY <1>1, <1>2, PTL DEF ServicesSpec

\* However late, lost or repeated its operations on Redis are, the requests that
\* run and that their own last answer still covers are never more than the gate
\* has active leases, nor two of one user; and a cooldown passes to another only
\* when its time is over or its owner's request ended without success.  The
\* invariant says that a covered request owns an active lease in the value which
\* has at least as much left as the answer promised, and that the active leases,
\* dead ones included, are within the limits for whoever reads them.  Nothing is
\* assumed of how long an operation takes, so a request that runs on after the
\* last answer is not among them, told or not (redis_admission.py:470-519 and
\* 579-732, the heartbeat at 809-883, chat_runtime.py:264-340).
THEOREM LeasesStayExclusive == ServicesSpec => LeasesExclude
<1>1. GateInv => /\ Cardinality(Entitled) <= MaxActive
                 /\ \A r, s \in Entitled : UserOf[r] = UserOf[s] => r = s
  BY EntitledAreFew
<1>2. GateInv' => (/\ Cardinality(Entitled) <= MaxActive
                   /\ \A r, s \in Entitled : UserOf[r] = UserOf[s] => r = s)'
  BY <1>1, PTL
<1>3. GateInv /\ [ServicesNext]_serviceVars /\ GateInv' =>
        [/\ Cardinality(Entitled') <= MaxActive
         /\ \A r, s \in Entitled' : UserOf[r] = UserOf[s] => r = s
         /\ \A u \in Users :
              cooldowns'[u].owner # cooldowns[u].owner =>
                \/ cooldowns[u].left <= 1
                \/ requests[cooldowns[u].owner].at = "unsuccessful"]_gateVars
  BY <1>2, OneServiceSteps, CooldownsStay DEF GateInv
<1>. QED
  BY <1>3, GateAlways, PTL DEF ServicesSpec, LeasesExclude
=============================================================================
