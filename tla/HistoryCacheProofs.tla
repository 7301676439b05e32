-------------------------- MODULE HistoryCacheProofs --------------------------
(***************************************************************************)
(* HistoryCache implements HistoryLog, for every number of messages,       *)
(* readers and generations.                                                *)
(*                                                                         *)
(* What the cache holds, and what a reader is about to put there, is the   *)
(* newest part of some past state of the table (Shows).  The invariant     *)
(* says who may still be served from it: that state contains whatever a    *)
(* reader on its way to the cache asked for and, while somebody trusts the *)
(* cache, everything settled by now (Covers).                              *)
(***************************************************************************)
EXTENDS HistoryCache, FiniteSetTheorems, WellFoundedInduction, TLAPS

-----------------------------------------------------------------------------
(* The newest rows of a table.                                               *)

Later(S, m) == {k \in S : k > m}

LEMMA LeastOne == ASSUME NEW S \in SUBSET Nat, S # {} PROVE \E m \in S : \A k \in S : m <= k
<1>. DEFINE R == StrictSubsetOrdering(Nat)
            T == {0..x : x \in S}
<1>1. IsWellFoundedOn(R, FiniteSubsetsOf(Nat))
  BY FS_StrictSubsetOrderingWellFounded
<1>2. T \subseteq FiniteSubsetsOf(Nat) /\ T # {}
  <2>1. \A x \in S : x \in Int /\ 0 \in Int
    OBVIOUS
  <2>2. \A x \in S : IsFiniteSet(0..x) /\ 0..x \subseteq Nat
    BY <2>1, FS_Interval
  <2>. QED
    BY <2>2 DEF FiniteSubsetsOf
<1>3. PICK t \in T : \A u \in T : ~(<<u, t>> \in R)
  <2>. HIDE DEF R, T
  <2>. QED
    BY <1>1, <1>2, WFMin
<1>4. PICK x \in S : t = 0..x
  BY <1>3
<1>5. ASSUME NEW y \in S, y < x PROVE FALSE
  <2>1. 0..y \subseteq 0..x /\ 0..y # 0..x /\ 0..x \subseteq Nat /\ 0..y \subseteq Nat
    <3>1. x \in 0..x /\ x \notin 0..y
      BY <1>5
    <3>. QED
      BY <1>5, <3>1
  <2>2. <<0..y, 0..x>> \in R
    BY <2>1 DEF StrictSubsetOrdering
  <2>. QED
    BY <1>3, <1>4, <1>5, <2>2
<1>. QED
  BY <1>5

LEMMA LaterMeans ==
  ASSUME NEW S \in SUBSET Nat, IsFiniteSet(S), NEW m \in Nat
  PROVE  /\ IsFiniteSet(Later(S, m)) /\ Cardinality(Later(S, m)) \in Nat
         /\ \A k \in S : k > m => Cardinality(Later(S, k)) <= Cardinality(Later(S, m))
<1>1. IsFiniteSet(Later(S, m))
  BY FS_Subset DEF Later
<1>2. ASSUME NEW k \in S, k > m PROVE Later(S, k) \in SUBSET Later(S, m)
  <2>1. \A j \in S : j > k => j > m
    BY <1>2
  <2>. QED
    BY <2>1 DEF Later
<1>. QED
  BY <1>1, <1>2, FS_Subset, FS_CardinalityType

\* The newest n of the newest k rows are the newest Min(n, k).
LEMMA NewestOfNewest ==
  ASSUME NEW S \in SUBSET Nat, IsFiniteSet(S), NEW k \in Nat, NEW n \in Nat
  PROVE  Newest(Newest(S, k), n) = Newest(S, IF n <= k THEN n ELSE k)
<1>1. \A m \in S : Cardinality(Later(S, m)) \in Nat
  BY LaterMeans
<1>2. \A m \in S : m \in Newest(S, k) <=> Cardinality(Later(S, m)) < k
  BY DEF Newest, Later
<1>3. ASSUME NEW m \in Newest(S, k) PROVE Later(Newest(S, k), m) = Later(S, m)
  <2>1. m \in S /\ m \in Nat /\ Newest(S, k) \subseteq S
    BY <1>3 DEF Newest
  <2>2. ASSUME NEW j \in S, j > m PROVE j \in Newest(S, k)
    <3>1. Cardinality(Later(S, j)) <= Cardinality(Later(S, m))
      BY <2>1, <2>2, LaterMeans
    <3>. QED
      BY <1>1, <1>2, <1>3, <2>1, <3>1
  <2>. QED
    BY <2>1, <2>2 DEF Later
<1>4. \A m \in Newest(S, k) : m \in Newest(Newest(S, k), n) <=> Cardinality(Later(S, m)) < n
  <2>1. \A m \in Newest(S, k) : m \in Newest(Newest(S, k), n) <=> Cardinality(Later(Newest(S, k), m)) < n
    <3>. DEFINE W == Newest(S, k)
    <3>1. \A m \in W : m \in Newest(W, n) <=> Cardinality(Later(W, m)) < n
      <4>. HIDE DEF W
      <4>. QED
        BY DEF Newest, Later
    <3>. QED
      BY <3>1
  <2>. QED
    BY <1>3, <2>1
<1>5. \A m \in S : m \in Newest(S, IF n <= k THEN n ELSE k) <=>
                     Cardinality(Later(S, m)) < n /\ Cardinality(Later(S, m)) < k
  <2>1. \A m \in S : m \in Newest(S, IF n <= k THEN n ELSE k) <=>
                       Cardinality(Later(S, m)) < IF n <= k THEN n ELSE k
    BY DEF Newest, Later
  <2>. QED
    BY <1>1, <2>1
<1>6. \A l : Newest(S, l) \subseteq S /\ Newest(Newest(S, k), l) \subseteq Newest(S, k)
  BY DEF Newest
<1>. QED
  BY <1>2, <1>4, <1>5, <1>6

LEMMA NewestAreFew ==
  ASSUME NEW S \in SUBSET Nat, IsFiniteSet(S), NEW k \in Nat
  PROVE  Cardinality(Newest(S, k)) \in Nat /\ Cardinality(Newest(S, k)) <= k
<1>. DEFINE W == Newest(S, k)
<1>1. W \in SUBSET S /\ IsFiniteSet(W) /\ Cardinality(W) \in Nat
  BY FS_Subset, FS_CardinalityType DEF Newest
<1>2. CASE W = {}
  <2>. HIDE DEF W
  <2>1. Cardinality(W) = 0
    BY <1>2, FS_EmptySet
  <2>. QED
    BY <2>1 DEF W
<1>3. CASE W # {}
  <2>1. PICK m \in W : \A j \in W : m <= j
    BY <1>1, <1>3, LeastOne
  <2>2. m \in S /\ m \in Nat /\ Cardinality(Later(S, m)) < k /\ Cardinality(Later(S, m)) \in Nat
    BY <1>1, LaterMeans DEF Newest, Later
  <2>. HIDE DEF W
  <2>3. W \ {m} \in SUBSET Later(S, m) /\ IsFiniteSet(Later(S, m))
    BY <1>1, <2>1, <2>2, LaterMeans DEF Later
  <2>4. Cardinality(W \ {m}) <= Cardinality(Later(S, m))
    BY <2>3, FS_Subset
  <2>5. Cardinality(W \ {m}) = Cardinality(W) - 1
    BY <1>1, <2>1, FS_RemoveElement
  <2>. QED
    BY <1>1, <2>2, <2>4, <2>5 DEF W
<1>. QED
  BY <1>2, <1>3

-----------------------------------------------------------------------------
(* The inductive invariant.                                                  *)

Ats == {"idle", "rest", "lookup", "source", "publish", "recheck"}
ReadStates == [at : Ats, low : SUBSET Messages, token : Ids \cup {NoToken},
               view : SUBSET Messages, older : BOOLEAN, got : SUBSET Messages]
EntrySet == [gen : Ids \cup {NoToken}, window : SUBSET Messages, ready : BOOLEAN, older : BOOLEAN]
Loaded == {"publish", "recheck"}

Shape ==
  /\ backend \in {"memory", "redis"}
  /\ committed \subseteq Messages /\ settled \subseteq committed /\ IsFiniteSet(committed)
  /\ entry \in EntrySet
  /\ entry.gen = NoToken => entry = Absent
  /\ trusted \in [Coordinators -> BOOLEAN]
  /\ reads \in [Readers -> ReadStates]
  /\ \A r \in Readers : reads[r].low \subseteq settled
  /\ \A r \in Readers : reads[r].at \in Loaded => reads[r].token # NoToken
  /\ appends \in [Messages -> {"none", "commit", "invalidate", "over"}]

AppendsOK ==
  /\ \A m \in Messages : appends[m] = "invalidate" => m \in committed
  /\ \A m \in settled : appends[m] = "over"

The == CHOOSE c \in Coordinators : TRUE

\* A reader that begins now may be answered from the cache.
Serving == backend = "redis" \/ trusted[The]

\* The state S of the table will do for everybody the cache answers.
Covers(S) ==
  /\ \A r \in Readers : reads[r].at = "lookup" => reads[r].low \subseteq S
  /\ Serving => settled \subseteq S

Shows(window, older, S, n) == window = Newest(S, n) /\ (older <=> window # S)

EntryOK ==
  entry.ready => \E S \in SUBSET committed, q \in Readers :
                   Shows(entry.window, entry.older, S, Limit[q]) /\ Covers(S)

ViewOK(r) ==
  \E S \in SUBSET committed :
    /\ Shows(reads[r].view, reads[r].older, S, Limit[r]) /\ reads[r].low \subseteq S
    /\ entry.gen = reads[r].token => Covers(S)

ViewsOK == \A r \in Readers : reads[r].at \in Loaded => ViewOK(r)

HInv == Shape /\ AppendsOK /\ EntryOK /\ ViewsOK

LEMMA HomeMeans ==
  ASSUME NEW x \in Readers \cup Messages
  PROVE  Of(x) \in Coordinators /\ The \in Coordinators /\ (backend = "memory" => Of(x) = The)
                                /\ (backend = "redis" => Of(x) = Home[x])
<1>1. Home[x] \in Coordinators
  BY HistoryAssumption
<1>2. The \in Coordinators
  BY <1>1 DEF The
<1>. QED
  BY <1>1, <1>2 DEF Of, The

LEMMA FreshMeans ==
  ASSUME Shape
  PROVE  /\ Fresh \in Ids /\ Fresh \notin Used /\ Fresh # NoToken
         /\ Fresh # entry.gen /\ \A r \in Readers : reads[r].token # Fresh
<1>. DEFINE f == [r \in Readers |-> reads[r].token]
            Held == {reads[r].token : r \in Readers}
            n == Cardinality(Readers)
<1>1. IsFiniteSet(Readers) /\ n \in Nat
  BY HistoryAssumption, FS_CardinalityType
<1>2. f \in Surjection(Readers, Held)
  BY DEF Surjection
<1>3. IsFiniteSet(Held) /\ Cardinality(Held) <= n
  <2>. HIDE DEF f, Held
  <2>. QED
    BY <1>1, <1>2, FS_Surjection
<1>4. Used = Held \cup {entry.gen}
  BY DEF Used
<1>. HIDE DEF Held
<1>5. IsFiniteSet(Used) /\ Cardinality(Used) <= n + 1
  <2>1. Cardinality(Held) \in Nat
    BY <1>3, FS_CardinalityType
  <2>2. IsFiniteSet(Used) /\ \/ Cardinality(Used) = Cardinality(Held)
                             \/ Cardinality(Used) = Cardinality(Held) + 1
    BY <1>3, <1>4, FS_AddElement, Zenon
  <2>. HIDE DEF n
  <2>. QED
    BY <1>1, <1>3, <2>1, <2>2
<1>6. Cardinality(Used) \in Nat
  BY <1>5, FS_CardinalityType
<1>7. IsFiniteSet(Ids) /\ Cardinality(Ids) = n + 2
  BY <1>1, FS_Interval DEF Ids
<1>8. Ids \ Used # {}
  <2>. SUFFICES ASSUME Ids \in SUBSET Used PROVE FALSE
    OBVIOUS
  <2>1. Cardinality(Ids) <= Cardinality(Used)
    BY <1>5, FS_Subset
  <2>. QED
    BY <1>1, <1>5, <1>6, <1>7, <2>1
<1>9. PICK g \in Ids \ Used : \A h \in Ids \ Used : g <= h
  <2>1. Ids \ Used \in SUBSET Nat
    BY <1>1 DEF Ids
  <2>. QED
    BY <1>8, <2>1, LeastOne
<1>10. Fresh \in Ids \ Used
  BY <1>9 DEF Fresh
<1>11. NoToken \notin Ids
  BY <1>1 DEF Ids, NoToken
<1>. QED
  BY <1>10, <1>11 DEF Used

LEMMA LimitMeans == \A r \in Readers : Limit[r] \in Nat /\ Limit[r] # 0 /\ Limit[r] \in 1..Limit[r]
BY HistoryAssumption

-----------------------------------------------------------------------------
(* How the entry and what the readers carry to it change.                    *)

SameView(r) == /\ reads[r].at \in Loaded /\ reads'[r].view = reads[r].view /\ reads'[r].older = reads[r].older
               /\ reads'[r].low = reads[r].low /\ reads'[r].token = reads[r].token

\* A state that serves everybody before the step does so after it.
LEMMA CacheMoves ==
  ASSUME HInv, committed \subseteq committed',
         \A S \in SUBSET committed : Covers(S) => Covers(S)',
         entry'.ready => \/ entry' = entry
                         \/ \E r \in Readers : reads[r].at = "publish" /\ MayPublish(r) /\ entry' = Filled(r),
         \A r \in Readers : reads'[r].at \in Loaded =>
           \/ SameView(r) /\ (entry'.gen = reads[r].token => entry.gen = reads[r].token)
           \/ ViewOK(r)'
  PROVE  EntryOK' /\ ViewsOK'
<1>1. ASSUME NEW r \in Readers, SameView(r), entry'.gen = reads[r].token => entry.gen = reads[r].token
      PROVE  ViewOK(r)'
  <2>1. PICK S \in SUBSET committed :
          /\ Shows(reads[r].view, reads[r].older, S, Limit[r]) /\ reads[r].low \subseteq S
          /\ entry.gen = reads[r].token => Covers(S)
    BY <1>1 DEF HInv, ViewsOK, ViewOK, SameView
  <2>2. /\ Shows(reads'[r].view, reads'[r].older, S, Limit[r]) /\ reads'[r].low \subseteq S
        /\ entry'.gen = reads'[r].token => Covers(S)'
    BY <1>1, <2>1 DEF SameView
  <2>. QED
    BY <2>2 DEF ViewOK
<1>2. ViewsOK'
  BY <1>1 DEF ViewsOK
<1>3. ASSUME entry'.ready, entry' = entry PROVE EntryOK'
  <2>1. PICK S \in SUBSET committed, q \in Readers :
                   Shows(entry.window, entry.older, S, Limit[q]) /\ Covers(S)
    BY <1>3 DEF HInv, EntryOK
  <2>2. Shows(entry'.window, entry'.older, S, Limit[q]) /\ Covers(S)'
    BY <1>3, <2>1
  <2>. QED
    BY <2>2 DEF EntryOK
<1>4. ASSUME NEW r \in Readers, reads[r].at = "publish", MayPublish(r), entry' = Filled(r) PROVE EntryOK'
  <2>1. PICK S \in SUBSET committed :
          /\ Shows(reads[r].view, reads[r].older, S, Limit[r]) /\ reads[r].low \subseteq S
          /\ entry.gen = reads[r].token => Covers(S)
    BY <1>4 DEF HInv, ViewsOK, ViewOK, Loaded
  <2>2. Shows(entry'.window, entry'.older, S, Limit[r]) /\ Covers(S)'
    BY <1>4, <2>1 DEF Filled, MayPublish
  <2>. QED
    BY <2>2 DEF EntryOK
<1>. QED
  BY <1>2, <1>3, <1>4 DEF EntryOK

\* The entry is replaced by one no reader has a token for.
LEMMA CacheCleared ==
  ASSUME HInv, committed \subseteq committed', ~entry'.ready,
         \A r \in Readers : reads'[r].at \in Loaded => SameView(r) /\ entry'.gen # reads[r].token
  PROVE  EntryOK' /\ ViewsOK'
<1>1. ASSUME NEW r \in Readers, reads'[r].at \in Loaded PROVE ViewOK(r)'
  <2>1. PICK S \in SUBSET committed :
          Shows(reads[r].view, reads[r].older, S, Limit[r]) /\ reads[r].low \subseteq S
    BY <1>1 DEF HInv, ViewsOK, ViewOK, SameView
  <2>2. /\ Shows(reads'[r].view, reads'[r].older, S, Limit[r]) /\ reads'[r].low \subseteq S
        /\ entry'.gen # reads'[r].token
    BY <1>1, <2>1 DEF SameView
  <2>. QED
    BY <2>2 DEF ViewOK
<1>. QED
  BY <1>1 DEF EntryOK, ViewsOK

\* The entry stays, or a reservation of its own replaces it or stands in for it.
LEMMA ReservationMeans ==
  ASSUME Shape
  PROVE  /\ Reserved(Fresh) \in EntrySet
         /\ Reserved(Fresh).gen = Fresh /\ ~Reserved(Fresh).ready
         /\ Looked \in EntrySet
         /\ Looked.gen # NoToken /\ (Looked = entry \/ Looked = Reserved(Fresh))
         /\ Absent \in EntrySet
         /\ ~Absent.ready /\ Absent.gen = NoToken
<1>1. Absent \in EntrySet
      /\ ~Absent.ready /\ Absent.gen = NoToken
  BY DEF Absent, EntrySet
<1>2. ASSUME NEW g \in Ids
      PROVE  /\ Reserved(g) \in EntrySet
             /\ Reserved(g).gen = g /\ ~Reserved(g).ready
  <2>. DEFINE a == Absent
  <2>1. a \in EntrySet /\ ~a.ready
    BY <1>1
  <2>. HIDE DEF a
  <2>2. LET b == [a EXCEPT !.gen = g]
        IN  /\ b \in EntrySet
            /\ b.gen = g /\ ~b.ready
    BY <2>1 DEF EntrySet
  <2>. QED
    BY <2>2 DEF Reserved, a
<1>. QED
  BY <1>1, <1>2, FreshMeans DEF Shape, Looked

\* Nobody new may be served, and nothing new is settled.
LEMMA CoversStays ==
  ASSUME settled' = settled, Serving' => Serving,
         \A r \in Readers : reads'[r].at = "lookup" => reads[r].at = "lookup" /\ reads'[r].low = reads[r].low,
         NEW S, Covers(S)
  PROVE  Covers(S)'
BY DEF Covers

\* Every reader but one stays, and that one is at x.
LEMMA ReadMoves ==
  ASSUME Shape, NEW r \in Readers, NEW x, reads' = [reads EXCEPT ![r] = x]
  PROVE  reads'[r] = x /\ \A q \in Readers \ {r} : reads'[q] = reads[q]
BY DEF Shape

-----------------------------------------------------------------------------
(* The steps of a reader.                                                    *)

LEMMA AtRestMeans ==
  \A got \in SUBSET Messages :
    AtRest(got) \in ReadStates /\ AtRest(got).at = "rest" /\ AtRest(got).low = {} /\ AtRest(got).got = got
BY DEF AtRest, ReadStates, Ats

LEMMA BypassMeans ==
  ASSUME Shape, NEW c \in Coordinators, Bypass(c)
  PROVE  trusted' \in [Coordinators -> BOOLEAN] /\ ~trusted'[c] /\ \A d \in Coordinators : trusted'[d] => trusted[d]
BY DEF Bypass, Shape

LEMMA ServesLess ==
  ASSUME Shape, NEW x \in Readers \cup Messages, backend' = backend, \A d \in Coordinators : trusted'[d] => trusted[d]
  PROVE  Serving' => Serving
BY HomeMeans DEF Serving, The

LEMMA FilledMeans ==
  ASSUME Shape, NEW r \in Readers
  PROVE  Filled(r) \in EntrySet /\ Filled(r).gen = reads[r].token
         /\ (reads[r].at = "publish" => Filled(r).gen # NoToken)
BY DEF Shape, Filled, EntrySet, ReadStates, Loaded

\* A reader comes to rest, whatever it returns.
LEMMA ReaderRests ==
  ASSUME HInv, NEW r \in Readers, NEW got \in SUBSET Messages, reads' = [reads EXCEPT ![r] = AtRest(got)],
         UNCHANGED <<backend, committed, settled, appends>>,
         trusted' \in [Coordinators -> BOOLEAN], \A d \in Coordinators : trusted'[d] => trusted[d],
         entry' \in EntrySet, entry'.gen = NoToken => entry' = Absent,
         entry'.ready => \/ entry' = entry
                         \/ \E q \in Readers : reads[q].at = "publish" /\ MayPublish(q) /\ entry' = Filled(q),
         \A q \in Readers : entry'.gen = reads[q].token => entry.gen = reads[q].token \/ reads[q].at \notin Loaded
  PROVE  HInv'
<1>1. /\ reads'[r] \in ReadStates /\ reads'[r].at = "rest" /\ reads'[r].low = {}
      /\ \A q \in Readers \ {r} : reads'[q] = reads[q]
  BY AtRestMeans DEF HInv, Shape
<1>2. Shape'
  <2>1. reads' \in [Readers -> ReadStates]
    BY AtRestMeans DEF HInv, Shape
  <2>. QED
    BY <1>1, <2>1 DEF HInv, Shape, Loaded
<1>3. AppendsOK'
  BY DEF HInv, AppendsOK
<1>4. Serving' => Serving
  BY ServesLess DEF HInv
<1>5. \A S : Covers(S) => Covers(S)'
  BY <1>1, <1>4, CoversStays
<1>6. \A q \in Readers : reads'[q].at \in Loaded =>
        SameView(q) /\ (entry'.gen = reads[q].token => entry.gen = reads[q].token)
  BY <1>1 DEF SameView, Loaded
<1>. QED
  BY <1>2, <1>3, <1>5, <1>6, CacheMoves DEF HInv

LEMMA BeginReadStep == ASSUME HInv, NEW r \in Readers, BeginRead(r) PROVE HInv'
<1>1. /\ UNCHANGED <<backend, committed, settled, entry, trusted, appends>>
      /\ reads[r].at = "idle"
      /\ reads' = [reads EXCEPT ![r] = [AtRest({}) EXCEPT
                     !.at = IF trusted[Of(r)] THEN "lookup" ELSE "source", !.low = settled]]
  BY DEF BeginRead
<1>2. /\ reads' \in [Readers -> ReadStates] /\ reads'[r].low = settled
      /\ reads'[r].at = IF trusted[Of(r)] THEN "lookup" ELSE "source"
      /\ \A q \in Readers \ {r} : reads'[q] = reads[q]
  <2>. DEFINE a == AtRest({})
  <2>1. a \in ReadStates /\ settled \in SUBSET Messages
    BY AtRestMeans DEF HInv, Shape
  <2>. HIDE DEF a
  <2>2. LET x == [a EXCEPT !.at = IF trusted[Of(r)] THEN "lookup" ELSE "source", !.low = settled]
        IN  x \in ReadStates /\ x.low = settled /\ x.at = IF trusted[Of(r)] THEN "lookup" ELSE "source"
    BY <2>1 DEF ReadStates, Ats
  <2>. QED
    BY <1>1, <2>2 DEF HInv, Shape, a
<1>3. Shape'
  BY <1>1, <1>2 DEF HInv, Shape, Loaded
<1>4. AppendsOK'
  BY <1>1 DEF HInv, AppendsOK
<1>5. ASSUME NEW S, Covers(S) PROVE Covers(S)'
  <2>1. reads'[r].at = "lookup" => Serving
    BY <1>2, HomeMeans DEF Serving, HInv, Shape
  <2>. QED
    BY <1>1, <1>2, <1>5, <2>1 DEF Covers, Serving, The
<1>6. \A q \in Readers : reads'[q].at \in Loaded => SameView(q)
  BY <1>2 DEF SameView, Loaded
<1>. QED
  BY <1>1, <1>3, <1>4, <1>5, <1>6, CacheMoves DEF HInv

LEMMA LookupStep == ASSUME HInv, NEW r \in Readers, Lookup(r) PROVE HInv'
<1>1. /\ UNCHANGED <<backend, committed, settled, trusted, appends>>
      /\ reads[r].at = "lookup" /\ entry' = Looked
  BY DEF Lookup
<1>2. /\ entry' \in EntrySet /\ entry'.gen # NoToken
      /\ entry'.ready => entry' = entry
      /\ \A q \in Readers : entry'.gen = reads[q].token => entry.gen = reads[q].token
  BY <1>1, ReservationMeans, FreshMeans DEF HInv
<1>3. CASE Hit(Limit[r])
  <2>1. reads' = [reads EXCEPT ![r] = AtRest(Newest(entry.window, Limit[r]))]
    BY <1>3 DEF Lookup
  <2>2. Newest(entry.window, Limit[r]) \in SUBSET Messages
    BY DEF HInv, Shape, Newest, EntrySet
  <2>. QED
    BY <1>1, <1>2, <2>1, <2>2, ReaderRests DEF HInv, Shape
<1>4. CASE ~Hit(Limit[r])
  <2>1. reads' = [reads EXCEPT ![r] = [@ EXCEPT !.at = "source", !.token = Looked.gen]]
    BY <1>4 DEF Lookup
  <2>2. /\ reads' \in [Readers -> ReadStates] /\ reads'[r].at = "source" /\ reads'[r].low = reads[r].low
        /\ \A q \in Readers \ {r} : reads'[q] = reads[q]
    <3>. DEFINE x == [reads[r] EXCEPT !.at = "source", !.token = Looked.gen]
    <3>1. reads' = [reads EXCEPT ![r] = x]
      BY <2>1
    <3>2. x \in ReadStates /\ x.at = "source" /\ x.low = reads[r].low
      <4>1. Looked.gen \in Ids \cup {NoToken}
        BY ReservationMeans DEF HInv, EntrySet
      <4>. QED
        BY <4>1 DEF HInv, Shape, ReadStates, Ats
    <3>. HIDE DEF x
    <3>. QED
      BY <3>1, <3>2 DEF HInv, Shape
  <2>3. Shape'
    BY <1>1, <1>2, <2>2 DEF HInv, Shape, Loaded
  <2>4. AppendsOK'
    BY <1>1 DEF HInv, AppendsOK
  <2>5. \A S : Covers(S) => Covers(S)'
    BY <1>1, <2>2, CoversStays DEF Serving, The
  <2>6. \A q \in Readers : reads'[q].at \in Loaded => SameView(q)
    BY <2>2 DEF SameView, Loaded
  <2>. QED
    BY <1>1, <1>2, <2>3, <2>4, <2>5, <2>6, CacheMoves DEF HInv
<1>. QED
  BY <1>3, <1>4

LEMMA LookupFailsStep == ASSUME HInv, NEW r \in Readers, LookupFails(r) PROVE HInv'
<1>1. /\ UNCHANGED <<backend, committed, settled, entry, appends>>
      /\ reads[r].at = "lookup" /\ reads' = [reads EXCEPT ![r].at = "source"]
      /\ trusted' \in [Coordinators -> BOOLEAN] /\ \A d \in Coordinators : trusted'[d] => trusted[d]
  BY BypassMeans, HomeMeans DEF LookupFails, HInv
<1>2. /\ reads' \in [Readers -> ReadStates] /\ reads'[r].at = "source" /\ reads'[r].low = reads[r].low
      /\ \A q \in Readers \ {r} : reads'[q] = reads[q]
  BY <1>1 DEF HInv, Shape, ReadStates, Ats
<1>3. Shape'
  BY <1>1, <1>2 DEF HInv, Shape, Loaded
<1>4. AppendsOK'
  BY <1>1 DEF HInv, AppendsOK
<1>5. \A S : Covers(S) => Covers(S)'
  BY <1>1, <1>2, CoversStays, ServesLess DEF HInv
<1>6. \A q \in Readers : reads'[q].at \in Loaded => SameView(q)
  BY <1>2 DEF SameView, Loaded
<1>. QED
  BY <1>1, <1>3, <1>4, <1>5, <1>6, CacheMoves DEF HInv

LEMMA SourceStep == ASSUME HInv, NEW r \in Readers, Source(r) PROVE HInv'
<1>. DEFINE view == Newest(committed, Limit[r])
            x == [reads[r] EXCEPT !.at = "publish", !.view = view, !.older = (view # committed)]
<1>1. /\ UNCHANGED <<backend, committed, settled, entry, trusted, appends>>
      /\ reads[r].at = "source"
      /\ \/ reads[r].token # NoToken /\ reads' = [reads EXCEPT ![r] = x]
         \/ reads' = [reads EXCEPT ![r] = AtRest(view)]
  BY DEF Source
<1>2. view \in SUBSET Messages
  BY DEF Newest, HInv, Shape
<1>3. CASE reads' = [reads EXCEPT ![r] = AtRest(view)]
  <2>. HIDE DEF view
  <2>. QED
    BY <1>1, <1>2, <1>3, ReaderRests DEF HInv, Shape
<1>4. CASE reads[r].token # NoToken /\ reads' = [reads EXCEPT ![r] = x]
  <2>1. /\ x \in ReadStates /\ x.at = "publish" /\ x.low = reads[r].low /\ x.token = reads[r].token
        /\ x.view = view /\ (x.older <=> view # committed)
    <3>1. (view # committed) \in BOOLEAN /\ reads[r] \in ReadStates
      BY DEF HInv, Shape
    <3>. HIDE DEF view
    <3>. QED
      BY <1>2, <3>1 DEF ReadStates, Ats
  <2>. HIDE DEF x
  <2>2. /\ reads' \in [Readers -> ReadStates] /\ reads'[r] = x
        /\ \A q \in Readers \ {r} : reads'[q] = reads[q]
    BY <1>4, <2>1 DEF HInv, Shape
  <2>3. Shape'
    BY <1>1, <1>4, <2>1, <2>2 DEF HInv, Shape
  <2>4. AppendsOK'
    BY <1>1 DEF HInv, AppendsOK
  <2>5. \A S : Covers(S) => Covers(S)'
    BY <1>1, <2>1, <2>2, CoversStays DEF Serving, The
  <2>6. ViewOK(r)'
    <3>1. Shows(reads'[r].view, reads'[r].older, committed, Limit[r])
      BY <2>1, <2>2 DEF Shows
    <3>2. reads'[r].low \subseteq committed
      BY <2>1, <2>2 DEF HInv, Shape
    <3>3. Covers(committed)'
      BY <1>1, <2>1, <2>2 DEF HInv, Shape, Covers
    <3>. QED
      BY <1>1, <3>1, <3>2, <3>3 DEF ViewOK
  <2>7. \A q \in Readers : reads'[q].at \in Loaded => SameView(q) \/ ViewOK(q)'
    BY <2>2, <2>6 DEF SameView, Loaded
  <2>. QED
    BY <1>1, <2>3, <2>4, <2>5, <2>7, CacheMoves DEF HInv
<1>. QED
  BY <1>1, <1>3, <1>4

\* The view a reader carries, put into the entry its token reserved or not.
LEMMA Carried ==
  ASSUME HInv, NEW r \in Readers, reads[r].at \in Loaded,
         entry' = entry \/ (reads[r].at = "publish" /\ MayPublish(r) /\ entry' = Filled(r))
  PROVE  /\ entry' \in EntrySet /\ (entry'.gen = NoToken => entry' = Absent)
         /\ entry'.ready => \/ entry' = entry
                            \/ \E q \in Readers : reads[q].at = "publish" /\ MayPublish(q) /\ entry' = Filled(q)
         /\ \A q \in Readers : entry'.gen = reads[q].token => entry.gen = reads[q].token
         /\ reads[r].view \in SUBSET Messages
<1>1. reads[r].view \in SUBSET Messages /\ reads[r].token # NoToken
  BY DEF HInv, Shape, ReadStates
<1>2. CASE entry' = entry
  BY <1>1, <1>2 DEF HInv, Shape
<1>3. CASE reads[r].at = "publish" /\ MayPublish(r) /\ entry' = Filled(r)
  BY <1>1, <1>3, FilledMeans DEF HInv, MayPublish
<1>. QED
  BY <1>2, <1>3

LEMMA PublishStep == ASSUME HInv, NEW r \in Readers, Publish(r) PROVE HInv'
<1>1. UNCHANGED <<backend, committed, settled, trusted, appends>> /\ reads[r].at = "publish"
  BY DEF Publish
<1>2. CASE MayPublish(r)
  <2>1. entry' = Filled(r) /\ reads' = [reads EXCEPT ![r] = AtRest(reads[r].view)]
    BY <1>2 DEF Publish
  <2>. QED
    BY <1>1, <1>2, <2>1, Carried, ReaderRests DEF Loaded, HInv, Shape
<1>3. CASE ~MayPublish(r)
  <2>1. entry' = entry /\ reads' = [reads EXCEPT ![r].at = "recheck"]
    BY <1>3 DEF Publish
  <2>2. /\ reads' \in [Readers -> ReadStates] /\ reads'[r].at = "recheck" /\ SameView(r)
        /\ \A q \in Readers \ {r} : reads'[q] = reads[q]
    BY <1>1, <2>1 DEF HInv, Shape, ReadStates, Ats, SameView, Loaded
  <2>3. Shape'
    BY <1>1, <2>1, <2>2 DEF HInv, Shape, Loaded, SameView
  <2>4. AppendsOK'
    BY <1>1 DEF HInv, AppendsOK
  <2>5. \A S : Covers(S) => Covers(S)'
    BY <1>1, <2>2, CoversStays DEF Serving, The
  <2>6. \A q \in Readers : reads'[q].at \in Loaded => SameView(q)
    BY <2>2 DEF SameView, Loaded
  <2>. QED
    BY <1>1, <2>1, <2>3, <2>4, <2>5, <2>6, CacheMoves DEF HInv
<1>. QED
  BY <1>2, <1>3

LEMMA PublishSkippedStep == ASSUME HInv, NEW r \in Readers, PublishSkipped(r) PROVE HInv'
<1>1. /\ UNCHANGED <<backend, committed, settled, trusted, appends>>
      /\ reads[r].at = "publish" /\ reads' = [reads EXCEPT ![r] = AtRest(reads[r].view)]
      /\ entry' = entry \/ (MayPublish(r) /\ entry' = Filled(r))
  BY DEF PublishSkipped
<1>. QED
  BY <1>1, Carried, ReaderRests DEF Loaded, HInv, Shape

LEMMA RecheckStep == ASSUME HInv, NEW r \in Readers, Recheck(r) PROVE HInv'
<1>1. /\ UNCHANGED <<backend, committed, settled, appends>> /\ entry' = Looked
      /\ reads[r].at = "recheck" /\ reads' = [reads EXCEPT ![r] = AtRest(reads[r].view)]
      /\ trusted' = trusted \/ Bypass(Of(r))
  BY DEF Recheck
<1>2. trusted' \in [Coordinators -> BOOLEAN] /\ \A d \in Coordinators : trusted'[d] => trusted[d]
  BY <1>1, BypassMeans, HomeMeans DEF HInv, Shape
<1>3. reads[r].view \in SUBSET Messages
  BY DEF HInv, Shape, ReadStates
<1>4. /\ entry' \in EntrySet /\ entry'.gen # NoToken
      /\ entry'.ready => entry' = entry
      /\ \A q \in Readers : entry'.gen = reads[q].token => entry.gen = reads[q].token
  BY <1>1, ReservationMeans, FreshMeans DEF HInv
<1>. QED
  BY <1>1, <1>2, <1>3, <1>4, ReaderRests

LEMMA CacheBreaksStep == ASSUME HInv, NEW r \in Readers, CacheBreaks(r) PROVE HInv'
<1>1. /\ UNCHANGED <<backend, committed, settled, entry, appends>>
      /\ reads[r].at \in Loaded /\ reads' = [reads EXCEPT ![r] = AtRest(reads[r].view)]
      /\ trusted' \in [Coordinators -> BOOLEAN] /\ \A d \in Coordinators : trusted'[d] => trusted[d]
  BY BypassMeans, HomeMeans DEF CacheBreaks, HInv, Loaded
<1>. QED
  BY <1>1, Carried, ReaderRests

LEMMA ReadAbortsStep == ASSUME HInv, NEW r \in Readers, ReadAborts(r) PROVE HInv'
<1>1. /\ UNCHANGED <<backend, committed, settled, trusted, appends>>
      /\ reads' = [reads EXCEPT ![r] = AtRest({})]
      /\ entry' = entry \/ (reads[r].at = "publish" /\ MayPublish(r) /\ entry' = Filled(r))
  BY DEF ReadAborts
<1>. DEFINE nothing == {}
<1>4. nothing \in SUBSET Messages /\ reads' = [reads EXCEPT ![r] = AtRest(nothing)]
  BY <1>1
<1>. HIDE DEF nothing
<1>2. CASE entry' = entry
  BY <1>1, <1>2, <1>4, ReaderRests DEF HInv, Shape
<1>3. CASE reads[r].at = "publish" /\ MayPublish(r) /\ entry' = Filled(r)
  BY <1>1, <1>3, <1>4, Carried, ReaderRests DEF HInv, Shape, Loaded
<1>. QED
  BY <1>1, <1>2, <1>3

-----------------------------------------------------------------------------
(* The steps of an append, the end of an entry and a reload.                 *)

\* Readers and entry stay, and nobody who may be served lacks what is settled.
LEMMA AppendMoves ==
  ASSUME HInv, NEW m \in Messages, UNCHANGED <<backend, entry, reads>>,
         committed' \in {committed, committed \cup {m}},
         settled' = settled \/ (settled' = settled \cup {m} /\ m \in committed' /\ ~Serving'),
         trusted' \in [Coordinators -> BOOLEAN], \A d \in Coordinators : trusted'[d] => trusted[d],
         appends[m] # "over", appends' \in [Messages -> {"none", "commit", "invalidate", "over"}],
         appends'[m] = "invalidate" => m \in committed',
         settled' # settled => appends'[m] = "over",
         \A o \in Messages \ {m} : appends'[o] = appends[o]
  PROVE  HInv'
<1>1. committed \subseteq committed' /\ committed' \subseteq Messages /\ IsFiniteSet(committed')
      /\ settled \subseteq settled' /\ settled' \subseteq committed'
  BY FS_AddElement DEF HInv, Shape
<1>2. Shape'
  BY <1>1 DEF HInv, Shape, Loaded, EntrySet, ReadStates, Ids
<1>3. AppendsOK'
  BY <1>1 DEF HInv, AppendsOK, Shape
<1>4. ASSUME NEW S, Covers(S) PROVE Covers(S)'
  <2>1. Serving' => Serving /\ settled' = settled
    BY ServesLess DEF HInv
  <2>. QED
    BY <1>4, <2>1 DEF Covers
<1>5. \A q \in Readers : reads'[q].at \in Loaded => SameView(q)
  BY DEF SameView
<1>. QED
  BY <1>1, <1>2, <1>3, <1>4, <1>5, CacheMoves DEF HInv

LEMMA BeginAppendStep == ASSUME HInv, NEW m \in Messages, BeginAppend(m) PROVE HInv'
<1>1. /\ UNCHANGED <<backend, committed, settled, entry, trusted, reads>>
      /\ appends[m] = "none" /\ appends' = [appends EXCEPT ![m] = "commit"]
  BY DEF BeginAppend
<1>. QED
  BY <1>1, AppendMoves DEF HInv, Shape

LEMMA CommitStep == ASSUME HInv, NEW m \in Messages, Commit(m) PROVE HInv'
<1>1. /\ UNCHANGED <<backend, entry, trusted, reads>>
      /\ appends[m] = "commit" /\ committed' = committed \cup {m}
  BY DEF Commit
<1>2. CASE trusted[Of(m)]
  <2>1. appends' = [appends EXCEPT ![m] = "invalidate"] /\ settled' = settled
    BY <1>2 DEF Commit
  <2>. QED
    BY <1>1, <2>1, AppendMoves DEF HInv, Shape
<1>3. CASE ~trusted[Of(m)]
  <2>1. appends' = [appends EXCEPT ![m] = "over"]
        /\ settled' = settled \cup (IF backend = "memory" THEN {m} ELSE {})
    BY <1>3 DEF Commit, Over, SettledAnyway
  <2>2. backend = "memory" => ~Serving'
    BY <1>1, <1>3, HomeMeans DEF Serving, The
  <2>3. settled' = settled \/ (settled' = settled \cup {m} /\ ~Serving')
    BY <2>1, <2>2
  <2>. QED
    BY <1>1, <2>1, <2>3, AppendMoves DEF HInv, Shape
<1>. QED
  BY <1>2, <1>3

LEMMA RollBackStep == ASSUME HInv, NEW m \in Messages, RollBack(m) PROVE HInv'
<1>1. /\ UNCHANGED <<backend, committed, settled, entry, trusted, reads>>
      /\ appends[m] = "commit" /\ appends' = [appends EXCEPT ![m] = "over"]
  BY DEF RollBack, Over
<1>. QED
  BY <1>1, AppendMoves DEF HInv, Shape

LEMMA CommitUnknownStep == ASSUME HInv, NEW m \in Messages, CommitUnknown(m) PROVE HInv'
<1>1. /\ UNCHANGED <<backend, entry, reads>>
      /\ appends[m] = "commit" /\ appends' = [appends EXCEPT ![m] = "over"]
      /\ Bypass(Of(m)) /\ Of(m) \in Coordinators
  BY HomeMeans DEF CommitUnknown, Over
<1>2. /\ trusted' \in [Coordinators -> BOOLEAN] /\ \A d \in Coordinators : trusted'[d] => trusted[d]
      /\ backend = "memory" => ~Serving'
  BY <1>1, BypassMeans, HomeMeans DEF HInv, Serving, The
<1>3. /\ committed' \in {committed, committed \cup {m}}
      /\ settled' = settled \/ (settled' = settled \cup {m} /\ m \in committed' /\ ~Serving')
  BY <1>2 DEF CommitUnknown, SettledAnyway
<1>. QED
  BY <1>1, <1>2, <1>3, AppendMoves DEF HInv, Shape

LEMMA CommitInterruptedStep == ASSUME HInv, NEW m \in Messages, CommitInterrupted(m) PROVE HInv'
<1>1. /\ UNCHANGED <<backend, settled, entry, trusted, reads>> /\ committed' = committed \cup {m}
      /\ appends[m] = "commit" /\ appends' = [appends EXCEPT ![m] = "over"]
  BY DEF CommitInterrupted, Over
<1>. QED
  BY <1>1, AppendMoves DEF HInv, Shape

\* The entry is replaced, and then the message may be settled.
LEMMA EntryReplaced ==
  ASSUME HInv, NEW m \in Messages, appends[m] = "invalidate",
         UNCHANGED <<backend, committed, reads>>, entry' = Reserved(Fresh),
         settled' \in {settled, settled \cup {m}},
         trusted' \in [Coordinators -> BOOLEAN], appends' = [appends EXCEPT ![m] = "over"]
  PROVE  HInv'
<1>1. entry' \in EntrySet /\ entry'.gen # NoToken /\ ~entry'.ready
      /\ \A q \in Readers : reads[q].token # entry'.gen
  BY ReservationMeans, FreshMeans DEF HInv
<1>2. settled \subseteq settled' /\ settled' \subseteq committed'
  BY DEF HInv, AppendsOK, Shape
<1>3. Shape'
  BY <1>1, <1>2 DEF HInv, Shape
<1>4. AppendsOK'
  BY DEF HInv, AppendsOK, Shape
<1>5. \A q \in Readers : reads'[q].at \in Loaded => SameView(q)
  BY DEF SameView
<1>. QED
  BY <1>1, <1>3, <1>4, <1>5, CacheCleared DEF HInv

LEMMA InvalidateStep == ASSUME HInv, NEW m \in Messages, Invalidate(m) PROVE HInv'
BY EntryReplaced DEF Invalidate, Over, HInv, Shape

LEMMA InvalidateFailsStep == ASSUME HInv, NEW m \in Messages, InvalidateFails(m) PROVE HInv'
<1>1. /\ UNCHANGED <<backend, committed, settled, reads>>
      /\ appends[m] = "invalidate" /\ appends' = [appends EXCEPT ![m] = "over"]
      /\ trusted' \in [Coordinators -> BOOLEAN] /\ \A d \in Coordinators : trusted'[d] => trusted[d]
      /\ entry' = entry \/ entry' = Reserved(Fresh)
  BY BypassMeans, HomeMeans DEF InvalidateFails, Over, HInv
<1>2. CASE entry' = entry
  BY <1>1, <1>2, AppendMoves DEF HInv, Shape
<1>3. CASE entry' = Reserved(Fresh)
  BY <1>1, <1>3, EntryReplaced
<1>. QED
  BY <1>1, <1>2, <1>3

LEMMA ExpireStep == ASSUME HInv, Expire PROVE HInv'
<1>1. UNCHANGED <<backend, committed, settled, trusted, reads, appends>> /\ entry' = Absent
  BY DEF Expire
<1>2. entry' \in EntrySet /\ ~entry'.ready /\ entry'.gen = NoToken
  BY <1>1, ReservationMeans DEF HInv
<1>3. Shape' /\ AppendsOK'
  BY <1>1, <1>2 DEF HInv, Shape, AppendsOK
<1>4. \A q \in Readers : reads'[q].at \in Loaded => SameView(q) /\ reads[q].token # NoToken
  BY <1>1 DEF SameView, HInv, Shape
<1>. QED
  BY <1>1, <1>2, <1>3, <1>4, CacheCleared DEF HInv

LEMMA NextGenerationStep == ASSUME HInv, NEW c \in Coordinators, NextGeneration(c) PROVE HInv'
<1>1. /\ UNCHANGED <<backend, committed, settled, reads, appends>>
      /\ \A r \in Readers : Of(r) = c => reads[r].at \in {"idle", "rest"}
      /\ trusted' = [trusted EXCEPT ![c] = TRUE]
      /\ entry' = IF backend = "memory" THEN Absent ELSE entry
  BY DEF NextGeneration
<1>2. PICK r \in Readers : Of(r) = c
  BY DEF NextGeneration
<1>3. entry' \in EntrySet /\ (entry'.gen = NoToken => entry' = Absent) /\ trusted' \in [Coordinators -> BOOLEAN]
  BY <1>1, ReservationMeans DEF HInv, Shape
<1>4. Shape' /\ AppendsOK'
  BY <1>1, <1>3 DEF HInv, Shape, AppendsOK
<1>5. CASE backend = "memory"
  <2>1. \A q \in Readers : Of(q) = c
    BY <1>2, <1>5, HomeMeans
  <2>2. \A q \in Readers : reads'[q].at \notin Loaded
    BY <1>1, <2>1 DEF Loaded
  <2>3. ~entry'.ready
    BY <1>1, <1>5, ReservationMeans DEF HInv
  <2>. QED
    BY <1>1, <1>4, <2>2, <2>3, CacheCleared DEF HInv
<1>6. CASE backend = "redis"
  <2>1. \A S : Covers(S) => Covers(S)'
    BY <1>1, <1>6, CoversStays DEF Serving
  <2>2. \A q \in Readers : reads'[q].at \in Loaded => SameView(q)
    BY <1>1 DEF SameView
  <2>. QED
    BY <1>1, <1>4, <1>6, <2>1, <2>2, CacheMoves DEF HInv
<1>. QED
  BY <1>5, <1>6 DEF HInv, Shape

-----------------------------------------------------------------------------
(* The invariant holds from the start and in every step.                     *)

LEMMA Initially == HistoryInit => HInv
<1>. SUFFICES ASSUME HistoryInit PROVE HInv
  OBVIOUS
<1>1. /\ backend \in {"memory", "redis"} /\ committed = {} /\ settled = {} /\ entry = Absent
      /\ trusted = [c \in Coordinators |-> TRUE] /\ appends = [m \in Messages |-> "none"]
      /\ reads = [r \in Readers |-> [AtRest({}) EXCEPT !.at = "idle"]]
  BY DEF HistoryInit
<1>2. Absent \in EntrySet /\ ~Absent.ready
  BY DEF Absent, EntrySet
<1>3. LET x == [AtRest({}) EXCEPT !.at = "idle"] IN x \in ReadStates /\ x.at = "idle" /\ x.low = {}
  BY DEF AtRest, ReadStates, Ats
<1>4. reads \in [Readers -> ReadStates] /\ \A r \in Readers : reads[r].at = "idle" /\ reads[r].low = {}
  BY <1>1, <1>3
<1>5. Shape
  BY <1>1, <1>2, <1>4, FS_EmptySet DEF Shape, Loaded
<1>. QED
  BY <1>1, <1>2, <1>4, <1>5 DEF HInv, AppendsOK, EntryOK, ViewsOK, Loaded

LEMMA Stutters == ASSUME HInv, UNCHANGED historyVars PROVE HInv'
<1>1. UNCHANGED <<backend, committed, settled, entry, trusted, reads, appends>>
  BY DEF historyVars
<1>2. Shape' /\ AppendsOK'
  BY <1>1 DEF HInv, Shape, AppendsOK
<1>3. \A S : Covers(S) => Covers(S)'
  BY <1>1 DEF Covers, Serving, The
<1>. QED
  BY <1>1, <1>2, <1>3, CacheMoves DEF HInv, SameView

LEMMA Preserved == HInv /\ [HistoryNext]_historyVars => HInv'
<1>. SUFFICES ASSUME HInv, [HistoryNext]_historyVars PROVE HInv'
  OBVIOUS
<1>1. ASSUME NEW r \in Readers, BeginRead(r) \/ ReadStep(r) PROVE HInv'
  BY <1>1, BeginReadStep, LookupStep, LookupFailsStep, SourceStep, PublishStep, PublishSkippedStep,
     RecheckStep, CacheBreaksStep, ReadAbortsStep DEF ReadStep
<1>2. ASSUME NEW m \in Messages, BeginAppend(m) \/ AppendStep(m) PROVE HInv'
  BY <1>2, BeginAppendStep, CommitStep, RollBackStep, CommitUnknownStep, CommitInterruptedStep,
     InvalidateStep, InvalidateFailsStep DEF AppendStep
<1>3. ASSUME NEW c \in Coordinators, NextGeneration(c) PROVE HInv'
  BY <1>3, NextGenerationStep
<1>4. CASE Expire
  BY <1>4, ExpireStep
<1>5. CASE UNCHANGED historyVars
  BY <1>5, Stutters
<1>. QED
  BY <1>1, <1>2, <1>3, <1>4, <1>5 DEF HistoryNext

LEMMA Inductive == HistorySpec => []HInv
BY Initially, Preserved, PTL DEF HistorySpec

-----------------------------------------------------------------------------
(* Every step is one of the abstract history, or none.                       *)

Open(r) == reads[r].at \notin {"idle", "rest"}

LEMMA LogAnswers ==
  ASSUME HInv, NEW r \in Readers, Open(r), NEW S \in SUBSET committed, NEW n \in 1..Limit[r],
         reads[r].low \subseteq S, backend = "memory" => n = Limit[r],
         reads' = [reads EXCEPT ![r] = AtRest(Newest(S, n))], UNCHANGED <<backend, committed, settled>>
  PROVE  Log!Answer(r)
<1>1. Log!Newest(S, n) = Newest(S, n)
  <2>1. ASSUME NEW T PROVE Log!Cardinality(T) = Cardinality(T)
    BY DEF Log!Cardinality, Cardinality
  <2>. QED
    BY <2>1 DEF Log!Newest, Newest
<1>. DEFINE got == Newest(S, n)
<1>2. [q \in Readers |-> [open |-> reads'[q].at \notin {"idle", "rest"}, low |-> reads'[q].low, got |-> reads'[q].got]]
        = [[q \in Readers |-> [open |-> reads[q].at \notin {"idle", "rest"}, low |-> reads[q].low, got |-> reads[q].got]]
             EXCEPT ![r] = Log!Closed(Newest(S, n))]
  <2>. HIDE DEF got
  <2>1. reads' = [reads EXCEPT ![r] = AtRest(got)]
    BY DEF got
  <2>2. reads'[r].at = "rest" /\ reads'[r].low = {} /\ reads'[r].got = got
        /\ \A q \in Readers \ {r} : reads'[q] = reads[q]
    BY <2>1 DEF AtRest, HInv, Shape
  <2>3. [q \in Readers |-> [open |-> reads'[q].at \notin {"idle", "rest"}, low |-> reads'[q].low, got |-> reads'[q].got]]
        = [[q \in Readers |-> [open |-> reads[q].at \notin {"idle", "rest"}, low |-> reads[q].low, got |-> reads[q].got]]
             EXCEPT ![r] = [open |-> FALSE, low |-> {}, got |-> got]]
    BY <2>2
  <2>. QED
    BY <2>3 DEF Log!Closed, got
<1>. QED
  BY <1>1, <1>2 DEF Log!Answer, Open

\* A reader moves on without an answer.
LEMMA LogStays ==
  ASSUME UNCHANGED <<backend, committed, settled>>,
         \A q \in Readers : Open(q)' = Open(q) /\ reads'[q].low = reads[q].low /\ reads'[q].got = reads[q].got
  PROVE  UNCHANGED Log!vars
BY DEF Log!vars, Open

LEMMA LogAborts ==
  ASSUME HInv, NEW r \in Readers, reads' = [reads EXCEPT ![r] = AtRest({})],
         UNCHANGED <<backend, committed, settled>>
  PROVE  Log!Abort(r)
<1>1. reads'[r].at = "rest" /\ reads'[r].low = {} /\ reads'[r].got = {}
      /\ \A q \in Readers \ {r} : reads'[q] = reads[q]
  BY DEF AtRest, HInv, Shape
<1>. QED
  BY <1>1 DEF Log!Abort, Log!Closed

LEMMA LogAppends ==
  ASSUME HInv, NEW m \in Messages, UNCHANGED <<backend, reads>>,
         committed' = committed \cup {m}, settled' \in {settled, settled \cup {m}}
  PROVE  Log!Append(m)
BY DEF Log!Append

LogStep == Log!Next \/ UNCHANGED Log!vars

\* A hit: what the entry shows of a state of the table is what the reader would
\* have seen of it.
LEMMA HitAnswers ==
  ASSUME HInv, NEW r \in Readers, reads[r].at = "lookup", Hit(Limit[r])
  PROVE  \E S \in SUBSET committed, n \in 1..Limit[r] :
           /\ reads[r].low \subseteq S /\ (backend = "memory" => n = Limit[r])
           /\ Newest(entry.window, Limit[r]) = Newest(S, n)
<1>1. entry.ready
  BY DEF Hit, MemoryHit, RedisHit
<1>2. PICK S \in SUBSET committed, q \in Readers : Shows(entry.window, entry.older, S, Limit[q]) /\ Covers(S)
  BY <1>1 DEF HInv, EntryOK
<1>3. /\ reads[r].low \subseteq S /\ entry.window = Newest(S, Limit[q]) /\ (entry.older <=> entry.window # S)
      /\ Limit[r] \in Nat /\ Limit[q] \in Nat /\ Limit[r] # 0 /\ Limit[q] # 0
  BY <1>2, LimitMeans DEF Covers, Shows
<1>4. S \in SUBSET Nat /\ IsFiniteSet(S)
  <2>1. S \in SUBSET committed /\ IsFiniteSet(committed) /\ committed \subseteq Nat
    BY HistoryAssumption DEF HInv, Shape
  <2>. QED
    BY <2>1, FS_Subset
<1>5. Newest(entry.window, Limit[r]) = Newest(S, IF Limit[r] <= Limit[q] THEN Limit[r] ELSE Limit[q])
  BY <1>3, <1>4, NewestOfNewest
<1>6. CASE Limit[r] <= Limit[q]
  <2>1. Newest(entry.window, Limit[r]) = Newest(S, Limit[r])
    BY <1>5, <1>6
  <2>. QED
    BY <1>3, <2>1, LimitMeans
<1>7. CASE ~(Limit[r] <= Limit[q]) /\ backend = "redis"
  <2>1. Newest(entry.window, Limit[r]) = Newest(S, Limit[q]) /\ Limit[q] \in 1..Limit[r]
    BY <1>3, <1>5, <1>7
  <2>. QED
    BY <1>3, <1>7, <2>1
<1>8. CASE ~(Limit[r] <= Limit[q]) /\ backend = "memory"
  <2>1. Cardinality(entry.window) \in Nat /\ Cardinality(entry.window) <= Limit[q]
    BY <1>3, <1>4, NewestAreFew
  <2>2. ~entry.older
    BY <1>3, <1>8, <2>1 DEF Hit, MemoryHit
  <2>3. entry.window = S
    BY <1>3, <2>2
  <2>. QED
    BY <1>3, <2>3, LimitMeans
<1>. QED
  BY <1>6, <1>7, <1>8 DEF HInv, Shape

\* A reader returns what it has loaded from the table.
LEMMA LoadAnswers ==
  ASSUME HInv, NEW r \in Readers, reads[r].at \in Loaded,
         reads' = [reads EXCEPT ![r] = AtRest(reads[r].view)], UNCHANGED <<backend, committed, settled>>
  PROVE  LogStep
<1>1. PICK S \in SUBSET committed : reads[r].view = Newest(S, Limit[r]) /\ reads[r].low \subseteq S
  BY DEF HInv, ViewsOK, ViewOK, Shows
<1>2. reads' = [reads EXCEPT ![r] = AtRest(Newest(S, Limit[r]))]
  BY <1>1
<1>3. Log!Answer(r)
  BY <1>1, <1>2, LimitMeans, LogAnswers DEF Open, Loaded
<1>. QED
  BY <1>3 DEF LogStep, Log!Next

LEMMA LogReads == ASSUME HInv, NEW r \in Readers, BeginRead(r) \/ ReadStep(r) PROVE LogStep
<1>1. CASE BeginRead(r)
  <2>1. /\ UNCHANGED <<backend, committed, settled>> /\ reads[r].at = "idle"
        /\ reads' = [reads EXCEPT ![r] = [AtRest({}) EXCEPT
                       !.at = IF trusted[Of(r)] THEN "lookup" ELSE "source", !.low = settled]]
    BY <1>1 DEF BeginRead
  <2>2. /\ ~Open(r) /\ Open(r)' /\ reads'[r].low = settled /\ reads'[r].got = {}
        /\ \A q \in Readers \ {r} : reads'[q] = reads[q]
    BY <2>1 DEF AtRest, HInv, Shape, Open
  <2>3. Log!Open(r)
    BY <2>1, <2>2 DEF Log!Open, Open
  <2>. QED
    BY <2>3 DEF LogStep, Log!Next
<1>2. CASE Lookup(r)
  <2>1. UNCHANGED <<backend, committed, settled>> /\ reads[r].at = "lookup"
    BY <1>2 DEF Lookup
  <2>2. CASE Hit(Limit[r])
    <3>1. PICK S \in SUBSET committed, n \in 1..Limit[r] :
            /\ reads[r].low \subseteq S /\ (backend = "memory" => n = Limit[r])
            /\ Newest(entry.window, Limit[r]) = Newest(S, n)
      BY <2>1, <2>2, HitAnswers
    <3>2. reads' = [reads EXCEPT ![r] = AtRest(Newest(S, n))]
      BY <1>2, <2>2, <3>1 DEF Lookup
    <3>3. Log!Answer(r)
      BY <2>1, <3>1, <3>2, LogAnswers DEF Open
    <3>. QED
      BY <3>3 DEF LogStep, Log!Next
  <2>3. CASE ~Hit(Limit[r])
    <3>1. reads' = [reads EXCEPT ![r] = [@ EXCEPT !.at = "source", !.token = Looked.gen]]
      BY <1>2, <2>3 DEF Lookup
    <3>2. reads'[r].at = "source" /\ reads'[r].low = reads[r].low /\ reads'[r].got = reads[r].got
          /\ \A q \in Readers \ {r} : reads'[q] = reads[q]
      <4>. DEFINE x == [reads[r] EXCEPT !.at = "source", !.token = Looked.gen]
      <4>1. reads' = [reads EXCEPT ![r] = x]
        BY <3>1
      <4>2. x.at = "source" /\ x.low = reads[r].low /\ x.got = reads[r].got
        BY DEF HInv, Shape, ReadStates
      <4>. HIDE DEF x
      <4>. QED
        BY <4>1, <4>2 DEF HInv, Shape
    <3>. QED
      BY <2>1, <3>2, LogStays DEF LogStep, Open
  <2>. QED
    BY <2>2, <2>3
<1>3. CASE LookupFails(r)
  <2>1. /\ UNCHANGED <<backend, committed, settled>> /\ reads[r].at = "lookup"
        /\ reads' = [reads EXCEPT ![r].at = "source"]
    BY <1>3 DEF LookupFails
  <2>2. reads'[r].at = "source" /\ reads'[r].low = reads[r].low /\ reads'[r].got = reads[r].got
        /\ \A q \in Readers \ {r} : reads'[q] = reads[q]
    BY <2>1 DEF HInv, Shape, ReadStates
  <2>. QED
    BY <2>1, <2>2, LogStays DEF LogStep, Open
<1>4. CASE Source(r)
  <2>. DEFINE view == Newest(committed, Limit[r])
              x == [reads[r] EXCEPT !.at = "publish", !.view = view, !.older = (view # committed)]
  <2>1. UNCHANGED <<backend, committed, settled>> /\ reads[r].at = "source"
        /\ (reads' = [reads EXCEPT ![r] = x] \/ reads' = [reads EXCEPT ![r] = AtRest(view)])
    BY <1>4 DEF Source
  <2>2. CASE reads' = [reads EXCEPT ![r] = AtRest(view)]
    <3>1. reads[r].low \subseteq committed
      BY DEF HInv, Shape
    <3>2. Log!Answer(r)
      BY <2>1, <2>2, <3>1, LimitMeans, LogAnswers DEF Open
    <3>. QED
      BY <3>2 DEF LogStep, Log!Next
  <2>3. CASE reads' = [reads EXCEPT ![r] = x]
    <3>1. x.at = "publish" /\ x.low = reads[r].low /\ x.got = reads[r].got
      BY DEF HInv, Shape, ReadStates
    <3>. HIDE DEF x
    <3>2. reads'[r] = x /\ \A q \in Readers \ {r} : reads'[q] = reads[q]
      BY <2>3 DEF HInv, Shape
    <3>. QED
      BY <2>1, <3>1, <3>2, LogStays DEF LogStep, Open
  <2>. QED
    BY <2>1, <2>2, <2>3
<1>5. CASE Publish(r)
  <2>1. UNCHANGED <<backend, committed, settled>> /\ reads[r].at = "publish"
        /\ (reads' = [reads EXCEPT ![r].at = "recheck"] \/ reads' = [reads EXCEPT ![r] = AtRest(reads[r].view)])
    BY <1>5 DEF Publish
  <2>2. CASE reads' = [reads EXCEPT ![r].at = "recheck"]
    <3>1. reads'[r].at = "recheck" /\ reads'[r].low = reads[r].low /\ reads'[r].got = reads[r].got
          /\ \A q \in Readers \ {r} : reads'[q] = reads[q]
      BY <2>2 DEF HInv, Shape, ReadStates
    <3>. QED
      BY <2>1, <3>1, LogStays DEF LogStep, Open
  <2>. QED
    BY <2>1, <2>2, LoadAnswers DEF Loaded
<1>6. CASE PublishSkipped(r)
  BY <1>6, LoadAnswers DEF PublishSkipped, Loaded
<1>7. CASE Recheck(r)
  BY <1>7, LoadAnswers DEF Recheck, Loaded
<1>8. CASE CacheBreaks(r)
  BY <1>8, LoadAnswers DEF CacheBreaks, Loaded
<1>9. CASE ReadAborts(r)
  <2>1. Log!Abort(r)
    BY <1>9, LogAborts DEF ReadAborts
  <2>. QED
    BY <2>1 DEF LogStep, Log!Next
<1>. QED
  BY <1>1, <1>2, <1>3, <1>4, <1>5, <1>6, <1>7, <1>8, <1>9 DEF ReadStep

LEMMA LogWrites == ASSUME HInv, NEW m \in Messages, BeginAppend(m) \/ AppendStep(m) PROVE LogStep
<1>1. ASSUME UNCHANGED <<backend, committed, settled, reads>> PROVE LogStep
  BY <1>1, LogStays DEF LogStep, Open
<1>2. ASSUME UNCHANGED <<backend, reads>>, committed' = committed \cup {m},
             settled' \in {settled, settled \cup {m}}
      PROVE  LogStep
  BY <1>2, LogAppends DEF LogStep, Log!Next
<1>3. CASE BeginAppend(m) \/ RollBack(m) \/ InvalidateFails(m)
  BY <1>1, <1>3 DEF BeginAppend, RollBack, InvalidateFails
<1>4. CASE Commit(m) \/ CommitInterrupted(m)
  BY <1>2, <1>4 DEF Commit, CommitInterrupted, SettledAnyway
<1>5. CASE CommitUnknown(m)
  BY <1>1, <1>2, <1>5 DEF CommitUnknown, SettledAnyway
<1>6. CASE Invalidate(m)
  <2>1. committed = committed \cup {m}
    BY <1>6 DEF Invalidate, HInv, AppendsOK
  <2>. QED
    BY <1>2, <1>6, <2>1 DEF Invalidate
<1>. QED
  BY <1>3, <1>4, <1>5, <1>6 DEF AppendStep

-----------------------------------------------------------------------------
(* The theorems.                                                             *)

\* Whatever is committed, loaded, published, invalidated and evicted in
\* whatever order, the entry is absent or well formed, a reader that publishes
\* holds a token, and only a committed message waits for its invalidation.
THEOREM HistoryTyped == HistorySpec => []HistoryTypeOK
<1>1. HInv => HistoryTypeOK
  BY DEF HInv, Shape, AppendsOK, HistoryTypeOK, EntrySet, ReadStates, Ats, Loaded
<1>. QED
  BY <1>1, Inductive, PTL

\* The cached history implements the promised one: a read through the memory or
\* the Redis cache returns the newest messages of a state of the table that has
\* everything settled when the read began, from memory as many as it asked for,
\* through any misses, loads, appends, evictions, failures and reloads.
THEOREM CacheServesTheLog == HistorySpec => ServesTheLog
<1>1. ASSUME HistoryInit PROVE Log!Init
  <2>1. LET x == [AtRest({}) EXCEPT !.at = "idle"] IN x.at = "idle" /\ x.low = {} /\ x.got = {}
    BY DEF AtRest
  <2>2. \A r \in Readers : reads[r].at = "idle" /\ reads[r].low = {} /\ reads[r].got = {}
    BY <1>1, <2>1 DEF HistoryInit
  <2>3. (backend = "memory") \in BOOLEAN /\ committed = {} /\ settled = {}
    BY <1>1 DEF HistoryInit
  <2>4. [r \in Readers |-> [open |-> reads[r].at \notin {"idle", "rest"}, low |-> reads[r].low, got |-> reads[r].got]]
          = [r \in Readers |-> Log!Closed({})]
    BY <2>2 DEF Log!Closed
  <2>. QED
    BY <2>3, <2>4 DEF Log!Init
<1>2. HInv /\ [HistoryNext]_historyVars => [Log!Next]_(Log!vars)
  <2>. SUFFICES ASSUME HInv, [HistoryNext]_historyVars PROVE LogStep
    BY DEF LogStep
  <2>1. ASSUME UNCHANGED <<backend, committed, settled, reads>> PROVE LogStep
    BY <2>1, LogStays DEF LogStep, Open
  <2>2. CASE Expire \/ \E c \in Coordinators : NextGeneration(c)
    BY <2>1, <2>2 DEF Expire, NextGeneration
  <2>3. CASE UNCHANGED historyVars
    BY <2>1, <2>3 DEF historyVars
  <2>. QED
    BY <2>2, <2>3, LogReads, LogWrites DEF HistoryNext
<1>. QED
  BY <1>1, <1>2, Inductive, PTL DEF HistorySpec, ServesTheLog, Log!Spec
=============================================================================
