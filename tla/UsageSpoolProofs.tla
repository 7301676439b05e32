-------------------------- MODULE UsageSpoolProofs --------------------------
(***************************************************************************)
(* Proofs about UsageSpool.                                                *)
(*                                                                         *)
(* A record moves from its request or its queue into one file, from the    *)
(* file into the database, and the file goes.  The inductive invariant     *)
(* IInv follows it: who waits for the operation in flight and what that    *)
(* operation is about (IoOK), whose the leased file is when threads go on  *)
(* after their task (OrphansOK, LeaseOK), that a record no task lost track *)
(* of has one copy on its way and none once it is written (OnceOK), and    *)
(* that it always has one or the other (KeptOK).                           *)
(***************************************************************************)
EXTENDS UsageSpool, SequenceTheorems, FiniteSetTheorems, WellFoundedInduction, TLAPS

-----------------------------------------------------------------------------
(* Sets and sequences.                                                       *)

LEMMA MinIsMember == ASSUME NEW n \in Nat, NEW S, S \subseteq 0..n, S # {} PROVE Min(S) \in S
<1>. DEFINE R == StrictSubsetOrdering(0..n)
            T == {0..x : x \in S}
<1>1. IsWellFoundedOn(R, FiniteSubsetsOf(0..n))
  BY FS_StrictSubsetOrderingWellFounded
<1>2. T \subseteq FiniteSubsetsOf(0..n) /\ T # {}
  <2>1. \A x \in S : x \in Int /\ 0 \in Int /\ x \in 0..n
    OBVIOUS
  <2>2. \A x \in S : IsFiniteSet(0..x) /\ 0..x \subseteq 0..n
    BY <2>1, FS_Interval
  <2>. QED
    BY <2>2 DEF FiniteSubsetsOf
<1>3. PICK t \in T : \A u \in T : ~(<<u, t>> \in R)
  <2>. HIDE DEF R, T
  <2>. QED
    BY <1>1, <1>2, WFMin
<1>4. PICK x \in S : t = 0..x
  BY <1>3
<1>5. ASSUME NEW y \in S, y < x PROVE FALSE
  <2>1. 0..y \subseteq 0..x /\ 0..y # 0..x /\ 0..x \subseteq 0..n /\ 0..y \subseteq 0..n
    <3>1. x \in 0..x /\ x \notin 0..y
      BY <1>5
    <3>. QED
      BY <1>5, <3>1
  <2>2. <<0..y, 0..x>> \in R
    BY <2>1 DEF StrictSubsetOrdering
  <2>. QED
    BY <1>3, <1>4, <1>5, <2>2
<1>6. \A y \in S : x <= y
  BY <1>5
<1>. QED
  BY <1>6 DEF Min

LEMMA MembersOfAppend ==
  ASSUME NEW S, NEW s \in Seq(S), NEW r \in S
  PROVE  ToSet(Append(s, r)) = ToSet(s) \union {r}
BY AppendProperties, LenProperties DEF ToSet

LEMMA MembersOfConcat ==
  ASSUME NEW S, NEW s \in Seq(S), NEW t \in Seq(S)
  PROVE  ToSet(s \o t) = ToSet(s) \union ToSet(t)
<1>1. Len(s) \in Nat /\ Len(t) \in Nat /\ DOMAIN s = 1..Len(s) /\ DOMAIN t = 1..Len(t)
      /\ DOMAIN (s \o t) = 1..(Len(s) + Len(t))
  BY ConcatProperties, LenProperties
<1>2. \A i \in 1..(Len(s) + Len(t)) : (s \o t)[i] = IF i <= Len(s) THEN s[i] ELSE t[i - Len(s)]
  BY ConcatProperties
<1>3. \A i \in 1..Len(t) : (s \o t)[i + Len(s)] = t[i] /\ i + Len(s) \in 1..(Len(s) + Len(t))
  BY <1>1, <1>2
<1>4. \A i \in 1..Len(s) : (s \o t)[i] = s[i] /\ i \in 1..(Len(s) + Len(t))
  BY <1>1, <1>2
<1>5. ASSUME NEW x \in ToSet(s \o t) PROVE x \in ToSet(s) \/ x \in ToSet(t)
  <2>1. PICK i \in 1..(Len(s) + Len(t)) : x = (s \o t)[i]
    BY <1>1 DEF ToSet
  <2>2. IF i <= Len(s) THEN i \in 1..Len(s) /\ x = s[i]
                       ELSE i - Len(s) \in 1..Len(t) /\ x = t[i - Len(s)]
    BY <1>1, <1>2, <2>1
  <2>. QED
    BY <1>1, <2>2 DEF ToSet
<1>6. ASSUME NEW x \in ToSet(s) PROVE x \in ToSet(s \o t)
  BY <1>1, <1>4 DEF ToSet
<1>7. ASSUME NEW x \in ToSet(t) PROVE x \in ToSet(s \o t)
  BY <1>1, <1>3 DEF ToSet
<1>. QED
  BY <1>5, <1>6, <1>7

LEMMA MembersOfSeq == ASSUME NEW S, NEW s \in Seq(S) PROVE ToSet(s) \subseteq S /\ (s # <<>> <=> ToSet(s) # {})
<1>1. Len(s) \in Nat /\ DOMAIN s = 1..Len(s) /\ \A i \in 1..Len(s) : s[i] \in S
  BY LenProperties, ElementOfSeq
<1>2. s = <<>> <=> Len(s) = 0
  BY EmptySeq
<1>. QED
  BY <1>1, <1>2 DEF ToSet

LEMMA SplitSeq ==
  ASSUME NEW S, NEW s \in Seq(S), NEW n \in 0..Len(s)
  PROVE  /\ SubSeq(s, 1, n) \in Seq(S) /\ SubSeq(s, n + 1, Len(s)) \in Seq(S)
         /\ Len(SubSeq(s, 1, n)) = n /\ Len(SubSeq(s, n + 1, Len(s))) = Len(s) - n
         /\ SubSeq(s, 1, n) \o SubSeq(s, n + 1, Len(s)) = s
<1>1. Len(s) \in Nat /\ n \in Nat /\ n <= Len(s) /\ \A i \in 1..Len(s) : s[i] \in S
  BY LenProperties, ElementOfSeq
<1>2. /\ SubSeq(s, 1, n) \in Seq(S) /\ Len(SubSeq(s, 1, n)) = n
      /\ \A i \in 1..n : SubSeq(s, 1, n)[i] = s[i]
  BY <1>1, SubSeqProperties
<1>3. /\ SubSeq(s, n + 1, Len(s)) \in Seq(S) /\ Len(SubSeq(s, n + 1, Len(s))) = Len(s) - n
      /\ \A i \in 1..(Len(s) - n) : SubSeq(s, n + 1, Len(s))[i] = s[n + i]
  BY <1>1, SubSeqProperties
<1>4. SubSeq(s, 1, n) \o SubSeq(s, n + 1, Len(s)) = SubSeq(s, 1, Len(s))
  <2>1. 1 \in 1..(Len(s) + 1) /\ n \in (1 - 1)..Len(s) /\ Len(s) \in n..Len(s)
    BY <1>1
  <2>. QED
    BY <2>1, ConcatAdjacentSubSeq
<1>. QED
  BY <1>2, <1>3, <1>4, SubSeqFull

Distinct(s) == \A i, j \in 1..Len(s) : s[i] = s[j] => i = j

LEMMA DistinctAppend ==
  ASSUME NEW S, NEW s \in Seq(S), NEW r \in S, Distinct(s), r \notin ToSet(s)
  PROVE  Distinct(Append(s, r))
BY AppendProperties, LenProperties DEF ToSet, Distinct

\* The two halves of a sequence without repetition.
LEMMA DistinctParts ==
  ASSUME NEW S, NEW s \in Seq(S), NEW t \in Seq(S), Distinct(s \o t)
  PROVE  Distinct(t) /\ \A x : ~(x \in ToSet(s) /\ x \in ToSet(t))
<1>1. Len(s) \in Nat /\ Len(t) \in Nat /\ DOMAIN s = 1..Len(s) /\ DOMAIN t = 1..Len(t)
      /\ Len(s \o t) = Len(s) + Len(t)
  BY ConcatProperties, LenProperties
<1>2. \A i \in 1..(Len(s) + Len(t)) : (s \o t)[i] = IF i <= Len(s) THEN s[i] ELSE t[i - Len(s)]
  BY ConcatProperties
<1>3. \A i \in 1..Len(t) : (s \o t)[i + Len(s)] = t[i] /\ i + Len(s) \in 1..(Len(s) + Len(t))
  BY <1>1, <1>2
<1>4. \A i \in 1..Len(s) : (s \o t)[i] = s[i] /\ i \in 1..(Len(s) + Len(t))
  BY <1>1, <1>2
<1>5. ASSUME NEW i \in 1..Len(t), NEW j \in 1..Len(t), t[i] = t[j] PROVE i = j
  BY <1>1, <1>3, <1>5 DEF Distinct
<1>6. ASSUME NEW i \in 1..Len(s), NEW j \in 1..Len(t), s[i] = t[j] PROVE FALSE
  BY <1>1, <1>3, <1>4, <1>6 DEF Distinct
<1>7. Distinct(t)
  BY <1>5 DEF Distinct
<1>. QED
  BY <1>1, <1>6, <1>7 DEF ToSet

LEMMA RemoveElement ==
  ASSUME NEW S, NEW s \in Seq(S), NEW j \in 1..Len(s)
  PROVE  /\ RemoveAt(s, j) \in Seq(S) /\ Len(RemoveAt(s, j)) = Len(s) - 1
         /\ \A i \in 1..(Len(s) - 1) : RemoveAt(s, j)[i] = IF i < j THEN s[i] ELSE s[i + 1]
<1>. DEFINE a == SubSeq(s, 1, j - 1)
            b == SubSeq(s, j + 1, Len(s))
            n == Len(s)
<1>1. n \in Nat /\ j \in Nat /\ j <= n /\ j >= 1 /\ \A i \in 1..n : s[i] \in S
  BY LenProperties, ElementOfSeq
<1>2. a \in Seq(S) /\ Len(a) = j - 1 /\ \A i \in 1..(j - 1) : a[i] = s[i]
  BY <1>1, SubSeqProperties
<1>3. b \in Seq(S) /\ Len(b) = n - j /\ \A i \in 1..(n - j) : b[i] = s[j + i]
  <2>1. \A i \in (j + 1)..n : s[i] \in S
    BY <1>1
  <2>2. j + 1 \in Int /\ n \in Int
    BY <1>1
  <2>3. /\ b \in Seq(S) /\ Len(b) = IF j + 1 <= n THEN n - (j + 1) + 1 ELSE 0
        /\ \A i \in 1..(n - (j + 1) + 1) : b[i] = s[(j + 1) + i - 1]
    BY <2>1, <2>2, SubSeqProperties
  <2>. QED
    BY <1>1, <2>3
<1>. HIDE DEF a, b
<1>4. /\ a \o b \in Seq(S) /\ Len(a \o b) = n - 1
      /\ \A i \in 1..(n - 1) : (a \o b)[i] = IF i <= j - 1 THEN a[i] ELSE b[i - (j - 1)]
  BY <1>1, <1>2, <1>3, ConcatProperties
<1>5. ASSUME NEW i \in 1..(n - 1) PROVE (a \o b)[i] = IF i < j THEN s[i] ELSE s[i + 1]
  <2>1. CASE i < j
    <3>1. i \in 1..(j - 1) /\ i <= j - 1
      BY <1>1, <2>1
    <3>. QED
      BY <1>2, <1>4, <2>1, <3>1
  <2>2. CASE ~(i < j)
    <3>1. i - (j - 1) \in 1..(n - j) /\ ~(i <= j - 1) /\ j + (i - (j - 1)) = i + 1
      BY <1>1, <2>2
    <3>. QED
      BY <1>3, <1>4, <2>2, <3>1
  <2>. QED
    BY <2>1, <2>2
<1>. QED
  BY <1>4, <1>5 DEF RemoveAt, a, b

LEMMA SeqOfAtMostOne ==
  ASSUME NEW S, NEW X, X \subseteq S, \A x, y \in X : x = y
  PROVE  /\ SetToSeq(X) \in Seq(S)
         /\ X = {} => Len(SetToSeq(X)) = 0
         /\ \A x \in X : Len(SetToSeq(X)) = 1 /\ SetToSeq(X)[1] = x
<1>. DEFINE n == Cardinality(X)
            f == SetToSeq(X)
<1>1. n = IF X = {} THEN 0 ELSE 1
  <2>1. X = {} => n = 0
    BY FS_EmptySet
  <2>2. ASSUME NEW x \in X PROVE n = 1
    <3>1. X = {x}
      BY <2>2
    <3>. QED
      BY <3>1, FS_Singleton
  <2>. QED
    BY <2>1, <2>2
<1>2. \E g \in [1..n -> X] : IsInjective(g)
  <2>1. CASE X = {}
    <3>1. [i \in 1..n |-> i] \in [1..n -> X] /\ IsInjective([i \in 1..n |-> i])
      BY <1>1, <2>1 DEF IsInjective
    <3>. QED
      BY <3>1
  <2>2. ASSUME NEW x \in X PROVE \E g \in [1..n -> X] : IsInjective(g)
    <3>1. [i \in 1..n |-> x] \in [1..n -> X] /\ IsInjective([i \in 1..n |-> x])
      BY <1>1, <2>2 DEF IsInjective
    <3>. QED
      BY <3>1
  <2>. QED
    BY <2>1, <2>2
<1>3. f \in [1..n -> X]
  BY <1>2 DEF SetToSeq
<1>. HIDE DEF f
<1>4. n \in Nat /\ f \in Seq(S) /\ Len(f) = n
  <2>1. n \in Nat
    BY <1>1
  <2>. HIDE DEF n
  <2>2. f \in [1..n -> S]
    BY <1>3
  <2>3. f \in Seq(S)
    BY <2>1, <2>2, IsASeq
  <2>4. DOMAIN f = 1..n /\ DOMAIN f = 1..Len(f) /\ Len(f) \in Nat
    BY <2>2, <2>3, LenProperties
  <2>. QED
    BY <2>1, <2>3, <2>4
<1>. QED
  BY <1>1, <1>3, <1>4 DEF f

-----------------------------------------------------------------------------
(* The inductive invariant.                                                  *)

Outs      == {"running", "ok", "failed"}
AppendOps == [do : {"append"}, kind : Kinds, recs : Seq(Records), out : Outs]
LeaseOps  == [do : {"lease"}, kind : Kinds, id : Nat, out : Outs]
MoveOps   == [do : {"ack", "release", "mark"}, id : Nat, out : Outs]
Ops       == AppendOps \union LeaseOps \union MoveOps
Queues    == [state : {"open", "closing", "closed"}, pending : Seq(Records), lease : Seq(Records)]

Moving     == {"ack", "release", "release_cancel", "mark"}
Committed  == {"landed", "cleanup", "ack"}
Releasing  == {"write", "commit", "release", "release_cancel"}
Holding    == Moving \union Committed \union Releasing
FlusherAts == Holding \union FlusherOver \union {"scan", "scanning", "idle", "retry"}
PumpAts    == PumpOver \union {"none", "wait", "lock", "append"}
FlusherStates == [at : FlusherAts, todo : Seq(Kinds), id : Nat, recs : Seq(Records)]
Supervisors == {"none", "running", "stopping", "ended", "done", "cancelled", "gone"}
Requests   == {"new", "queued", "refused", "lock", "append", "stored", "lost"}

Shape ==
  /\ queue \in [Kinds -> Queues]
  /\ files \in [DOMAIN files -> FileSet] /\ DOMAIN files \subseteq 1..made
  /\ made \in 0..MaxAppends
  /\ written \in [Records -> Nat]
  /\ spool \in {"created", "running", "closed", "result_unknown"}
  /\ worker \in {"created", "running", "closing", "closed", "failed", "result_unknown"}
  /\ pump \in [Kinds -> PumpAts]
  /\ flusher \in FlusherStates
  /\ flusher.at \in {"scan", "scanning"} => flusher.todo # <<>>
  /\ nextKind \in Kinds
  /\ supervisor \in Supervisors
  /\ request \in [Records -> Requests]
  /\ io \in [Tasks -> Ops \union {NoOp}]
  /\ orphans \in Seq(Ops)
  /\ ambiguous \subseteq Records

\* One operation at a time has a task that waits for it, and it is the one the
\* task's place says.
IoOK ==
  /\ \A t, u \in Tasks : io[t] # NoOp /\ io[u] # NoOp => t = u
  /\ \A k \in Kinds : io[k] # NoOp =>
        io[k].do = "append" /\ pump[k] = "append" /\ io[k].kind = k /\ io[k].recs = queue[k].lease
  /\ \A r \in Records : io[r] # NoOp =>
        io[r].do = "append" /\ request[r] = "append" /\ io[r].kind = KindOf(r) /\ io[r].recs = <<r>>
  /\ io["flusher"] # NoOp =>
        \/ /\ io["flusher"].do = "lease" /\ flusher.at = "scanning"
           /\ io["flusher"].out = "running" => io["flusher"].id = 0
        \/ /\ flusher.at \in Moving /\ io["flusher"].id = flusher.id
           /\ io["flusher"].do = IF flusher.at = "release_cancel" THEN "release" ELSE flusher.at

\* The records of a queue in the order in which they leave it.
Line(k) == queue[k].lease \o queue[k].pending

QueueOK ==
  \A k \in Kinds :
    /\ Outstanding(queue[k]) <= MaxOutstanding /\ Len(queue[k].lease) <= MaxBatch
    /\ queue[k].state = "closed" => Outstanding(queue[k]) = 0
    /\ queue[k].lease # <<>> <=> pump[k] \in {"lock", "append"}
    /\ Distinct(Line(k))
    /\ \A r \in ToSet(Line(k)) : request[r] = "queued" /\ KindOf(r) = k
    /\ pump[k] = "done" => queue[k].state = "closed"

LifeOK ==
  /\ (\E k \in Kinds : pump[k] = "failed") => \A k \in Kinds : pump[k] \in PumpOver
  /\ supervisor \in {"stopping", "ended", "cancelled", "gone"} => \A k \in Kinds : pump[k] \in PumpOver
  /\ supervisor = "done" => \A k \in Kinds : pump[k] = "done"
  /\ supervisor \in {"running", "stopping"} => worker \in {"running", "closing"}
  /\ supervisor \in {"ended", "done"} => flusher.at \in FlusherOver
  /\ supervisor \in {"stopping", "cancelled"} => flusher.at \in {"release_cancel", "mark"} \union FlusherOver
  /\ worker = "created" =>
        /\ spool = "created" /\ supervisor = "none" /\ Len(orphans) = 0 /\ LockFree /\ flusher.at = "none"
        /\ \A k \in Kinds : pump[k] = "none"
  /\ spool = "closed" => LockFree /\ worker = "closed"
  /\ worker = "closed" => spool = "closed" /\ supervisor = "done"

FileOK ==
  \A i \in DOMAIN files :
    /\ files[i].recs # <<>>
    /\ \A r \in ToSet(files[i].recs) : KindOf(r) = files[i].kind

\* The flusher holds a leased file, or has just been handed one.
Held == flusher.at \in Holding /\ (io["flusher"] # NoOp => io["flusher"].out = "running")
Found == io["flusher"].do = "lease" /\ io["flusher"].out = "ok" /\ io["flusher"].id # 0

IsMove(op) == op.do \in {"ack", "release", "mark"}

\* A thread that goes on after its task was cancelled: what it may append is
\* known to be ambiguous, and a file it will move stays leased until then.
OrphansOK ==
  /\ \A j \in 1..Len(orphans) : orphans[j].do = "append" =>
        /\ ToSet(orphans[j].recs) \subseteq ambiguous /\ orphans[j].recs # <<>>
        /\ \A r \in ToSet(orphans[j].recs) : KindOf(r) = orphans[j].kind
  /\ \A j \in 1..Len(orphans) : IsMove(orphans[j]) => orphans[j].id \in At("leased")
  /\ \A i, j \in 1..Len(orphans) :
        IsMove(orphans[i]) /\ IsMove(orphans[j]) /\ orphans[i].id = orphans[j].id => i = j

\* No orphan moves the file i.
Mine(i) == i \in At("leased") /\ \A j \in 1..Len(orphans) : IsMove(orphans[j]) => orphans[j].id # i

LeaseOK ==
  /\ Held => Mine(flusher.id) /\ flusher.recs = files[flusher.id].recs
  /\ Found => Mine(io["flusher"].id)

Has(i, r) == r \in ToSet(files[i].recs)
Succeeded(t) == io[t] # NoOp /\ io[t].out = "ok"

\* The record r has not reached the spool yet.
Upstream(r) ==
  \/ request[r] \in {"new", "lock"}
  \/ request[r] = "append" /\ ~Succeeded(r)
  \/ r \in ToSet(queue[KindOf(r)].pending)
  \/ r \in ToSet(queue[KindOf(r)].lease) /\ ~Succeeded(KindOf(r))

\* The file i may still be written to the database.
Replayable(i) ==
  \/ files[i].stage = "ready"
  \/ \E j \in 1..Len(orphans) : orphans[j].do = "release" /\ orphans[j].id = i
  \/ flusher.at \in Releasing /\ flusher.id = i
  \/ Found /\ io["flusher"].id = i

\* A record no task has lost track of has one copy on its way, and none once
\* it is in the database.
OnceOK ==
  \A r \in Records \ ambiguous :
    /\ written[r] <= 1
    /\ Upstream(r) => written[r] = 0 /\ \A i \in DOMAIN files : ~Has(i, r)
    /\ \A i, j \in DOMAIN files : Has(i, r) /\ Has(j, r) => i = j
    /\ \A i \in DOMAIN files : Has(i, r) /\ Replayable(i) => written[r] = 0

Kept(r) == written[r] > 0 \/ \E i \in DOMAIN files : Has(i, r)

KeptOK ==
  /\ \A r \in Records : request[r] = "queued" => r \in ToSet(Line(KindOf(r))) \/ Kept(r)
  /\ \A r \in Records : request[r] = "stored" => Kept(r)
  /\ \A t \in Tasks : Succeeded(t) /\ io[t].do = "append" => \A r \in ToSet(io[t].recs) : Kept(r)
  /\ flusher.at \in Committed => \A r \in ToSet(flusher.recs) : written[r] > 0
  /\ \A j \in 1..Len(orphans) : orphans[j].do = "ack" =>
        \A r \in ToSet(files[orphans[j].id].recs) : written[r] > 0

ClosedOK == worker = "closed" => \A i \in DOMAIN files : ToSet(files[i].recs) \subseteq ambiguous

IInv == /\ Shape /\ IoOK /\ QueueOK /\ LifeOK /\ FileOK
        /\ OrphansOK /\ LeaseOK /\ OnceOK /\ KeptOK /\ ClosedOK

-----------------------------------------------------------------------------
(* Tasks, operations and what goes on after a cancellation.                  *)

LEMMA TasksApart ==
  /\ Kinds \subseteq Tasks /\ Records \subseteq Tasks /\ "flusher" \in Tasks
  /\ "flusher" \notin Kinds /\ "flusher" \notin Records /\ \A r \in Records : r \notin Kinds
  /\ \A r \in Records : KindOf(r) \in Kinds
  /\ \A k \in Kinds : Other(k) \in Kinds /\ Other(k) # k /\ \A j \in Kinds : j = k \/ j = Other(k)
BY SpoolAssumption DEF Tasks, Kinds, KindOf, Other

LEMMA OpFacts ==
  /\ NoOp.do = "none" /\ NoOp \notin Ops
  /\ \A op \in Ops : /\ op.out \in Outs
                     /\ \/ op.do = "append" /\ op \in AppendOps /\ op.kind \in Kinds /\ op.recs \in Seq(Records)
                        \/ op.do = "lease" /\ op \in LeaseOps /\ op.kind \in Kinds /\ op.id \in Nat
                        \/ IsMove(op) /\ op \in MoveOps /\ op.id \in Nat
BY DEF NoOp, Ops, AppendOps, LeaseOps, MoveOps, IsMove

LEMMA NewOps ==
  /\ \A k \in Kinds : \A s \in Seq(Records) :
        /\ AppendOp(k, s) \in Ops /\ AppendOp(k, s).do = "append" /\ AppendOp(k, s).out = "running"
        /\ AppendOp(k, s).kind = k /\ AppendOp(k, s).recs = s
  /\ \A k \in Kinds : /\ LeaseOp(k) \in Ops /\ LeaseOp(k).do = "lease" /\ LeaseOp(k).out = "running"
                      /\ LeaseOp(k).kind = k
  /\ \A d \in {"ack", "release", "mark"} : \A i \in Nat :
        /\ MoveOp(d, i) \in Ops /\ MoveOp(d, i).do = d /\ MoveOp(d, i).out = "running" /\ MoveOp(d, i).id = i
BY DEF AppendOp, LeaseOp, MoveOp, Ops, AppendOps, LeaseOps, MoveOps, Outs

LEMMA NewAppend ==
  ASSUME NEW k \in Kinds, NEW s \in Seq(Records)
  PROVE  LET op == AppendOp(k, s)
         IN  op \in Ops /\ op.do = "append" /\ op.out = "running" /\ op.kind = k /\ op.recs = s
BY NewOps

LEMMA LeftRunningMeans ==
  ASSUME Shape, IoOK, NEW T \in SUBSET Tasks
  PROVE  /\ LeftRunning(T) \in Seq(Ops)
         /\ Len(LeftRunning(T)) \in Len(orphans)..(Len(orphans) + 1)
         /\ \A j \in 1..Len(orphans) : LeftRunning(T)[j] = orphans[j]
         /\ Len(LeftRunning(T)) = Len(orphans) + 1
              => \E t \in T : Busy(t) /\ LeftRunning(T)[Len(orphans) + 1] = io[t]
         /\ (\A t \in T : ~Busy(t)) => Len(LeftRunning(T)) = Len(orphans)
<1>. DEFINE X == {io[t] : t \in {u \in T : Busy(u)}}
            s == SetToSeq(X)
<1>1. X \subseteq Ops /\ \A x, y \in X : x = y
  BY DEF Shape, IoOK, Busy
<1>2. /\ s \in Seq(Ops) /\ (X = {} => Len(s) = 0)
      /\ \A x \in X : Len(s) = 1 /\ s[1] = x
  <2>. HIDE DEF X
  <2>. QED
    BY <1>1, SeqOfAtMostOne
<1>3. /\ Len(s) \in 0..1
      /\ Len(s) = 1 => \E t \in T : Busy(t) /\ s[1] = io[t]
      /\ (\A t \in T : ~Busy(t)) => Len(s) = 0
  <2>1. \A x \in X : \E t \in T : Busy(t) /\ x = io[t]
    OBVIOUS
  <2>2. (\A t \in T : ~Busy(t)) => X = {}
    OBVIOUS
  <2>. HIDE DEF X, s
  <2>3. X = {} \/ \E x \in X : TRUE
    OBVIOUS
  <2>. QED
    BY <1>2, <2>1, <2>2, <2>3
<1>. HIDE DEF X, s
<1>4. orphans \in Seq(Ops) /\ Len(orphans) \in Nat
  BY LenProperties DEF Shape
<1>5. /\ orphans \o s \in Seq(Ops) /\ Len(orphans \o s) = Len(orphans) + Len(s)
      /\ \A i \in 1..(Len(orphans) + Len(s)) :
            (orphans \o s)[i] = IF i <= Len(orphans) THEN orphans[i] ELSE s[i - Len(orphans)]
  BY <1>2, <1>4, ConcatProperties
<1>6. LeftRunning(T) = orphans \o s
  BY DEF LeftRunning, X, s
<1>7. \A j \in 1..Len(orphans) : (orphans \o s)[j] = orphans[j]
  BY <1>3, <1>4, <1>5
<1>8. Len(s) = 1 => (orphans \o s)[Len(orphans) + 1] = s[1]
  BY <1>4, <1>5
<1>9. Len(orphans \o s) \in Len(orphans)..(Len(orphans) + 1)
  BY <1>3, <1>4, <1>5
<1>10. Len(orphans \o s) = Len(orphans) + 1 => Len(s) = 1
  BY <1>3, <1>4, <1>5
<1>11. (\A t \in T : ~Busy(t)) => Len(orphans \o s) = Len(orphans)
  BY <1>3, <1>4, <1>5
<1>. QED
  BY <1>3, <1>5, <1>6, <1>7, <1>8, <1>9, <1>10, <1>11

LEMMA ForgetIoMeans ==
  ASSUME Shape, NEW T \in SUBSET Tasks
  PROVE  ForgetIo(T) \in [Tasks -> Ops \union {NoOp}]
         /\ \A t \in Tasks : ForgetIo(T)[t] = IF t \in T THEN NoOp ELSE io[t]
BY DEF Shape, ForgetIo

-----------------------------------------------------------------------------
(* What keeps each part of the invariant while the files stay as they are.   *)

LEMMA QueueFrame == ASSUME QueueOK, UNCHANGED <<queue, pump, request>> PROVE QueueOK'
BY DEF QueueOK, Line, Outstanding, KindOf

LEMMA FileFrame == ASSUME FileOK, files' = files PROVE FileOK'
BY DEF FileOK, KindOf

LEMMA OrphansFrame ==
  ASSUME OrphansOK, UNCHANGED <<files, orphans>>, ambiguous \subseteq ambiguous'
  PROVE  OrphansOK'
BY DEF OrphansOK, At, KindOf

LEMMA MineFrame == ASSUME UNCHANGED <<files, orphans>>, NEW i, Mine(i) PROVE Mine(i)'
BY DEF Mine, At

LEMMA LeaseFrame ==
  ASSUME LeaseOK, UNCHANGED <<files, orphans>>,
         Held' => Held /\ flusher'.id = flusher.id /\ flusher'.recs = flusher.recs,
         Found' => Found /\ io'["flusher"].id = io["flusher"].id
  PROVE  LeaseOK'
BY DEF LeaseOK, Mine, At

LEMMA OnceFrame ==
  ASSUME OnceOK, UNCHANGED <<files, written>>, ambiguous \subseteq ambiguous',
         \A r \in Records \ ambiguous' : Upstream(r)' => Upstream(r),
         \A r \in Records \ ambiguous' : \A i \in DOMAIN files : Has(i, r) /\ Replayable(i)' => Replayable(i)
  PROVE  OnceOK'
<1>1. \A i, r : Has(i, r)' <=> Has(i, r)
  BY DEF Has
<1>2. \A r \in Records \ ambiguous' : r \in Records \ ambiguous
  OBVIOUS
<1>. QED
  BY <1>1, <1>2 DEF OnceOK

LEMMA ReplayFrame ==
  ASSUME UNCHANGED <<files, orphans, flusher>>, io'["flusher"] = io["flusher"], NEW i, Replayable(i)'
  PROVE  Replayable(i)
BY DEF Replayable, Found

LEMMA KeptFrame ==
  ASSUME KeptOK, UNCHANGED <<files, written>>,
         \A r \in Records : request'[r] = "queued" => r \in ToSet(Line(KindOf(r)))' \/ Kept(r),
         \A r \in Records : request'[r] = "stored" => Kept(r),
         \A t \in Tasks : Succeeded(t)' /\ io'[t].do = "append" => io'[t] = io[t],
         flusher'.at \in Committed => flusher.at \in Committed /\ flusher'.recs = flusher.recs,
         \A j \in 1..Len(orphans') : orphans'[j].do = "ack" =>
             \A r \in ToSet(files[orphans'[j].id].recs) : written[r] > 0
  PROVE  KeptOK'
<1>1. \A r : Kept(r)' <=> Kept(r)
  BY DEF Kept, Has
<1>2. \A t \in Tasks : Succeeded(t)' /\ io'[t].do = "append" => Succeeded(t) /\ io'[t] = io[t]
  BY DEF Succeeded
<1>. QED
  BY <1>1, <1>2 DEF KeptOK, KindOf

LEMMA ClosedFrame ==
  ASSUME ClosedOK, files' = files, ambiguous \subseteq ambiguous', worker' = "closed" => worker = "closed"
  PROVE  ClosedOK'
BY DEF ClosedOK

\* The queue k, and with it its line, stays as it is.
LEMMA LineFrame == ASSUME NEW k, queue'[k] = queue[k] PROVE Line(k)' = Line(k)
BY DEF Line

\* Unlike the queue of k, those of the other tasks stay as they are.
LEMMA QueueOther ==
  ASSUME QueueOK, NEW k \in Kinds, queue'[k] = queue[k], pump'[k] = pump[k],
         \A r \in ToSet(Line(k)) : request'[r] = request[r]
  PROVE  /\ Outstanding(queue'[k]) <= MaxOutstanding /\ Len(queue'[k].lease) <= MaxBatch
         /\ queue'[k].state = "closed" => Outstanding(queue'[k]) = 0
         /\ queue'[k].lease # <<>> <=> pump'[k] \in {"lock", "append"}
         /\ Distinct(Line(k)')
         /\ \A r \in ToSet(Line(k)') : request'[r] = "queued" /\ KindOf(r) = k
         /\ pump'[k] = "done" => queue'[k].state = "closed"
BY LineFrame DEF QueueOK

LEMMA LineFacts ==
  ASSUME Shape, NEW k \in Kinds
  PROVE  /\ queue[k] \in Queues
         /\ queue[k].lease \in Seq(Records) /\ queue[k].pending \in Seq(Records) /\ Line(k) \in Seq(Records)
         /\ Len(queue[k].lease) \in Nat /\ Len(queue[k].pending) \in Nat
         /\ ToSet(Line(k)) = ToSet(queue[k].lease) \union ToSet(queue[k].pending)
         /\ Len(Line(k)) = Outstanding(queue[k])
<1>1. queue[k] \in Queues /\ queue[k].lease \in Seq(Records) /\ queue[k].pending \in Seq(Records)
  BY DEF Shape, Queues
<1>2. Len(queue[k].lease) \in Nat /\ Len(queue[k].pending) \in Nat
  BY <1>1, LenProperties
<1>3. Line(k) \in Seq(Records) /\ Len(Line(k)) = Len(queue[k].lease) + Len(queue[k].pending)
  <2>. DEFINE a == queue[k].lease
              b == queue[k].pending
  <2>1. a \in Seq(Records) /\ b \in Seq(Records)
    BY <1>1
  <2>. HIDE DEF a, b
  <2>2. a \o b \in Seq(Records) /\ Len(a \o b) = Len(a) + Len(b)
    BY <2>1, ConcatProperties
  <2>. QED
    BY <2>2 DEF Line, a, b
<1>4. ToSet(Line(k)) = ToSet(queue[k].lease) \union ToSet(queue[k].pending)
  BY <1>1, MembersOfConcat DEF Line
<1>5. Outstanding(queue[k]) = Len(queue[k].pending) + Len(queue[k].lease)
  BY Zenon DEF Outstanding
<1>6. \A m, n \in Nat : m + n = n + m
  OBVIOUS
<1>7. Len(queue[k].lease) + Len(queue[k].pending) = Len(queue[k].pending) + Len(queue[k].lease)
  BY <1>2, <1>6, Zenon
<1>. QED
  BY <1>1, <1>2, <1>3, <1>4, <1>5, <1>7, Zenon

LEMMA Empty ==
  /\ <<>> \in Seq(Records) /\ Len(<<>>) = 0
  /\ \A s \in Seq(Records) : Len(s) \in Nat /\ (Len(s) = 0 <=> s = <<>>) /\ <<>> \o s = s
BY ConcatEmptySeq, EmptySeq, LenProperties

-----------------------------------------------------------------------------
(* What the operations make of a queue.                                      *)

LEMMA FinishCloseMeans ==
  ASSUME NEW q \in Queues
  PROVE  /\ FinishClose(q) \in Queues
         /\ FinishClose(q).pending = q.pending /\ FinishClose(q).lease = q.lease
         /\ FinishClose(q).state = IF q.state = "closing" /\ Outstanding(q) = 0 THEN "closed" ELSE q.state
BY DEF FinishClose, Queues

LEMMA OutstandingMeans ==
  ASSUME NEW q \in Queues
  PROVE  /\ Outstanding(q) \in Nat /\ Outstanding(q) = Len(q.pending) + Len(q.lease)
         /\ Len(q.pending) \in Nat /\ Len(q.lease) \in Nat
         /\ Outstanding(q) = 0 => q.lease = <<>> /\ q.pending = <<>>
         /\ q.lease = <<>> => Outstanding(q) = Len(q.pending)
<1>1. q.pending \in Seq(Records) /\ q.lease \in Seq(Records)
  BY DEF Queues
<1>2. Len(q.pending) \in Nat /\ Len(q.lease) \in Nat
  BY <1>1, LenProperties
<1>3. Outstanding(q) = Len(q.pending) + Len(q.lease)
  BY Zenon DEF Outstanding
<1>4. (Len(q.pending) = 0 => q.pending = <<>>) /\ (Len(q.lease) = 0 <=> q.lease = <<>>)
  BY <1>1, Empty
<1>5. \A m, n \in Nat : m + n \in Nat /\ (m + n = 0 => m = 0 /\ n = 0) /\ m + 0 = m
  OBVIOUS
<1>6. ASSUME q.lease = <<>> PROVE Outstanding(q) = Len(q.pending)
  <2>1. Len(q.lease) = 0
    BY <1>4, <1>6, Zenon
  <2>2. Outstanding(q) = Len(q.pending) + 0
    BY <1>3, <2>1, Zenon
  <2>. QED
    BY <1>2, <1>5, <2>2, Zenon
<1>7. Outstanding(q) \in Nat /\ (Outstanding(q) = 0 => q.lease = <<>> /\ q.pending = <<>>)
  <2>1. LET n == Len(q.pending) + Len(q.lease)
        IN  n \in Nat /\ (n = 0 => Len(q.pending) = 0 /\ Len(q.lease) = 0)
    BY <1>2, <1>5, Zenon
  <2>2. Outstanding(q) \in Nat
    BY <1>3, <2>1, Zenon
  <2>3. Outstanding(q) = 0 => Len(q.pending) = 0 /\ Len(q.lease) = 0
    BY <1>3, <2>1, Zenon
  <2>. QED
    BY <1>4, <2>2, <2>3, Zenon
<1>. QED
  BY <1>2, <1>3, <1>6, <1>7, Zenon

LEMMA AcknowledgeMeans ==
  ASSUME NEW q \in Queues
  PROVE  /\ Acknowledge(q) \in Queues
         /\ Acknowledge(q).pending = q.pending /\ Acknowledge(q).lease = <<>>
         /\ Acknowledge(q).state = "closed" => q.state = "closed" \/ q.pending = <<>>
         /\ Outstanding(Acknowledge(q)) = Len(q.pending)
         /\ q.state = "closed" => Acknowledge(q).state = "closed"
<1>. DEFINE p == [q EXCEPT !.lease = <<>>]
<1>1. p \in Queues /\ p.pending = q.pending /\ p.lease = <<>> /\ p.state = q.state
  BY Empty DEF Queues
<1>. HIDE DEF p
<1>2. Outstanding(p) = Len(q.pending) /\ (Outstanding(p) = 0 => q.pending = <<>>)
  BY <1>1, OutstandingMeans, Zenon
<1>3. FinishClose(p) \in Queues /\ FinishClose(p).pending = p.pending /\ FinishClose(p).lease = p.lease
      /\ FinishClose(p).state = IF p.state = "closing" /\ Outstanding(p) = 0 THEN "closed" ELSE p.state
  BY <1>1, FinishCloseMeans
<1>4. Outstanding(FinishClose(p)) = Outstanding(p)
  BY <1>1, <1>3, OutstandingMeans
<1>5. Acknowledge(q) = FinishClose(p)
  BY DEF Acknowledge, p
<1>. QED
  BY <1>1, <1>2, <1>3, <1>4, <1>5

LEMMA LeaseBatchMeans ==
  ASSUME NEW q \in Queues, q.lease = <<>>, q.pending # <<>>
  PROVE  /\ LeaseBatch(q) \in Queues /\ LeaseBatch(q).state = q.state
         /\ LeaseBatch(q).lease \o LeaseBatch(q).pending = q.pending
         /\ Len(LeaseBatch(q).lease) <= MaxBatch /\ LeaseBatch(q).lease # <<>>
         /\ Outstanding(LeaseBatch(q)) = Outstanding(q)
<1>. DEFINE s == q.pending
            n == IF Len(s) < MaxBatch THEN Len(s) ELSE MaxBatch
            b == [q EXCEPT !.lease = SubSeq(s, 1, n), !.pending = SubSeq(s, n + 1, Len(s))]
<1>1. s \in Seq(Records) /\ Len(s) \in Nat /\ Len(s) # 0
  BY Empty DEF Queues
<1>2. n \in 0..Len(s) /\ n # 0 /\ n <= MaxBatch
  BY <1>1, SpoolAssumption
<1>3. LeaseBatch(q) = b
  BY DEF LeaseBatch, b
<1>. HIDE DEF n
<1>4. /\ SubSeq(s, 1, n) \in Seq(Records) /\ SubSeq(s, n + 1, Len(s)) \in Seq(Records)
      /\ Len(SubSeq(s, 1, n)) = n /\ Len(SubSeq(s, n + 1, Len(s))) = Len(s) - n
      /\ SubSeq(s, 1, n) \o SubSeq(s, n + 1, Len(s)) = s
  <2>. HIDE DEF s
  <2>. QED
    BY <1>1, <1>2, SplitSeq
<1>5. b \in Queues /\ b.state = q.state /\ b.lease = SubSeq(s, 1, n) /\ b.pending = SubSeq(s, n + 1, Len(s))
  BY <1>4 DEF Queues
<1>. HIDE DEF b
<1>6. Outstanding(b) = Outstanding(q)
  <2>1. Outstanding(b) = Len(b.pending) + Len(b.lease) /\ Outstanding(q) = Len(s)
    BY <1>5, OutstandingMeans, Zenon
  <2>2. Len(b.pending) = Len(s) - n /\ Len(b.lease) = n
    BY <1>4, <1>5, Zenon
  <2>3. \A m \in Nat : \A l \in 0..m : (m - l) + l = m
    OBVIOUS
  <2>. QED
    BY <1>1, <1>2, <2>1, <2>2, <2>3, Zenon
<1>7. b.lease # <<>>
  BY <1>2, <1>4, <1>5, Empty, Zenon
<1>. QED
  BY <1>2, <1>3, <1>4, <1>5, <1>6, <1>7

LEMMA ReleaseUnwrittenMeans ==
  ASSUME NEW q \in Queues
  PROVE  /\ ReleaseUnwritten(q) \in Queues /\ ReleaseUnwritten(q).state = q.state
         /\ ReleaseUnwritten(q).lease = <<>> /\ ReleaseUnwritten(q).pending = q.lease \o q.pending
         /\ ReleaseUnwritten(q).lease \o ReleaseUnwritten(q).pending = q.lease \o q.pending
         /\ Outstanding(ReleaseUnwritten(q)) = Outstanding(q)
<1>. DEFINE s == q.lease \o q.pending
            b == [q EXCEPT !.pending = s, !.lease = <<>>]
<1>1. s \in Seq(Records) /\ Len(s) = Len(q.lease) + Len(q.pending)
  <2>. DEFINE x == q.lease
              y == q.pending
  <2>1. x \in Seq(Records) /\ y \in Seq(Records)
    BY DEF Queues
  <2>. HIDE DEF x, y
  <2>2. x \o y \in Seq(Records) /\ Len(x \o y) = Len(x) + Len(y)
    BY <2>1, ConcatProperties
  <2>. QED
    BY <2>2 DEF x, y
<1>. HIDE DEF s
<1>2. b \in Queues /\ b.state = q.state /\ b.lease = <<>> /\ b.pending = s
  BY <1>1, Empty DEF Queues
<1>. HIDE DEF b
<1>3. <<>> \o s = s
  BY <1>1, Empty
<1>4. Outstanding(b) = Outstanding(q)
  <2>1. Outstanding(b) = Len(s) /\ Outstanding(q) = Len(q.pending) + Len(q.lease)
        /\ Len(q.pending) \in Nat /\ Len(q.lease) \in Nat
    BY <1>2, OutstandingMeans, Zenon
  <2>2. \A m, n \in Nat : m + n = n + m
    OBVIOUS
  <2>. QED
    BY <1>1, <2>1, <2>2, Zenon
<1>5. ReleaseUnwritten(q) = b
  BY DEF ReleaseUnwritten, b, s
<1>. QED
  BY <1>2, <1>3, <1>4, <1>5 DEF s

LEMMA BeginCloseMeans ==
  ASSUME NEW q \in Queues
  PROVE  /\ BeginClose(q) \in Queues
         /\ BeginClose(q).pending = q.pending /\ BeginClose(q).lease = q.lease
         /\ Outstanding(BeginClose(q)) = Outstanding(q)
         /\ BeginClose(q).state = "closed" => q.state = "closed" \/ Outstanding(q) = 0
         /\ q.state = "closed" => BeginClose(q).state = "closed"
<1>. DEFINE p == [q EXCEPT !.state = IF @ = "open" THEN "closing" ELSE @]
<1>1. p \in Queues /\ p.pending = q.pending /\ p.lease = q.lease
      /\ p.state = IF q.state = "open" THEN "closing" ELSE q.state
  BY DEF Queues
<1>. HIDE DEF p
<1>2. FinishClose(p) \in Queues /\ FinishClose(p).pending = p.pending /\ FinishClose(p).lease = p.lease
      /\ FinishClose(p).state = IF p.state = "closing" /\ Outstanding(p) = 0 THEN "closed" ELSE p.state
  BY <1>1, FinishCloseMeans
<1>3. Outstanding(FinishClose(p)) = Outstanding(q) /\ Outstanding(p) = Outstanding(q)
  BY <1>1, <1>2, OutstandingMeans, Zenon
<1>4. BeginClose(q) = FinishClose(p)
  BY DEF BeginClose, p
<1>. QED
  BY <1>1, <1>2, <1>3, <1>4

-----------------------------------------------------------------------------
(* Steps that leave the files, the database and the orphans alone.           *)

LEMMA IoFrame ==
  ASSUME IoOK, UNCHANGED <<io, flusher>>,
         \A k \in Kinds : io[k] # NoOp => pump'[k] = pump[k] /\ queue'[k].lease = queue[k].lease,
         \A r \in Records : io[r] # NoOp => request'[r] = request[r]
  PROVE  IoOK'
BY DEF IoOK, KindOf

LEMMA UpstreamFrame ==
  ASSUME UNCHANGED <<queue, request, io>>, NEW r, Upstream(r)'
  PROVE  Upstream(r)
BY DEF Upstream, Succeeded, KindOf

LEMMA QueueStep ==
  ASSUME QueueOK, NEW k \in Kinds,
         \A j \in Kinds \ {k} : /\ queue'[j] = queue[j] /\ pump'[j] = pump[j]
                                /\ \A r \in ToSet(Line(j)) : request'[r] = request[r],
         Outstanding(queue'[k]) <= MaxOutstanding, Len(queue'[k].lease) <= MaxBatch,
         queue'[k].state = "closed" => Outstanding(queue'[k]) = 0,
         queue'[k].lease # <<>> <=> pump'[k] \in {"lock", "append"},
         Distinct(Line(k)'),
         \A r \in ToSet(Line(k)') : request'[r] = "queued" /\ KindOf(r) = k,
         pump'[k] = "done" => queue'[k].state = "closed"
  PROVE  QueueOK'
<1>1. ASSUME NEW j \in Kinds \ {k}
      PROVE  /\ Outstanding(queue'[j]) <= MaxOutstanding /\ Len(queue'[j].lease) <= MaxBatch
             /\ queue'[j].state = "closed" => Outstanding(queue'[j]) = 0
             /\ queue'[j].lease # <<>> <=> pump'[j] \in {"lock", "append"}
             /\ Distinct(Line(j)')
             /\ \A r \in ToSet(Line(j)') : request'[r] = "queued" /\ KindOf(r) = j
             /\ pump'[j] = "done" => queue'[j].state = "closed"
  BY QueueOther
<1>. QED
  BY <1>1 DEF QueueOK, KindOf

\* What the flusher holds, or is handed, it held or was handed before.
LEMMA QuietStep ==
  ASSUME IInv, UNCHANGED <<files, written, orphans, ambiguous>>,
         Shape', IoOK', QueueOK', LifeOK', ClosedOK',
         Held' => \/ Held /\ flusher'.id = flusher.id /\ flusher'.recs = flusher.recs
                  \/ /\ Found /\ flusher'.id = io["flusher"].id
                     /\ flusher'.recs = files[flusher'.id].recs,
         Found' => Found /\ io'["flusher"].id = io["flusher"].id,
         flusher'.at \in Releasing => \/ flusher.at \in Releasing /\ flusher'.id = flusher.id
                                      \/ Found /\ flusher'.id = io["flusher"].id,
         flusher'.at \in Committed => flusher.at \in Committed /\ flusher'.recs = flusher.recs,
         \A r \in Records \ ambiguous : Upstream(r)' => Upstream(r),
         \A r \in Records : request'[r] = "queued" => r \in ToSet(Line(KindOf(r)))' \/ Kept(r),
         \A r \in Records : request'[r] = "stored" => Kept(r),
         \A t \in Tasks : Succeeded(t)' /\ io'[t].do = "append" => io'[t] = io[t]
  PROVE  IInv'
<1>1. FileOK'
  BY FileFrame DEF IInv
<1>2. OrphansOK'
  BY OrphansFrame DEF IInv
<1>3. LeaseOK'
  <2>1. \A i : Mine(i) => Mine(i)'
    BY MineFrame
  <2>. QED
    BY <2>1 DEF IInv, LeaseOK
<1>4. OnceOK'
  <2>1. \A i \in DOMAIN files : Replayable(i)' => Replayable(i)
    BY DEF Replayable
  <2>. QED
    BY <2>1, OnceFrame DEF IInv
<1>5. KeptOK'
  <2>1. \A j \in 1..Len(orphans') : orphans'[j].do = "ack" =>
             \A r \in ToSet(files[orphans'[j].id].recs) : written[r] > 0
    BY DEF IInv, KeptOK
  <2>. QED
    BY <2>1, KeptFrame DEF IInv
<1>. QED
  BY <1>1, <1>2, <1>3, <1>4, <1>5 DEF IInv

\* ... and the flusher rests.
LEMMA QuietTasks ==
  ASSUME IInv, UNCHANGED <<files, written, orphans, ambiguous, flusher>>,
         io'["flusher"] = io["flusher"],
         Shape', IoOK', QueueOK', LifeOK', ClosedOK',
         \A r \in Records \ ambiguous : Upstream(r)' => Upstream(r),
         \A r \in Records : request'[r] = "queued" => r \in ToSet(Line(KindOf(r)))' \/ Kept(r),
         \A r \in Records : request'[r] = "stored" => Kept(r),
         \A t \in Tasks : Succeeded(t)' /\ io'[t].do = "append" => io'[t] = io[t]
  PROVE  IInv'
<1>1. (Held' => Held) /\ (Found' => Found)
  BY DEF Held, Found
<1>. QED
  BY <1>1, QuietStep

LEMMA KeptRests ==
  ASSUME KeptOK, UNCHANGED <<queue, request>>
  PROVE  /\ \A r \in Records : request'[r] = "queued" => r \in ToSet(Line(KindOf(r)))' \/ Kept(r)
         /\ \A r \in Records : request'[r] = "stored" => Kept(r)
<1>1. \A r \in Records : Line(KindOf(r))' = Line(KindOf(r))
  BY DEF Line, KindOf
<1>. QED
  BY <1>1 DEF KeptOK

\* Only the life of the worker goes on.
LEMMA QuietLife ==
  ASSUME IInv, UNCHANGED <<files, made, written, orphans, ambiguous, queue, request, io, pump, flusher>>,
         Shape', LifeOK', ClosedOK'
  PROVE  IInv'
<1>1. IoOK'
  BY IoFrame DEF IInv
<1>2. QueueOK'
  BY QueueFrame DEF IInv
<1>3. \A r : Upstream(r)' => Upstream(r)
  BY UpstreamFrame
<1>. QED
  BY <1>1, <1>2, <1>3, KeptRests, QuietTasks DEF IInv

LEMMA SupervisorStoppedStep == ASSUME IInv, SupervisorStopped PROVE IInv'
<1>1. UNCHANGED <<files, made, written, orphans, ambiguous, queue, request, io, pump, flusher>>
  BY DEF SupervisorStopped, disk
<1>2. Shape'
  BY DEF IInv, Shape, SupervisorStopped, disk, Supervisors
<1>3. LifeOK'
  BY DEF IInv, LifeOK, SupervisorStopped, LockFree
<1>4. ClosedOK'
  BY <1>1, ClosedFrame DEF IInv, SupervisorStopped
<1>. QED
  BY <1>1, <1>2, <1>3, <1>4, QuietLife

LEMMA SupervisorReturnsStep == ASSUME IInv, SupervisorReturns PROVE IInv'
<1>1. UNCHANGED <<files, made, written, orphans, ambiguous, queue, request, io, pump, flusher, worker>>
  BY DEF SupervisorReturns, disk
<1>2. Shape'
  BY DEF IInv, Shape, SupervisorReturns, disk, Supervisors
<1>3. LifeOK'
  BY DEF IInv, LifeOK, SupervisorReturns, LockFree, FlusherOver
<1>4. ClosedOK'
  BY <1>1, ClosedFrame DEF IInv
<1>. QED
  BY <1>1, <1>2, <1>3, <1>4, QuietLife

LEMMA CloseUnstartedStep == ASSUME IInv, CloseUnstarted PROVE IInv'
<1>1. UNCHANGED <<files, made, written, orphans, ambiguous, queue, request, io, pump, flusher>>
  BY DEF CloseUnstarted, disk
<1>2. Shape'
  BY DEF IInv, Shape, CloseUnstarted, disk
<1>3. LifeOK'
  BY DEF IInv, LifeOK, CloseUnstarted, LockFree
<1>4. ClosedOK'
  BY <1>1, ClosedFrame DEF IInv, CloseUnstarted
<1>. QED
  BY <1>1, <1>2, <1>3, <1>4, QuietLife

\* The spool closes when no file is left, in whatever stage.
LEMMA CloseSpoolStep == ASSUME IInv, CloseSpool PROVE IInv'
<1>1. UNCHANGED <<files, made, written, orphans, ambiguous, queue, request, io, pump, flusher>>
  BY DEF CloseSpool, disk
<1>2. Shape'
  BY DEF IInv, Shape, CloseSpool, disk
<1>3. LifeOK'
  BY DEF IInv, LifeOK, CloseSpool, LockFree
<1>4. ClosedOK'
  <2>1. ASSUME worker' = "closed", NEW i \in DOMAIN files PROVE FALSE
    <3>1. At("ready") = {} /\ At("leased") = {} /\ At("unknown") = {}
      BY <2>1 DEF CloseSpool, Undrained
    <3>2. files[i].stage \in {"ready", "leased", "unknown"}
      BY DEF IInv, Shape, FileSet
    <3>. QED
      BY <3>1, <3>2 DEF At
  <2>. QED
    BY <1>1, <2>1 DEF ClosedOK
<1>. QED
  BY <1>1, <1>2, <1>3, <1>4, QuietLife

LEMMA EnqueueStep == ASSUME IInv, NEW r \in Records, Enqueue(r) PROVE IInv'
<1>1. /\ UNCHANGED <<files, made, written, orphans, ambiguous, queue, io, pump, flusher, worker, spool, supervisor>>
      /\ request[r] = "new" /\ request' = [request EXCEPT ![r] = "lock"] /\ request \in [Records -> Requests]
  BY DEF Enqueue, disk, IInv, Shape
<1>2. Shape'
  BY <1>1 DEF IInv, Shape, Enqueue, disk, Requests
<1>3. LifeOK'
  BY <1>1 DEF IInv, LifeOK, LockFree
<1>4. ClosedOK'
  BY <1>1, ClosedFrame DEF IInv
<1>5. \A q \in Records : request[q] # "new" => request'[q] = request[q]
  BY <1>1
<1>6. IoOK'
  <2>1. \A q \in Records : io[q] # NoOp => request[q] = "append"
    BY DEF IInv, IoOK
  <2>. QED
    BY <1>1, <1>5, <2>1, IoFrame DEF IInv
<1>7. \A k \in Kinds : \A q \in ToSet(Line(k)) : q \in Records /\ request[q] = "queued" /\ Line(k)' = Line(k)
  BY <1>1, LineFacts, MembersOfSeq, LineFrame DEF IInv, QueueOK
<1>8. QueueOK'
  <2>1. ASSUME NEW k \in Kinds
        PROVE  /\ Outstanding(queue'[k]) <= MaxOutstanding /\ Len(queue'[k].lease) <= MaxBatch
               /\ queue'[k].state = "closed" => Outstanding(queue'[k]) = 0
               /\ queue'[k].lease # <<>> <=> pump'[k] \in {"lock", "append"}
               /\ Distinct(Line(k)')
               /\ \A q \in ToSet(Line(k)') : request'[q] = "queued" /\ KindOf(q) = k
               /\ pump'[k] = "done" => queue'[k].state = "closed"
    BY <1>1, <1>5, <1>7, QueueOther DEF IInv
  <2>. QED
    BY <2>1 DEF QueueOK, KindOf
<1>9. \A q \in Records : Upstream(q)' => Upstream(q)
  BY <1>1 DEF Upstream, Succeeded, KindOf
<1>10. \A q \in Records : request'[q] = "queued" => q \in ToSet(Line(KindOf(q)))' \/ Kept(q)
  BY <1>1, LineFrame, TasksApart DEF IInv, KeptOK
<1>11. \A q \in Records : request'[q] = "stored" => Kept(q)
  BY <1>1 DEF IInv, KeptOK
<1>. QED
  BY <1>1, <1>2, <1>3, <1>4, <1>6, <1>8, <1>9, <1>10, <1>11, QuietTasks

LEMMA ScanBoth ==
  ASSUME nextKind \in Kinds
  PROVE  LET f == IdleFlusher(BothKinds)
         IN  f.at = "scan" /\ f.todo \in Seq(Kinds) /\ f.todo # <<>> /\ f \in FlusherStates
<1>1. BothKinds \in Seq(Kinds) /\ BothKinds # <<>>
  BY TasksApart DEF BothKinds
<1>. QED
  BY <1>1, Empty DEF IdleFlusher, FlusherStates, FlusherAts

LEMMA Rests ==
  ASSUME NEW at \in FlusherAts
  PROVE  LET f == [IdleFlusher(<<>>) EXCEPT !.at = at]
         IN  f.at = at /\ f.id = 0 /\ f.recs = <<>> /\ f \in FlusherStates
<1>1. <<>> \in Seq(Kinds) /\ <<>> \in Seq(Records)
  BY EmptySeq
<1>2. IdleFlusher(<<>>) \in FlusherStates /\ IdleFlusher(<<>>).id = 0 /\ IdleFlusher(<<>>).recs = <<>>
  BY <1>1 DEF IdleFlusher, FlusherStates, FlusherAts
<1>. QED
  BY <1>2 DEF FlusherStates

LEMMA FlusherMoves ==
  ASSUME NEW f \in FlusherStates, NEW at \in FlusherAts
  PROVE  LET g == [f EXCEPT !.at = at]
         IN  g \in FlusherStates /\ g.at = at /\ g.id = f.id /\ g.recs = f.recs /\ g.todo = f.todo
BY DEF FlusherStates

LEMMA FlushWakeStep == ASSUME IInv, FlushWake PROVE IInv'
<1>1. /\ UNCHANGED <<files, made, written, orphans, ambiguous, queue, io, pump, request, worker, spool, supervisor>>
      /\ flusher.at = "idle" /\ flusher' = IdleFlusher(BothKinds)
  BY DEF FlushWake, disk
<1>2. /\ flusher'.at = "scan" /\ flusher'.todo \in Seq(Kinds) /\ flusher'.todo # <<>>
      /\ flusher' \in FlusherStates
  BY <1>1, ScanBoth DEF IInv, Shape
<1>3. Shape'
  BY <1>1, <1>2 DEF IInv, Shape, FlushWake, disk
<1>4. io["flusher"] = NoOp
  BY <1>1 DEF IInv, IoOK, Moving
<1>5. LifeOK'
  BY <1>1, <1>2 DEF IInv, LifeOK, LockFree, FlusherOver
<1>6. ClosedOK'
  BY <1>1, ClosedFrame DEF IInv
<1>7. IoOK'
  BY <1>1, <1>4 DEF IInv, IoOK, KindOf
<1>8. QueueOK'
  BY <1>1, QueueFrame DEF IInv
<1>9. ~Held' /\ ~Found' /\ flusher'.at \notin Releasing /\ flusher'.at \notin Committed
  BY <1>1, <1>2, <1>4, OpFacts DEF Held, Found, Holding, Moving, Releasing, Committed
<1>10. \A r : Upstream(r)' => Upstream(r)
  BY <1>1, UpstreamFrame
<1>. QED
  BY <1>1, <1>3, <1>5, <1>6, <1>7, <1>8, <1>9, <1>10, KeptRests, QuietStep DEF IInv

\* Only the flusher moves, and it waits for no operation.
LEMMA QuietFlusher ==
  ASSUME IInv, UNCHANGED <<files, written, orphans, ambiguous, queue, request, io, pump>>,
         Shape', LifeOK', ClosedOK', io["flusher"] = NoOp,
         Held' => Held /\ flusher'.id = flusher.id /\ flusher'.recs = flusher.recs,
         flusher'.at \in Releasing => flusher.at \in Releasing /\ flusher'.id = flusher.id,
         flusher'.at \in Committed => flusher.at \in Committed /\ flusher'.recs = flusher.recs
  PROVE  IInv'
<1>1. IoOK'
  BY DEF IInv, IoOK, KindOf
<1>2. QueueOK'
  BY QueueFrame DEF IInv
<1>3. ~Found'
  BY OpFacts DEF Found
<1>4. \A r : Upstream(r)' => Upstream(r)
  BY UpstreamFrame
<1>. QED
  BY <1>1, <1>2, <1>3, <1>4, KeptRests, QuietStep DEF IInv

LEMMA FlushRetryStep == ASSUME IInv, FlushRetry PROVE IInv'
<1>1. /\ UNCHANGED <<files, made, written, orphans, ambiguous, queue, io, pump, request, worker, spool, supervisor>>
      /\ flusher.at = "retry"
      /\ flusher' = IdleFlusher(BothKinds) \/ flusher' = [flusher EXCEPT !.at = "failed"]
  BY DEF FlushRetry, FlusherAt, disk
<1>2. /\ flusher'.at \in {"scan", "failed"} /\ (flusher'.at = "scan" => flusher'.todo # <<>>)
      /\ flusher' \in FlusherStates
  <2>1. CASE flusher' = IdleFlusher(BothKinds)
    BY <2>1, ScanBoth DEF IInv, Shape
  <2>2. CASE flusher' = [flusher EXCEPT !.at = "failed"]
    <3>1. flusher \in FlusherStates /\ "failed" \in FlusherAts
      BY DEF IInv, Shape, FlusherAts, FlusherOver
    <3>. QED
      BY <2>2, <3>1, FlusherMoves
  <2>. QED
    BY <1>1, <2>1, <2>2
<1>3. Shape'
  BY <1>1, <1>2 DEF IInv, Shape, FlushRetry, disk
<1>4. io["flusher"] = NoOp
  BY <1>1 DEF IInv, IoOK, Moving
<1>5. LifeOK'
  BY <1>1, <1>2 DEF IInv, LifeOK, LockFree, FlusherOver
<1>6. ClosedOK'
  BY <1>1, ClosedFrame DEF IInv
<1>7. ~Held' /\ flusher'.at \notin Releasing /\ flusher'.at \notin Committed
  BY <1>2 DEF Held, Holding, Moving, Releasing, Committed
<1>. QED
  BY <1>1, <1>3, <1>4, <1>5, <1>6, <1>7, QuietFlusher

\* The transaction counts as one write of what the flusher holds.
LEMMA Commits ==
  ASSUME IInv, UNCHANGED <<files, orphans, ambiguous, queue, request, io, pump>>,
         Shape', LifeOK', ClosedOK', flusher.at = "commit",
         flusher' = [flusher EXCEPT !.at = "landed"],
         written' = [r \in Records |-> written[r] + (IF r \in ToSet(flusher.recs) THEN 1 ELSE 0)]
  PROVE  IInv'
<1>. DEFINE i == flusher.id
<1>1. io["flusher"] = NoOp /\ ~Found /\ ~Found'
  BY OpFacts DEF IInv, IoOK, Moving, Found
<1>2. Held /\ Mine(i) /\ flusher.recs = files[i].recs
  BY <1>1 DEF IInv, LeaseOK, Held, Holding, Releasing
<1>3. flusher'.at = "landed" /\ flusher'.id = i /\ flusher'.recs = flusher.recs
  BY FlusherMoves DEF IInv, Shape, FlusherAts, Holding, Committed
<1>4. \A r \in Records : /\ written[r] \in Nat
                         /\ r \in ToSet(flusher.recs) => written'[r] = written[r] + 1 /\ written'[r] > 0
                         /\ r \notin ToSet(flusher.recs) => written'[r] = written[r]
                         /\ written[r] > 0 => written'[r] > 0
  BY DEF IInv, Shape
<1>5. IoOK'
  BY <1>1 DEF IInv, IoOK, KindOf
<1>6. QueueOK' /\ FileOK' /\ OrphansOK'
  BY QueueFrame, FileFrame, OrphansFrame DEF IInv
<1>7. LeaseOK'
  BY <1>1, <1>2, <1>3, MineFrame DEF LeaseOK
<1>8. i \in DOMAIN files /\ files[i].stage = "leased" /\ \A j \in 1..Len(orphans) : IsMove(orphans[j]) => orphans[j].id # i
  BY <1>2 DEF Mine, At
<1>9. Replayable(i) /\ ~Replayable(i)'
  BY <1>1, <1>3, <1>8 DEF Replayable, Releasing, IsMove
<1>10. \A j \in DOMAIN files : Replayable(j)' => Replayable(j)
  BY <1>1, <1>3 DEF Replayable, Releasing
<1>11. OnceOK'
  <2>. SUFFICES ASSUME NEW r \in Records \ ambiguous
                PROVE  /\ written'[r] <= 1
                       /\ Upstream(r)' => written'[r] = 0 /\ \A j \in DOMAIN files : ~Has(j, r)
                       /\ \A j, l \in DOMAIN files : Has(j, r) /\ Has(l, r) => j = l
                       /\ \A j \in DOMAIN files : Has(j, r) /\ Replayable(j)' => written'[r] = 0
    <3>1. \A j, r : Has(j, r)' <=> Has(j, r)
      BY DEF Has
    <3>. QED
      BY <3>1 DEF OnceOK
  <2>1. /\ written[r] <= 1
        /\ Upstream(r) => written[r] = 0 /\ \A j \in DOMAIN files : ~Has(j, r)
        /\ \A j, l \in DOMAIN files : Has(j, r) /\ Has(l, r) => j = l
        /\ \A j \in DOMAIN files : Has(j, r) /\ Replayable(j) => written[r] = 0
    BY DEF IInv, OnceOK
  <2>2. Upstream(r)' => Upstream(r)
    BY UpstreamFrame
  <2>3. r \in ToSet(flusher.recs) <=> Has(i, r)
    BY <1>2 DEF Has
  <2>4. CASE r \in ToSet(flusher.recs)
    <3>1. Has(i, r) /\ written[r] = 0 /\ written'[r] = 1
      BY <1>4, <1>8, <1>9, <2>1, <2>3, <2>4
    <3>. QED
      BY <1>8, <1>9, <2>1, <2>2, <3>1
  <2>5. CASE r \notin ToSet(flusher.recs)
    BY <1>4, <1>10, <2>1, <2>2, <2>5
  <2>. QED
    BY <2>4, <2>5
<1>12. KeptOK'
  <2>1. \A r \in Records : Kept(r) => Kept(r)'
    BY <1>4 DEF Kept, Has
  <2>2. \A r \in Records : Line(KindOf(r))' = Line(KindOf(r))
    BY DEF Line, KindOf
  <2>3. \A r \in Records : request'[r] = "queued" => r \in ToSet(Line(KindOf(r))') \/ Kept(r)'
    BY <2>1, <2>2 DEF IInv, KeptOK
  <2>4. \A r \in Records : request'[r] = "stored" => Kept(r)'
    BY <2>1 DEF IInv, KeptOK
  <2>5. \A t \in Tasks : Succeeded(t)' /\ io'[t].do = "append" => \A r \in ToSet(io'[t].recs) : Kept(r)'
    <3>1. ASSUME NEW t \in Tasks, Succeeded(t)', io'[t].do = "append", NEW r \in ToSet(io'[t].recs) PROVE Kept(r)'
      <4>1. Succeeded(t) /\ io[t].do = "append" /\ r \in ToSet(io[t].recs)
        BY <3>1 DEF Succeeded
      <4>2. io[t] \in Ops
        BY <4>1 DEF Succeeded, IInv, Shape
      <4>3. io[t].recs \in Seq(Records)
        BY <4>1, <4>2, OpFacts DEF IsMove
      <4>. QED
        BY <2>1, <4>1, <4>3, MembersOfSeq DEF IInv, KeptOK
    <3>. QED
      BY <3>1
  <2>6. flusher.recs \in Seq(Records) /\ ToSet(flusher.recs) \subseteq Records
    BY MembersOfSeq DEF IInv, Shape, FlusherStates
  <2>7. \A r \in ToSet(flusher'.recs) : written'[r] > 0
    BY <1>3, <1>4, <2>6
  <2>8. ASSUME NEW j \in 1..Len(orphans'), orphans'[j].do = "ack", NEW r \in ToSet(files'[orphans'[j].id].recs)
        PROVE  written'[r] > 0
    <3>1. written[r] > 0
      BY <2>8 DEF IInv, KeptOK
    <3>2. orphans[j] \in Ops
      BY ElementOfSeq DEF IInv, Shape
    <3>3. orphans[j].id \in DOMAIN files
      BY <2>8 DEF IInv, OrphansOK, IsMove, At
    <3>4. r \in Records
      BY <2>8, <3>3, MembersOfSeq DEF IInv, Shape, FileSet
    <3>. QED
      BY <1>4, <3>1, <3>4
  <2>. QED
    BY <2>3, <2>4, <2>5, <2>7, <2>8 DEF KeptOK
<1>. QED
  BY <1>5, <1>6, <1>7, <1>11, <1>12 DEF IInv

LEMMA TransactionStep == ASSUME IInv, Transaction PROVE IInv'
<1>1. /\ UNCHANGED <<files, made, orphans, ambiguous, queue, io, pump, request, worker, spool, supervisor, nextKind>>
      /\ flusher.at \in {"write", "commit", "landed", "cleanup"}
  BY DEF Transaction
<1>2. /\ \A at : flusher' = [flusher EXCEPT !.at = at] /\ at \in FlusherAts
                  => flusher'.at = at /\ flusher' \in FlusherStates /\ flusher'.id = flusher.id /\ flusher'.recs = flusher.recs
      /\ flusher \in FlusherStates
  <2>1. flusher \in FlusherStates
    BY DEF IInv, Shape
  <2>2. ASSUME NEW at \in FlusherAts, flusher' = [flusher EXCEPT !.at = at]
        PROVE  flusher'.at = at /\ flusher' \in FlusherStates /\ flusher'.id = flusher.id /\ flusher'.recs = flusher.recs
    BY <2>1, <2>2, FlusherMoves
  <2>. QED
    BY <2>1, <2>2
<1>3. io["flusher"] = NoOp
  BY <1>1 DEF IInv, IoOK, Moving
<1>4. Held
  BY <1>1, <1>3 DEF Held, Holding, Committed, Releasing
<1>5. \/ /\ written' = written
         /\ \/ flusher.at = "write" /\ flusher' = [flusher EXCEPT !.at = "commit"]
            \/ flusher.at = "write" /\ flusher' = [flusher EXCEPT !.at = "release"]
            \/ flusher.at = "commit" /\ flusher' = [flusher EXCEPT !.at = "mark"]
            \/ flusher.at = "landed" /\ flusher' = [flusher EXCEPT !.at = "cleanup"]
            \/ flusher.at = "landed" /\ flusher' = [flusher EXCEPT !.at = "mark"]
            \/ flusher.at = "cleanup" /\ flusher' = [flusher EXCEPT !.at = "ack"]
      \/ /\ flusher.at = "commit" /\ flusher' = [flusher EXCEPT !.at = "landed"]
         /\ written' = [r \in Records |-> written[r] + (IF r \in ToSet(flusher.recs) THEN 1 ELSE 0)]
  BY DEF Transaction, FlusherAt
<1>6. {"commit", "release", "mark", "cleanup", "ack", "landed"} \subseteq FlusherAts
  BY DEF FlusherAts, Holding, Moving, Committed, Releasing
<1>7. /\ flusher'.at \in {"commit", "release", "mark", "cleanup", "ack", "landed"} /\ flusher' \in FlusherStates
      /\ flusher'.id = flusher.id /\ flusher'.recs = flusher.recs
  BY <1>2, <1>5, <1>6
<1>8. written' \in [Records -> Nat]
  <2>1. \A r \in Records : written[r] + (IF r \in ToSet(flusher.recs) THEN 1 ELSE 0) \in Nat
    BY DEF IInv, Shape
  <2>. QED
    BY <1>5, <2>1 DEF IInv, Shape
<1>9. Shape'
  BY <1>1, <1>7, <1>8 DEF IInv, Shape
<1>10. LifeOK'
  <2>1. supervisor \notin {"stopping", "cancelled", "ended", "done"} /\ worker # "created"
    BY <1>1 DEF IInv, LifeOK, FlusherOver
  <2>. QED
    BY <1>1, <2>1 DEF IInv, LifeOK, LockFree
<1>11. ClosedOK'
  BY <1>1, ClosedFrame DEF IInv
<1>12. CASE written' = written /\ flusher' # [flusher EXCEPT !.at = "landed"]
  <2>1. /\ flusher'.at \in Releasing => flusher.at \in Releasing
        /\ flusher'.at \in Committed => flusher.at \in Committed
    BY <1>2, <1>5, <1>6, <1>12 DEF Releasing, Committed
  <2>. QED
    BY <1>1, <1>3, <1>4, <1>7, <1>9, <1>10, <1>11, <1>12, <2>1, QuietFlusher
<1>13. CASE /\ flusher.at = "commit" /\ flusher' = [flusher EXCEPT !.at = "landed"]
            /\ written' = [r \in Records |-> written[r] + (IF r \in ToSet(flusher.recs) THEN 1 ELSE 0)]
  BY <1>1, <1>9, <1>10, <1>11, <1>13, Commits
<1>. QED
  <2>1. \A at \in {"commit", "release", "mark", "cleanup", "ack"} :
          flusher' = [flusher EXCEPT !.at = at] => flusher' # [flusher EXCEPT !.at = "landed"]
    BY <1>2, <1>6
  <2>. QED
    BY <1>5, <1>12, <1>13, <2>1

-----------------------------------------------------------------------------
(* The queues.                                                               *)

LEMMA QueueAt ==
  ASSUME IInv, NEW k \in Kinds
  PROVE  /\ queue \in [Kinds -> Queues] /\ pump \in [Kinds -> PumpAts] /\ request \in [Records -> Requests]
         /\ queue[k] \in Queues /\ Line(k) \in Seq(Records)
         /\ Outstanding(queue[k]) <= MaxOutstanding /\ Len(queue[k].lease) <= MaxBatch
         /\ queue[k].state = "closed" => Outstanding(queue[k]) = 0
         /\ queue[k].lease # <<>> <=> pump[k] \in {"lock", "append"}
         /\ Distinct(Line(k))
         /\ \A r \in ToSet(Line(k)) : r \in Records /\ request[r] = "queued" /\ KindOf(r) = k
         /\ pump[k] = "done" => queue[k].state = "closed"
         /\ ToSet(Line(k)) = ToSet(queue[k].lease) \union ToSet(queue[k].pending)
         /\ io[k] # NoOp => pump[k] = "append" /\ io[k].do = "append" /\ io[k].recs = queue[k].lease
BY LineFacts, MembersOfSeq DEF IInv, Shape, QueueOK, IoOK

LEMMA PumpLeaseStep == ASSUME IInv, NEW k \in Kinds, PumpLease(k) PROVE IInv'
<1>1. /\ UNCHANGED <<files, made, written, orphans, ambiguous, request, io, flusher, worker, spool, supervisor, nextKind>>
      /\ pump[k] = "wait" /\ queue[k].pending # <<>> /\ queue[k].lease = <<>>
      /\ queue' = [queue EXCEPT ![k] = LeaseBatch(queue[k])]
      /\ pump' = [pump EXCEPT ![k] = "lock"]
  BY DEF PumpLease, disk
<1>. DEFINE q == LeaseBatch(queue[k])
<1>2. /\ q \in Queues /\ q.state = queue[k].state /\ q.lease \o q.pending = queue[k].pending
      /\ Len(q.lease) <= MaxBatch /\ q.lease # <<>> /\ Outstanding(q) = Outstanding(queue[k])
  BY <1>1, QueueAt, LeaseBatchMeans
<1>. HIDE DEF q
<1>3. /\ queue'[k] = q /\ pump'[k] = "lock" /\ \A j \in Kinds \ {k} : queue'[j] = queue[j] /\ pump'[j] = pump[j]
      /\ queue' \in [Kinds -> Queues] /\ pump' \in [Kinds -> PumpAts]
  BY <1>1, <1>2, QueueAt DEF q, PumpAts
<1>4. Line(k)' = Line(k)
  <2>1. queue[k].pending \in Seq(Records)
    BY QueueAt DEF Queues
  <2>2. <<>> \o queue[k].pending = queue[k].pending
    BY <2>1, Empty
  <2>. QED
    BY <1>1, <1>2, <1>3, <2>2, Zenon DEF Line
<1>5. Shape'
  BY <1>1, <1>3 DEF IInv, Shape
<1>6. IoOK'
  <2>1. io[k] = NoOp
    BY <1>1, QueueAt
  <2>. QED
    BY <1>1, <1>3, <2>1, IoFrame DEF IInv
<1>7. QueueOK'
  <2>1. /\ Outstanding(queue[k]) <= MaxOutstanding /\ queue[k].state # "closed"
    <3>1. queue[k].state = "closed" => queue[k].pending = <<>>
      BY QueueAt, OutstandingMeans
    <3>. QED
      BY <1>1, <3>1, QueueAt
  <2>. QED
    BY <1>1, <1>2, <1>3, <1>4, <2>1, QueueAt, QueueStep DEF IInv
<1>8. LifeOK'
  BY <1>1, <1>3 DEF IInv, LifeOK, LockFree, PumpOver
<1>9. ClosedOK'
  BY <1>1, ClosedFrame DEF IInv
<1>10. \A r \in Records : Upstream(r)' => Upstream(r)
  <2>1. ToSet(Line(k)) = ToSet(queue[k].pending)
    <3>1. ToSet(<<>>) = {}
      BY Empty, MembersOfSeq
    <3>2. ToSet(queue[k].lease) = {}
      BY <1>1, <3>1, Zenon
    <3>3. ToSet(Line(k)) = ToSet(queue[k].lease) \union ToSet(queue[k].pending)
      BY QueueAt
    <3>. QED
      BY <3>2, <3>3
  <2>2. queue' \in [Kinds -> Queues] /\ ToSet(Line(k))' = ToSet(q.lease) \union ToSet(q.pending)
    <3>1. q.lease \in Seq(Records) /\ q.pending \in Seq(Records)
      BY <1>2 DEF Queues
    <3>2. ToSet(q.lease \o q.pending) = ToSet(q.lease) \union ToSet(q.pending)
      BY <3>1, MembersOfConcat
    <3>. QED
      BY <1>3, <3>2 DEF Line
  <2>. QED
    BY <1>1, <1>3, <1>4, <2>1, <2>2, TasksApart DEF Upstream, Succeeded
<1>11. /\ \A r \in Records : request'[r] = "queued" => r \in ToSet(Line(KindOf(r)))' \/ Kept(r)
       /\ \A r \in Records : request'[r] = "stored" => Kept(r)
  <2>1. \A j \in Kinds : Line(j)' = Line(j)
    BY <1>3, <1>4, LineFrame
  <2>. QED
    BY <1>1, <2>1, TasksApart DEF IInv, KeptOK
<1>. QED
  BY <1>1, <1>5, <1>6, <1>7, <1>8, <1>9, <1>10, <1>11, QuietTasks

\* The pending records and the batch of every queue stay, and each pump keeps
\* its batch.
LEMMA QuietQueues ==
  ASSUME IInv, UNCHANGED <<files, written, orphans, ambiguous, request, io, flusher>>,
         Shape', LifeOK', ClosedOK',
         \A k \in Kinds : /\ queue'[k].pending = queue[k].pending /\ queue'[k].lease = queue[k].lease
                          /\ Outstanding(queue'[k]) = Outstanding(queue[k])
                          /\ queue'[k].state = "closed" => Outstanding(queue[k]) = 0
                          /\ pump'[k] \in {"lock", "append"} <=> pump[k] \in {"lock", "append"}
                          /\ pump[k] = "append" => pump'[k] = "append"
                          /\ pump'[k] = "done" => queue'[k].state = "closed"
  PROVE  IInv'
<1>1. \A k \in Kinds : Line(k)' = Line(k)
  BY DEF Line
<1>2. IoOK'
  BY IoFrame DEF IInv, IoOK
<1>3. QueueOK'
  <2>1. ASSUME NEW k \in Kinds
        PROVE  /\ Outstanding(queue'[k]) <= MaxOutstanding /\ Len(queue'[k].lease) <= MaxBatch
               /\ queue'[k].state = "closed" => Outstanding(queue'[k]) = 0
               /\ queue'[k].lease # <<>> <=> pump'[k] \in {"lock", "append"}
               /\ Distinct(Line(k)')
               /\ \A q \in ToSet(Line(k)') : request'[q] = "queued" /\ KindOf(q) = k
               /\ pump'[k] = "done" => queue'[k].state = "closed"
    BY <1>1, QueueAt
  <2>. QED
    BY <2>1 DEF QueueOK, KindOf
<1>4. \A r \in Records : Upstream(r)' => Upstream(r)
  BY TasksApart DEF Upstream, Succeeded
<1>5. /\ \A r \in Records : request'[r] = "queued" => r \in ToSet(Line(KindOf(r)))' \/ Kept(r)
      /\ \A r \in Records : request'[r] = "stored" => Kept(r)
  BY <1>1, TasksApart DEF IInv, KeptOK
<1>. QED
  BY <1>2, <1>3, <1>4, <1>5, QuietTasks

LEMMA PumpReturnsStep == ASSUME IInv, NEW k \in Kinds, PumpReturns(k) PROVE IInv'
<1>1. /\ UNCHANGED <<files, made, written, orphans, ambiguous, request, io, flusher, worker, spool, supervisor, nextKind>>
      /\ pump[k] = "wait" /\ FinishClose(queue[k]).state = "closed"
      /\ queue' = [queue EXCEPT ![k] = FinishClose(queue[k])]
      /\ pump' = [pump EXCEPT ![k] = "done"]
  BY DEF PumpReturns, disk
<1>. DEFINE q == FinishClose(queue[k])
<1>2. /\ q \in Queues /\ q.pending = queue[k].pending /\ q.lease = queue[k].lease
      /\ q.state = IF queue[k].state = "closing" /\ Outstanding(queue[k]) = 0 THEN "closed" ELSE queue[k].state
  BY QueueAt, FinishCloseMeans
<1>3. q.state = "closed"
  BY <1>1
<1>. HIDE DEF q
<1>4. Outstanding(q) = Outstanding(queue[k]) /\ Outstanding(queue[k]) = 0
  <2>1. queue[k] \in Queues /\ (queue[k].state = "closed" => Outstanding(queue[k]) = 0)
    BY QueueAt
  <2>2. Outstanding(queue[k]) = 0
    BY <1>2, <1>3, <2>1
  <2>3. Outstanding(q) = Outstanding(queue[k])
    BY <1>2, <2>1, OutstandingMeans, Zenon
  <2>. QED
    BY <2>2, <2>3
<1>5. /\ queue'[k] = q /\ pump'[k] = "done" /\ \A j \in Kinds \ {k} : queue'[j] = queue[j] /\ pump'[j] = pump[j]
      /\ queue' \in [Kinds -> Queues] /\ pump' \in [Kinds -> PumpAts]
  BY <1>1, <1>2, QueueAt DEF q, PumpAts, PumpOver
<1>6. Shape'
  BY <1>1, <1>5 DEF IInv, Shape
<1>7. LifeOK'
  BY <1>1, <1>5 DEF IInv, LifeOK, LockFree, PumpOver
<1>8. ClosedOK'
  BY <1>1, ClosedFrame DEF IInv
<1>9. \A j \in Kinds : /\ queue'[j].pending = queue[j].pending /\ queue'[j].lease = queue[j].lease
                       /\ Outstanding(queue'[j]) = Outstanding(queue[j])
                       /\ queue'[j].state = "closed" => Outstanding(queue[j]) = 0
                       /\ pump'[j] \in {"lock", "append"} <=> pump[j] \in {"lock", "append"}
                       /\ pump[j] = "append" => pump'[j] = "append"
                       /\ pump'[j] = "done" => queue'[j].state = "closed"
  BY <1>1, <1>2, <1>3, <1>4, <1>5, QueueAt
<1>. QED
  BY <1>1, <1>6, <1>7, <1>8, <1>9, QuietQueues

LEMMA PutStep == ASSUME IInv, NEW r \in Records, Put(r) PROVE IInv'
<1>. DEFINE k == KindOf(r)
<1>1. /\ UNCHANGED <<files, made, written, orphans, ambiguous, io, pump, flusher, worker, spool, supervisor, nextKind>>
      /\ request[r] = "new" /\ worker # "created" /\ k \in Kinds
      /\ \/ /\ queue[k].state = "open" /\ Outstanding(queue[k]) < MaxOutstanding
            /\ queue' = [queue EXCEPT ![k].pending = Append(queue[k].pending, r)]
            /\ request' = [request EXCEPT ![r] = "queued"]
         \/ request' = [request EXCEPT ![r] = "refused"] /\ queue' = queue
  BY TasksApart DEF Put, disk
<1>2. /\ \A q \in Records \ {r} : request'[q] = request[q]
      /\ request'[r] \in {"queued", "refused"} /\ request' \in [Records -> Requests]
  BY <1>1 DEF IInv, Shape, Requests
<1>3. LifeOK'
  BY <1>1 DEF IInv, LifeOK, LockFree
<1>4. ClosedOK'
  BY <1>1, ClosedFrame DEF IInv
<1>5. io[r] = NoOp
  BY <1>1 DEF IInv, IoOK
<1>6. \A j \in Kinds : r \notin ToSet(Line(j))
  BY <1>1, QueueAt
<1>7. \A q \in Records : request'[q] = "stored" => Kept(q)
  BY <1>2 DEF IInv, KeptOK
<1>8. CASE request' = [request EXCEPT ![r] = "refused"] /\ queue' = queue
  <2>1. Shape'
    BY <1>1, <1>2, <1>8 DEF IInv, Shape
  <2>2. IoOK'
    BY <1>1, <1>2, <1>5, <1>8, IoFrame DEF IInv
  <2>3. \A j \in Kinds : Line(j)' = Line(j)
    BY <1>8, LineFrame
  <2>4. QueueOK'
    <3>1. ASSUME NEW j \in Kinds
          PROVE  /\ Outstanding(queue'[j]) <= MaxOutstanding /\ Len(queue'[j].lease) <= MaxBatch
                 /\ queue'[j].state = "closed" => Outstanding(queue'[j]) = 0
                 /\ queue'[j].lease # <<>> <=> pump'[j] \in {"lock", "append"}
                 /\ Distinct(Line(j)')
                 /\ \A q \in ToSet(Line(j)') : request'[q] = "queued" /\ KindOf(q) = j
                 /\ pump'[j] = "done" => queue'[j].state = "closed"
      <4>1. \A q \in ToSet(Line(j)) : request'[q] = request[q]
        BY <1>2, <1>6, QueueAt
      <4>. QED
        BY <1>1, <1>8, <4>1, QueueOther DEF IInv
    <3>. QED
      BY <3>1 DEF QueueOK, KindOf
  <2>5. \A q \in Records : Upstream(q)' => Upstream(q)
    BY <1>1, <1>2, <1>8 DEF Upstream, Succeeded, KindOf
  <2>6. \A q \in Records : request'[q] = "queued" => q \in ToSet(Line(KindOf(q)))' \/ Kept(q)
    BY <1>2, <1>8, <2>3, TasksApart DEF IInv, KeptOK
  <2>. QED
    BY <1>1, <1>3, <1>4, <1>7, <2>1, <2>2, <2>4, <2>5, <2>6, QuietTasks
<1>9. CASE /\ queue[k].state = "open" /\ Outstanding(queue[k]) < MaxOutstanding
           /\ queue' = [queue EXCEPT ![k].pending = Append(queue[k].pending, r)]
           /\ request' = [request EXCEPT ![r] = "queued"]
  <2>. DEFINE s == queue[k].pending
              l == queue[k].lease
  <2>1. s \in Seq(Records) /\ l \in Seq(Records) /\ queue[k] \in Queues /\ queue \in [Kinds -> Queues]
    BY <1>1, QueueAt DEF Queues
  <2>2. Append(s, r) \in Seq(Records) /\ Len(Append(s, r)) = Len(s) + 1 /\ ToSet(Append(s, r)) = ToSet(s) \union {r}
    <3>. HIDE DEF s
    <3>. QED
      BY <2>1, AppendProperties, MembersOfAppend
  <2>3. /\ queue'[k].pending = Append(s, r) /\ queue'[k].lease = l /\ queue'[k].state = "open"
        /\ queue'[k] \in Queues /\ queue' \in [Kinds -> Queues]
        /\ \A j \in Kinds \ {k} : queue'[j] = queue[j]
    BY <1>1, <1>9, <2>1, <2>2 DEF Queues
  <2>. HIDE DEF s, l, k
  <2>4. Line(k)' = Append(Line(k), r)
    <3>1. Line(k) = l \o s /\ Line(k)' = l \o Append(s, r)
      BY <2>3 DEF Line, s, l
    <3>2. Append(s, r) = s \o <<r>> /\ Append(l \o s, r) = (l \o s) \o <<r>> /\ <<r>> \in Seq(Records) /\ l \o s \in Seq(Records)
      <4>1. l \o s \in Seq(Records)
        BY <2>1, ConcatProperties
      <4>2. \A t \in Seq(Records) : Append(t, r) = t \o <<r>>
        BY AppendIsConcat
      <4>. QED
        BY <2>1, <4>1, <4>2
    <3>3. (l \o s) \o <<r>> = l \o (s \o <<r>>)
      BY <2>1, <3>2, ConcatAssociative
    <3>. QED
      BY <3>1, <3>2, <3>3, Zenon
  <2>5. ToSet(Line(k)') = ToSet(Line(k)) \union {r} /\ Distinct(Line(k)')
    <3>. DEFINE m == Line(k)
    <3>1. m \in Seq(Records) /\ r \notin ToSet(m) /\ Distinct(m)
      BY <1>1, <1>6, QueueAt
    <3>. HIDE DEF m
    <3>2. ToSet(Append(m, r)) = ToSet(m) \union {r} /\ Distinct(Append(m, r))
      BY <3>1, DistinctAppend, MembersOfAppend
    <3>. QED
      BY <2>4, <3>2 DEF m
  <2>6. Outstanding(queue'[k]) <= MaxOutstanding
    <3>1. Outstanding(queue'[k]) = Len(Append(s, r)) + Len(l) /\ Outstanding(queue[k]) = Len(s) + Len(l)
          /\ Len(s) \in Nat /\ Len(l) \in Nat
      BY <2>1, <2>3, OutstandingMeans, Zenon DEF s, l
    <3>2. \A x, y \in Nat : x + y < MaxOutstanding => (x + 1) + y <= MaxOutstanding
      BY SpoolAssumption
    <3>3. (Len(s) + 1) + Len(l) <= MaxOutstanding
      BY <1>9, <3>1, <3>2, Zenon DEF k
    <3>. QED
      BY <2>2, <3>1, <3>3, Zenon
  <2>7. Shape'
    BY <1>1, <1>2, <2>3 DEF IInv, Shape
  <2>8. IoOK'
    <3>1. \A j \in Kinds : queue'[j].lease = queue[j].lease
      BY <2>3 DEF l
    <3>. QED
      BY <1>1, <1>2, <1>5, <3>1, IoFrame DEF IInv
  <2>9. QueueOK'
    <3>1. \A j \in Kinds \ {k} : /\ queue'[j] = queue[j] /\ pump'[j] = pump[j]
                                 /\ \A q \in ToSet(Line(j)) : request'[q] = request[q]
      <4>1. \A j \in Kinds : \A q \in ToSet(Line(j)) : q \in Records /\ q # r
        BY <1>6, QueueAt
      <4>. QED
        BY <1>1, <1>2, <2>3, <4>1
    <3>2. /\ queue'[k].state # "closed" /\ Len(queue'[k].lease) <= MaxBatch
          /\ queue'[k].lease # <<>> <=> pump'[k] \in {"lock", "append"}
          /\ pump'[k] = "done" => queue'[k].state = "closed"
      BY <1>1, <1>9, <2>3, QueueAt DEF k, l
    <3>3. \A q \in ToSet(Line(k)') : request'[q] = "queued" /\ KindOf(q) = k
      <4>1. request'[r] = "queued" /\ KindOf(r) = k
        BY <1>1, <1>9 DEF k, IInv, Shape
      <4>2. \A q \in ToSet(Line(k)) : q \in Records \ {r} /\ request[q] = "queued" /\ KindOf(q) = k
        BY <1>1, <1>6, QueueAt DEF k
      <4>. QED
        BY <1>2, <2>5, <4>1, <4>2
    <3>4. k \in Kinds
      BY <1>1 DEF k
    <3>. QED
      BY <2>5, <2>6, <3>1, <3>2, <3>3, <3>4, QueueStep DEF IInv
  <2>10. \A q \in Records : Upstream(q)' => Upstream(q)
    <3>1. ASSUME NEW q \in Records, Upstream(q)', q # r PROVE Upstream(q)
      <4>1. request'[q] = request[q]
        BY <1>2, <3>1
      <4>2. \A j \in Kinds : queue'[j].lease = queue[j].lease /\ (q \in ToSet(queue'[j].pending) => q \in ToSet(queue[j].pending))
        BY <2>2, <2>3, <3>1 DEF s, l
      <4>3. \A t : Succeeded(t)' <=> Succeeded(t)
        BY <1>1 DEF Succeeded
      <4>4. KindOf(q) \in Kinds
        BY TasksApart
      <4>. QED
        BY <3>1, <4>1, <4>2, <4>3, <4>4 DEF Upstream
    <3>2. Upstream(r)
      BY <1>1 DEF Upstream
    <3>. QED
      BY <3>1, <3>2
  <2>11. \A q \in Records : request'[q] = "queued" => q \in ToSet(Line(KindOf(q)))' \/ Kept(q)
    <3>1. ASSUME NEW q \in Records, q # r, request'[q] = "queued" PROVE q \in ToSet(Line(KindOf(q))') \/ Kept(q)
      <4>1. q \in ToSet(Line(KindOf(q))) \/ Kept(q)
        BY <1>2, <3>1 DEF IInv, KeptOK
      <4>2. \A j \in Kinds : ToSet(Line(j)) \subseteq ToSet(Line(j)')
        BY <2>3, <2>5, LineFrame
      <4>. QED
        BY <4>1, <4>2, TasksApart
    <3>2. r \in ToSet(Line(KindOf(r))')
      BY <2>5 DEF k
    <3>. QED
      BY <3>1, <3>2
  <2>. QED
    BY <1>1, <1>3, <1>4, <1>7, <2>7, <2>8, <2>9, <2>10, <2>11, QuietTasks
<1>. QED
  BY <1>1, <1>8, <1>9

LEMMA CloseStep == ASSUME IInv, Close PROVE IInv'
<1>1. /\ UNCHANGED <<files, made, written, orphans, ambiguous, request, io, spool, nextKind>>
      /\ worker \in {"running", "failed"} /\ supervisor \notin {"none", "cancelled", "gone"}
      /\ queue' = [k \in Kinds |-> BeginClose(queue[k])] /\ worker' = "closing"
      /\ \/ worker = "running" /\ UNCHANGED <<pump, flusher, supervisor>>
         \/ /\ worker = "failed" /\ supervisor' = "running" /\ pump' = [k \in Kinds |-> "wait"]
            /\ flusher' = [IdleFlusher(<<>>) EXCEPT !.at = "idle"]
  BY DEF Close, Supervise, disk
<1>2. \A k \in Kinds : /\ queue'[k] = BeginClose(queue[k]) /\ queue'[k] \in Queues
                       /\ queue'[k].pending = queue[k].pending /\ queue'[k].lease = queue[k].lease
                       /\ Outstanding(queue'[k]) = Outstanding(queue[k])
                       /\ queue'[k].state = "closed" => Outstanding(queue[k]) = 0
                       /\ queue[k].state = "closed" => queue'[k].state = "closed"
  <2>. TAKE k \in Kinds
  <2>1. queue'[k] = BeginClose(queue[k]) /\ queue[k] \in Queues
    BY <1>1, QueueAt
  <2>2. queue[k].state = "closed" => Outstanding(queue[k]) = 0
    BY QueueAt
  <2>. QED
    BY <2>1, <2>2, BeginCloseMeans
<1>3. queue' \in [Kinds -> Queues]
  BY <1>1, <1>2
<1>4. ClosedOK'
  BY <1>1 DEF ClosedOK
<1>5. spool # "closed" /\ worker # "created"
  BY <1>1 DEF IInv, LifeOK
<1>6. CASE worker = "running" /\ UNCHANGED <<pump, flusher, supervisor>>
  <2>1. Shape'
    BY <1>1, <1>3, <1>6 DEF IInv, Shape
  <2>2. LifeOK'
    BY <1>1, <1>5, <1>6 DEF IInv, LifeOK, LockFree
  <2>3. \A k \in Kinds : pump'[k] = "done" => queue'[k].state = "closed"
    BY <1>2, <1>6, QueueAt
  <2>. QED
    BY <1>1, <1>2, <1>4, <1>6, <2>1, <2>2, <2>3, QuietQueues
<1>7. CASE /\ worker = "failed" /\ supervisor' = "running" /\ pump' = [k \in Kinds |-> "wait"]
           /\ flusher' = [IdleFlusher(<<>>) EXCEPT !.at = "idle"]
  <2>1. supervisor \in {"ended", "done"}
    BY <1>1, <1>7 DEF IInv, LifeOK, Shape, Supervisors
  <2>2. flusher.at \in FlusherOver /\ \A k \in Kinds : pump[k] \in PumpOver
    BY <2>1 DEF IInv, LifeOK, PumpOver
  <2>3. \A t \in Kinds \union {"flusher"} : io[t] = NoOp
    BY <2>2 DEF IInv, IoOK, Moving, FlusherOver, PumpOver
  <2>4. \A k \in Kinds : queue[k].lease = <<>> /\ pump'[k] = "wait"
    BY <1>7, <2>2, QueueAt DEF PumpOver
  <2>5. flusher'.at = "idle" /\ flusher' \in FlusherStates
    BY <1>7, Rests DEF FlusherAts
  <2>6. Shape'
    <3>1. pump' \in [Kinds -> PumpAts]
      BY <1>7 DEF PumpAts
    <3>. QED
      BY <1>1, <1>3, <1>7, <2>5, <3>1 DEF IInv, Shape, Supervisors
  <2>7. IoOK'
    BY <1>1, <2>3, TasksApart DEF IInv, IoOK, KindOf
  <2>8. \A k \in Kinds : Line(k)' = Line(k)
    BY <1>2 DEF Line
  <2>9. QueueOK'
    <3>1. ASSUME NEW k \in Kinds
          PROVE  /\ Outstanding(queue'[k]) <= MaxOutstanding /\ Len(queue'[k].lease) <= MaxBatch
                 /\ queue'[k].state = "closed" => Outstanding(queue'[k]) = 0
                 /\ queue'[k].lease # <<>> <=> pump'[k] \in {"lock", "append"}
                 /\ Distinct(Line(k)')
                 /\ \A q \in ToSet(Line(k)') : request'[q] = "queued" /\ KindOf(q) = k
                 /\ pump'[k] = "done" => queue'[k].state = "closed"
      BY <1>1, <1>2, <2>4, <2>8, QueueAt
    <3>. QED
      BY <3>1 DEF QueueOK, KindOf
  <2>10. LifeOK'
    BY <1>1, <1>5, <1>7, <2>4 DEF IInv, LifeOK, LockFree
  <2>11. ~Held' /\ ~Found' /\ flusher'.at \notin Releasing /\ flusher'.at \notin Committed
    BY <1>1, <2>3, <2>5, OpFacts DEF Held, Found, Holding, Moving, Releasing, Committed
  <2>12. \A r \in Records : Upstream(r)' => Upstream(r)
    BY <1>1, <1>2, TasksApart DEF Upstream, Succeeded
  <2>13. /\ \A r \in Records : request'[r] = "queued" => r \in ToSet(Line(KindOf(r)))' \/ Kept(r)
         /\ \A r \in Records : request'[r] = "stored" => Kept(r)
    BY <1>1, <2>8, TasksApart DEF IInv, KeptOK
  <2>. QED
    BY <1>1, <1>4, <2>6, <2>7, <2>9, <2>10, <2>11, <2>12, <2>13, QuietStep
<1>. QED
  BY <1>1, <1>6, <1>7

-----------------------------------------------------------------------------
(* The tasks ask for an operation of the spool.                              *)

\* The task t, which waits for the lock, is given it.
LEMMA Asks ==
  ASSUME IInv, UNCHANGED <<files, written, orphans, ambiguous, queue, flusher>>,
         NEW t \in Kinds \union Records, LockFree, NEW op \in AppendOps, op.out = "running",
         io' = [io EXCEPT ![t] = op],
         Shape', IoOK', QueueOK', LifeOK', ClosedOK',
         \A r \in Records : request'[r] = request[r] \/ (request[r] = "lock" /\ request'[r] = "append")
  PROVE  IInv'
<1>1. \A u \in Tasks : io[u] = NoOp
  BY DEF LockFree
<1>2. t \in Tasks /\ t # "flusher" /\ op # NoOp /\ io'[t] = op /\ \A u \in Tasks \ {t} : io'[u] = io[u]
  BY TasksApart, OpFacts DEF IInv, Shape, Ops
<1>3. \A u \in Tasks : ~Succeeded(u) /\ ~Succeeded(u)'
  BY <1>1, <1>2 DEF Succeeded
<1>4. \A r \in Records : Upstream(r)' => Upstream(r)
  BY <1>3, TasksApart DEF Upstream
<1>5. /\ \A r \in Records : request'[r] = "queued" => r \in ToSet(Line(KindOf(r)))' \/ Kept(r)
      /\ \A r \in Records : request'[r] = "stored" => Kept(r)
  <2>1. \A k \in Kinds : Line(k)' = Line(k)
    BY LineFrame
  <2>. QED
    BY <2>1, TasksApart DEF IInv, KeptOK
<1>6. io'["flusher"] = io["flusher"]
  BY <1>2, TasksApart
<1>. QED
  BY <1>3, <1>4, <1>5, <1>6, QuietTasks

LEMMA PumpAppendStep == ASSUME IInv, NEW k \in Kinds, PumpAppend(k) PROVE IInv'
<1>1. /\ UNCHANGED <<files, made, written, orphans, ambiguous, queue, request, flusher, worker, spool, supervisor, nextKind>>
      /\ pump[k] = "lock" /\ LockFree /\ spool = "running"
      /\ io' = [io EXCEPT ![k] = AppendOp(k, queue[k].lease)]
      /\ pump' = [pump EXCEPT ![k] = "append"]
  BY DEF PumpAppend, disk
<1>. DEFINE op == AppendOp(k, queue[k].lease)
<1>2. op \in Ops /\ op.do = "append" /\ op.out = "running" /\ op.kind = k /\ op.recs = queue[k].lease
  <2>1. queue[k].lease \in Seq(Records)
    BY QueueAt DEF Queues
  <2>. QED
    BY <2>1, NewOps
<1>3. op \in AppendOps /\ op # NoOp
  BY <1>2, OpFacts DEF IsMove
<1>. HIDE DEF op
<1>4. /\ \A u \in Tasks : io[u] = NoOp
      /\ io'[k] = op /\ \A u \in Tasks \ {k} : io'[u] = NoOp
      /\ pump'[k] = "append" /\ \A j \in Kinds \ {k} : pump'[j] = pump[j]
      /\ pump' \in [Kinds -> PumpAts] /\ io' \in [Tasks -> Ops \union {NoOp}]
  BY <1>1, <1>2, TasksApart DEF IInv, Shape, LockFree, op, PumpAts
<1>5. Shape'
  BY <1>1, <1>4 DEF IInv, Shape
<1>6. IoOK'
  BY <1>1, <1>2, <1>3, <1>4, TasksApart DEF IInv, IoOK
<1>7. QueueOK'
  <2>1. \A j \in Kinds : Line(j)' = Line(j)
    BY <1>1, LineFrame
  <2>2. /\ Outstanding(queue'[k]) <= MaxOutstanding /\ Len(queue'[k].lease) <= MaxBatch
        /\ queue'[k].state = "closed" => Outstanding(queue'[k]) = 0
        /\ queue'[k].lease # <<>> <=> pump'[k] \in {"lock", "append"}
        /\ Distinct(Line(k)')
        /\ \A q \in ToSet(Line(k)') : request'[q] = "queued" /\ KindOf(q) = k
        /\ pump'[k] = "done" => queue'[k].state = "closed"
    BY <1>1, <1>4, <2>1, QueueAt
  <2>. QED
    BY <1>1, <1>4, <2>2, QueueStep DEF IInv
<1>8. LifeOK'
  BY <1>1, <1>4 DEF IInv, LifeOK, PumpOver
<1>9. ClosedOK'
  BY <1>1, ClosedFrame DEF IInv
<1>. QED
  BY <1>1, <1>2, <1>3, <1>5, <1>6, <1>7, <1>8, <1>9, Asks DEF op

LEMMA EnqueueAppendStep == ASSUME IInv, NEW r \in Records, EnqueueAppend(r) PROVE IInv'
<1>. DEFINE op == AppendOp(KindOf(r), <<r>>)
<1>1. /\ UNCHANGED <<files, made, written, orphans, ambiguous, queue, pump, flusher, worker, spool, supervisor, nextKind>>
      /\ request[r] = "lock" /\ LockFree
      /\ \/ spool = "running" /\ io' = [io EXCEPT ![r] = op] /\ request' = [request EXCEPT ![r] = "append"]
         \/ spool # "running" /\ io' = io /\ request' = [request EXCEPT ![r] = "refused"]
  BY DEF EnqueueAppend, disk
<1>2. op \in Ops /\ op.do = "append" /\ op.out = "running" /\ op.kind = KindOf(r) /\ op.recs = <<r>>
  <2>. DEFINE s == <<r>>
              k == KindOf(r)
              o == AppendOp(k, s)
  <2>1. s \in Seq(Records) /\ k \in Kinds
    BY TasksApart
  <2>. HIDE DEF s, k
  <2>2. o \in Ops /\ o.do = "append" /\ o.out = "running" /\ o.kind = k /\ o.recs = s
    BY <2>1, NewAppend
  <2>. QED
    BY <2>2, Zenon DEF s, k
<1>3. op \in AppendOps /\ op # NoOp
  BY <1>2, OpFacts DEF IsMove
<1>. HIDE DEF op
<1>4. /\ \A q \in Records \ {r} : request'[q] = request[q]
      /\ request'[r] \in {"append", "refused"} /\ request' \in [Records -> Requests]
  BY <1>1 DEF IInv, Shape, Requests
<1>5. \A u \in Tasks : io[u] = NoOp
  BY <1>1 DEF LockFree
<1>6. \A k \in Kinds : Line(k)' = Line(k) /\ \A q \in ToSet(Line(k)) : q \in Records /\ request'[q] = request[q]
  <2>1. \A k \in Kinds : r \notin ToSet(Line(k))
    BY <1>1, QueueAt
  <2>. QED
    BY <1>1, <1>4, <2>1, QueueAt, LineFrame
<1>7. QueueOK'
  <2>1. ASSUME NEW k \in Kinds
        PROVE  /\ Outstanding(queue'[k]) <= MaxOutstanding /\ Len(queue'[k].lease) <= MaxBatch
               /\ queue'[k].state = "closed" => Outstanding(queue'[k]) = 0
               /\ queue'[k].lease # <<>> <=> pump'[k] \in {"lock", "append"}
               /\ Distinct(Line(k)')
               /\ \A q \in ToSet(Line(k)') : request'[q] = "queued" /\ KindOf(q) = k
               /\ pump'[k] = "done" => queue'[k].state = "closed"
    BY <1>1, <1>6, QueueAt
  <2>. QED
    BY <2>1 DEF QueueOK, KindOf
<1>8. ClosedOK'
  BY <1>1, ClosedFrame DEF IInv
<1>9. CASE spool = "running" /\ io' = [io EXCEPT ![r] = op] /\ request' = [request EXCEPT ![r] = "append"]
  <2>1. /\ io'[r] = op /\ \A u \in Tasks \ {r} : io'[u] = NoOp
        /\ io' \in [Tasks -> Ops \union {NoOp}] /\ request'[r] = "append"
    BY <1>2, <1>4, <1>5, <1>9, TasksApart DEF IInv, Shape
  <2>2. Shape'
    BY <1>1, <1>4, <2>1 DEF IInv, Shape
  <2>3. IoOK'
    BY <1>1, <1>2, <1>3, <2>1, TasksApart DEF IInv, IoOK, KindOf
  <2>4. LifeOK'
    BY <1>1, <1>9 DEF IInv, LifeOK
  <2>5. \A q \in Records : request'[q] = request[q] \/ (request[q] = "lock" /\ request'[q] = "append")
    BY <1>1, <1>4, <2>1
  <2>. QED
    BY <1>1, <1>2, <1>3, <1>7, <1>8, <1>9, <2>2, <2>3, <2>4, <2>5, Asks
<1>10. CASE io' = io /\ request' = [request EXCEPT ![r] = "refused"]
  <2>1. request'[r] = "refused"
    BY <1>10 DEF IInv, Shape
  <2>2. Shape'
    BY <1>1, <1>4, <1>10 DEF IInv, Shape
  <2>3. IoOK'
    BY <1>1, <1>5, <1>10, TasksApart DEF IInv, IoOK
  <2>4. LifeOK'
    BY <1>1, <1>10 DEF IInv, LifeOK, LockFree
  <2>5. \A q \in Records : Upstream(q)' => Upstream(q)
    BY <1>1, <1>4, <1>10, <2>1 DEF Upstream, Succeeded, KindOf
  <2>6. /\ \A q \in Records : request'[q] = "queued" => q \in ToSet(Line(KindOf(q)))' \/ Kept(q)
        /\ \A q \in Records : request'[q] = "stored" => Kept(q)
    BY <1>4, <1>6, TasksApart DEF IInv, KeptOK
  <2>. QED
    BY <1>1, <1>7, <1>8, <1>10, <2>2, <2>3, <2>4, <2>5, <2>6, QuietTasks
<1>. QED
  BY <1>1, <1>9, <1>10

LEMMA FlushScanStep == ASSUME IInv, FlushScan PROVE IInv'
<1>. DEFINE op == LeaseOp(Head(flusher.todo))
<1>1. /\ UNCHANGED <<files, made, written, orphans, ambiguous, queue, pump, request, worker, spool, supervisor, nextKind>>
      /\ flusher.at = "scan" /\ LockFree
      /\ \/ /\ spool = "running" /\ io' = [io EXCEPT !["flusher"] = op]
            /\ flusher' = [flusher EXCEPT !.at = "scanning"]
         \/ io' = io /\ flusher' = [flusher EXCEPT !.at = "failed"]
  BY DEF FlushScan, FlusherAt, disk
<1>2. flusher \in FlusherStates /\ flusher.todo \in Seq(Kinds) /\ flusher.todo # <<>>
  BY <1>1 DEF IInv, Shape, FlusherStates
<1>3. op \in Ops /\ op.do = "lease" /\ op.out = "running" /\ op.id = 0
  <2>1. Head(flusher.todo) \in Kinds
    BY <1>2, HeadTailProperties
  <2>. QED
    BY <2>1, NewOps DEF LeaseOp
<1>. HIDE DEF op
<1>4. /\ flusher'.at \in {"scanning", "failed"} /\ flusher' \in FlusherStates
      /\ flusher'.todo = flusher.todo
  <2>1. {"scanning", "failed"} \subseteq FlusherAts
    BY DEF FlusherAts, FlusherOver
  <2>2. CASE flusher' = [flusher EXCEPT !.at = "scanning"]
    BY <1>2, <2>1, <2>2, FlusherMoves
  <2>3. CASE flusher' = [flusher EXCEPT !.at = "failed"]
    BY <1>2, <2>1, <2>3, FlusherMoves
  <2>. QED
    BY <1>1, <2>2, <2>3
<1>5. \A u \in Tasks : io[u] = NoOp
  BY <1>1 DEF LockFree
<1>6. QueueOK' /\ ClosedOK'
  BY <1>1, QueueFrame, ClosedFrame DEF IInv
<1>7. supervisor \notin {"stopping", "cancelled", "ended", "done"} /\ worker # "created"
  BY <1>1 DEF IInv, LifeOK, FlusherOver
<1>8. /\ io' \in [Tasks -> Ops \union {NoOp}] /\ \A t \in Tasks \ {"flusher"} : io'[t] = NoOp
      /\ io'["flusher"] \in {op, NoOp}
  BY <1>1, <1>3, <1>5, TasksApart DEF IInv, Shape
<1>9. Shape'
  BY <1>1, <1>2, <1>4, <1>8 DEF IInv, Shape
<1>10. IoOK'
  <2>1. io'["flusher"] # NoOp => flusher'.at = "scanning" /\ io'["flusher"] = op
    <3>1. CASE flusher' = [flusher EXCEPT !.at = "scanning"]
      BY <1>2, <1>8, <3>1, FlusherMoves DEF FlusherAts
    <3>2. CASE io' = io
      BY <1>5, <3>2, TasksApart
    <3>. QED
      BY <1>1, <3>1, <3>2
  <2>. QED
    BY <1>3, <1>8, <2>1, TasksApart DEF IoOK
<1>11. LifeOK'
  <2>1. spool = "closed" => io' = io
    BY <1>1
  <2>2. spool # "closed" \/ LockFree'
    BY <1>1, <2>1 DEF LockFree
  <2>. QED
    BY <1>1, <1>7, <2>2 DEF IInv, LifeOK
<1>12. ~Held' /\ ~Found' /\ flusher'.at \notin Releasing /\ flusher'.at \notin Committed
  BY <1>3, <1>4, <1>8, OpFacts DEF Held, Found, Holding, Moving, Releasing, Committed
<1>13. \A t \in Tasks : ~Succeeded(t) /\ ~Succeeded(t)'
  BY <1>3, <1>5, <1>8 DEF Succeeded
<1>14. \A r \in Records : Upstream(r)' => Upstream(r)
  BY <1>1, <1>13, TasksApart DEF Upstream
<1>. QED
  BY <1>1, <1>6, <1>9, <1>10, <1>11, <1>12, <1>13, <1>14, KeptRests, QuietStep DEF IInv

LEMMA FlushMoveStep == ASSUME IInv, FlushMove PROVE IInv'
<1>. DEFINE d == IF flusher.at = "release_cancel" THEN "release" ELSE flusher.at
            op == MoveOp(d, flusher.id)
<1>1. /\ UNCHANGED <<files, made, written, orphans, ambiguous, queue, pump, request, worker, spool, supervisor, nextKind, flusher>>
      /\ flusher.at \in Moving /\ LockFree /\ spool = "running"
      /\ io' = [io EXCEPT !["flusher"] = op]
  BY DEF FlushMove, Moving, disk
<1>2. op \in Ops /\ op.do = d /\ op.out = "running" /\ op.id = flusher.id
  <2>1. flusher.id \in Nat /\ d \in {"ack", "release", "mark"}
    BY <1>1 DEF IInv, Shape, FlusherStates, Moving
  <2>. QED
    BY <2>1, NewOps
<1>3. op.do # "lease"
  BY <1>1, <1>2 DEF Moving
<1>. HIDE DEF op
<1>4. \A u \in Tasks : io[u] = NoOp
  BY <1>1 DEF LockFree
<1>5. QueueOK' /\ ClosedOK'
  BY <1>1, QueueFrame, ClosedFrame DEF IInv
<1>6. /\ io' \in [Tasks -> Ops \union {NoOp}] /\ \A t \in Tasks \ {"flusher"} : io'[t] = NoOp
      /\ io'["flusher"] = op
  BY <1>1, <1>2, <1>4, TasksApart DEF IInv, Shape
<1>7. Shape'
  BY <1>1, <1>6 DEF IInv, Shape
<1>8. IoOK'
  BY <1>1, <1>2, <1>6, TasksApart DEF IInv, IoOK
<1>9. LifeOK'
  BY <1>1 DEF IInv, LifeOK
<1>10. Held /\ ~Found'
  BY <1>1, <1>3, <1>4, <1>6, TasksApart DEF Held, Found, Holding
<1>11. \A t \in Tasks : ~Succeeded(t) /\ ~Succeeded(t)'
  BY <1>2, <1>4, <1>6 DEF Succeeded
<1>12. \A r \in Records : Upstream(r)' => Upstream(r)
  BY <1>1, <1>11, TasksApart DEF Upstream
<1>. QED
  BY <1>1, <1>5, <1>7, <1>8, <1>9, <1>10, <1>11, <1>12, KeptRests, QuietStep DEF IInv

-----------------------------------------------------------------------------
(* The tasks learn how their operation ended.                                *)

\* An operation that ended frees the lock.
LEMMA IoEnds ==
  ASSUME Shape, IoOK, NEW t \in Tasks, io[t] # NoOp, io' = [io EXCEPT ![t] = NoOp]
  PROVE  /\ io' \in [Tasks -> Ops \union {NoOp}] /\ \A u \in Tasks : io'[u] = NoOp
         /\ \A u \in Tasks \ {t} : io[u] = NoOp
         /\ LockFree' /\ ~LockFree /\ ~Found' /\ \A u \in Tasks : ~Succeeded(u)'
<1>1. \A u \in Tasks \ {t} : io[u] = NoOp
  BY DEF IoOK
<1>2. io' \in [Tasks -> Ops \union {NoOp}] /\ io'[t] = NoOp /\ \A u \in Tasks \ {t} : io'[u] = io[u]
  BY DEF Shape
<1>3. \A u \in Tasks : io'[u] = NoOp
  BY <1>1, <1>2
<1>4. ~Found' /\ \A u \in Tasks : ~Succeeded(u)'
  BY <1>3, TasksApart, OpFacts DEF Found, Succeeded
<1>. QED
  BY <1>1, <1>2, <1>3, <1>4 DEF LockFree

LEMMA PumpAppendedStep == ASSUME IInv, NEW k \in Kinds, PumpAppended(k) PROVE IInv'
<1>1. /\ UNCHANGED <<files, made, written, orphans, ambiguous, request, flusher, worker, spool, supervisor, nextKind>>
      /\ pump[k] = "append" /\ io[k] # NoOp /\ io[k].out = "ok"
      /\ queue' = [queue EXCEPT ![k] = Acknowledge(queue[k])]
      /\ io' = [io EXCEPT ![k] = NoOp]
      /\ pump' = [pump EXCEPT ![k] = "wait"]
  BY DEF PumpAppended, Ended, disk
<1>. DEFINE q == Acknowledge(queue[k])
<1>2. /\ q \in Queues /\ q.pending = queue[k].pending /\ q.lease = <<>>
      /\ q.state = "closed" => queue[k].state = "closed" \/ queue[k].pending = <<>>
      /\ Outstanding(q) = Len(queue[k].pending)
  BY QueueAt, AcknowledgeMeans
<1>. HIDE DEF q
<1>3. /\ queue'[k] = q /\ pump'[k] = "wait" /\ \A j \in Kinds \ {k} : queue'[j] = queue[j] /\ pump'[j] = pump[j]
      /\ queue' \in [Kinds -> Queues] /\ pump' \in [Kinds -> PumpAts]
  BY <1>1, <1>2, QueueAt DEF q, PumpAts
<1>4. queue[k].pending \in Seq(Records) /\ queue[k].lease \in Seq(Records) /\ queue[k].lease # <<>>
  BY <1>1, QueueAt DEF Queues
<1>5. Line(k)' = queue[k].pending
  <2>1. <<>> \o queue[k].pending = queue[k].pending
    BY <1>4, Empty
  <2>. QED
    BY <1>2, <1>3, <2>1, Zenon DEF Line
<1>6. /\ io' \in [Tasks -> Ops \union {NoOp}] /\ \A u \in Tasks : io'[u] = NoOp
      /\ LockFree' /\ ~LockFree /\ \A u \in Tasks : ~Succeeded(u)'
      /\ \A u \in Tasks \ {k} : io[u] = NoOp
  BY <1>1, IoEnds, TasksApart DEF IInv
<1>7. Shape'
  BY <1>1, <1>3, <1>6 DEF IInv, Shape
<1>8. IoOK'
  BY <1>6, TasksApart DEF IoOK
<1>9. QueueOK'
  <2>1. Distinct(Line(k)')
    BY <1>4, <1>5, QueueAt, DistinctParts DEF Line
  <2>2. Outstanding(queue'[k]) <= MaxOutstanding
    <3>1. /\ Outstanding(queue[k]) = Len(queue[k].pending) + Len(queue[k].lease)
          /\ Len(queue[k].pending) \in Nat /\ Len(queue[k].lease) \in Nat
      BY QueueAt, OutstandingMeans, Zenon
    <3>2. \A m, n \in Nat : m + n <= MaxOutstanding => m <= MaxOutstanding
      BY SpoolAssumption
    <3>3. Outstanding(queue[k]) <= MaxOutstanding
      BY QueueAt
    <3>4. Outstanding(queue'[k]) = Len(queue[k].pending)
      BY <1>2, <1>3, Zenon
    <3>. QED
      BY <3>1, <3>2, <3>3, <3>4, Zenon
  <2>3. queue'[k].state = "closed" => Outstanding(queue'[k]) = 0
    <3>1. queue[k].state # "closed"
      BY <1>4, QueueAt, OutstandingMeans
    <3>2. queue[k].pending = <<>> => Outstanding(q) = 0
      BY <1>2, Empty, Zenon
    <3>. QED
      BY <1>2, <1>3, <3>1, <3>2
  <2>4. Len(queue'[k].lease) <= MaxBatch /\ queue'[k].lease = <<>>
    BY <1>2, <1>3, Empty, SpoolAssumption
  <2>5. \A r \in ToSet(Line(k)') : request'[r] = "queued" /\ KindOf(r) = k
    <3>1. \A r \in ToSet(queue[k].pending) : r \in ToSet(Line(k))
      BY QueueAt
    <3>. QED
      BY <1>1, <1>5, <3>1, QueueAt
  <2>. QED
    BY <1>1, <1>3, <2>1, <2>2, <2>3, <2>4, <2>5, QueueStep DEF IInv
<1>10. LifeOK'
  BY <1>1, <1>3, <1>6 DEF IInv, LifeOK, PumpOver
<1>11. ClosedOK'
  BY <1>1, ClosedFrame DEF IInv
<1>12. \A r \in Records : Upstream(r)' => Upstream(r)
  <2>1. ToSet(<<>>) = {}
    BY Empty, MembersOfSeq
  <2>2. ASSUME NEW r \in Records, Upstream(r)' PROVE Upstream(r)
    <3>1. CASE KindOf(r) = k
      <4>1. ToSet(queue'[k].lease) = {} /\ queue'[k].pending = queue[k].pending
        BY <1>2, <1>3, <2>1, Zenon
      <4>2. io[r] = NoOp
        BY <1>6, TasksApart
      <4>. QED
        BY <1>1, <2>2, <3>1, <4>1, <4>2 DEF Upstream, Succeeded
    <3>2. CASE KindOf(r) # k
      <4>1. queue'[KindOf(r)] = queue[KindOf(r)] /\ io[r] = NoOp /\ io[KindOf(r)] = NoOp
        BY <1>3, <1>6, <3>2, TasksApart
      <4>. QED
        BY <1>1, <2>2, <4>1 DEF Upstream, Succeeded
    <3>. QED
      BY <3>1, <3>2
  <2>. QED
    BY <2>2
<1>13. \A r \in Records : request'[r] = "queued" => r \in ToSet(Line(KindOf(r)))' \/ Kept(r)
  <2>1. ASSUME NEW r \in Records, request[r] = "queued", r \in ToSet(Line(KindOf(r))), KindOf(r) = k
        PROVE  r \in ToSet(Line(k)') \/ Kept(r)
    <3>1. CASE r \in ToSet(queue[k].lease)
      BY <1>1, <3>1, QueueAt, TasksApart DEF IInv, KeptOK, Succeeded
    <3>2. CASE r \in ToSet(queue[k].pending)
      BY <1>5, <3>2
    <3>. QED
      BY <2>1, <3>1, <3>2, QueueAt
  <2>2. \A j \in Kinds \ {k} : Line(j)' = Line(j)
    BY <1>3, LineFrame
  <2>. QED
    BY <1>1, <2>1, <2>2, TasksApart DEF IInv, KeptOK
<1>14. \A r \in Records : request'[r] = "stored" => Kept(r)
  BY <1>1 DEF IInv, KeptOK
<1>15. io'["flusher"] = io["flusher"]
  BY <1>6, TasksApart
<1>. QED
  BY <1>1, <1>6, <1>7, <1>8, <1>9, <1>10, <1>11, <1>12, <1>13, <1>14, <1>15, QuietTasks

LEMMA EnqueuedStep == ASSUME IInv, NEW r \in Records, Enqueued(r) PROVE IInv'
<1>1. /\ UNCHANGED <<files, made, written, orphans, ambiguous, queue, pump, flusher, worker, spool, supervisor, nextKind>>
      /\ request[r] = "append" /\ io[r] # NoOp
      /\ \/ io[r].out = "ok" /\ request' = [request EXCEPT ![r] = "stored"]
         \/ request' = [request EXCEPT ![r] = "refused"]
      /\ io' = [io EXCEPT ![r] = NoOp]
  BY DEF Enqueued, Ended, disk
<1>2. /\ \A q \in Records \ {r} : request'[q] = request[q]
      /\ request'[r] \in {"stored", "refused"} /\ request' \in [Records -> Requests]
      /\ request'[r] = "stored" => io[r].out = "ok"
  BY <1>1 DEF IInv, Shape, Requests
<1>3. /\ io' \in [Tasks -> Ops \union {NoOp}] /\ \A u \in Tasks : io'[u] = NoOp
      /\ LockFree' /\ ~LockFree /\ \A u \in Tasks : ~Succeeded(u)'
      /\ \A u \in Tasks \ {r} : io[u] = NoOp
  BY <1>1, IoEnds, TasksApart DEF IInv
<1>4. \A k \in Kinds : Line(k)' = Line(k) /\ r \notin ToSet(Line(k)) /\ \A q \in ToSet(Line(k)) : q \in Records /\ request'[q] = request[q]
  <2>1. \A k \in Kinds : r \notin ToSet(Line(k))
    BY <1>1, QueueAt
  <2>. QED
    BY <1>1, <1>2, <2>1, QueueAt, LineFrame
<1>5. QueueOK'
  <2>1. ASSUME NEW k \in Kinds
        PROVE  /\ Outstanding(queue'[k]) <= MaxOutstanding /\ Len(queue'[k].lease) <= MaxBatch
               /\ queue'[k].state = "closed" => Outstanding(queue'[k]) = 0
               /\ queue'[k].lease # <<>> <=> pump'[k] \in {"lock", "append"}
               /\ Distinct(Line(k)')
               /\ \A q \in ToSet(Line(k)') : request'[q] = "queued" /\ KindOf(q) = k
               /\ pump'[k] = "done" => queue'[k].state = "closed"
    BY <1>1, <1>4, QueueAt
  <2>. QED
    BY <2>1 DEF QueueOK, KindOf
<1>6. Shape'
  BY <1>1, <1>2, <1>3 DEF IInv, Shape
<1>7. IoOK'
  BY <1>3, TasksApart DEF IoOK
<1>8. LifeOK'
  BY <1>1, <1>3 DEF IInv, LifeOK
<1>9. ClosedOK'
  BY <1>1, ClosedFrame DEF IInv
<1>10. \A q \in Records : Upstream(q)' => Upstream(q)
  <2>1. ~Upstream(r)'
    <3>1. r \notin ToSet(queue[KindOf(r)].lease) /\ r \notin ToSet(queue[KindOf(r)].pending)
      BY <1>4, QueueAt, TasksApart
    <3>. QED
      BY <1>1, <1>2, <3>1 DEF Upstream, KindOf
  <2>2. ASSUME NEW q \in Records \ {r}, Upstream(q)' PROVE Upstream(q)
    <3>1. ~Succeeded(q) /\ ~Succeeded(KindOf(q))
      BY <1>3, TasksApart DEF Succeeded
    <3>. QED
      BY <1>1, <1>2, <2>2, <3>1 DEF Upstream, KindOf
  <2>. QED
    BY <2>1, <2>2
<1>11. \A q \in Records : request'[q] = "queued" => q \in ToSet(Line(KindOf(q)))' \/ Kept(q)
  BY <1>2, <1>4, TasksApart DEF IInv, KeptOK
<1>12. \A q \in Records : request'[q] = "stored" => Kept(q)
  <2>1. request'[r] = "stored" => Kept(r)
    <3>1. ASSUME request'[r] = "stored" PROVE Kept(r)
      <4>1. Succeeded(r) /\ io[r].do = "append" /\ io[r].recs = <<r>>
        BY <1>1, <1>2, <3>1 DEF Succeeded, IInv, IoOK
      <4>2. r \in ToSet(<<r>>)
        BY DEF ToSet
      <4>. QED
        BY <4>1, <4>2, TasksApart DEF IInv, KeptOK
    <3>. QED
      BY <3>1
  <2>. QED
    BY <1>2, <2>1 DEF IInv, KeptOK
<1>13. io'["flusher"] = io["flusher"]
  BY <1>3, TasksApart
<1>. QED
  BY <1>1, <1>3, <1>5, <1>6, <1>7, <1>8, <1>9, <1>10, <1>11, <1>12, <1>13, QuietTasks

\* The flusher learns how its operation ended.
LEMMA FlusherLearns ==
  ASSUME IInv, UNCHANGED <<files, made, written, orphans, ambiguous, queue, pump, request>>,
         io["flusher"] # NoOp, io["flusher"].out # "running", io' = [io EXCEPT !["flusher"] = NoOp],
         Shape', LifeOK', ClosedOK',
         flusher'.at \in Holding => /\ Found /\ flusher'.at = "write" /\ flusher'.id = io["flusher"].id
                                    /\ flusher'.recs = files[flusher'.id].recs
  PROVE  IInv'
<1>1. /\ \A u \in Tasks : io'[u] = NoOp
      /\ LockFree' /\ ~LockFree /\ ~Found' /\ \A u \in Tasks : ~Succeeded(u)'
      /\ \A u \in Tasks \ {"flusher"} : io[u] = NoOp
  BY IoEnds, TasksApart DEF IInv
<1>2. IoOK'
  BY <1>1, TasksApart DEF IoOK
<1>3. QueueOK'
  BY QueueFrame DEF IInv
<1>4. \A r \in Records : Upstream(r)' => Upstream(r)
  <2>1. \A t \in Kinds \union Records : ~Succeeded(t)
    BY <1>1, TasksApart DEF Succeeded
  <2>. QED
    BY <2>1, TasksApart DEF Upstream
<1>5. /\ Held' => Found /\ flusher'.id = io["flusher"].id /\ flusher'.recs = files[flusher'.id].recs
      /\ flusher'.at \in Releasing => Found /\ flusher'.id = io["flusher"].id
      /\ flusher'.at \notin Committed
  BY DEF Held, Holding, Releasing, Committed
<1>. QED
  BY <1>1, <1>2, <1>3, <1>4, <1>5, KeptRests, QuietStep DEF IInv

LEMMA FlushScannedStep == ASSUME IInv, FlushScanned PROVE IInv'
<1>. DEFINE op == io["flusher"]
            rest == Tail(flusher.todo)
            next == CASE rest # <<>> -> "scan" [] rest = <<>> /\ ingestDone -> "done" [] OTHER -> "idle"
<1>1. /\ UNCHANGED <<files, made, written, orphans, ambiguous, queue, pump, request, worker, spool, supervisor>>
      /\ flusher.at = "scanning" /\ op # NoOp /\ op.out # "running" /\ io' = [io EXCEPT !["flusher"] = NoOp]
  BY DEF FlushScanned, Ended, disk
<1>2. \/ flusher' = [flusher EXCEPT !.at = "failed"] /\ nextKind' = nextKind
      \/ /\ op.out = "ok" /\ op.id # 0 /\ nextKind' = Other(op.kind)
         /\ flusher' = [at |-> "write", todo |-> <<>>, id |-> op.id, recs |-> files[op.id].recs]
      \/ flusher' = [IdleFlusher(rest) EXCEPT !.at = next] /\ nextKind' = nextKind
  BY DEF FlushScanned, FlusherAt
<1>3. op.do = "lease" /\ op \in Ops /\ op.kind \in Kinds /\ op.id \in Nat
  <2>1. op.do = "lease" /\ op \in Ops
    BY <1>1, TasksApart DEF IInv, IoOK, Shape, Moving
  <2>. QED
    BY <2>1, OpFacts DEF IsMove
<1>. HIDE DEF op
<1>4. /\ io' \in [Tasks -> Ops \union {NoOp}] /\ LockFree' /\ ~LockFree
  BY <1>1, IoEnds, TasksApart DEF IInv, op
<1>5. flusher \in FlusherStates /\ flusher.todo \in Seq(Kinds) /\ flusher.todo # <<>> /\ nextKind \in Kinds
  BY <1>1 DEF IInv, Shape, FlusherStates
<1>6. /\ supervisor \notin {"stopping", "cancelled", "ended", "done"} /\ worker # "created"
      /\ spool # "closed" /\ worker # "closed"
  BY <1>1, <1>4 DEF IInv, LifeOK, FlusherOver
<1>7. ClosedOK'
  BY <1>1, <1>6 DEF ClosedOK
<1>8. LifeOK'
  BY <1>1, <1>6 DEF IInv, LifeOK
<1>9. CASE flusher' = [flusher EXCEPT !.at = "failed"] /\ nextKind' = nextKind
  <2>1. flusher'.at = "failed" /\ flusher' \in FlusherStates
    BY <1>5, <1>9, FlusherMoves DEF FlusherAts, FlusherOver
  <2>2. Shape'
    BY <1>1, <1>4, <1>5, <1>9, <2>1 DEF IInv, Shape
  <2>3. flusher'.at \notin Holding
    BY <2>1 DEF Holding, Moving, Releasing, Committed
  <2>. QED
    BY <1>1, <1>7, <1>8, <2>2, <2>3, FlusherLearns DEF op
<1>10. CASE /\ op.out = "ok" /\ op.id # 0 /\ nextKind' = Other(op.kind)
            /\ flusher' = [at |-> "write", todo |-> <<>>, id |-> op.id, recs |-> files[op.id].recs]
  <2>1. Found
    BY <1>3, <1>10 DEF Found, op
  <2>2. files[op.id].recs \in Seq(Records)
    <3>1. op.id \in DOMAIN files
      BY <2>1 DEF IInv, LeaseOK, Mine, At, op
    <3>. QED
      BY <3>1 DEF IInv, Shape, FileSet
  <2>3. flusher'.at = "write" /\ flusher'.id = op.id /\ flusher'.recs = files[op.id].recs /\ flusher' \in FlusherStates
    <3>1. <<>> \in Seq(Kinds)
      BY EmptySeq
    <3>. QED
      BY <1>3, <1>10, <2>2, <3>1 DEF FlusherStates, FlusherAts, Holding, Releasing
  <2>4. nextKind' \in Kinds
    BY <1>3, <1>10, TasksApart
  <2>5. Shape'
    BY <1>1, <1>4, <2>3, <2>4 DEF IInv, Shape
  <2>. QED
    BY <1>1, <1>7, <1>8, <2>1, <2>3, <2>5, FlusherLearns DEF op
<1>11. CASE flusher' = [IdleFlusher(rest) EXCEPT !.at = next] /\ nextKind' = nextKind
  <2>1. rest \in Seq(Kinds)
    BY <1>5, HeadTailProperties
  <2>2. next \in {"scan", "done", "idle"} /\ (next = "scan" => rest # <<>>)
    OBVIOUS
  <2>. HIDE DEF rest, next
  <2>3. flusher'.at = next /\ flusher'.todo = rest /\ flusher' \in FlusherStates
    <3>1. <<>> \in Seq(Records)
      BY Empty
    <3>2. next \in FlusherAts
      BY <2>2 DEF FlusherAts, FlusherOver
    <3>. QED
      BY <1>11, <2>1, <3>1, <3>2 DEF IdleFlusher, FlusherStates
  <2>4. Shape'
    BY <1>1, <1>4, <1>5, <1>11, <2>2, <2>3 DEF IInv, Shape
  <2>5. flusher'.at \notin Holding
    BY <2>2, <2>3 DEF Holding, Moving, Releasing, Committed
  <2>. QED
    BY <1>1, <1>7, <1>8, <2>4, <2>5, FlusherLearns DEF op
<1>. QED
  BY <1>2, <1>9, <1>10, <1>11

LEMMA FlushMovedStep == ASSUME IInv, FlushMoved PROVE IInv'
<1>1. /\ UNCHANGED <<files, made, written, orphans, ambiguous, queue, pump, request, worker, supervisor, nextKind>>
      /\ io["flusher"] # NoOp /\ io["flusher"].out # "running" /\ io' = [io EXCEPT !["flusher"] = NoOp]
      /\ flusher.at \in Moving /\ spool' \in {spool, "result_unknown"}
  BY DEF FlushMoved, Ended, Moving, disk
<1>2. \/ flusher.at = "ack" /\ flusher' = IdleFlusher(BothKinds)
      \/ flusher.at = "release" /\ flusher' = [flusher EXCEPT !.at = IF closing THEN "failed" ELSE "retry"]
      \/ flusher.at = "release_cancel" /\ flusher' = [flusher EXCEPT !.at = "cancelled"]
      \/ flusher.at = "mark" /\ flusher' = [flusher EXCEPT !.at = "failed_unknown"]
      \/ flusher.at \in {"ack", "release", "mark"} /\ flusher' = [flusher EXCEPT !.at = "failed"]
  BY DEF FlushMoved, FlusherAt
<1>3. /\ io' \in [Tasks -> Ops \union {NoOp}] /\ LockFree' /\ ~LockFree
  BY <1>1, IoEnds, TasksApart DEF IInv
<1>4. flusher \in FlusherStates /\ nextKind \in Kinds
  BY DEF IInv, Shape
<1>5. /\ flusher' \in FlusherStates /\ flusher'.at \in {"scan", "failed", "retry", "cancelled", "failed_unknown"}
      /\ flusher'.at = "scan" => flusher'.todo # <<>> /\ flusher.at = "ack"
      /\ flusher'.at = "retry" => flusher.at = "release"
  <2>1. {"failed", "retry", "cancelled", "failed_unknown"} \subseteq FlusherAts
    BY DEF FlusherAts, FlusherOver
  <2>2. CASE flusher.at = "ack" /\ flusher' = IdleFlusher(BothKinds)
    BY <1>4, <2>2, ScanBoth
  <2>3. CASE flusher.at = "release" /\ flusher' = [flusher EXCEPT !.at = IF closing THEN "failed" ELSE "retry"]
    <3>1. CASE closing
      BY <1>4, <2>1, <2>3, <3>1, FlusherMoves
    <3>2. CASE ~closing
      BY <1>4, <2>1, <2>3, <3>2, FlusherMoves
    <3>. QED
      BY <3>1, <3>2
  <2>4. ASSUME NEW at \in {"failed", "cancelled", "failed_unknown"}, flusher' = [flusher EXCEPT !.at = at]
        PROVE  flusher'.at = at /\ flusher' \in FlusherStates
    BY <1>4, <2>1, <2>4, FlusherMoves
  <2>. QED
    BY <1>2, <2>2, <2>3, <2>4
<1>6. /\ supervisor \notin {"ended", "done"} /\ worker # "created"
      /\ spool # "closed" /\ worker # "closed"
  BY <1>1, <1>3 DEF IInv, LifeOK, FlusherOver, Moving
<1>7. ClosedOK'
  BY <1>1, <1>6 DEF ClosedOK
<1>8. LifeOK'
  <2>1. supervisor \in {"stopping", "cancelled"} => flusher'.at \in FlusherOver
    BY <1>5 DEF IInv, LifeOK, FlusherOver
  <2>. QED
    BY <1>1, <1>6, <2>1 DEF IInv, LifeOK
<1>9. Shape'
  BY <1>1, <1>3, <1>5 DEF IInv, Shape
<1>10. flusher'.at \notin Holding
  BY <1>5 DEF Holding, Moving, Releasing, Committed
<1>. QED
  BY <1>1, <1>7, <1>8, <1>9, <1>10, FlusherLearns

-----------------------------------------------------------------------------
(* The threads end.                                                          *)

\* What a thread may do to the files, and what its task is told.
Creates(op, res) ==
  /\ op.do = "append" /\ made' = made + 1 /\ made + 1 \in 0..MaxAppends /\ made + 1 \notin DOMAIN files
  /\ DOMAIN files' = DOMAIN files \union {made + 1}
  /\ files'[made + 1] = [stage |-> "ready", kind |-> op.kind, recs |-> op.recs]
  /\ \A i \in DOMAIN files : files'[i] = files[i]
  /\ files' \in [DOMAIN files' -> FileSet]
  /\ \/ res.out = "ok" /\ ambiguous' = ambiguous
     \/ res.out = "failed" /\ ambiguous' = ambiguous \union ToSet(op.recs)
LeavesAlone(op, res) ==
  /\ UNCHANGED <<files, made, ambiguous>>
  /\ res.out = "ok" => op.do = "lease" /\ res.id = op.id
Changes(i, op, res) ==
  /\ i \in DOMAIN files /\ UNCHANGED <<made, ambiguous>>
  /\ DOMAIN files \ {i} \subseteq DOMAIN files' /\ DOMAIN files' \subseteq DOMAIN files
  /\ files' \in [DOMAIN files' -> FileSet]
  /\ \A j \in DOMAIN files \ {i} : files'[j] = files[j]
  /\ i \in DOMAIN files' => files'[i].recs = files[i].recs /\ files'[i].kind = files[i].kind
Takes(i, op, res) ==
  /\ op.do = "lease" /\ i \in At("ready") /\ i \in DOMAIN files' /\ files'[i].stage = "leased"
  /\ Changes(i, op, res)
  /\ res.out = "ok" => res.id = i
Moves(i, op, res) ==
  /\ IsMove(op) /\ i = op.id /\ i \in At("leased")
  /\ Changes(i, op, res)
  /\ i \in DOMAIN files' => files'[i].stage = IF op.do = "mark" THEN "unknown" ELSE "ready"
  /\ i \in DOMAIN files' <=> op.do # "ack"

LEMMA AppendMeans ==
  ASSUME Shape, NEW op \in AppendOps, NEW res, AppendEffect(op, res)
  PROVE  /\ res \in Ops /\ res.do = op.do /\ res.kind = op.kind /\ res.recs = op.recs
         /\ res.out \in {"ok", "failed"}
         /\ Creates(op, res) \/ LeavesAlone(op, res)
<1>1. res \in {[op EXCEPT !.out = "ok"], [op EXCEPT !.out = "failed"]}
  BY DEF AppendEffect
<1>2. /\ res \in AppendOps /\ res \in Ops /\ res.do = op.do /\ res.kind = op.kind /\ res.recs = op.recs
      /\ res.out \in {"ok", "failed"}
  BY <1>1 DEF AppendOps, Outs, Ops
<1>3. CASE /\ made < MaxAppends /\ made' = made + 1
           /\ files' = [i \in DOMAIN files \union {made + 1} |->
                          IF i = made + 1 THEN [stage |-> "ready", kind |-> op.kind, recs |-> op.recs] ELSE files[i]]
           /\ \/ res.out = "ok" /\ ambiguous' = ambiguous
              \/ res.out = "failed" /\ ambiguous' = ambiguous \union ToSet(op.recs)
  <2>1. made \in Nat /\ made + 1 \in 0..MaxAppends /\ made + 1 \notin DOMAIN files
    BY <1>3, SpoolAssumption DEF Shape
  <2>. DEFINE n == made + 1
  <2>. HIDE DEF n
  <2>2. DOMAIN files' = DOMAIN files \union {n}
    BY <1>3 DEF n
  <2>3. files'[n] = [stage |-> "ready", kind |-> op.kind, recs |-> op.recs]
    BY <1>3 DEF n
  <2>4. \A i \in DOMAIN files : files'[i] = files[i]
    BY <1>3, <2>1 DEF n
  <2>5. files'[n] \in FileSet /\ \A i \in DOMAIN files : files[i] \in FileSet
    BY <2>3 DEF Shape, FileSet, AppendOps
  <2>6. files' \in [DOMAIN files' -> FileSet]
    BY <1>3, <2>2, <2>4, <2>5 DEF n
  <2>. QED
    BY <1>2, <1>3, <2>1, <2>2, <2>3, <2>4, <2>6 DEF Creates, n, AppendOps
<1>4. CASE UNCHANGED <<files, made, ambiguous>> /\ res.out = "failed"
  BY <1>2, <1>4 DEF LeavesAlone
<1>. QED
  BY <1>2, <1>3, <1>4 DEF AppendEffect, AppendOps

LEMMA StageMeans ==
  ASSUME Shape, NEW i \in DOMAIN files, NEW s \in {"ready", "leased", "unknown"}, SetStage(i, s)
  PROVE  /\ DOMAIN files' = DOMAIN files /\ files' \in [DOMAIN files' -> FileSet]
         /\ files'[i].stage = s /\ files'[i].recs = files[i].recs /\ files'[i].kind = files[i].kind
         /\ \A j \in DOMAIN files \ {i} : files'[j] = files[j]
<1>1. \A j \in DOMAIN files : files[j] \in FileSet
  BY DEF Shape
<1>2. files' = [files EXCEPT ![i] = [files[i] EXCEPT !.stage = s]] /\ files \in [DOMAIN files -> FileSet]
  BY DEF SetStage, Shape
<1>. DEFINE f == [files[i] EXCEPT !.stage = s]
<1>3. f \in FileSet /\ f.stage = s /\ f.recs = files[i].recs /\ f.kind = files[i].kind
  BY <1>1 DEF FileSet
<1>. HIDE DEF f
<1>. QED
  BY <1>2, <1>3 DEF f

LEMMA LeaseMeans ==
  ASSUME Shape, NEW op \in LeaseOps, NEW res, LeaseEffect(op, res)
  PROVE  /\ res \in Ops /\ res.do = op.do /\ res.kind = op.kind /\ res.out \in {"ok", "failed"}
         /\ LeavesAlone(op, res) \/ \E i \in DOMAIN files : Takes(i, op, res)
<1>1. CASE /\ files' = files
           /\ res \in {[op EXCEPT !.out = "ok"], [op EXCEPT !.out = "failed"]}
  <2>1. /\ res \in Ops /\ res.do = op.do /\ res.kind = op.kind /\ res.out \in {"ok", "failed"}
        /\ op.do = "lease" /\ res.id = op.id
    BY <1>1 DEF LeaseOps, Outs, Ops
  <2>. QED
    BY <1>1, <2>1 DEF LeavesAlone, LeaseEffect
<1>2. ASSUME Leasable(op.kind) # {}, SetStage(Min(Leasable(op.kind)), "leased"),
             res \in {[op EXCEPT !.out = "ok", !.id = Min(Leasable(op.kind))], [op EXCEPT !.out = "failed"]},
             UNCHANGED <<made, ambiguous>>
      PROVE  /\ res \in Ops /\ res.do = op.do /\ res.kind = op.kind /\ res.out \in {"ok", "failed"}
             /\ \E i \in DOMAIN files : Takes(i, op, res)
  <2>. DEFINE i == Min(Leasable(op.kind))
  <2>1. i \in Leasable(op.kind) /\ i \in Nat
    <3>1. Leasable(op.kind) \subseteq 0..made /\ made \in Nat
      BY DEF Leasable, At, Shape
    <3>. QED
      BY <1>2, <3>1, MinIsMember
  <2>. HIDE DEF i
  <2>2. i \in DOMAIN files /\ i \in At("ready")
    BY <2>1 DEF Leasable, At
  <2>3. /\ res \in Ops /\ res.do = op.do /\ res.kind = op.kind /\ res.out \in {"ok", "failed"}
        /\ op.do = "lease" /\ (res.out = "ok" => res.id = i)
    BY <1>2, <2>1 DEF LeaseOps, Outs, Ops, i
  <2>4. SetStage(i, "leased")
    BY <1>2 DEF i
  <2>5. Changes(i, op, res) /\ i \in DOMAIN files' /\ files'[i].stage = "leased"
    BY <1>2, <2>2, <2>4, StageMeans DEF Changes
  <2>. QED
    BY <2>2, <2>3, <2>5 DEF Takes
<1>. QED
  BY <1>1, <1>2 DEF LeaseEffect

LEMMA MoveMeans ==
  ASSUME Shape, NEW op \in MoveOps, NEW res, MoveEffect(op, res)
  PROVE  /\ res \in Ops /\ res.do = op.do /\ res.id = op.id /\ res.out \in {"ok", "failed"}
         /\ LeavesAlone(op, res) \/ Moves(op.id, op, res)
<1>1. res \in {[op EXCEPT !.out = "ok"], [op EXCEPT !.out = "failed"]} /\ UNCHANGED <<made, ambiguous>>
  BY DEF MoveEffect
<1>2. /\ res \in Ops /\ res.do = op.do /\ res.id = op.id /\ res.out \in {"ok", "failed"} /\ IsMove(op)
      /\ op.do \in {"ack", "release", "mark"}
  BY <1>1 DEF MoveOps, Outs, Ops, IsMove
<1>3. CASE files' = files /\ res = [op EXCEPT !.out = "failed"]
  BY <1>1, <1>2, <1>3 DEF LeavesAlone, MoveOps
<1>. DEFINE i == op.id
<1>4. CASE i \in At("leased") /\ op.do = "ack" /\ files' = [j \in DOMAIN files \ {i} |-> files[j]]
  <2>1. i \in DOMAIN files /\ files \in [DOMAIN files -> FileSet]
    BY <1>4 DEF At, Shape
  <2>2. DOMAIN files' = DOMAIN files \ {i} /\ \A j \in DOMAIN files \ {i} : files'[j] = files[j]
    BY <1>4
  <2>3. files' \in [DOMAIN files' -> FileSet]
    BY <1>4, <2>1, <2>2
  <2>. QED
    BY <1>1, <1>2, <1>4, <2>1, <2>2, <2>3 DEF Moves, Changes
<1>5. ASSUME NEW s \in {"ready", "unknown"}, i \in At("leased"), op.do # "ack", SetStage(i, s),
             s = IF op.do = "mark" THEN "unknown" ELSE "ready"
      PROVE  Moves(i, op, res)
  <2>1. i \in DOMAIN files
    BY <1>5 DEF At
  <2>2. Changes(i, op, res) /\ i \in DOMAIN files' /\ files'[i].stage = s
    BY <1>1, <1>5, <2>1, StageMeans DEF Changes
  <2>. QED
    BY <1>2, <1>5, <2>2 DEF Moves
<1>. QED
  BY <1>1, <1>2, <1>3, <1>4, <1>5 DEF MoveEffect

LEMMA EffectMeans ==
  ASSUME Shape, NEW op \in Ops, NEW res, Effect(op, res)
  PROVE  /\ res \in Ops /\ res.do = op.do /\ res.out \in {"ok", "failed"}
         /\ \/ /\ op.do = "append" /\ res.kind = op.kind /\ res.recs = op.recs
               /\ Creates(op, res) \/ LeavesAlone(op, res)
            \/ /\ op.do = "lease"
               /\ LeavesAlone(op, res) \/ \E i \in DOMAIN files : Takes(i, op, res)
            \/ /\ IsMove(op) /\ res.id = op.id
               /\ LeavesAlone(op, res) \/ Moves(op.id, op, res)
<1>1. CASE op.do = "append" /\ AppendEffect(op, res)
  <2>1. op \in AppendOps
    BY <1>1, OpFacts DEF IsMove
  <2>. QED
    BY <1>1, <2>1, AppendMeans
<1>2. CASE op.do = "lease" /\ LeaseEffect(op, res)
  <2>1. op \in LeaseOps
    BY <1>2, OpFacts DEF IsMove
  <2>. QED
    BY <1>2, <2>1, LeaseMeans
<1>3. CASE IsMove(op) /\ MoveEffect(op, res)
  <2>1. op \in MoveOps
    BY <1>3, OpFacts DEF IsMove
  <2>. QED
    BY <1>3, <2>1, MoveMeans
<1>. QED
  BY <1>1, <1>2, <1>3 DEF Effect, IsMove

\* Every operation that goes on without its task did so before the step.
OrphansStay ==
  /\ \A j \in 1..Len(orphans') : \E l \in 1..Len(orphans) : orphans'[j] = orphans[l]
  /\ \A i, j \in 1..Len(orphans') :
        IsMove(orphans'[i]) /\ IsMove(orphans'[j]) /\ orphans'[i].id = orphans'[j].id => i = j

\* At most the file c changes, and none is new.
LEMMA FilesShrink ==
  ASSUME IInv, UNCHANGED <<written, queue, pump, request, flusher, worker>>,
         ambiguous \subseteq ambiguous', OrphansStay,
         Shape', IoOK', LifeOK', NEW c,
         DOMAIN files' \subseteq DOMAIN files,
         \A i \in DOMAIN files' : files'[i].recs = files[i].recs /\ files'[i].kind = files[i].kind,
         \A i \in DOMAIN files \ {c} : i \in DOMAIN files' /\ files'[i] = files[i],
         \A i \in DOMAIN files \ DOMAIN files' : \A r \in ToSet(files[i].recs) : written[r] > 0,
         \A j \in 1..Len(orphans') : IsMove(orphans'[j]) => orphans'[j].id # c,
         Held' => Held /\ flusher.id # c,
         Found' => \/ Found /\ io'["flusher"].id = io["flusher"].id /\ io'["flusher"].id # c
                   \/ Mine(io["flusher"].id)',
         \A i \in DOMAIN files' : Replayable(i)' => Replayable(i),
         \A r \in Records : Upstream(r)' => Upstream(r),
         \A t \in Tasks : Succeeded(t)' /\ io'[t].do = "append" => io'[t] = io[t]
  PROVE  IInv'
<1>1. FileOK'
  BY DEF IInv, FileOK, KindOf
<1>2. \A i \in At("leased") : i # c => i \in At("leased")' /\ i \in DOMAIN files' /\ files'[i] = files[i]
  BY DEF At
<1>3. OrphansOK'
  <2>1. ASSUME NEW j \in 1..Len(orphans'), IsMove(orphans'[j]) PROVE orphans'[j].id \in At("leased")'
    BY <1>2, <2>1 DEF OrphansStay, IInv, OrphansOK
  <2>2. ASSUME NEW j \in 1..Len(orphans'), orphans'[j].do = "append"
        PROVE  /\ ToSet(orphans'[j].recs) \subseteq ambiguous' /\ orphans'[j].recs # <<>>
               /\ \A r \in ToSet(orphans'[j].recs) : KindOf(r) = orphans'[j].kind
    BY <2>2 DEF OrphansStay, IInv, OrphansOK
  <2>. QED
    BY <2>1, <2>2 DEF OrphansOK, OrphansStay, KindOf
<1>4. ASSUME NEW i, Mine(i), i # c PROVE Mine(i)'
  BY <1>2, <1>4 DEF Mine, OrphansStay
<1>5. LeaseOK'
  <2>1. ASSUME Held' PROVE Mine(flusher.id)' /\ flusher.recs = files'[flusher.id].recs
    <3>1. Mine(flusher.id) /\ flusher.recs = files[flusher.id].recs /\ flusher.id # c
      BY <2>1 DEF IInv, LeaseOK
    <3>. QED
      BY <1>2, <1>4, <3>1 DEF Mine
  <2>2. ASSUME Found' PROVE Mine(io["flusher"].id)'
    <3>1. CASE Found /\ io'["flusher"].id = io["flusher"].id /\ io'["flusher"].id # c
      <4>1. Mine(io["flusher"].id)
        BY <3>1 DEF IInv, LeaseOK
      <4>2. \A i : Mine(i) /\ i # c => Mine(i)'
        BY <1>4
      <4>. QED
        BY <3>1, <4>1, <4>2 DEF Mine
    <3>. QED
      BY <2>2, <3>1
  <2>. QED
    BY <2>1, <2>2 DEF LeaseOK
<1>6. \A i \in DOMAIN files' : \A r : Has(i, r)' <=> Has(i, r)
  BY DEF Has
<1>7. OnceOK'
  <2>. SUFFICES ASSUME NEW r \in Records \ ambiguous'
                PROVE  /\ written[r] <= 1
                       /\ Upstream(r)' => written[r] = 0 /\ \A i \in DOMAIN files' : ~Has(i, r)'
                       /\ \A i, j \in DOMAIN files' : Has(i, r)' /\ Has(j, r)' => i = j
                       /\ \A i \in DOMAIN files' : Has(i, r)' /\ Replayable(i)' => written[r] = 0
    BY DEF OnceOK
  <2>1. /\ written[r] <= 1
        /\ Upstream(r) => written[r] = 0 /\ \A i \in DOMAIN files : ~Has(i, r)
        /\ \A i, j \in DOMAIN files : Has(i, r) /\ Has(j, r) => i = j
        /\ \A i \in DOMAIN files : Has(i, r) /\ Replayable(i) => written[r] = 0
    BY DEF IInv, OnceOK
  <2>. QED
    BY <1>6, <2>1
<1>8. \A r \in Records : Kept(r) => Kept(r)'
  <2>1. ASSUME NEW r \in Records, NEW i \in DOMAIN files, Has(i, r) PROVE Kept(r)'
    <3>1. CASE i \in DOMAIN files'
      BY <1>6, <2>1, <3>1 DEF Kept
    <3>2. CASE i \notin DOMAIN files'
      BY <2>1, <3>2 DEF Kept, Has
    <3>. QED
      BY <3>1, <3>2
  <2>. QED
    BY <2>1 DEF Kept
<1>9. KeptOK'
  <2>1. \A r \in Records : Line(KindOf(r))' = Line(KindOf(r))
    BY DEF Line, KindOf
  <2>2. \A r \in Records : /\ request'[r] = "queued" => r \in ToSet(Line(KindOf(r))') \/ Kept(r)'
                           /\ request'[r] = "stored" => Kept(r)'
    BY <1>8, <2>1 DEF IInv, KeptOK
  <2>3. ASSUME NEW t \in Tasks, Succeeded(t)', io'[t].do = "append", NEW r \in ToSet(io'[t].recs) PROVE Kept(r)'
    <3>1. Succeeded(t) /\ io[t].do = "append" /\ r \in ToSet(io[t].recs)
      BY <2>3 DEF Succeeded
    <3>2. io[t].recs \in Seq(Records)
      BY <3>1, OpFacts DEF Succeeded, IInv, Shape, IsMove
    <3>3. r \in Records
      BY <3>1, <3>2, MembersOfSeq
    <3>. QED
      BY <1>8, <3>1, <3>3 DEF IInv, KeptOK
  <2>4. flusher'.at \in Committed => \A r \in ToSet(flusher'.recs) : written'[r] > 0
    BY DEF IInv, KeptOK
  <2>5. ASSUME NEW j \in 1..Len(orphans'), orphans'[j].do = "ack", NEW r \in ToSet(files'[orphans'[j].id].recs)
        PROVE  written[r] > 0
    <3>1. PICK l \in 1..Len(orphans) : orphans'[j] = orphans[l]
      BY DEF OrphansStay
    <3>2. orphans[l].id \in At("leased") /\ orphans[l].id # c
      BY <2>5, <3>1 DEF IInv, OrphansOK, IsMove
    <3>3. files'[orphans[l].id] = files[orphans[l].id]
      BY <1>2, <3>2
    <3>. QED
      BY <2>5, <3>1, <3>3 DEF IInv, KeptOK
  <2>. QED
    BY <2>2, <2>3, <2>4, <2>5 DEF KeptOK
<1>10. ClosedOK'
  BY DEF IInv, ClosedOK
<1>11. QueueOK'
  BY QueueFrame DEF IInv
<1>. QED
  BY <1>1, <1>3, <1>5, <1>7, <1>9, <1>10, <1>11 DEF IInv

\* A file n appears, with records that were on their way to the spool.
LEMMA FilesGrow ==
  ASSUME IInv, UNCHANGED <<written, queue, pump, request, flusher, worker>>,
         ambiguous \subseteq ambiguous', OrphansStay,
         Shape', IoOK', LifeOK', NEW n, NEW k \in Kinds, NEW rs \in Seq(Records), rs # <<>>,
         \A r \in ToSet(rs) : KindOf(r) = k,
         n \notin DOMAIN files, DOMAIN files' = DOMAIN files \union {n},
         files'[n] = [stage |-> "ready", kind |-> k, recs |-> rs],
         \A i \in DOMAIN files : files'[i] = files[i],
         \A r \in ToSet(rs) \ ambiguous' : Upstream(r) /\ ~Upstream(r)',
         worker = "closed" => ToSet(rs) \subseteq ambiguous',
         Held' => Held,
         Found' => Found /\ io'["flusher"].id = io["flusher"].id,
         \A r \in Records : Upstream(r)' => Upstream(r),
         \A t \in Tasks : Succeeded(t)' /\ io'[t].do = "append" => io'[t] = io[t] \/ io'[t].recs = rs
  PROVE  IInv'
<1>1. files'[n].recs = rs /\ files'[n].kind = k /\ files'[n].stage = "ready" /\ n \in DOMAIN files'
  OBVIOUS
<1>2. FileOK'
  BY <1>1 DEF IInv, FileOK, KindOf
<1>3. \A i : i \in At("leased") => i \in At("leased")' /\ i \in DOMAIN files /\ files'[i] = files[i]
  BY DEF At
<1>4. OrphansOK'
  <2>1. ASSUME NEW j \in 1..Len(orphans'), IsMove(orphans'[j]) PROVE orphans'[j].id \in At("leased")'
    BY <1>3, <2>1 DEF OrphansStay, IInv, OrphansOK
  <2>2. ASSUME NEW j \in 1..Len(orphans'), orphans'[j].do = "append"
        PROVE  /\ ToSet(orphans'[j].recs) \subseteq ambiguous' /\ orphans'[j].recs # <<>>
               /\ \A r \in ToSet(orphans'[j].recs) : KindOf(r) = orphans'[j].kind
    BY <2>2 DEF OrphansStay, IInv, OrphansOK
  <2>. QED
    BY <2>1, <2>2 DEF OrphansOK, OrphansStay, KindOf
<1>5. ASSUME NEW i, Mine(i) PROVE Mine(i)' /\ files'[i] = files[i]
  BY <1>3, <1>5 DEF Mine, OrphansStay
<1>6. LeaseOK'
  BY <1>5 DEF IInv, LeaseOK
<1>7. /\ \A r : Has(n, r)' <=> r \in ToSet(rs)
      /\ \A i \in DOMAIN files : \A r : Has(i, r)' <=> Has(i, r)
  BY <1>1 DEF Has
<1>8. \A i \in DOMAIN files : Replayable(i)' => Replayable(i)
  BY DEF Replayable, OrphansStay
<1>9. ToSet(rs) \subseteq Records
  BY MembersOfSeq
<1>10. OnceOK'
  <2>. SUFFICES ASSUME NEW r \in Records \ ambiguous'
                PROVE  /\ written[r] <= 1
                       /\ Upstream(r)' => written[r] = 0 /\ \A i \in DOMAIN files' : ~Has(i, r)'
                       /\ \A i, j \in DOMAIN files' : Has(i, r)' /\ Has(j, r)' => i = j
                       /\ \A i \in DOMAIN files' : Has(i, r)' /\ Replayable(i)' => written[r] = 0
    BY DEF OnceOK
  <2>1. /\ written[r] <= 1
        /\ Upstream(r) => written[r] = 0 /\ \A i \in DOMAIN files : ~Has(i, r)
        /\ \A i, j \in DOMAIN files : Has(i, r) /\ Has(j, r) => i = j
        /\ \A i \in DOMAIN files : Has(i, r) /\ Replayable(i) => written[r] = 0
    BY DEF IInv, OnceOK
  <2>2. CASE r \in ToSet(rs)
    <3>1. written[r] = 0 /\ ~Upstream(r)' /\ \A i \in DOMAIN files : ~Has(i, r)'
      BY <1>7, <2>1, <2>2
    <3>. QED
      BY <3>1
  <2>3. CASE r \notin ToSet(rs)
    <3>1. ~Has(n, r)'
      BY <1>7, <2>3
    <3>. QED
      BY <1>7, <1>8, <2>1, <3>1
  <2>. QED
    BY <2>2, <2>3
<1>11. \A r \in Records : (Kept(r) => Kept(r)') /\ (r \in ToSet(rs) => Kept(r)')
  BY <1>1, <1>7 DEF Kept
<1>12. KeptOK'
  <2>1. \A r \in Records : Line(KindOf(r))' = Line(KindOf(r))
    BY DEF Line, KindOf
  <2>2. \A r \in Records : /\ request'[r] = "queued" => r \in ToSet(Line(KindOf(r))') \/ Kept(r)'
                           /\ request'[r] = "stored" => Kept(r)'
    BY <1>11, <2>1 DEF IInv, KeptOK
  <2>3. ASSUME NEW t \in Tasks, Succeeded(t)', io'[t].do = "append", NEW r \in ToSet(io'[t].recs) PROVE Kept(r)'
    <3>1. CASE io'[t].recs = rs
      BY <1>9, <1>11, <2>3, <3>1
    <3>2. CASE io'[t] = io[t]
      <4>1. Succeeded(t) /\ io[t].do = "append" /\ r \in ToSet(io[t].recs)
        BY <2>3, <3>2 DEF Succeeded
      <4>2. io[t].recs \in Seq(Records)
        BY <4>1, OpFacts DEF Succeeded, IInv, Shape, IsMove
      <4>3. r \in Records
        BY <4>1, <4>2, MembersOfSeq
      <4>. QED
        BY <1>11, <4>1, <4>3 DEF IInv, KeptOK
    <3>. QED
      BY <2>3, <3>1, <3>2
  <2>4. flusher'.at \in Committed => \A r \in ToSet(flusher'.recs) : written'[r] > 0
    BY DEF IInv, KeptOK
  <2>5. ASSUME NEW j \in 1..Len(orphans'), orphans'[j].do = "ack", NEW r \in ToSet(files'[orphans'[j].id].recs)
        PROVE  written[r] > 0
    <3>1. PICK l \in 1..Len(orphans) : orphans'[j] = orphans[l]
      BY DEF OrphansStay
    <3>2. orphans[l].id \in At("leased")
      BY <2>5, <3>1 DEF IInv, OrphansOK, IsMove
    <3>3. files'[orphans[l].id] = files[orphans[l].id]
      BY <1>3, <3>2
    <3>. QED
      BY <2>5, <3>1, <3>3 DEF IInv, KeptOK
  <2>. QED
    BY <2>2, <2>3, <2>4, <2>5 DEF KeptOK
<1>13. ClosedOK'
  BY <1>1 DEF IInv, ClosedOK
<1>14. QueueOK'
  BY QueueFrame DEF IInv
<1>. QED
  BY <1>2, <1>4, <1>6, <1>10, <1>12, <1>13, <1>14 DEF IInv

\* Whatever a thread does, the files keep their type.
LEMMA EffectShape ==
  ASSUME Shape, NEW op \in Ops, NEW res, Effect(op, res)
  PROVE  /\ files' \in [DOMAIN files' -> FileSet] /\ DOMAIN files' \subseteq 1..made' /\ made' \in 0..MaxAppends
         /\ ambiguous \subseteq ambiguous' /\ ambiguous' \subseteq Records
<1>1. made \in Nat /\ DOMAIN files \subseteq 1..made /\ ambiguous \subseteq Records /\ files \in [DOMAIN files -> FileSet]
      /\ made \in 0..MaxAppends
  BY DEF Shape
<1>2. CASE op.do = "append" /\ Creates(op, res)
  <2>1. op.recs \in Seq(Records)
    BY <1>2, OpFacts DEF IsMove
  <2>2. ToSet(op.recs) \subseteq Records
    BY <2>1, MembersOfSeq
  <2>3. /\ files' \in [DOMAIN files' -> FileSet] /\ DOMAIN files' = DOMAIN files \union {made + 1}
        /\ made' = made + 1 /\ made + 1 \in 0..MaxAppends /\ ambiguous' \in {ambiguous, ambiguous \union ToSet(op.recs)}
    BY <1>2 DEF Creates
  <2>. QED
    BY <1>1, <2>2, <2>3
<1>3. CASE LeavesAlone(op, res)
  BY <1>1, <1>3 DEF LeavesAlone
<1>4. ASSUME NEW i, Changes(i, op, res)
      PROVE  /\ files' \in [DOMAIN files' -> FileSet] /\ DOMAIN files' \subseteq 1..made' /\ made' \in 0..MaxAppends
             /\ ambiguous \subseteq ambiguous' /\ ambiguous' \subseteq Records
  BY <1>1, <1>4 DEF Changes
<1>. QED
  BY <1>2, <1>3, <1>4, EffectMeans DEF Takes, Moves

LEMMA NoFileZero ==
  ASSUME IInv
  PROVE  /\ 0 \notin DOMAIN files /\ (Held => flusher.id # 0) /\ (Found => io["flusher"].id # 0)
         /\ \A j \in 1..Len(orphans) : IsMove(orphans[j]) => orphans[j].id # 0
<1>1. 0 \notin DOMAIN files
  BY DEF IInv, Shape
<1>. QED
  BY <1>1 DEF IInv, LeaseOK, OrphansOK, Mine, At

\* What a task appends is still on its way.
LEMMA AppendUpstream ==
  ASSUME IInv, NEW t \in Tasks, io[t] # NoOp, io[t].do = "append", io[t].out = "running"
  PROVE  /\ t \in Kinds \union Records /\ io[t].recs # <<>> /\ io[t].kind \in Kinds /\ io[t].recs \in Seq(Records)
         /\ \A r \in ToSet(io[t].recs) :
              /\ r \in Records /\ KindOf(r) = io[t].kind /\ Upstream(r)
              /\ request[r] \notin {"new", "lock"} /\ (request[r] = "append" => t = r)
              /\ r \notin ToSet(queue[KindOf(r)].pending)
              /\ r \in ToSet(queue[KindOf(r)].lease) => t = KindOf(r)
<1>1. t \in Kinds \union Records
  BY DEF IInv, IoOK, Tasks, Moving
<1>2. ~Succeeded(t)
  BY DEF Succeeded
<1>3. CASE t \in Kinds
  <2>1. pump[t] = "append" /\ io[t].kind = t /\ io[t].recs = queue[t].lease /\ queue[t].lease # <<>>
    BY <1>3, QueueAt DEF IInv, IoOK
  <2>2. queue[t].lease \in Seq(Records) /\ queue[t].pending \in Seq(Records)
    BY <1>3, QueueAt DEF Queues
  <2>3. \A r : ~(r \in ToSet(queue[t].lease) /\ r \in ToSet(queue[t].pending))
    BY <1>3, <2>2, QueueAt, DistinctParts DEF Line
  <2>4. \A r \in ToSet(queue[t].lease) : r \in Records /\ request[r] = "queued" /\ KindOf(r) = t
    BY <1>3, QueueAt
  <2>. QED
    BY <1>2, <1>3, <2>1, <2>2, <2>3, <2>4 DEF Upstream
<1>4. CASE t \in Records
  <2>1. request[t] = "append" /\ io[t].kind = KindOf(t) /\ io[t].recs = <<t>>
    BY <1>4 DEF IInv, IoOK
  <2>2. <<t>> \in Seq(Records) /\ <<t>> # <<>> /\ ToSet(<<t>>) = {t}
    BY <1>4 DEF ToSet
  <2>3. KindOf(t) \in Kinds
    BY <1>4, TasksApart
  <2>4. t \notin ToSet(queue[KindOf(t)].lease) /\ t \notin ToSet(queue[KindOf(t)].pending)
    BY <2>1, <2>3, QueueAt
  <2>. QED
    BY <1>2, <1>4, <2>1, <2>2, <2>3, <2>4 DEF Upstream
<1>. QED
  BY <1>1, <1>3, <1>4

LEMMA ThreadEndsStep == ASSUME IInv, NEW t \in Tasks, ThreadEnds(t) PROVE IInv'
<1>. DEFINE op == io[t]
<1>1. /\ UNCHANGED <<written, queue, pump, request, flusher, worker, spool, supervisor, nextKind, orphans>>
      /\ op # NoOp /\ op.out = "running" /\ op \in Ops
  BY DEF ThreadEnds, Busy, IInv, Shape
<1>2. PICK res : Effect(op, res) /\ io' = [io EXCEPT ![t] = res]
  BY DEF ThreadEnds
<1>3. Shape
  BY DEF IInv
<1>. HIDE DEF op
<1>4. /\ res \in Ops /\ res.do = op.do /\ res.out \in {"ok", "failed"} /\ res # NoOp
      /\ \/ /\ op.do = "append" /\ res.kind = op.kind /\ res.recs = op.recs
            /\ Creates(op, res) \/ LeavesAlone(op, res)
         \/ /\ op.do = "lease"
            /\ LeavesAlone(op, res) \/ \E i \in DOMAIN files : Takes(i, op, res)
         \/ /\ IsMove(op) /\ res.id = op.id
            /\ LeavesAlone(op, res) \/ Moves(op.id, op, res)
  BY <1>1, <1>2, <1>3, EffectMeans, OpFacts
<1>5. /\ files' \in [DOMAIN files' -> FileSet] /\ DOMAIN files' \subseteq 1..made' /\ made' \in 0..MaxAppends
      /\ ambiguous \subseteq ambiguous' /\ ambiguous' \subseteq Records
  BY <1>1, <1>2, <1>3, EffectShape
<1>6. /\ io'[t] = res /\ \A u \in Tasks \ {t} : io[u] = NoOp /\ io'[u] = NoOp
      /\ io' \in [Tasks -> Ops \union {NoOp}]
  BY <1>1, <1>2, <1>4 DEF IInv, Shape, IoOK, op
<1>7. Shape'
  BY <1>1, <1>5, <1>6 DEF IInv, Shape
<1>8. ~LockFree /\ worker # "closed" /\ worker # "created" /\ spool # "closed"
  BY <1>1 DEF IInv, LifeOK, LockFree, op
<1>9. IoOK'
  <2>1. \A u, v \in Tasks : io'[u] # NoOp /\ io'[v] # NoOp => u = v
    BY <1>6
  <2>2. \A k \in Kinds : io'[k] # NoOp =>
          io'[k].do = "append" /\ pump[k] = "append" /\ io'[k].kind = k /\ io'[k].recs = queue[k].lease
    <3>1. ASSUME NEW k \in Kinds, t = k PROVE op.do = "append" /\ pump[k] = "append" /\ op.kind = k /\ op.recs = queue[k].lease
      BY <1>1, <3>1 DEF IInv, IoOK, op
    <3>. QED
      BY <1>4, <1>6, <3>1, TasksApart DEF IsMove
  <2>3. \A r \in Records : io'[r] # NoOp =>
          io'[r].do = "append" /\ request[r] = "append" /\ io'[r].kind = KindOf(r) /\ io'[r].recs = <<r>>
    <3>1. ASSUME NEW r \in Records, t = r PROVE op.do = "append" /\ request[r] = "append" /\ op.kind = KindOf(r) /\ op.recs = <<r>>
      BY <1>1, <3>1 DEF IInv, IoOK, op
    <3>. QED
      BY <1>4, <1>6, <3>1, TasksApart DEF IsMove
  <2>4. io'["flusher"] # NoOp =>
        \/ /\ io'["flusher"].do = "lease" /\ flusher.at = "scanning"
           /\ io'["flusher"].out = "running" => io'["flusher"].id = 0
        \/ /\ flusher.at \in Moving /\ io'["flusher"].id = flusher.id
           /\ io'["flusher"].do = IF flusher.at = "release_cancel" THEN "release" ELSE flusher.at
    <3>1. ASSUME t = "flusher"
          PROVE  \/ op.do = "lease" /\ flusher.at = "scanning"
                 \/ /\ flusher.at \in Moving /\ op.id = flusher.id /\ IsMove(op)
                    /\ op.do = IF flusher.at = "release_cancel" THEN "release" ELSE flusher.at
      BY <1>1, <3>1 DEF IInv, IoOK, op, IsMove, Moving
    <3>. QED
      BY <1>4, <1>6, <3>1, TasksApart DEF IsMove
  <2>. QED
    BY <1>1, <2>1, <2>2, <2>3, <2>4 DEF IoOK, KindOf
<1>10. LifeOK'
  BY <1>1, <1>8 DEF IInv, LifeOK
<1>11. OrphansStay
  BY <1>1 DEF OrphansStay, IInv, OrphansOK
<1>12. \A u \in Tasks : Succeeded(u) => Succeeded(u)'
  BY <1>1, <1>6 DEF Succeeded, op
<1>13. \A r \in Records : Upstream(r)' => Upstream(r)
  BY <1>1, <1>12, TasksApart DEF Upstream
<1>14. CASE op.do = "append" /\ Creates(op, res)
  <2>1. /\ t \in Kinds \union Records /\ op.recs # <<>> /\ op.kind \in Kinds /\ op.recs \in Seq(Records)
        /\ \A r \in ToSet(op.recs) :
              /\ r \in Records /\ KindOf(r) = op.kind /\ Upstream(r)
              /\ request[r] \notin {"new", "lock"} /\ (request[r] = "append" => t = r)
              /\ r \notin ToSet(queue[KindOf(r)].pending)
              /\ r \in ToSet(queue[KindOf(r)].lease) => t = KindOf(r)
    BY <1>1, <1>14, AppendUpstream DEF op
  <2>2. \A r \in ToSet(op.recs) \ ambiguous' : ~Upstream(r)'
    <3>1. ASSUME NEW r \in ToSet(op.recs), r \notin ambiguous' PROVE Succeeded(t)'
      BY <1>4, <1>6, <1>14, <3>1 DEF Creates, Succeeded
    <3>. QED
      BY <1>1, <2>1, <3>1 DEF Upstream
  <2>4. (Held' => Held) /\ ~Found'
    <3>1. io["flusher"] = NoOp /\ io'["flusher"] = NoOp
      BY <1>6, <2>1, TasksApart
    <3>. QED
      BY <1>1, <3>1, OpFacts DEF Held, Found
  <2>5. \A u \in Tasks : Succeeded(u)' /\ io'[u].do = "append" => io'[u].recs = op.recs
    BY <1>4, <1>6, <1>14 DEF Succeeded, IsMove
  <2>6. /\ made + 1 \notin DOMAIN files /\ DOMAIN files' = DOMAIN files \union {made + 1}
        /\ files'[made + 1] = [stage |-> "ready", kind |-> op.kind, recs |-> op.recs]
        /\ \A i \in DOMAIN files : files'[i] = files[i]
    BY <1>14 DEF Creates
  <2>. QED
    BY <1>1, <1>5, <1>7, <1>8, <1>9, <1>10, <1>11, <1>13, <2>1, <2>2, <2>4, <2>5, <2>6, FilesGrow
<1>15. CASE LeavesAlone(op, res)
  <2>1. (Held' => Held) /\ (Found' => Found /\ io'["flusher"].id = io["flusher"].id)
    <3>1. CASE t = "flusher"
      <4>1. io["flusher"] = op /\ io'["flusher"] = res
        BY <1>6, <3>1 DEF op
      <4>2. ~Held'
        BY <1>4, <4>1 DEF Held
      <4>3. ~Found'
        <5>1. res.out = "ok" => res.id = op.id /\ op.do = "lease"
          BY <1>15 DEF LeavesAlone
        <5>2. op.do = "lease" => op.id = 0
          BY <1>1, <4>1 DEF IInv, IoOK, Moving
        <5>. QED
          BY <4>1, <5>1, <5>2 DEF Found
      <4>. QED
        BY <4>2, <4>3
    <3>2. CASE t # "flusher"
      BY <1>1, <1>6, <3>2, TasksApart DEF Held, Found
    <3>. QED
      BY <3>1, <3>2
  <2>2. \A i \in DOMAIN files' : Replayable(i)' => Replayable(i)
    BY <1>1, <1>15, <2>1 DEF Replayable, LeavesAlone
  <2>3. \A u \in Tasks : ~(Succeeded(u)' /\ io'[u].do = "append")
    BY <1>4, <1>6, <1>15 DEF Succeeded, LeavesAlone
  <2>4. files' = files
    BY <1>15 DEF LeavesAlone
  <2>5. /\ \A j \in 1..Len(orphans') : IsMove(orphans'[j]) => orphans'[j].id # 0
        /\ Held' => Held /\ flusher.id # 0
        /\ Found' => Found /\ io'["flusher"].id = io["flusher"].id /\ io'["flusher"].id # 0
    BY <1>1, <2>1, NoFileZero
  <2>. QED
    BY <1>1, <1>5, <1>7, <1>9, <1>10, <1>11, <1>13, <2>2, <2>3, <2>4, <2>5, FilesShrink
<1>16. ASSUME op.do = "lease", NEW i \in DOMAIN files, Takes(i, op, res) PROVE IInv'
  <2>1. t = "flusher" /\ flusher.at = "scanning" /\ io'["flusher"] = res
    BY <1>1, <1>6, <1>16, TasksApart DEF IInv, IoOK, Tasks, op, Moving
  <2>2. /\ i \in DOMAIN files' /\ files[i].stage = "ready" /\ files'[i].stage = "leased"
        /\ DOMAIN files' = DOMAIN files /\ \A j \in DOMAIN files \ {i} : files'[j] = files[j]
        /\ files'[i].recs = files[i].recs /\ files'[i].kind = files[i].kind
        /\ res.out = "ok" => res.id = i
    BY <1>16 DEF Takes, Changes, At
  <2>3. ~Held' /\ flusher.at \notin Releasing
    BY <1>1, <2>1 DEF Held, Holding, Releasing, Moving, Committed
  <2>4. \A j \in 1..Len(orphans') : IsMove(orphans'[j]) => orphans'[j].id # i
    BY <1>1, <2>2 DEF IInv, OrphansOK, At
  <2>5. Found' => io'["flusher"].id = i
    BY <2>1, <2>2 DEF Found
  <2>6. Mine(i)'
    BY <2>2, <2>4 DEF Mine, At
  <2>7. Found' => Mine(io["flusher"].id)'
    BY <2>5, <2>6 DEF Mine
  <2>8. \A j \in DOMAIN files' : Replayable(j)' => Replayable(j)
    BY <1>1, <2>2, <2>3, <2>5 DEF Replayable
  <2>9. \A u \in Tasks : ~(Succeeded(u)' /\ io'[u].do = "append")
    BY <1>4, <1>6, <1>16, <2>1 DEF Succeeded
  <2>. QED
    BY <1>1, <1>5, <1>7, <1>9, <1>10, <1>11, <1>13, <2>2, <2>3, <2>4, <2>7, <2>8, <2>9, FilesShrink
<1>17. CASE IsMove(op) /\ Moves(op.id, op, res)
  <2>. DEFINE i == op.id
  <2>1. /\ t = "flusher" /\ flusher.at \in Moving /\ io'["flusher"] = res /\ i = flusher.id
        /\ op.do = IF flusher.at = "release_cancel" THEN "release" ELSE flusher.at
    BY <1>1, <1>6, <1>17, TasksApart DEF IInv, IoOK, Tasks, op, IsMove
  <2>. HIDE DEF i
  <2>2. Mine(i) /\ flusher.recs = files[i].recs
    BY <1>1, <2>1 DEF IInv, LeaseOK, Held, Holding, op
  <2>3. /\ DOMAIN files \ {i} \subseteq DOMAIN files' /\ DOMAIN files' \subseteq DOMAIN files
        /\ \A j \in DOMAIN files \ {i} : files'[j] = files[j]
        /\ i \in DOMAIN files' => files'[i].recs = files[i].recs /\ files'[i].kind = files[i].kind
        /\ i \in DOMAIN files' => files'[i].stage = IF op.do = "mark" THEN "unknown" ELSE "ready"
        /\ i \in DOMAIN files' <=> op.do # "ack"
    BY <1>17 DEF Moves, Changes, i
  <2>4. ~Held' /\ ~Found'
    BY <1>4, <1>17, <2>1 DEF Held, Found, IsMove
  <2>5. \A j \in 1..Len(orphans') : IsMove(orphans'[j]) => orphans'[j].id # i
    BY <1>1, <2>2 DEF Mine
  <2>6. \A j \in DOMAIN files \ DOMAIN files' : \A r \in ToSet(files[j].recs) : written[r] > 0
    <3>1. op.do = "ack" => flusher.at \in Committed
      BY <2>1 DEF Committed
    <3>2. op.do = "ack" => \A r \in ToSet(files[i].recs) : written[r] > 0
      BY <2>2, <3>1 DEF IInv, KeptOK
    <3>. QED
      BY <2>3, <3>2
  <2>7. \A j \in DOMAIN files' : Replayable(j)' => Replayable(j)
    <3>1. i \in DOMAIN files' /\ files'[i].stage = "ready" => flusher.at \in Releasing
      BY <2>1, <2>3 DEF Moving, Releasing
    <3>. QED
      BY <1>1, <2>1, <2>3, <2>4, <3>1 DEF Replayable
  <2>8. \A u \in Tasks : ~(Succeeded(u)' /\ io'[u].do = "append")
    BY <1>4, <1>6, <1>17, <2>1 DEF Succeeded, IsMove
  <2>. QED
    BY <1>1, <1>5, <1>7, <1>9, <1>10, <1>11, <1>13, <2>3, <2>4, <2>5, <2>6, <2>7, <2>8, FilesShrink
<1>. QED
  BY <1>4, <1>14, <1>15, <1>16, <1>17

LEMMA OrphanEndsStep == ASSUME IInv, OrphanEnds PROVE IInv'
<1>0. PICK j \in 1..Len(orphans) :
             (\E res : Effect(orphans[j], res)) /\ orphans' = RemoveAt(orphans, j)
  <2>1. DOMAIN orphans = 1..Len(orphans)
    BY LenProperties DEF IInv, Shape
  <2>. QED
    BY <2>1 DEF OrphanEnds
<1>1. PICK res : Effect(orphans[j], res) /\ orphans' = RemoveAt(orphans, j)
  BY <1>0
<1>. DEFINE op == orphans[j]
<1>2. UNCHANGED <<written, queue, pump, request, flusher, worker, spool, supervisor, nextKind, io>>
  BY DEF OrphanEnds
<1>3. Shape /\ orphans \in Seq(Ops) /\ op \in Ops /\ Len(orphans) \in Nat /\ Len(orphans) # 0
  <2>1. orphans \in Seq(Ops)
    BY DEF IInv, Shape
  <2>2. op \in Ops /\ Len(orphans) \in Nat
    BY <2>1, ElementOfSeq, LenProperties
  <2>. QED
    BY <2>1, <2>2 DEF IInv
<1>4. /\ orphans' \in Seq(Ops) /\ Len(orphans') = Len(orphans) - 1
      /\ \A i \in 1..(Len(orphans) - 1) : orphans'[i] = IF i < j THEN orphans[i] ELSE orphans[i + 1]
  BY <1>1, <1>3, RemoveElement
<1>5. \A i \in 1..Len(orphans') : \E l \in 1..Len(orphans) \ {j} : orphans'[i] = orphans[l]
  <2>1. \A i \in 1..Len(orphans') : LET l == IF i < j THEN i ELSE i + 1
                                   IN  l \in 1..Len(orphans) \ {j} /\ orphans'[i] = orphans[l]
    BY <1>3, <1>4
  <2>. QED
    BY <2>1
<1>6. OrphansStay
  <2>1. ASSUME NEW i \in 1..Len(orphans'), NEW l \in 1..Len(orphans'),
               IsMove(orphans'[i]), IsMove(orphans'[l]), orphans'[i].id = orphans'[l].id
        PROVE  i = l
    <3>. DEFINE a == IF i < j THEN i ELSE i + 1
                b == IF l < j THEN l ELSE l + 1
    <3>1. a \in 1..Len(orphans) /\ b \in 1..Len(orphans) /\ orphans'[i] = orphans[a] /\ orphans'[l] = orphans[b]
      BY <1>3, <1>4
    <3>2. a = b => i = l
      BY <1>3, <1>4
    <3>. HIDE DEF a, b
    <3>3. a = b
      BY <2>1, <3>1 DEF IInv, OrphansOK
    <3>. QED
      BY <3>2, <3>3
  <2>. QED
    BY <1>5, <2>1 DEF OrphansStay
<1>. HIDE DEF op
<1>7. \/ op.do = "append" /\ (Creates(op, res) \/ LeavesAlone(op, res))
      \/ op.do = "lease" /\ (LeavesAlone(op, res) \/ \E i \in DOMAIN files : Takes(i, op, res))
      \/ IsMove(op) /\ (LeavesAlone(op, res) \/ Moves(op.id, op, res))
  BY <1>1, <1>3, EffectMeans DEF op
<1>8. /\ files' \in [DOMAIN files' -> FileSet] /\ DOMAIN files' \subseteq 1..made' /\ made' \in 0..MaxAppends
      /\ ambiguous \subseteq ambiguous' /\ ambiguous' \subseteq Records
  BY <1>1, <1>3, EffectShape DEF op
<1>9. Shape'
  BY <1>2, <1>4, <1>8 DEF IInv, Shape
<1>10. IoOK'
  BY <1>2 DEF IInv, IoOK, KindOf
<1>11. LifeOK'
  BY <1>2, <1>3 DEF IInv, LifeOK, LockFree
<1>12. (Held' <=> Held) /\ (Found' <=> Found) /\ \A r \in Records : Upstream(r)' => Upstream(r)
  BY <1>2, UpstreamFrame DEF Held, Found
<1>13. \A u \in Tasks : io'[u] = io[u]
  BY <1>2
<1>14. CASE op.do = "append" /\ Creates(op, res)
  <2>1. /\ ToSet(op.recs) \subseteq ambiguous /\ op.recs # <<>> /\ op.kind \in Kinds /\ op.recs \in Seq(Records)
        /\ \A r \in ToSet(op.recs) : KindOf(r) = op.kind
    BY <1>3, <1>14, OpFacts DEF IInv, OrphansOK, op, IsMove
  <2>2. /\ made + 1 \notin DOMAIN files /\ DOMAIN files' = DOMAIN files \union {made + 1}
        /\ files'[made + 1] = [stage |-> "ready", kind |-> op.kind, recs |-> op.recs]
        /\ \A i \in DOMAIN files : files'[i] = files[i]
    BY <1>14 DEF Creates
  <2>3. ToSet(op.recs) \subseteq ambiguous'
    BY <1>8, <2>1
  <2>. QED
    BY <1>2, <1>6, <1>8, <1>9, <1>10, <1>11, <1>12, <1>13, <2>1, <2>2, <2>3, FilesGrow
<1>15. CASE LeavesAlone(op, res)
  <2>1. files' = files
    BY <1>15 DEF LeavesAlone
  <2>2. \A i \in DOMAIN files' : Replayable(i)' => Replayable(i)
    BY <1>2, <1>12, <2>1, <1>5 DEF Replayable
  <2>3. /\ \A i \in 1..Len(orphans') : IsMove(orphans'[i]) => orphans'[i].id # 0
        /\ Held' => Held /\ flusher.id # 0
        /\ Found' => Found /\ io'["flusher"].id = io["flusher"].id /\ io'["flusher"].id # 0
    BY <1>2, <1>5, <1>12, NoFileZero
  <2>. QED
    BY <1>2, <1>6, <1>8, <1>9, <1>10, <1>11, <1>12, <1>13, <2>1, <2>2, <2>3, FilesShrink
<1>16. ASSUME NEW i \in DOMAIN files, Takes(i, op, res) PROVE IInv'
  <2>1. /\ i \in DOMAIN files' /\ files[i].stage = "ready" /\ files'[i].stage = "leased"
        /\ DOMAIN files' = DOMAIN files /\ \A l \in DOMAIN files \ {i} : files'[l] = files[l]
        /\ files'[i].recs = files[i].recs /\ files'[i].kind = files[i].kind
    BY <1>16 DEF Takes, Changes, At
  <2>2. \A l : l \in At("leased") => l # i
    BY <2>1 DEF At
  <2>3. /\ \A l \in 1..Len(orphans') : IsMove(orphans'[l]) => orphans'[l].id # i
        /\ Held' => Held /\ flusher.id # i
        /\ Found' => Found /\ io'["flusher"].id = io["flusher"].id /\ io'["flusher"].id # i
    BY <1>2, <1>5, <1>12, <2>2 DEF IInv, OrphansOK, LeaseOK, Mine
  <2>4. \A l \in DOMAIN files' : Replayable(l)' => Replayable(l)
    BY <1>2, <1>5, <1>12, <2>1 DEF Replayable
  <2>. QED
    BY <1>2, <1>6, <1>8, <1>9, <1>10, <1>11, <1>12, <1>13, <2>1, <2>3, <2>4, FilesShrink
<1>17. CASE IsMove(op) /\ Moves(op.id, op, res)
  <2>. DEFINE i == op.id
  <2>1. /\ DOMAIN files \ {i} \subseteq DOMAIN files' /\ DOMAIN files' \subseteq DOMAIN files
        /\ \A l \in DOMAIN files \ {i} : files'[l] = files[l]
        /\ i \in DOMAIN files' => files'[i].recs = files[i].recs /\ files'[i].kind = files[i].kind
        /\ i \in DOMAIN files' => files'[i].stage = IF op.do = "mark" THEN "unknown" ELSE "ready"
        /\ i \in DOMAIN files' <=> op.do # "ack"
    BY <1>17 DEF Moves, Changes
  <2>2. /\ \A l \in 1..Len(orphans') : IsMove(orphans'[l]) => orphans'[l].id # i
        /\ Held' => Held /\ flusher.id # i
        /\ Found' => Found /\ io'["flusher"].id = io["flusher"].id /\ io'["flusher"].id # i
    <3>1. \A l \in 1..Len(orphans) \ {j} : IsMove(orphans[l]) => orphans[l].id # i
      BY <1>17 DEF IInv, OrphansOK, op
    <3>2. \A l : Mine(l) => l # i
      BY <1>17 DEF Mine, op
    <3>. QED
      BY <1>2, <1>5, <1>12, <3>1, <3>2 DEF IInv, LeaseOK
  <2>3. \A l \in DOMAIN files \ DOMAIN files' : \A r \in ToSet(files[l].recs) : written[r] > 0
    BY <2>1 DEF IInv, KeptOK, op
  <2>4. \A l \in DOMAIN files' : Replayable(l)' => Replayable(l)
    <3>1. i \in DOMAIN files' /\ files'[i].stage = "ready" => op.do = "release"
      BY <1>17, <2>1 DEF IsMove
    <3>2. i \in DOMAIN files' /\ files'[i].stage = "ready" => Replayable(i)
      BY <3>1 DEF Replayable, op
    <3>. QED
      BY <1>2, <1>5, <1>12, <2>1, <3>2 DEF Replayable
  <2>. QED
    BY <1>2, <1>6, <1>8, <1>9, <1>10, <1>11, <1>12, <1>13, <2>1, <2>2, <2>3, <2>4, FilesShrink
<1>. QED
  BY <1>7, <1>14, <1>15, <1>16, <1>17

-----------------------------------------------------------------------------
(* Cancellations.                                                            *)

LEMMA AfterCancelMeans ==
  ASSUME NEW at \in FlusherAts
  PROVE  LET c == AfterCancel(at)
         IN  /\ c \in FlusherAts /\ c \in {"release_cancel", "mark"} \union FlusherOver
             /\ c = "release_cancel" => at \in {"write", "cleanup"}
             /\ c = "mark" => at \in {"commit", "landed"}
             /\ at \in FlusherOver => c = at
BY DEF AfterCancel, FlusherAts, FlusherOver, Holding, Moving, Committed, Releasing

\* The flusher is cancelled: it holds what it held, or nothing.
FlusherStops ==
  /\ flusher' = [flusher EXCEPT !.at = AfterCancel(flusher.at)]
  /\ flusher.at = "cleanup" => ToSet(flusher.recs) \subseteq ambiguous'

LEMMA FlusherStopsMeans ==
  ASSUME IInv, FlusherStops
  PROVE  /\ flusher' \in FlusherStates /\ flusher'.id = flusher.id /\ flusher'.recs = flusher.recs
         /\ flusher'.at \in {"release_cancel", "mark"} \union FlusherOver /\ flusher'.at \notin {"scan", "scanning"}
         /\ flusher'.at \notin Committed
         /\ flusher'.at \in Holding => flusher.at \in {"write", "commit", "landed", "cleanup"}
         /\ flusher'.at \in Releasing => flusher.at \in {"write", "cleanup"}
         /\ flusher.at \in FlusherOver => flusher'.at = flusher.at
<1>1. flusher \in FlusherStates /\ flusher.at \in FlusherAts
  BY DEF IInv, Shape, FlusherStates
<1>. DEFINE c == AfterCancel(flusher.at)
<1>2. /\ c \in FlusherAts /\ c \in {"release_cancel", "mark"} \union FlusherOver
      /\ c = "release_cancel" => flusher.at \in {"write", "cleanup"}
      /\ c = "mark" => flusher.at \in {"commit", "landed"}
      /\ flusher.at \in FlusherOver => c = flusher.at
  BY <1>1, AfterCancelMeans
<1>3. flusher' = [flusher EXCEPT !.at = c]
  BY DEF FlusherStops
<1>. HIDE DEF c
<1>4. flusher'.at = c /\ flusher'.id = flusher.id /\ flusher'.recs = flusher.recs /\ flusher' \in FlusherStates
  BY <1>1, <1>2, <1>3, FlusherMoves
<1>. QED
  BY <1>2, <1>4 DEF FlusherOver, Holding, Moving, Committed, Releasing

\* The tasks T forget their operation; those of S were in one.
LEMMA StopKeeps ==
  ASSUME IInv, UNCHANGED <<files, written>>, ambiguous \subseteq ambiguous',
         NEW T \in SUBSET Tasks, NEW S \in SUBSET T, \A t \in T \ S : ~Busy(t),
         orphans' = LeftRunning(S), io' = ForgetIo(T),
         Shape', QueueOK', LifeOK', worker' = "closed" => worker = "closed",
         flusher' = flusher \/ "flusher" \in T,
         "flusher" \in T => FlusherStops,
         Kinds \subseteq T \/ UNCHANGED <<queue, pump>>,
         \A r \in Records \ T : request'[r] = request[r],
         \A t \in T : io[t] # NoOp /\ io[t].do = "append" /\ io[t].out # "failed" => ToSet(io[t].recs) \subseteq ambiguous',
         \A r \in Records \ ambiguous' : Upstream(r)' => Upstream(r),
         \A r \in Records : request'[r] = "queued" => r \in ToSet(Line(KindOf(r)))' \/ Kept(r),
         \A r \in Records : request'[r] = "stored" => Kept(r)
  PROVE  IInv'
<1>1. Shape /\ IoOK /\ S \in SUBSET Tasks
  BY DEF IInv
<1>2. /\ Len(orphans) \in Nat /\ Len(orphans') \in Len(orphans)..(Len(orphans) + 1)
      /\ \A j \in 1..Len(orphans) : orphans'[j] = orphans[j]
      /\ Len(orphans') = Len(orphans) + 1 => \E t \in S : Busy(t) /\ orphans'[Len(orphans) + 1] = io[t]
  BY <1>1, LeftRunningMeans, LenProperties DEF Shape
<1>3. \A t \in Tasks : io'[t] = IF t \in T THEN NoOp ELSE io[t]
  BY <1>1, ForgetIoMeans
<1>4. IoOK'
  BY <1>1, <1>3, TasksApart DEF IoOK, KindOf
\* The one operation that joins the orphans.
<1>5. ASSUME NEW j \in 1..Len(orphans'), j \notin 1..Len(orphans)
      PROVE  /\ j = Len(orphans) + 1
             /\ \/ /\ orphans'[j].do = "append" /\ ToSet(orphans'[j].recs) \subseteq ambiguous' /\ orphans'[j].recs # <<>>
                   /\ \A r \in ToSet(orphans'[j].recs) : KindOf(r) = orphans'[j].kind
                \/ orphans'[j].do = "lease"
                \/ /\ IsMove(orphans'[j]) /\ orphans'[j].id = flusher.id /\ Held /\ "flusher" \in T
                   /\ flusher.at \in Moving
                   /\ orphans'[j].do = IF flusher.at = "release_cancel" THEN "release" ELSE flusher.at
  <2>1. j = Len(orphans) + 1 /\ Len(orphans') = Len(orphans) + 1
    BY <1>2, <1>5
  <2>2. PICK t \in S : Busy(t) /\ orphans'[j] = io[t]
    BY <1>2, <2>1
  <2>3. t \in Tasks /\ t \in T /\ io[t] # NoOp /\ io[t].out = "running"
    BY <2>2 DEF Busy
  <2>4. CASE io[t].do = "append"
    BY <2>1, <2>2, <2>3, <2>4, AppendUpstream
  <2>5. CASE io[t].do # "append"
    <3>1. t = "flusher"
      BY <1>1, <2>3, <2>5 DEF IoOK, Tasks
    <3>2. \/ io[t].do = "lease"
          \/ /\ flusher.at \in Moving /\ io[t].id = flusher.id /\ IsMove(io[t])
             /\ io[t].do = IF flusher.at = "release_cancel" THEN "release" ELSE flusher.at
      BY <1>1, <2>3, <3>1 DEF IoOK, IsMove, Moving
    <3>3. flusher.at \in Moving => Held
      BY <2>3, <3>1 DEF Held, Holding
    <3>. QED
      BY <2>1, <2>2, <2>3, <3>1, <3>2, <3>3
  <2>. QED
    BY <2>4, <2>5
<1>6. \A i : Held /\ i = flusher.id => Mine(i) /\ flusher.recs = files[i].recs
  BY DEF IInv, LeaseOK
<1>7. FileOK'
  BY FileFrame DEF IInv
<1>8. OrphansOK'
  <2>1. \A i : i \in At("leased")' <=> i \in At("leased")
    BY DEF At
  <2>2. ASSUME NEW j \in 1..Len(orphans'), IsMove(orphans'[j])
        PROVE  orphans'[j].id \in At("leased") /\ (j \notin 1..Len(orphans) => Mine(orphans'[j].id))
    <3>1. CASE j \in 1..Len(orphans)
      BY <1>2, <2>2, <3>1 DEF IInv, OrphansOK
    <3>2. CASE j \notin 1..Len(orphans)
      <4>1. orphans'[j].do # "append" /\ orphans'[j].do # "lease"
        BY <2>2 DEF IsMove
      <4>. QED
        BY <1>5, <1>6, <3>2, <4>1 DEF Mine
    <3>. QED
      BY <3>1, <3>2
  <2>3. ASSUME NEW j \in 1..Len(orphans'), orphans'[j].do = "append"
        PROVE  /\ ToSet(orphans'[j].recs) \subseteq ambiguous' /\ orphans'[j].recs # <<>>
               /\ \A r \in ToSet(orphans'[j].recs) : KindOf(r) = orphans'[j].kind
    <3>1. CASE j \in 1..Len(orphans)
      BY <1>2, <2>3, <3>1 DEF IInv, OrphansOK
    <3>2. CASE j \notin 1..Len(orphans)
      BY <1>5, <2>3, <3>2 DEF IsMove
    <3>. QED
      BY <3>1, <3>2
  <2>4. ASSUME NEW i \in 1..Len(orphans'), NEW j \in 1..Len(orphans'),
               IsMove(orphans'[i]), IsMove(orphans'[j]), orphans'[i].id = orphans'[j].id
        PROVE  i = j
    <3>1. CASE i \in 1..Len(orphans) /\ j \in 1..Len(orphans)
      BY <1>2, <2>4, <3>1 DEF IInv, OrphansOK
    <3>2. CASE i \notin 1..Len(orphans) /\ j \notin 1..Len(orphans)
      BY <1>5, <3>2
    <3>3. CASE i \in 1..Len(orphans) /\ j \notin 1..Len(orphans)
      BY <1>2, <2>2, <2>4, <3>3 DEF Mine
    <3>4. CASE i \notin 1..Len(orphans) /\ j \in 1..Len(orphans)
      BY <1>2, <2>2, <2>4, <3>4 DEF Mine
    <3>. QED
      BY <3>1, <3>2, <3>3, <3>4
  <2>. QED
    BY <2>1, <2>2, <2>3, <2>4 DEF OrphansOK, KindOf
\* What the flusher still holds, no thread moves.
<1>9. Held' => Held /\ flusher'.id = flusher.id /\ flusher'.recs = flusher.recs
               /\ ~("flusher" \in T /\ flusher.at \in Moving)
  <2>1. CASE "flusher" \in T
    <3>1. ASSUME Held' PROVE flusher.at \in {"write", "commit", "landed", "cleanup"}
      BY <2>1, <3>1, FlusherStopsMeans DEF Held
    <3>2. flusher.at \in {"write", "commit", "landed", "cleanup"} => io["flusher"] = NoOp /\ flusher.at \in Holding
                                                                 /\ flusher.at \notin Moving
      BY <1>1 DEF IoOK, Moving, Holding, Committed, Releasing
    <3>. QED
      BY <2>1, <3>1, <3>2, FlusherStopsMeans DEF Held
  <2>2. CASE "flusher" \notin T
    BY <1>3, <2>2, TasksApart DEF Held
  <2>. QED
    BY <2>1, <2>2
<1>10. Found' => Found /\ io'["flusher"] = io["flusher"] /\ "flusher" \notin T
  BY <1>3, TasksApart, OpFacts DEF Found
<1>11. ASSUME NEW i, Mine(i), ~("flusher" \in T /\ flusher.at \in Moving) PROVE Mine(i)'
  <2>1. i \in At("leased")'
    BY <1>11 DEF Mine, At
  <2>2. \A j \in 1..Len(orphans') : IsMove(orphans'[j]) => orphans'[j].id # i
    BY <1>2, <1>5, <1>11 DEF Mine, IsMove
  <2>. QED
    BY <2>1, <2>2 DEF Mine
<1>12. LeaseOK'
  <2>1. ASSUME Held' PROVE Mine(flusher.id)' /\ flusher'.recs = files'[flusher'.id].recs
    <3>1. \A i : Mine(i) => Mine(i)'
      BY <1>9, <1>11, <2>1
    <3>2. Mine(flusher.id) /\ flusher.recs = files[flusher.id].recs
      BY <1>6, <1>9, <2>1
    <3>. QED
      BY <1>9, <2>1, <3>1, <3>2 DEF Mine
  <2>2. ASSUME Found' PROVE Mine(io["flusher"].id)'
    <3>1. \A i : Mine(i) => Mine(i)'
      BY <1>10, <1>11, <2>2
    <3>. QED
      BY <1>10, <2>2, <3>1 DEF IInv, LeaseOK, Mine
  <2>. QED
    BY <2>1, <2>2 DEF LeaseOK
<1>13. OnceOK'
  <2>1. ASSUME NEW r \in Records \ ambiguous', NEW i \in DOMAIN files, Has(i, r), Replayable(i)' PROVE Replayable(i)
    <3>1. CASE files'[i].stage = "ready"
      BY <3>1 DEF Replayable
    <3>2. CASE \E j \in 1..Len(orphans') : orphans'[j].do = "release" /\ orphans'[j].id = i
      <4>1. PICK j \in 1..Len(orphans') : orphans'[j].do = "release" /\ orphans'[j].id = i
        BY <3>2
      <4>2. CASE j \in 1..Len(orphans)
        BY <1>2, <4>1, <4>2 DEF Replayable
      <4>3. CASE j \notin 1..Len(orphans)
        BY <1>5, <4>1, <4>3 DEF Replayable, Releasing, Moving
      <4>. QED
        BY <4>2, <4>3
    <3>3. CASE flusher'.at \in Releasing /\ flusher'.id = i
      <4>1. CASE "flusher" \in T
        <5>1. flusher.at \in {"write", "cleanup"} /\ flusher.id = i
          BY <3>3, <4>1, FlusherStopsMeans
        <5>2. flusher.at # "cleanup"
          <6>1. ASSUME flusher.at = "cleanup" PROVE FALSE
            <7>1. Held
              BY <1>1, <6>1 DEF Held, Holding, Committed, IoOK, Moving
            <7>. QED
              BY <1>6, <2>1, <4>1, <5>1, <6>1, <7>1 DEF FlusherStops, Has
          <6>. QED
            BY <6>1
        <5>. QED
          BY <5>1, <5>2 DEF Replayable, Releasing
      <4>2. CASE "flusher" \notin T
        BY <3>3, <4>2 DEF Replayable
      <4>. QED
        BY <4>1, <4>2
    <3>4. CASE Found' /\ io'["flusher"].id = i
      BY <1>10, <3>4 DEF Replayable
    <3>. QED
      BY <2>1, <3>1, <3>2, <3>3, <3>4 DEF Replayable
  <2>2. \A r \in Records \ ambiguous' : \A i \in DOMAIN files : Has(i, r) /\ Replayable(i)' => Replayable(i)
    BY <2>1
  <2>. QED
    BY <2>2, OnceFrame DEF IInv
<1>14. KeptOK'
  <2>1. \A t \in Tasks : Succeeded(t)' /\ io'[t].do = "append" => io'[t] = io[t]
    BY <1>3 DEF Succeeded
  <2>2. flusher'.at \in Committed => flusher.at \in Committed /\ flusher'.recs = flusher.recs
    <3>1. CASE "flusher" \in T
      BY <3>1, FlusherStopsMeans
    <3>2. CASE "flusher" \notin T
      BY <3>2
    <3>. QED
      BY <3>1, <3>2
  <2>3. ASSUME NEW j \in 1..Len(orphans'), orphans'[j].do = "ack", NEW r \in ToSet(files[orphans'[j].id].recs)
        PROVE  written[r] > 0
    <3>1. CASE j \in 1..Len(orphans)
      BY <1>2, <2>3, <3>1 DEF IInv, KeptOK
    <3>2. CASE j \notin 1..Len(orphans)
      <4>1. flusher.at = "ack" /\ orphans'[j].id = flusher.id /\ Held
        BY <1>5, <2>3, <3>2
      <4>2. flusher.recs = files[flusher.id].recs /\ flusher.at \in Committed
        BY <1>6, <4>1 DEF Committed
      <4>. QED
        BY <2>3, <4>1, <4>2 DEF IInv, KeptOK
    <3>. QED
      BY <3>1, <3>2
  <2>. QED
    BY <2>1, <2>2, <2>3, KeptFrame DEF IInv
<1>15. ClosedOK'
  BY ClosedFrame DEF IInv
<1>. QED
  BY <1>4, <1>7, <1>8, <1>12, <1>13, <1>14, <1>15 DEF IInv

LEMMA StopPumpsMeans ==
  ASSUME IInv, request' = request, NEW status \in [Kinds -> {"failed", "cancelled"}], NEW lost \in SUBSET Records,
         StopPumps(Live(Kinds), status, lost), \A r \in Records : io'[r] = io[r]
  PROVE  /\ queue' \in [Kinds -> Queues] /\ pump' \in [Kinds -> PumpAts] /\ QueueOK'
         /\ \A k \in Kinds : pump'[k] \in PumpOver
         /\ ambiguous \subseteq ambiguous' /\ ambiguous' \subseteq Records /\ lost \subseteq ambiguous'
         /\ \A k \in Kinds : io[k] # NoOp /\ io[k].do = "append" /\ io[k].out # "failed" => ToSet(io[k].recs) \subseteq ambiguous'
         /\ \A r \in Records \ ambiguous' : Upstream(r)' => Upstream(r)
         /\ \A r \in Records : request'[r] = "queued" => r \in ToSet(Line(KindOf(r)))' \/ Kept(r)
         /\ \A r \in Records : request'[r] = "stored" => Kept(r)
<1>1. /\ queue' = [k \in Kinds |-> IF k \in Live(Kinds) THEN ReleaseUnwritten(queue[k]) ELSE queue[k]]
      /\ pump' = [k \in Kinds |-> IF k \in Live(Kinds) THEN status[k] ELSE pump[k]]
      /\ ambiguous' = ambiguous \union lost \union
           UNION {ToSet(io[k].recs) : k \in {j \in Live(Kinds) : io[j] # NoOp /\ io[j].out # "failed"}}
  BY DEF StopPumps
<1>2. \A k \in Kinds : k \in Live(Kinds) <=> pump[k] \notin PumpOver
  BY DEF Live
<1>3. \A k \in Kinds : pump'[k] \in PumpOver /\ (pump'[k] = "done" => pump[k] = "done")
  BY <1>1, <1>2 DEF PumpOver
<1>4. pump' \in [Kinds -> PumpAts]
  BY <1>1, <1>3 DEF PumpAts
<1>5. ASSUME NEW k \in Kinds
      PROVE  /\ queue'[k] \in Queues /\ queue'[k].lease = <<>> /\ queue'[k].state = queue[k].state
             /\ queue'[k].pending = Line(k) /\ Line(k)' = Line(k)
             /\ Outstanding(queue'[k]) = Outstanding(queue[k])
  <2>1. queue[k] \in Queues /\ queue[k].pending \in Seq(Records)
    BY QueueAt DEF Queues
  <2>2. CASE k \in Live(Kinds)
    <3>1. queue'[k] = ReleaseUnwritten(queue[k])
      BY <1>1, <2>2
    <3>2. /\ ReleaseUnwritten(queue[k]) \in Queues /\ ReleaseUnwritten(queue[k]).state = queue[k].state
          /\ ReleaseUnwritten(queue[k]).lease = <<>>
          /\ ReleaseUnwritten(queue[k]).pending = queue[k].lease \o queue[k].pending
          /\ ReleaseUnwritten(queue[k]).lease \o ReleaseUnwritten(queue[k]).pending = queue[k].lease \o queue[k].pending
          /\ Outstanding(ReleaseUnwritten(queue[k])) = Outstanding(queue[k])
      BY <2>1, ReleaseUnwrittenMeans
    <3>. QED
      BY <3>1, <3>2, Zenon DEF Line
  <2>3. CASE k \notin Live(Kinds)
    <3>1. queue'[k] = queue[k]
      BY <1>1, <2>3
    <3>2. queue[k].lease = <<>>
      BY <1>2, <2>3, QueueAt DEF PumpOver
    <3>3. <<>> \o queue[k].pending = queue[k].pending
      BY <2>1, Empty
    <3>4. Line(k) = queue[k].pending
      BY <3>2, <3>3, Zenon DEF Line
    <3>. QED
      BY <2>1, <3>1, <3>2, <3>4, LineFrame
  <2>. QED
    BY <2>2, <2>3
<1>6. queue' \in [Kinds -> Queues]
  BY <1>1, <1>5
<1>7. QueueOK'
  <2>1. ASSUME NEW k \in Kinds
        PROVE  /\ Outstanding(queue'[k]) <= MaxOutstanding /\ Len(queue'[k].lease) <= MaxBatch
               /\ queue'[k].state = "closed" => Outstanding(queue'[k]) = 0
               /\ queue'[k].lease # <<>> <=> pump'[k] \in {"lock", "append"}
               /\ Distinct(Line(k)')
               /\ \A q \in ToSet(Line(k)') : request'[q] = "queued" /\ KindOf(q) = k
               /\ pump'[k] = "done" => queue'[k].state = "closed"
    <3>1. Len(queue'[k].lease) <= MaxBatch
      BY <1>5, Empty, SpoolAssumption
    <3>2. pump'[k] \notin {"lock", "append"} /\ queue'[k].lease = <<>>
      BY <1>3, <1>5 DEF PumpOver
    <3>. QED
      BY <1>3, <1>5, <3>1, <3>2, QueueAt
  <2>. QED
    BY <2>1 DEF QueueOK, KindOf
<1>8. ASSUME NEW k \in Kinds, io[k] # NoOp
      PROVE  /\ ToSet(io[k].recs) \subseteq Records
             /\ io[k].out # "failed" => ToSet(io[k].recs) \subseteq ambiguous'
  <2>1. pump[k] = "append" /\ io[k].recs = queue[k].lease /\ k \in Live(Kinds)
    BY <1>2, <1>8, QueueAt DEF PumpOver
  <2>2. queue[k].lease \in Seq(Records)
    BY QueueAt DEF Queues
  <2>3. ToSet(io[k].recs) \subseteq Records
    BY <2>1, <2>2, MembersOfSeq
  <2>4. io[k].out # "failed" => ToSet(io[k].recs) \in {ToSet(io[j].recs) : j \in {l \in Live(Kinds) : io[l] # NoOp /\ io[l].out # "failed"}}
    BY <1>8, <2>1
  <2>. QED
    BY <1>1, <2>3, <2>4
<1>9. ambiguous' \subseteq Records /\ ambiguous \subseteq ambiguous' /\ lost \subseteq ambiguous'
  BY <1>1, <1>8 DEF Live, IInv, Shape
<1>10. ASSUME NEW r \in Records, r \notin ambiguous', Upstream(r)' PROVE Upstream(r)
  <2>. DEFINE k == KindOf(r)
  <2>1. k \in Kinds
    BY TasksApart
  <2>. HIDE DEF k
  <2>2. Succeeded(r)' <=> Succeeded(r)
    BY DEF Succeeded
  <2>3. r \in ToSet(queue[k].lease) => ~Succeeded(k)
    <3>1. ASSUME r \in ToSet(queue[k].lease), Succeeded(k) PROVE FALSE
      BY <1>8, <1>10, <2>1, <3>1, QueueAt DEF Succeeded
    <3>. QED
      BY <3>1
  <2>4. r \in ToSet(queue'[k].lease) => FALSE
    <3>1. ToSet(<<>>) = {}
      BY Empty, MembersOfSeq
    <3>. QED
      BY <1>5, <2>1, <3>1, Zenon
  <2>5. r \in ToSet(queue'[k].pending) => r \in ToSet(queue[k].lease) \/ r \in ToSet(queue[k].pending)
    <3>1. ToSet(Line(k)) = ToSet(queue[k].lease) \union ToSet(queue[k].pending)
      BY <2>1, QueueAt
    <3>. QED
      BY <1>5, <2>1, <3>1
  <2>. QED
    BY <1>10, <2>2, <2>3, <2>4, <2>5 DEF Upstream, k
<1>11. /\ \A r \in Records : request'[r] = "queued" => r \in ToSet(Line(KindOf(r)))' \/ Kept(r)
       /\ \A r \in Records : request'[r] = "stored" => Kept(r)
  BY <1>5, TasksApart DEF IInv, KeptOK
<1>. QED
  BY <1>3, <1>4, <1>6, <1>7, <1>8, <1>9, <1>10, <1>11

\* The operations go on without their tasks.
LEMMA Abandon ==
  ASSUME IInv, NEW T \in SUBSET Tasks, NEW S \in SUBSET T, orphans' = LeftRunning(S), io' = ForgetIo(T)
  PROVE  /\ orphans' \in Seq(Ops) /\ io' \in [Tasks -> Ops \union {NoOp}]
         /\ \A t \in Tasks : io'[t] = IF t \in T THEN NoOp ELSE io[t]
         /\ LockFree => LockFree' /\ Len(orphans') = Len(orphans)
<1>1. Shape /\ IoOK /\ S \in SUBSET Tasks
  BY DEF IInv
<1>2. LockFree => \A t \in S : ~Busy(t)
  BY <1>1 DEF LockFree, Busy
<1>. QED
  BY <1>1, <1>2, LeftRunningMeans, ForgetIoMeans DEF LockFree

LEMMA PumpFailsStep == ASSUME IInv, NEW k \in Kinds, PumpFails(k) PROVE IInv'
<1>. DEFINE status == [j \in Kinds |-> IF j = k THEN "failed" ELSE "cancelled"]
            S == {Other(k)}
<1>1. /\ UNCHANGED <<files, made, written, request, flusher, worker, spool, supervisor, nextKind>>
      /\ StopPumps(Live(Kinds), status, {}) /\ orphans' = LeftRunning(S) /\ io' = ForgetIo(Kinds)
      /\ \/ pump[k] = "append" /\ io[k].out = "failed"
         \/ pump[k] = "lock" /\ LockFree
  BY DEF PumpFails, disk
<1>2. status \in [Kinds -> {"failed", "cancelled"}] /\ S \in SUBSET Kinds /\ Kinds \in SUBSET Tasks /\ Kinds \ S = {k}
  BY TasksApart
<1>. HIDE DEF status, S
<1>3. /\ orphans' \in Seq(Ops) /\ io' \in [Tasks -> Ops \union {NoOp}]
      /\ \A t \in Tasks : io'[t] = IF t \in Kinds THEN NoOp ELSE io[t]
      /\ LockFree => LockFree' /\ Len(orphans') = Len(orphans)
  BY <1>1, <1>2, Abandon
<1>4. \A r \in Records : io'[r] = io[r]
  BY <1>3, TasksApart
<1>5. /\ queue' \in [Kinds -> Queues] /\ pump' \in [Kinds -> PumpAts] /\ QueueOK'
      /\ \A j \in Kinds : pump'[j] \in PumpOver
      /\ ambiguous \subseteq ambiguous' /\ ambiguous' \subseteq Records
      /\ \A j \in Kinds : io[j] # NoOp /\ io[j].do = "append" /\ io[j].out # "failed" => ToSet(io[j].recs) \subseteq ambiguous'
      /\ \A r \in Records \ ambiguous' : Upstream(r)' => Upstream(r)
      /\ \A r \in Records : request'[r] = "queued" => r \in ToSet(Line(KindOf(r)))' \/ Kept(r)
      /\ \A r \in Records : request'[r] = "stored" => Kept(r)
  BY <1>1, <1>2, <1>4, StopPumpsMeans
<1>6. \A t \in Kinds \ S : ~Busy(t)
  BY <1>1, <1>2 DEF Busy, LockFree, Tasks
<1>7. Shape'
  BY <1>1, <1>3, <1>5 DEF IInv, Shape
<1>8. LifeOK'
  <2>1. supervisor # "done" /\ worker # "created"
    BY <1>1 DEF IInv, LifeOK
  <2>. QED
    BY <1>1, <1>3, <1>5, <2>1 DEF IInv, LifeOK
<1>9. "flusher" \notin Kinds
  BY TasksApart
<1>. QED
  BY <1>1, <1>2, <1>5, <1>6, <1>7, <1>8, <1>9, StopKeeps

LEMMA SupervisorStopsPumpsStep == ASSUME IInv, SupervisorStopsPumps PROVE IInv'
<1>. DEFINE status == [j \in Kinds |-> "cancelled"]
<1>1. /\ UNCHANGED <<files, made, written, request, flusher, spool, nextKind>>
      /\ StopPumps(Live(Kinds), status, {}) /\ orphans' = LeftRunning(Kinds) /\ io' = ForgetIo(Kinds)
      /\ supervisor = "running" /\ supervisor' = "ended" /\ worker' \in {"failed", "result_unknown"}
      /\ flusher.at \in FlusherOver
  BY DEF SupervisorStopsPumps, disk, FlusherOver
<1>2. status \in [Kinds -> {"failed", "cancelled"}] /\ Kinds \in SUBSET Tasks /\ Kinds \in SUBSET Kinds
  BY TasksApart
<1>. HIDE DEF status
<1>3. /\ orphans' \in Seq(Ops) /\ io' \in [Tasks -> Ops \union {NoOp}]
      /\ \A t \in Tasks : io'[t] = IF t \in Kinds THEN NoOp ELSE io[t]
  BY <1>1, <1>2, Abandon
<1>4. \A r \in Records : io'[r] = io[r]
  BY <1>3, TasksApart
<1>5. /\ queue' \in [Kinds -> Queues] /\ pump' \in [Kinds -> PumpAts] /\ QueueOK'
      /\ \A j \in Kinds : pump'[j] \in PumpOver
      /\ ambiguous \subseteq ambiguous' /\ ambiguous' \subseteq Records
      /\ \A j \in Kinds : io[j] # NoOp /\ io[j].do = "append" /\ io[j].out # "failed" => ToSet(io[j].recs) \subseteq ambiguous'
      /\ \A r \in Records \ ambiguous' : Upstream(r)' => Upstream(r)
      /\ \A r \in Records : request'[r] = "queued" => r \in ToSet(Line(KindOf(r)))' \/ Kept(r)
      /\ \A r \in Records : request'[r] = "stored" => Kept(r)
  BY <1>1, <1>2, <1>4, StopPumpsMeans
<1>6. Shape'
  BY <1>1, <1>3, <1>5 DEF IInv, Shape, Supervisors
<1>7. LifeOK'
  <2>1. spool # "closed" /\ worker # "created"
    BY <1>1 DEF IInv, LifeOK
  <2>. QED
    BY <1>1, <1>5, <2>1 DEF IInv, LifeOK
<1>8. "flusher" \notin Kinds
  BY TasksApart
<1>. QED
  BY <1>1, <1>2, <1>5, <1>6, <1>7, <1>8, StopKeeps

LEMMA SupervisorStopsFlusherStep == ASSUME IInv, SupervisorStopsFlusher PROVE IInv'
<1>. DEFINE T == {"flusher"}
<1>1. /\ UNCHANGED <<files, made, written, queue, pump, request, worker, spool, nextKind>>
      /\ orphans' = LeftRunning(T) /\ io' = ForgetIo(T)
      /\ supervisor = "running" /\ supervisor' = "stopping" /\ \E k \in Kinds : pump[k] = "failed"
      /\ ambiguous' = ambiguous \union CommittedThenReleased(flusher.at)
      /\ flusher' = [flusher EXCEPT !.at = AfterCancel(flusher.at)]
  BY DEF SupervisorStopsFlusher, FlusherAt, disk
<1>2. T \in SUBSET Tasks /\ T \in SUBSET T
  BY TasksApart
<1>3. /\ orphans' \in Seq(Ops) /\ io' \in [Tasks -> Ops \union {NoOp}]
      /\ \A t \in Tasks : io'[t] = IF t \in T THEN NoOp ELSE io[t]
      /\ LockFree => LockFree' /\ Len(orphans') = Len(orphans)
  <2>. HIDE DEF T
  <2>. QED
    BY <1>1, <1>2, Abandon
<1>4. ambiguous' \subseteq Records /\ ambiguous \subseteq ambiguous' /\ FlusherStops
  <2>1. ToSet(flusher.recs) \subseteq Records /\ ambiguous \subseteq Records
    BY MembersOfSeq DEF IInv, Shape, FlusherStates
  <2>. QED
    BY <1>1, <2>1 DEF CommittedThenReleased, FlusherStops
<1>5. /\ flusher' \in FlusherStates
      /\ flusher'.at \in {"release_cancel", "mark"} \union FlusherOver /\ flusher'.at \notin {"scan", "scanning"}
  BY <1>4, FlusherStopsMeans
<1>6. Shape'
  BY <1>1, <1>3, <1>4, <1>5 DEF IInv, Shape, Supervisors
<1>7. QueueOK'
  BY <1>1, QueueFrame DEF IInv
<1>8. LifeOK'
  <2>1. worker \in {"running", "closing"} /\ \A k \in Kinds : pump[k] \in PumpOver
    BY <1>1 DEF IInv, LifeOK
  <2>. QED
    BY <1>1, <1>3, <1>5, <2>1 DEF IInv, LifeOK
<1>9. \A r \in Records : Upstream(r)' => Upstream(r)
  BY <1>1, <1>3, TasksApart DEF Upstream, Succeeded
<1>10. io["flusher"] # NoOp => io["flusher"].do # "append"
  BY DEF IInv, IoOK, Moving
<1>. QED
  BY <1>1, <1>2, <1>4, <1>6, <1>7, <1>8, <1>9, <1>10, KeptRests, StopKeeps DEF IInv

LEMMA TeardownFlusherStep == ASSUME IInv, TeardownFlusher PROVE IInv'
<1>. DEFINE T == {"flusher"}
<1>1. /\ UNCHANGED <<files, made, written, queue, pump, request, worker, spool, nextKind, ambiguous>>
      /\ orphans' = LeftRunning(T) /\ io' = ForgetIo(T)
      /\ supervisor = "cancelled" /\ supervisor' = "gone"
      /\ flusher' = [flusher EXCEPT !.at = AfterCancel(flusher.at)]
  BY DEF TeardownFlusher, FlusherAt, disk
<1>2. T \in SUBSET Tasks /\ T \in SUBSET T
  BY TasksApart
<1>3. /\ orphans' \in Seq(Ops) /\ io' \in [Tasks -> Ops \union {NoOp}]
      /\ \A t \in Tasks : io'[t] = IF t \in T THEN NoOp ELSE io[t]
      /\ LockFree => LockFree' /\ Len(orphans') = Len(orphans)
  <2>. HIDE DEF T
  <2>. QED
    BY <1>1, <1>2, Abandon
<1>4. FlusherStops
  BY <1>1 DEF FlusherStops, IInv, LifeOK, FlusherOver
<1>5. /\ flusher' \in FlusherStates
      /\ flusher'.at \in {"release_cancel", "mark"} \union FlusherOver /\ flusher'.at \notin {"scan", "scanning"}
  BY <1>4, FlusherStopsMeans
<1>6. Shape'
  BY <1>1, <1>3, <1>5 DEF IInv, Shape, Supervisors
<1>7. QueueOK'
  BY <1>1, QueueFrame DEF IInv
<1>8. LifeOK'
  BY <1>1, <1>3 DEF IInv, LifeOK
<1>9. \A r \in Records : Upstream(r)' => Upstream(r)
  BY <1>1, <1>3, TasksApart DEF Upstream, Succeeded
<1>10. io["flusher"] # NoOp => io["flusher"].do # "append"
  BY DEF IInv, IoOK, Moving
<1>. QED
  BY <1>1, <1>2, <1>4, <1>6, <1>7, <1>8, <1>9, <1>10, KeptRests, StopKeeps DEF IInv

LEMMA TeardownStep == ASSUME IInv, Teardown PROVE IInv'
<1>. DEFINE status == [k \in Kinds |-> "cancelled"]
            T == Kinds \union {"flusher"}
            lost == CommittedThenReleased(flusher.at)
<1>1. /\ UNCHANGED <<files, made, written, request, worker, spool, nextKind>>
      /\ StopPumps(Live(Kinds), status, lost) /\ orphans' = LeftRunning(T) /\ io' = ForgetIo(T)
      /\ supervisor \in {"running", "stopping"} /\ supervisor' = "cancelled"
      /\ flusher' = [flusher EXCEPT !.at = AfterCancel(flusher.at)]
  BY DEF Teardown, FlusherAt, disk
<1>2. status \in [Kinds -> {"failed", "cancelled"}] /\ T \in SUBSET Tasks /\ T \in SUBSET T
  BY TasksApart
<1>3. lost \in SUBSET Records /\ (flusher.at = "cleanup" => ToSet(flusher.recs) \subseteq lost)
  <2>1. ToSet(flusher.recs) \subseteq Records
    BY MembersOfSeq DEF IInv, Shape, FlusherStates
  <2>. QED
    BY <2>1 DEF CommittedThenReleased
<1>. HIDE DEF status, lost
<1>4. /\ orphans' \in Seq(Ops) /\ io' \in [Tasks -> Ops \union {NoOp}]
      /\ \A t \in Tasks : io'[t] = IF t \in T THEN NoOp ELSE io[t]
  <2>. HIDE DEF T
  <2>. QED
    BY <1>1, <1>2, Abandon
<1>5. \A r \in Records : io'[r] = io[r]
  BY <1>4, TasksApart
<1>6. /\ queue' \in [Kinds -> Queues] /\ pump' \in [Kinds -> PumpAts] /\ QueueOK'
      /\ \A j \in Kinds : pump'[j] \in PumpOver
      /\ ambiguous \subseteq ambiguous' /\ ambiguous' \subseteq Records /\ lost \subseteq ambiguous'
      /\ \A j \in Kinds : io[j] # NoOp /\ io[j].do = "append" /\ io[j].out # "failed" => ToSet(io[j].recs) \subseteq ambiguous'
      /\ \A r \in Records \ ambiguous' : Upstream(r)' => Upstream(r)
      /\ \A r \in Records : request'[r] = "queued" => r \in ToSet(Line(KindOf(r)))' \/ Kept(r)
      /\ \A r \in Records : request'[r] = "stored" => Kept(r)
  BY <1>1, <1>2, <1>3, <1>5, StopPumpsMeans
<1>7. FlusherStops
  BY <1>1, <1>3, <1>6 DEF FlusherStops
<1>8. /\ flusher' \in FlusherStates
      /\ flusher'.at \in {"release_cancel", "mark"} \union FlusherOver /\ flusher'.at \notin {"scan", "scanning"}
  BY <1>7, FlusherStopsMeans
<1>9. Shape'
  BY <1>1, <1>4, <1>6, <1>8 DEF IInv, Shape, Supervisors
<1>10. LifeOK'
  <2>1. worker \in {"running", "closing"} /\ spool # "closed"
    BY <1>1 DEF IInv, LifeOK
  <2>. QED
    BY <1>1, <1>6, <1>8, <2>1 DEF IInv, LifeOK
<1>11. io["flusher"] # NoOp => io["flusher"].do # "append"
  BY DEF IInv, IoOK, Moving
<1>. QED
  BY <1>1, <1>2, <1>6, <1>7, <1>9, <1>10, <1>11, StopKeeps

LEMMA CancelRequestStep == ASSUME IInv, NEW r \in Records, CancelRequest(r) PROVE IInv'
<1>. DEFINE T == {r}
<1>1. /\ UNCHANGED <<files, made, written, queue, pump, flusher, worker, spool, supervisor, nextKind>>
      /\ orphans' = LeftRunning(T) /\ io' = ForgetIo(T)
      /\ request[r] \in {"lock", "append"} /\ request' = [request EXCEPT ![r] = "refused"]
      /\ ambiguous' = IF io[r] = NoOp THEN ambiguous ELSE ambiguous \union {r}
  BY DEF CancelRequest, disk
<1>2. T \in SUBSET Tasks /\ T \in SUBSET T /\ "flusher" \notin T
  BY TasksApart
<1>3. /\ orphans' \in Seq(Ops) /\ io' \in [Tasks -> Ops \union {NoOp}]
      /\ \A t \in Tasks : io'[t] = IF t \in T THEN NoOp ELSE io[t]
      /\ LockFree => LockFree' /\ Len(orphans') = Len(orphans)
  <2>. HIDE DEF T
  <2>. QED
    BY <1>1, <1>2, Abandon
<1>4. /\ \A q \in Records \ {r} : request'[q] = request[q]
      /\ request'[r] = "refused" /\ request' \in [Records -> Requests]
  BY <1>1 DEF IInv, Shape, Requests
<1>5. ambiguous \subseteq ambiguous' /\ ambiguous' \subseteq Records /\ (io[r] # NoOp => r \in ambiguous')
  BY <1>1 DEF IInv, Shape
<1>6. \A k \in Kinds : Line(k)' = Line(k) /\ r \notin ToSet(Line(k)) /\ \A q \in ToSet(Line(k)) : q \in Records /\ request'[q] = request[q]
  <2>1. \A k \in Kinds : r \notin ToSet(Line(k))
    BY <1>1, QueueAt
  <2>. QED
    BY <1>1, <1>4, <2>1, QueueAt, LineFrame
<1>7. QueueOK'
  <2>1. ASSUME NEW k \in Kinds
        PROVE  /\ Outstanding(queue'[k]) <= MaxOutstanding /\ Len(queue'[k].lease) <= MaxBatch
               /\ queue'[k].state = "closed" => Outstanding(queue'[k]) = 0
               /\ queue'[k].lease # <<>> <=> pump'[k] \in {"lock", "append"}
               /\ Distinct(Line(k)')
               /\ \A q \in ToSet(Line(k)') : request'[q] = "queued" /\ KindOf(q) = k
               /\ pump'[k] = "done" => queue'[k].state = "closed"
    BY <1>1, <1>6, QueueAt
  <2>. QED
    BY <2>1 DEF QueueOK, KindOf
<1>8. Shape'
  BY <1>1, <1>3, <1>4, <1>5 DEF IInv, Shape
<1>9. LifeOK'
  BY <1>1, <1>3 DEF IInv, LifeOK
<1>10. \A q \in Records : Upstream(q)' => Upstream(q)
  <2>1. ~Upstream(r)'
    <3>1. r \notin ToSet(queue[KindOf(r)].lease) /\ r \notin ToSet(queue[KindOf(r)].pending)
      BY <1>6, QueueAt, TasksApart
    <3>. QED
      BY <1>1, <1>4, <3>1 DEF Upstream, KindOf
  <2>2. ASSUME NEW q \in Records \ {r}, Upstream(q)' PROVE Upstream(q)
    <3>1. KindOf(q) \in Kinds /\ KindOf(q) # r /\ q # r
      BY TasksApart
    <3>2. io'[q] = io[q] /\ io'[KindOf(q)] = io[KindOf(q)]
      BY <1>3, <3>1, TasksApart
    <3>. QED
      BY <1>1, <1>4, <2>2, <3>2 DEF Upstream, Succeeded, KindOf
  <2>. QED
    BY <2>1, <2>2
<1>11. io[r] # NoOp => ToSet(io[r].recs) \subseteq ambiguous'
  <2>1. io[r] # NoOp => io[r].recs = <<r>>
    BY DEF IInv, IoOK
  <2>2. ToSet(<<r>>) = {r}
    BY DEF ToSet
  <2>. QED
    BY <1>5, <2>1, <2>2
<1>12. \A q \in Records : request'[q] = "queued" => q \in ToSet(Line(KindOf(q)))' \/ Kept(q)
  BY <1>4, <1>6, TasksApart DEF IInv, KeptOK
<1>13. \A q \in Records : request'[q] = "stored" => Kept(q)
  BY <1>4 DEF IInv, KeptOK
<1>. QED
  BY <1>1, <1>2, <1>4, <1>5, <1>7, <1>8, <1>9, <1>10, <1>11, <1>12, <1>13, StopKeeps

-----------------------------------------------------------------------------
(* A process starts, and one dies.                                           *)

LEMMA StartStep == ASSUME IInv, Start PROVE IInv'
<1>1. /\ UNCHANGED <<queue, made, written, nextKind, request, io, orphans, ambiguous>>
      /\ worker = "created"
  BY DEF Start
<1>2. /\ spool = "created" /\ supervisor = "none" /\ Len(orphans) = 0 /\ LockFree /\ flusher.at = "none"
      /\ \A k \in Kinds : pump[k] = "none"
  BY <1>1 DEF IInv, LifeOK
<1>3. CASE worker' = "failed" /\ UNCHANGED <<files, spool, pump, flusher, supervisor>>
  <2>1. Shape'
    BY <1>1, <1>3 DEF IInv, Shape
  <2>2. LifeOK'
    BY <1>1, <1>2, <1>3 DEF IInv, LifeOK
  <2>3. ClosedOK'
    BY <1>3 DEF ClosedOK
  <2>. QED
    BY <1>1, <1>3, <2>1, <2>2, <2>3, QuietLife
<1>4. CASE /\ files' = Recover(files) /\ spool' \in {"result_unknown", "running"} /\ worker' = "running"
           /\ supervisor' = "running" /\ pump' = [k \in Kinds |-> "wait"]
           /\ flusher' = [IdleFlusher(<<>>) EXCEPT !.at = "idle"]
  <2>1. flusher'.at = "idle" /\ flusher' \in FlusherStates
    BY <1>4, Rests DEF FlusherAts
  <2>2. /\ DOMAIN files' = DOMAIN files /\ files' \in [DOMAIN files' -> FileSet]
        /\ \A i \in DOMAIN files : /\ files'[i].recs = files[i].recs /\ files'[i].kind = files[i].kind
                                   /\ files'[i].stage = "ready" => files[i].stage = "ready"
    <3>1. \A i \in DOMAIN files : files[i] \in FileSet
      BY DEF IInv, Shape
    <3>2. /\ DOMAIN files' = DOMAIN files
          /\ \A i \in DOMAIN files : files'[i] = IF files[i].stage = "leased" THEN [files[i] EXCEPT !.stage = "unknown"]
                                                                             ELSE files[i]
          /\ files' = [i \in DOMAIN files |-> files'[i]]
      BY <1>4 DEF Recover
    <3>3. ASSUME NEW i \in DOMAIN files
          PROVE  /\ files'[i] \in FileSet /\ files'[i].recs = files[i].recs /\ files'[i].kind = files[i].kind
                 /\ files'[i].stage = "ready" => files[i].stage = "ready"
      BY <3>1, <3>2 DEF FileSet
    <3>. QED
      BY <3>2, <3>3
  <2>3. Shape'
    <3>1. pump' \in [Kinds -> PumpAts]
      BY <1>4 DEF PumpAts
    <3>. QED
      BY <1>1, <1>4, <2>1, <2>2, <3>1 DEF IInv, Shape, Supervisors
  <2>4. \A t \in Tasks : io[t] = NoOp /\ io'[t] = NoOp
    BY <1>1, <1>2 DEF LockFree
  <2>5. IoOK'
    BY <2>4, TasksApart DEF IoOK
  <2>6. QueueOK'
    <3>1. ASSUME NEW k \in Kinds
          PROVE  /\ Outstanding(queue'[k]) <= MaxOutstanding /\ Len(queue'[k].lease) <= MaxBatch
                 /\ queue'[k].state = "closed" => Outstanding(queue'[k]) = 0
                 /\ queue'[k].lease # <<>> <=> pump'[k] \in {"lock", "append"}
                 /\ Distinct(Line(k)')
                 /\ \A q \in ToSet(Line(k)') : request'[q] = "queued" /\ KindOf(q) = k
                 /\ pump'[k] = "done" => queue'[k].state = "closed"
      <4>1. pump'[k] = "wait" /\ queue[k].lease = <<>> /\ Line(k)' = Line(k)
        BY <1>1, <1>2, <1>4, QueueAt, LineFrame
      <4>. QED
        BY <1>1, <4>1, QueueAt
    <3>. QED
      BY <3>1 DEF QueueOK, KindOf
  <2>7. LifeOK'
    BY <1>4 DEF LifeOK
  <2>8. FileOK'
    BY <2>2 DEF IInv, FileOK, KindOf
  <2>9. OrphansOK'
    BY <1>1, <1>2 DEF OrphansOK
  <2>10. ~Held' /\ ~Found'
    BY <2>1, <2>4, TasksApart, OpFacts DEF Held, Found, Holding, Moving, Committed, Releasing
  <2>11. LeaseOK'
    BY <2>10 DEF LeaseOK
  <2>12. \A i \in DOMAIN files : \A r : Has(i, r)' <=> Has(i, r)
    BY <2>2 DEF Has
  <2>13. OnceOK'
    <3>1. \A i \in DOMAIN files : Replayable(i)' => Replayable(i)
      BY <1>1, <2>1, <2>2, <2>10 DEF Replayable, Releasing
    <3>2. \A r \in Records : Upstream(r)' => Upstream(r)
      BY <1>1, UpstreamFrame
    <3>. QED
      BY <1>1, <2>2, <2>12, <3>1, <3>2 DEF IInv, OnceOK
  <2>14. KeptOK'
    <3>1. \A r \in Records : Kept(r) => Kept(r)'
      BY <1>1, <2>2, <2>12 DEF Kept
    <3>2. \A r \in Records : Line(KindOf(r))' = Line(KindOf(r))
      BY <1>1 DEF Line, KindOf
    <3>3. \A r \in Records : /\ request'[r] = "queued" => r \in ToSet(Line(KindOf(r))') \/ Kept(r)'
                             /\ request'[r] = "stored" => Kept(r)'
      BY <1>1, <3>1, <3>2 DEF IInv, KeptOK
    <3>4. flusher'.at \notin Committed /\ \A t \in Tasks : ~Succeeded(t)'
      BY <2>1, <2>4 DEF Committed, Succeeded
    <3>5. 1..Len(orphans') = {}
      BY <1>1, <1>2
    <3>. QED
      BY <3>3, <3>4, <3>5 DEF KeptOK
  <2>15. ClosedOK'
    BY <1>4 DEF ClosedOK
  <2>. QED
    BY <2>3, <2>5, <2>6, <2>7, <2>8, <2>9, <2>11, <2>13, <2>14, <2>15 DEF IInv
<1>. QED
  BY <1>1, <1>3, <1>4 DEF Start, Supervise

\* A process with nothing in its memory.
LEMMA FreshMeans ==
  /\ FreshQueue \in Queues /\ FreshQueue.state = "open" /\ FreshQueue.lease = <<>> /\ FreshQueue.pending = <<>>
  /\ Outstanding(FreshQueue) = 0 /\ FreshQueue.lease \o FreshQueue.pending = <<>> /\ Len(FreshQueue.lease) = 0
  /\ ToSet(<<>>) = {} /\ Distinct(<<>>)
  /\ EmptyIo \in [Tasks -> Ops \union {NoOp}] /\ \A t \in Tasks : EmptyIo[t] = NoOp
<1>1. FreshQueue \in Queues /\ FreshQueue.state = "open" /\ FreshQueue.lease = <<>> /\ FreshQueue.pending = <<>>
  BY Empty DEF FreshQueue, Queues
<1>2. Len(<<>>) = 0 /\ <<>> \in Seq(Records)
  BY Empty
<1>3. Outstanding(FreshQueue) = Len(FreshQueue.pending)
  BY <1>1, OutstandingMeans
<1>4. Outstanding(FreshQueue) = 0 /\ Len(FreshQueue.lease) = 0
  BY <1>1, <1>2, <1>3, Zenon
<1>5. <<>> \o <<>> = <<>>
  BY <1>2, Empty
<1>6. FreshQueue.lease \o FreshQueue.pending = <<>>
  BY <1>1, <1>5, Zenon
<1>7. ToSet(<<>>) = {} /\ Distinct(<<>>)
  <2>. DEFINE e == <<>>
  <2>1. e \in Seq(Records) /\ e = <<>> /\ Len(e) = 0
    BY <1>2
  <2>. HIDE DEF e
  <2>2. ToSet(e) = {}
    BY <2>1, MembersOfSeq
  <2>3. Distinct(e)
    BY <2>1 DEF Distinct
  <2>. QED
    BY <2>2, <2>3 DEF e
<1>8. EmptyIo \in [Tasks -> Ops \union {NoOp}] /\ \A t \in Tasks : EmptyIo[t] = NoOp
  BY DEF EmptyIo
<1>. QED
  BY <1>1, <1>4, <1>6, <1>7, <1>8

LEMMA FreshQueues ==
  ASSUME queue = [k \in Kinds |-> FreshQueue], pump = [k \in Kinds |-> "none"]
  PROVE  /\ QueueOK /\ queue \in [Kinds -> Queues] /\ pump \in [Kinds -> PumpAts]
         /\ \A k \in Kinds : queue[k].lease = <<>> /\ queue[k].pending = <<>>
<1>1. \A k \in Kinds : queue[k] = FreshQueue /\ pump[k] = "none"
  OBVIOUS
<1>2. ASSUME NEW k \in Kinds
      PROVE  /\ Outstanding(queue[k]) <= MaxOutstanding /\ Len(queue[k].lease) <= MaxBatch
             /\ queue[k].state = "closed" => Outstanding(queue[k]) = 0
             /\ queue[k].lease # <<>> <=> pump[k] \in {"lock", "append"}
             /\ Distinct(Line(k))
             /\ \A r \in ToSet(Line(k)) : request[r] = "queued" /\ KindOf(r) = k
             /\ pump[k] = "done" => queue[k].state = "closed"
  <2>1. Line(k) = <<>>
    BY <1>1, FreshMeans, Zenon DEF Line
  <2>2. ToSet(Line(k)) = {} /\ Distinct(Line(k))
    BY <2>1, FreshMeans, Zenon
  <2>3. Outstanding(queue[k]) <= MaxOutstanding /\ Len(queue[k].lease) <= MaxBatch
    BY <1>1, FreshMeans, SpoolAssumption
  <2>4. /\ queue[k].state = "closed" => Outstanding(queue[k]) = 0
        /\ queue[k].lease # <<>> <=> pump[k] \in {"lock", "append"}
        /\ pump[k] = "done" => queue[k].state = "closed"
    BY <1>1, FreshMeans
  <2>. QED
    BY <2>2, <2>3, <2>4
<1>. QED
  BY <1>1, <1>2, FreshMeans DEF QueueOK, PumpAts

LEMMA FreshQueuesNext ==
  ASSUME queue' = [k \in Kinds |-> FreshQueue], pump' = [k \in Kinds |-> "none"]
  PROVE  /\ QueueOK' /\ queue' \in [Kinds -> Queues] /\ pump' \in [Kinds -> PumpAts]
         /\ \A k \in Kinds : queue'[k].lease = <<>> /\ queue'[k].pending = <<>>
<1>1. \A k \in Kinds : queue'[k] = FreshQueue /\ pump'[k] = "none"
  OBVIOUS
<1>2. ASSUME NEW k \in Kinds
      PROVE  /\ Outstanding(queue'[k]) <= MaxOutstanding /\ Len(queue'[k].lease) <= MaxBatch
             /\ queue'[k].state = "closed" => Outstanding(queue'[k]) = 0
             /\ queue'[k].lease # <<>> <=> pump'[k] \in {"lock", "append"}
             /\ Distinct(Line(k)')
             /\ \A r \in ToSet(Line(k)') : request'[r] = "queued" /\ KindOf(r) = k
             /\ pump'[k] = "done" => queue'[k].state = "closed"
  <2>1. Line(k)' = <<>>
    BY <1>1, FreshMeans, Zenon DEF Line
  <2>2. ToSet(Line(k)') = {} /\ Distinct(Line(k)')
    BY <2>1, FreshMeans, Zenon
  <2>3. Outstanding(queue'[k]) <= MaxOutstanding /\ Len(queue'[k].lease) <= MaxBatch
    BY <1>1, FreshMeans, SpoolAssumption
  <2>4. /\ queue'[k].state = "closed" => Outstanding(queue'[k]) = 0
        /\ queue'[k].lease # <<>> <=> pump'[k] \in {"lock", "append"}
        /\ pump'[k] = "done" => queue'[k].state = "closed"
    BY <1>1, FreshMeans
  <2>. QED
    BY <2>2, <2>3, <2>4
<1>. QED
  BY <1>1, <1>2, FreshMeans DEF QueueOK, PumpAts, KindOf

\* The files and the database are what a crash leaves.
LEMMA CrashStep == ASSUME IInv, Crash PROVE IInv'
<1>1. /\ UNCHANGED <<files, made, written, ambiguous>>
      /\ queue' = [k \in Kinds |-> FreshQueue] /\ pump' = [k \in Kinds |-> "none"]
      /\ spool' = "created" /\ worker' = "created" /\ nextKind' = "usage" /\ supervisor' = "none"
      /\ flusher' = [IdleFlusher(<<>>) EXCEPT !.at = "none"]
      /\ io' = EmptyIo /\ orphans' = <<>>
      /\ request' = [r \in Records |->
                       CASE request[r] \notin InMemory -> request[r]
                         [] r \in InFiles \/ written[r] > 0 -> "stored"
                         [] OTHER -> "lost"]
  BY DEF Crash
<1>2. QueueOK' /\ queue' \in [Kinds -> Queues] /\ pump' \in [Kinds -> PumpAts]
      /\ \A k \in Kinds : queue'[k].lease = <<>> /\ queue'[k].pending = <<>>
  BY <1>1, FreshQueuesNext
<1>3. flusher'.at = "none" /\ flusher' \in FlusherStates
  BY <1>1, Rests DEF FlusherAts, FlusherOver
<1>4. io' \in [Tasks -> Ops \union {NoOp}] /\ \A t \in Tasks : io'[t] = NoOp
  BY <1>1, FreshMeans
<1>5. orphans' \in Seq(Ops) /\ Len(orphans') = 0
  BY <1>1, EmptySeq, LenProperties
<1>6. \A r \in Records : /\ request'[r] \in Requests
                         /\ request'[r] \notin {"queued", "lock", "append"}
                         /\ request'[r] = "new" => request[r] = "new"
                         /\ request'[r] = "stored" => request[r] = "stored" \/ r \in InFiles \/ written[r] > 0
  BY <1>1 DEF InMemory, IInv, Shape, Requests
<1>7. Shape'
  <2>1. request' \in [Records -> Requests]
    BY <1>1, <1>6
  <2>. QED
    BY <1>1, <1>2, <1>3, <1>4, <1>5, <2>1 DEF IInv, Shape, Supervisors, Kinds
<1>8. IoOK'
  BY <1>4, TasksApart DEF IoOK
<1>9. LifeOK'
  BY <1>1, <1>3, <1>4, <1>5 DEF LifeOK, LockFree
<1>10. FileOK'
  BY <1>1, FileFrame DEF IInv
<1>11. OrphansOK'
  BY <1>5 DEF OrphansOK
<1>12. ~Held' /\ ~Found' /\ flusher'.at \notin Committed /\ flusher'.at \notin Releasing
  BY <1>3, <1>4, TasksApart, OpFacts DEF Held, Found, Holding, Moving, Committed, Releasing
<1>13. LeaseOK'
  BY <1>12 DEF LeaseOK
<1>14. OnceOK'
  <2>1. \A r \in Records : Upstream(r)' => Upstream(r)
    <3>1. \A r \in Records : r \notin ToSet(queue'[KindOf(r)].lease) /\ r \notin ToSet(queue'[KindOf(r)].pending)
      BY <1>2, FreshMeans, TasksApart, Zenon
    <3>. QED
      BY <1>6, <3>1 DEF Upstream, KindOf
  <2>2. \A i \in DOMAIN files : Replayable(i)' => Replayable(i)
    BY <1>1, <1>5, <1>12 DEF Replayable
  <2>. QED
    BY <1>1, <2>1, <2>2, OnceFrame DEF IInv
<1>15. KeptOK'
  <2>1. \A r \in Records : request'[r] = "stored" => Kept(r)
    <3>1. \A r \in InFiles : \E i \in DOMAIN files : Has(i, r)
      BY DEF InFiles, Has
    <3>. QED
      BY <1>6, <3>1 DEF IInv, KeptOK, Kept
  <2>2. \A t \in Tasks : ~Succeeded(t)'
    BY <1>4 DEF Succeeded
  <2>3. 1..Len(orphans') = {}
    BY <1>5
  <2>. QED
    BY <1>1, <1>6, <1>12, <2>1, <2>2, <2>3, KeptFrame DEF IInv
<1>16. ClosedOK'
  BY <1>1 DEF ClosedOK
<1>. QED
  BY <1>2, <1>7, <1>8, <1>9, <1>10, <1>11, <1>13, <1>14, <1>15, <1>16 DEF IInv

-----------------------------------------------------------------------------
(* The invariant holds from the start and in every step.                     *)

LEMMA Initially == Init => IInv
<1>. SUFFICES ASSUME Init PROVE IInv
  OBVIOUS
<1>1. /\ queue = [k \in Kinds |-> FreshQueue] /\ pump = [k \in Kinds |-> "none"]
      /\ made = 0 /\ written = [r \in Records |-> 0] /\ spool = "created" /\ worker = "created"
      /\ flusher = [IdleFlusher(<<>>) EXCEPT !.at = "none"] /\ nextKind = "usage" /\ supervisor = "none"
      /\ request = [r \in Records |-> "new"] /\ io = EmptyIo /\ orphans = <<>> /\ ambiguous = {} /\ files = <<>>
  BY DEF Init
<1>2. QueueOK /\ queue \in [Kinds -> Queues] /\ pump \in [Kinds -> PumpAts]
      /\ \A k \in Kinds : queue[k].lease = <<>> /\ queue[k].pending = <<>>
  BY <1>1, FreshQueues
<1>3. flusher.at = "none" /\ flusher \in FlusherStates
  BY <1>1, Rests DEF FlusherAts, FlusherOver
<1>4. io \in [Tasks -> Ops \union {NoOp}] /\ \A t \in Tasks : io[t] = NoOp
  BY <1>1, FreshMeans
<1>5. orphans \in Seq(Ops) /\ Len(orphans) = 0
  BY <1>1, EmptySeq, LenProperties
<1>6. DOMAIN files = {} /\ files \in [DOMAIN files -> FileSet]
  <2>1. files \in Seq(FileSet) /\ Len(files) = 0
    BY <1>1, EmptySeq, LenProperties
  <2>2. DOMAIN files = 1..0 /\ files \in [1..0 -> FileSet]
    BY <2>1, LenProperties
  <2>. QED
    BY <2>2
<1>7. Shape
  BY <1>1, <1>2, <1>3, <1>4, <1>5, <1>6, SpoolAssumption DEF Shape, Kinds, Supervisors, Requests
<1>8. IoOK
  BY <1>4, TasksApart DEF IoOK
<1>9. LifeOK
  BY <1>1, <1>3, <1>4, <1>5 DEF LifeOK, LockFree
<1>10. ~Held /\ ~Found /\ flusher.at \notin Committed
  BY <1>3, <1>4, TasksApart, OpFacts DEF Held, Found, Holding, Moving, Committed, Releasing
<1>11. FileOK /\ OrphansOK /\ LeaseOK /\ ClosedOK
  BY <1>1, <1>5, <1>6, <1>10 DEF FileOK, OrphansOK, LeaseOK, ClosedOK
<1>12. OnceOK
  BY <1>1, <1>6 DEF OnceOK
<1>13. KeptOK
  <2>1. \A t \in Tasks : ~Succeeded(t)
    BY <1>4 DEF Succeeded
  <2>. QED
    BY <1>1, <1>5, <1>10, <2>1 DEF KeptOK
<1>. QED
  BY <1>2, <1>7, <1>8, <1>9, <1>11, <1>12, <1>13 DEF IInv

LEMMA Stutters == ASSUME IInv, UNCHANGED vars PROVE IInv'
<1>1. UNCHANGED <<queue, files, made, written, spool, worker, pump, flusher, nextKind,
                  supervisor, request, io, orphans, ambiguous>>
  BY DEF vars, disk
<1>2. Shape'
  BY <1>1 DEF IInv, Shape
<1>3. LifeOK'
  BY <1>1 DEF IInv, LifeOK, LockFree
<1>4. ClosedOK'
  BY <1>1, ClosedFrame DEF IInv
<1>. QED
  BY <1>1, <1>2, <1>3, <1>4, QuietLife

LEMMA Preserved == IInv /\ [Next]_vars => IInv'
<1>. SUFFICES ASSUME IInv, [Next]_vars PROVE IInv'
  OBVIOUS
<1>1. ASSUME NEW r \in Records,
             Put(r) \/ Enqueue(r) \/ EnqueueAppend(r) \/ Enqueued(r) \/ CancelRequest(r)
      PROVE  IInv'
  BY <1>1, PutStep, EnqueueStep, EnqueueAppendStep, EnqueuedStep, CancelRequestStep
<1>2. ASSUME NEW t \in Tasks, ThreadEnds(t) PROVE IInv'
  BY <1>2, ThreadEndsStep
<1>3. CASE OrphanEnds
  BY <1>3, OrphanEndsStep
<1>4. ASSUME NEW k \in Kinds,
             PumpLease(k) \/ PumpReturns(k) \/ PumpAppend(k) \/ PumpAppended(k) \/ PumpFails(k)
      PROVE  IInv'
  BY <1>4, PumpLeaseStep, PumpReturnsStep, PumpAppendStep, PumpAppendedStep, PumpFailsStep
<1>5. CASE FlushWake \/ FlushScan \/ FlushScanned \/ Transaction \/ FlushMove \/ FlushMoved \/ FlushRetry
  BY <1>5, FlushWakeStep, FlushScanStep, FlushScannedStep, TransactionStep, FlushMoveStep,
     FlushMovedStep, FlushRetryStep
<1>6. CASE SupervisorStopsPumps \/ SupervisorStopsFlusher \/ SupervisorStopped \/ SupervisorReturns
  BY <1>6, SupervisorStopsPumpsStep, SupervisorStopsFlusherStep, SupervisorStoppedStep,
     SupervisorReturnsStep
<1>7. CASE Start \/ Close \/ CloseUnstarted \/ CloseSpool \/ Teardown \/ TeardownFlusher \/ Crash
  BY <1>7, StartStep, CloseStep, CloseUnstartedStep, CloseSpoolStep, TeardownStep,
     TeardownFlusherStep, CrashStep
<1>8. CASE UNCHANGED vars
  BY <1>8, Stutters
<1>. QED
  BY <1>1, <1>2, <1>3, <1>4, <1>5, <1>6, <1>7, <1>8 DEF Next

LEMMA Inductive == Spec => []IInv
BY Initially, Preserved, PTL DEF Spec

-----------------------------------------------------------------------------
(* The theorems.                                                             *)

\* Whatever the sizes of the queues, of the batches and of the spool: a queue
\* never holds more than max_outstanding_records nor leases more than
\* max_batch_size, a file is never empty and holds records of its own kind, and
\* the spool lock lets one waited-for operation run at a time.
THEOREM TypeCorrect == Spec => []TypeOK
<1>1. ASSUME IInv PROVE TypeOK
  <2>1. \A k \in Kinds : /\ queue[k].state \in {"open", "closing", "closed"}
                         /\ Outstanding(queue[k]) <= MaxOutstanding
                         /\ Len(queue[k].lease) <= MaxBatch
    BY <1>1 DEF IInv, Shape, QueueOK, Queues
  <2>2. \A i \in DOMAIN files : /\ files[i] \in FileSet
                                /\ files[i].recs # <<>>
                                /\ \A r \in ToSet(files[i].recs) : KindOf(r) = files[i].kind
    BY <1>1 DEF IInv, Shape, FileOK
  <2>3. Cardinality({t \in Tasks : io[t] # NoOp}) <= 1
    <3>. DEFINE B == {t \in Tasks : io[t] # NoOp}
    <3>1. \A t, u \in B : t = u
      BY <1>1 DEF IInv, IoOK
    <3>2. CASE B = {}
      BY <3>2, FS_EmptySet
    <3>3. CASE B # {}
      <4>1. PICK t : t \in B
        BY <3>3
      <4>2. B = {t}
        BY <3>1, <4>1
      <4>. HIDE DEF B
      <4>3. Cardinality(B) = 1
        BY <4>2, FS_Singleton
      <4>. QED
        BY <4>3 DEF B
    <3>. QED
      BY <3>2, <3>3
  <2>4. \A k \in Kinds : pump[k] \in PumpOver \union {"none", "wait", "lock", "append"}
    BY <1>1 DEF IInv, Shape, PumpAts
  <2>. QED
    BY <1>1, <2>1, <2>2, <2>3, <2>4 DEF IInv, Shape, TypeOK
<1>. QED
  BY <1>1, Inductive, PTL

\* The database gets a record at most once, through any number of crashes,
\* restarts, failed writes, lost answers and retries, unless its append or its
\* commit was cut off from the task that waited for it.
THEOREM WrittenOnce == Spec => []AtMostOnce
<1>1. ASSUME IInv PROVE AtMostOnce
  <2>. SUFFICES ASSUME NEW r \in Records, written[r] > 1, r \notin ambiguous PROVE FALSE
    BY DEF AtMostOnce
  <2>1. written[r] <= 1 /\ written[r] \in Nat
    BY <1>1 DEF IInv, Shape, OnceOK
  <2>. QED
    BY <2>1
<1>. QED
  BY <1>1, Inductive, PTL

\* No record is lost silently: one a queue accepted is in the queue, in a spool
\* file or in the database for as long as its process lives, and one the spool
\* confirmed is in a file or in the database whatever crashes and fails later.
THEOREM NothingLost == Spec => []Accounted
<1>1. ASSUME IInv PROVE Accounted
  <2>. SUFFICES ASSUME NEW r \in Records
                PROVE  /\ request[r] = "queued" =>
                            \/ r \in ToSet(queue[KindOf(r)].pending \o queue[KindOf(r)].lease)
                            \/ r \in InFiles \/ written[r] > 0
                       /\ request[r] = "stored" => r \in InFiles \/ written[r] > 0
    BY DEF Accounted
  <2>1. Kept(r) => r \in InFiles \/ written[r] > 0
    BY DEF Kept, Has, InFiles
  <2>. DEFINE k == KindOf(r)
  <2>2. k \in Kinds
    BY TasksApart
  <2>3. ToSet(queue[k].pending \o queue[k].lease) = ToSet(Line(k))
    <3>1. /\ queue[k].lease \in Seq(Records) /\ queue[k].pending \in Seq(Records)
          /\ ToSet(Line(k)) = ToSet(queue[k].lease) \union ToSet(queue[k].pending)
      BY <1>1, <2>2, LineFacts DEF IInv
    <3>. QED
      BY <3>1, MembersOfConcat
  <2>. QED
    BY <1>1, <2>1, <2>3 DEF IInv, KeptOK
<1>. QED
  BY <1>1, Inductive, PTL

\* A worker that reports CLOSED has returned every pump, emptied both queues
\* and left no file behind, but for those of appends that went on after their
\* task was cancelled.
THEOREM ClosesDrained == Spec => []ClosedIsDrained
<1>1. ASSUME IInv, worker = "closed"
      PROVE  (\A k \in Kinds : Outstanding(queue[k]) = 0) /\ InFiles \subseteq ambiguous
  <2>1. supervisor = "done"
    BY <1>1 DEF IInv, LifeOK
  <2>2. \A k \in Kinds : pump[k] = "done"
    BY <1>1, <2>1 DEF IInv, LifeOK
  <2>3. \A k \in Kinds : Outstanding(queue[k]) = 0
    BY <1>1, <2>2 DEF IInv, QueueOK
  <2>4. \A i \in DOMAIN files : ToSet(files[i].recs) \subseteq ambiguous
    BY <1>1 DEF IInv, ClosedOK
  <2>. QED
    BY <2>3, <2>4 DEF InFiles
<1>2. IInv => ClosedIsDrained
  BY <1>1 DEF ClosedIsDrained
<1>. QED
  BY <1>2, Inductive, PTL

Quarantined == \A i \in DOMAIN files : files[i].stage = "unknown" => i \in DOMAIN files' /\ files'[i] = files[i]

\* A file whose write has an unknown outcome is never leased, changed or
\* removed again: not by a retry, a close, a cancelled task's thread, a crash or
\* a restart.
THEOREM QuarantineKept == Spec => QuarantineHolds
<1>1. ASSUME Shape, NEW op \in Ops, NEW res, Effect(op, res) PROVE Quarantined
  <2>1. \A i \in DOMAIN files : Takes(i, op, res) => Quarantined
    BY DEF Takes, Changes, At, Quarantined
  <2>2. Moves(op.id, op, res) => Quarantined
    BY DEF Moves, Changes, At, Quarantined
  <2>3. Creates(op, res) => Quarantined
    BY DEF Creates, Quarantined
  <2>4. LeavesAlone(op, res) => Quarantined
    BY DEF LeavesAlone, Quarantined
  <2>. QED
    BY <1>1, <2>1, <2>2, <2>3, <2>4, EffectMeans
<1>2. ASSUME Shape, [Next]_vars PROVE Quarantined
  <2>1. ASSUME UNCHANGED files PROVE Quarantined
    BY <2>1 DEF Quarantined
  <2>2. ASSUME NEW r \in Records,
               Put(r) \/ Enqueue(r) \/ EnqueueAppend(r) \/ Enqueued(r) \/ CancelRequest(r)
        PROVE  Quarantined
    BY <2>1, <2>2 DEF Put, Enqueue, EnqueueAppend, Enqueued, CancelRequest, disk
  <2>3. ASSUME NEW t \in Tasks, ThreadEnds(t) PROVE Quarantined
    <3>1. io[t] \in Ops
      BY <1>2, <2>3 DEF Shape, ThreadEnds, Busy
    <3>. QED
      BY <1>1, <1>2, <2>3, <3>1 DEF ThreadEnds
  <2>4. CASE OrphanEnds
    <3>1. \A j \in DOMAIN orphans : orphans[j] \in Ops
      BY <1>2, LenProperties, ElementOfSeq DEF Shape
    <3>. QED
      BY <1>1, <1>2, <2>4, <3>1 DEF OrphanEnds
  <2>5. ASSUME NEW k \in Kinds,
               PumpLease(k) \/ PumpReturns(k) \/ PumpAppend(k) \/ PumpAppended(k) \/ PumpFails(k)
        PROVE  Quarantined
    BY <2>1, <2>5 DEF PumpLease, PumpReturns, PumpAppend, PumpAppended, PumpFails, disk
  <2>6. CASE FlushWake \/ FlushScan \/ FlushScanned \/ Transaction \/ FlushMove \/ FlushMoved \/ FlushRetry
    BY <2>1, <2>6 DEF FlushWake, FlushScan, FlushScanned, Transaction, FlushMove, FlushMoved,
       FlushRetry, disk
  <2>7. CASE SupervisorStopsPumps \/ SupervisorStopsFlusher \/ SupervisorStopped \/ SupervisorReturns
    BY <2>1, <2>7 DEF SupervisorStopsPumps, SupervisorStopsFlusher, SupervisorStopped,
       SupervisorReturns, disk
  <2>8. CASE Start
    <3>1. files' = files \/ files' = Recover(files)
      BY <2>8 DEF Start
    <3>2. ASSUME files' = Recover(files) PROVE Quarantined
      BY <3>2 DEF Recover, Quarantined
    <3>. QED
      BY <2>1, <3>1, <3>2
  <2>9. CASE Close \/ CloseUnstarted \/ CloseSpool \/ Teardown \/ TeardownFlusher \/ Crash
    BY <2>1, <2>9 DEF Close, CloseUnstarted, CloseSpool, Teardown, TeardownFlusher, Crash, disk
  <2>10. CASE UNCHANGED vars
    BY <2>1, <2>10 DEF vars, disk
  <2>. QED
    BY <1>2, <2>2, <2>3, <2>4, <2>5, <2>6, <2>7, <2>8, <2>9, <2>10 DEF Next
<1>3. IInv /\ [Next]_vars =>
        [\A i \in DOMAIN files : files[i].stage = "unknown" => i \in DOMAIN files' /\ files'[i] = files[i]]_vars
  BY <1>2 DEF IInv, Quarantined
<1>. QED
  BY <1>3, Inductive, PTL DEF Spec, QuarantineHolds
=============================================================================
