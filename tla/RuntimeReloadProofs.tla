------------------------- MODULE RuntimeReloadProofs -------------------------
(***************************************************************************)
(* Proofs about RuntimeReload.                                             *)
(*                                                                         *)
(* The inductive invariant has a half for the lifecycle state (LifeInv)    *)
(* and one for the configuration (ConfigInv), each stated per process:     *)
(* what the operation that holds the process's asyncio lock may rely on at *)
(* each of its steps, although every other process, every edit and every   *)
(* fault may have happened since it read what it carries.                  *)
(***************************************************************************)
EXTENDS RuntimeReload, SequenceTheorems, FiniteSetTheorems, TLAPS

-----------------------------------------------------------------------------
(* Prefixes, and the versions of the watched files.                          *)

LEMMA PrefixMeans ==
  ASSUME NEW S, NEW s \in Seq(S), NEW t \in Seq(S)
  PROVE  IsPrefix(s, t) <=> Len(s) <= Len(t) /\ \A i \in 1..Len(s) : s[i] = t[i]
<1>1. CASE Len(s) <= Len(t)
  <2>1. SubSeq(s, 1, Len(s)) = s
    BY SubSeqFull
  <2>2. /\ SubSeq(t, 1, Len(s)) \in Seq(S) /\ Len(SubSeq(t, 1, Len(s))) = Len(s)
        /\ \A i \in 1..Len(s) : SubSeq(t, 1, Len(s))[i] = t[i]
    BY <1>1, SubSeqProperties, LenProperties
  <2>3. s = SubSeq(t, 1, Len(s)) <=> \A i \in 1..Len(s) : s[i] = t[i]
    BY <2>2, SeqEqual
  <2>. QED
    BY <1>1, <2>1, <2>3 DEF IsPrefix
<1>2. CASE ~(Len(s) <= Len(t))
  BY <1>2 DEF IsPrefix
<1>. QED
  BY <1>1, <1>2

LEMMA PrefixSelf == ASSUME NEW S, NEW s \in Seq(S) PROVE IsPrefix(s, s)
BY PrefixMeans, LenProperties

LEMMA PrefixNext ==
  ASSUME NEW S, NEW s \in Seq(S), NEW e \in S
  PROVE  Append(s, e) \in Seq(S) /\ IsPrefix(s, Append(s, e))
<1>. DEFINE t == Append(s, e)
<1>1. t \in Seq(S) /\ Len(t) = Len(s) + 1 /\ \A i \in 1..Len(s) : t[i] = s[i]
  BY AppendProperties
<1>. HIDE DEF t
<1>2. Len(s) <= Len(t) /\ \A i \in 1..Len(s) : s[i] = t[i]
  BY <1>1, LenProperties
<1>3. IsPrefix(s, t)
  BY <1>1, <1>2, PrefixMeans
<1>. QED
  BY <1>1, <1>3 DEF t

LEMMA PrefixChain ==
  ASSUME NEW S, NEW s \in Seq(S), NEW t \in Seq(S), NEW u \in Seq(S), IsPrefix(s, t), IsPrefix(t, u)
  PROVE  IsPrefix(s, u)
<1>1. Len(s) \in Nat /\ Len(t) \in Nat /\ Len(u) \in Nat
  BY LenProperties
<1>2. Len(s) <= Len(t) /\ (\A i \in 1..Len(s) : s[i] = t[i]) /\ Len(t) <= Len(u) /\ (\A i \in 1..Len(t) : t[i] = u[i])
  BY PrefixMeans
<1>. QED
  BY <1>1, <1>2, PrefixMeans

LEMMA EmptyPrefix == ASSUME NEW S, NEW t \in Seq(S) PROVE IsPrefix(<< >>, t)
<1>. DEFINE s == << >>
<1>1. s \in Seq(S) /\ Len(s) = 0 /\ Len(t) \in Nat
  BY EmptySeq, LenProperties
<1>. HIDE DEF s
<1>2. Len(s) <= Len(t) /\ \A i \in 1..Len(s) : s[i] = t[i]
  BY <1>1
<1>3. IsPrefix(s, t)
  BY <1>1, <1>2, PrefixMeans
<1>. QED
  BY <1>3 DEF s

Occurs(f, n) == {i \in 1..n : edits[i] = f}

LEMMA OccursFinite == ASSUME NEW f, NEW n \in Nat
                      PROVE  IsFiniteSet(Occurs(f, n)) /\ Cardinality(Occurs(f, n)) \in Nat
<1>1. IsFiniteSet(1..n) /\ Occurs(f, n) \subseteq 1..n
  BY FS_Interval DEF Occurs
<1>. QED
  BY <1>1, FS_Subset, FS_CardinalityType

LEMMA VersionsType == ASSUME NEW n \in Nat
                      PROVE  /\ Versions(n) \in Config
                             /\ \A f \in Files : Versions(n)[f] = Cardinality(Occurs(f, n))
BY OccursFinite DEF Versions, Config, Occurs

LEMMA VersionsGrow ==
  ASSUME NEW m \in Nat, NEW n \in Nat, m <= n, NEW f \in Files
  PROVE  Versions(m)[f] <= Versions(n)[f]
<1>1. Occurs(f, m) \subseteq Occurs(f, n)
  BY DEF Occurs
<1>2. Cardinality(Occurs(f, m)) <= Cardinality(Occurs(f, n))
  BY <1>1, OccursFinite, FS_Subset
<1>. QED
  BY <1>2, VersionsType

\* An edit adds one to its file and changes nothing before it.
LEMMA VersionsEdit ==
  ASSUME edits \in Seq(Files), NEW g \in Files, edits' = Append(edits, g)
  PROVE  /\ edits' \in Seq(Files) /\ Len(edits') = Len(edits) + 1 /\ Len(edits) \in Nat
         /\ \A n \in 0..Len(edits) : Versions(n)' = Versions(n)
         /\ \A f \in Files : ConfigNow[f] <= ConfigNow'[f]
         /\ ConfigNow'[g] = ConfigNow[g] + 1
         /\ ConfigNow \in Config /\ ConfigNow' \in Config
<1>0. PICK N \in Nat : N = Len(edits)
  BY LenProperties
<1>1. edits' \in Seq(Files) /\ Len(edits') = N + 1 /\ (\A i \in 1..N : edits'[i] = edits[i]) /\ edits'[N + 1] = g
  BY <1>0, AppendProperties
<1>2. ASSUME NEW n \in 0..N PROVE Versions(n)' = Versions(n)
  <2>1. \A f \in Files : {i \in 1..n : edits'[i] = f} = {i \in 1..n : edits[i] = f}
    BY <1>1
  <2>. QED
    BY <2>1 DEF Versions
<1>3. ASSUME NEW f \in Files
      PROVE  Cardinality(Occurs(f, N + 1)') = Cardinality(Occurs(f, N)) + IF f = g THEN 1 ELSE 0
  <2>1. IsFiniteSet(Occurs(f, N)) /\ Cardinality(Occurs(f, N)) \in Nat
    BY OccursFinite
  <2>2. CASE f = g
    <3>1. Occurs(f, N + 1)' = Occurs(f, N) \cup {N + 1} /\ N + 1 \notin Occurs(f, N)
      BY <1>1, <2>2 DEF Occurs
    <3>. QED
      BY <2>1, <2>2, <3>1, FS_AddElement
  <2>3. CASE f # g
    <3>1. Occurs(f, N + 1)' = Occurs(f, N)
      BY <1>1, <2>3 DEF Occurs
    <3>. QED
      BY <2>1, <2>3, <3>1
  <2>. QED
    BY <2>2, <2>3
<1>4. ConfigNow' = [f \in Files |-> Cardinality(Occurs(f, N + 1)')]
  BY <1>1 DEF ConfigNow, Versions, Occurs
<1>5. ConfigNow \in Config /\ \A f \in Files : ConfigNow[f] = Cardinality(Occurs(f, N))
  BY <1>0, VersionsType DEF ConfigNow
<1>6. \A f \in Files : ConfigNow'[f] = ConfigNow[f] + IF f = g THEN 1 ELSE 0
  BY <1>3, <1>4, <1>5
<1>7. \A f \in Files : ConfigNow[f] \in Nat /\ ConfigNow'[f] \in Nat
  BY <1>5, <1>6 DEF Config
<1>8. ConfigNow' \in Config
  BY <1>4, <1>7 DEF Config
<1>. QED
  BY <1>0, <1>1, <1>2, <1>5, <1>6, <1>7, <1>8

LEMMA CoherentBounded ==
  ASSUME edits \in Seq(Files), NEW c, Coherent(c)
  PROVE  c \in Config /\ \A f \in Files : c[f] <= ConfigNow[f]
<1>1. PICK n \in 0..Len(edits) : c = Versions(n)
  BY DEF Coherent
<1>2. Len(edits) \in Nat /\ n \in Nat /\ n <= Len(edits)
  BY LenProperties
<1>. QED
  BY <1>1, <1>2, VersionsType, VersionsGrow DEF ConfigNow

LEMMA CoherentNow == ASSUME edits \in Seq(Files) PROVE Coherent(ConfigNow) /\ ConfigNow \in Config
BY LenProperties, VersionsType DEF Coherent, ConfigNow

LEMMA CoherentStays ==
  ASSUME edits \in Seq(Files), NEW g \in Files, edits' = Append(edits, g), NEW c, Coherent(c)
  PROVE  Coherent(c)'
BY VersionsEdit DEF Coherent

-----------------------------------------------------------------------------
(* Types.                                                                    *)

\* The actions of one process.
Act(p) ==
  \/ Boot(p) \/ Proceed(p) \/ Watcher(p)
  \/ CommandReload(p) \/ BeginChange(p) \/ DraftCommit(p)
  \/ FsyncFails(p) \/ ReadBackFails(p) \/ OperationFails(p) \/ RecheckFails(p)
  \/ ProcessCrash(p)
  \/ \E f \in Files : Patch(p, f)

LEMMA StartedType ==
  ASSUME NEW kind \in Kinds, NEW life \in Life
  PROVE  Started(kind, life) \in Operation
BY DEF Started, Operation, Kinds, Steps

LEMMA AfterType ==
  ASSUME TypeOK, NEW p \in Procs, op[p] # None
  PROVE  After(p) \in Life /\ IsPrefix(op[p].life, After(p))
<1>1. op[p].life \in Life
  BY DEF TypeOK, Operation
<1>. QED
  BY <1>1, PrefixNext DEF After, Life

LEMMA GotoType ==
  ASSUME TypeOK, NEW p \in Procs, op[p] # None, NEW s \in Steps, Goto(p, s)
  PROVE  op' \in [Procs -> Operation \cup {None}]
BY DEF TypeOK, Operation, Goto

LEMMA EndType ==
  ASSUME TypeOK, NEW p \in Procs, End(p)
  PROVE  op' \in [Procs -> Operation \cup {None}] /\ watch' \in [Procs -> WatchPcs]
BY DEF TypeOK, End, WatchPcs

LEMMA AbortType ==
  ASSUME TypeOK, NEW p \in Procs, Abort(p)
  PROVE  /\ op' \in [Procs -> Operation \cup {None}] /\ watch' \in [Procs -> WatchPcs]
         /\ fp' \in [Procs -> Snapshot \cup {None}] /\ pub' \in [Procs -> Snapshot \cup {None}]
BY EndType DEF TypeOK, Abort

\* What Patch does to one file's version in the snapshot of p.
Patched(p, f) ==
  /\ pub[p] # None /\ edits' = Append(edits, f)
  /\ pub' \in [Procs -> Snapshot \cup {None}] /\ op' \in [Procs -> Operation \cup {None}]
  /\ pub'[p].life = pub[p].life
  /\ \A g \in Files : pub'[p].config[g] = IF g = f THEN ConfigNow[f] + 1 ELSE pub[p].config[g]
  /\ op'[p] # None => op[p] # None
  /\ op[p] # None =>
       /\ op'[p].kind = op[p].kind /\ op'[p].life = op[p].life /\ op'[p].step = op[p].step
       /\ op'[p].source = op[p].source /\ op'[p].candidate = op[p].candidate
       /\ op'[p].current = FALSE

LEMMA PatchMeans ==
  ASSUME TypeOK, NEW p \in Procs, NEW f \in Files, Patch(p, f)
  PROVE  Patched(p, f)
<1>. DEFINE n == ConfigNow[f] + 1
<1>1. n \in Nat
  BY CoherentNow DEF TypeOK, Config
<1>2. pub' = [pub EXCEPT ![p].config[f] = n] /\ pub[p] # None /\ edits' = Append(edits, f)
  BY DEF Patch, ConfigNow
<1>3. pub[p] \in Snapshot /\ pub[p].life \in Life /\ pub[p].config \in Config
  BY <1>2 DEF TypeOK, Snapshot
<1>. HIDE DEF n
<1>4. [pub[p].config EXCEPT ![f] = n] \in Config
  BY <1>1, <1>3 DEF Config
<1>5. pub' \in [Procs -> Snapshot \cup {None}]
  BY <1>1, <1>2, <1>3, <1>4 DEF Snapshot, TypeOK
<1>6. pub'[p].life = pub[p].life /\ pub'[p].config = [pub[p].config EXCEPT ![f] = n]
  BY <1>1, <1>2, <1>3 DEF Snapshot, TypeOK
<1>7. \A g \in Files : pub'[p].config[g] = IF g = f THEN n ELSE pub[p].config[g]
  BY <1>3, <1>6 DEF Config
<1>8. op'[p] = IF op[p] = None THEN None ELSE [op[p] EXCEPT !.current = FALSE]
  BY DEF Patch, TypeOK, Idle
<1>9. op[p] # None => op[p] \in Operation
  BY DEF TypeOK
<1>10. op' \in [Procs -> Operation \cup {None}]
  BY DEF Patch, TypeOK, Idle, Operation
<1>11. op[p] # None =>
         /\ op'[p].kind = op[p].kind /\ op'[p].life = op[p].life /\ op'[p].step = op[p].step
         /\ op'[p].source = op[p].source /\ op'[p].candidate = op[p].candidate
         /\ op'[p].current = FALSE
  BY <1>8, <1>9 DEF Operation
<1>. QED
  BY <1>2, <1>5, <1>6, <1>7, <1>8, <1>10, <1>11 DEF n, Patched

LEMMA BuildMeans ==
  ASSUME TypeOK, NEW p \in Procs, Build(p)
  PROVE  /\ op[p] # None /\ op[p].step = "build"
         /\ op' \in [Procs -> Operation \cup {None}]
         /\ op'[p].kind = op[p].kind /\ op'[p].life = op[p].life
         /\ op'[p].source = op[p].source /\ op'[p].current = op[p].current
         /\ \E f \in Files :
              /\ op'[p].step = IF \E g \in Files \ {f} : op[p].candidate[g] = None THEN "build" ELSE "observe"
              /\ \A g \in Files : op'[p].candidate[g] = IF g = f THEN ConfigNow[f] ELSE op[p].candidate[g]
<1>1. op \in [Procs -> Operation \cup {None}] /\ op[p] \in Operation /\ At(p, "build")
  BY DEF TypeOK, Build, At
<1>2. PICK f \in Files :
        op' = [op EXCEPT ![p].candidate[f] = ConfigNow[f],
                         ![p].step = IF \E g \in Files \ {f} : op[p].candidate[g] = None
                                       THEN "build" ELSE "observe"]
  BY DEF Build
<1>. DEFINE s == IF \E g \in Files \ {f} : op[p].candidate[g] = None THEN "build" ELSE "observe"
            n == ConfigNow[f]
<1>3. n \in Nat /\ s \in Steps
  BY CoherentNow DEF TypeOK, Config, Steps
<1>4. op' = [op EXCEPT ![p].candidate[f] = n, ![p].step = s]
  BY <1>2
<1>. HIDE DEF n, s
<1>5. op' \in [Procs -> Operation \cup {None}]
  BY <1>1, <1>3, <1>4 DEF Operation
<1>6. /\ op'[p].kind = op[p].kind /\ op'[p].life = op[p].life
      /\ op'[p].source = op[p].source /\ op'[p].current = op[p].current /\ op'[p].step = s
  BY <1>1, <1>3, <1>4 DEF Operation
<1>7. \A g \in Files : op'[p].candidate[g] = IF g = f THEN n ELSE op[p].candidate[g]
  BY <1>1, <1>3, <1>4 DEF Operation
<1>. QED
  BY <1>1, <1>5, <1>6, <1>7 DEF At, n, s

LEMMA TypeStart ==
  ASSUME TypeOK, NEW p \in Procs, Boot(p) \/ Watcher(p) \/ CommandReload(p) \/ BeginChange(p)
  PROVE  TypeOK'
<1>. USE DEF TypeOK, disk, WatchPcs
<1>0. ConfigNow \in Config /\ visible \in Life
  BY CoherentNow
<1>1. CASE Boot(p)
  BY <1>1, <1>0, StartedType DEF Boot, Kinds
<1>2. CASE StartWatcher(p)
  BY <1>2 DEF StartWatcher
<1>3. CASE InitFingerprint(p)
  BY <1>3, <1>0 DEF InitFingerprint, Snapshot
<1>4. CASE Notice(p)
  BY <1>4 DEF Notice
<1>5. CASE BeginReload(p)
  BY <1>5, <1>0, StartedType DEF BeginReload, Kinds
<1>6. CASE CommandReload(p)
  BY <1>6, <1>0, StartedType DEF CommandReload, Kinds
<1>7. CASE BeginChange(p)
  BY <1>7, <1>0, StartedType DEF BeginChange, Kinds
<1>. QED
  BY <1>1, <1>2, <1>3, <1>4, <1>5, <1>6, <1>7 DEF Watcher

-----------------------------------------------------------------------------
(* The inductive invariant.                                                  *)

Committing == {"replace", "fsync", "resolve", "project"}
Published  == {"recheck", "refingerprint"}
Verified   == Committing \cup {"publish"}

\* What the operation of p knows of the lifecycle state: its precondition is
\* still a prefix of what is visible, the file it replaced is there as long as
\* it holds the lock, and past the fsync its change is durable.
LifeOK(p) ==
  /\ pub[p] # None => IsPrefix(pub[p].life, visible)
  /\ op[p] # None =>
       /\ IsPrefix(op[p].life, visible)
       /\ pub[p] # None /\ op[p].step \notin Published => IsPrefix(pub[p].life, op[p].life)
       /\ op[p].step \in Committing \cup Published => op[p].kind = "change"
       /\ op[p].step = "fsync" => flock = p /\ visible = After(p)
       /\ op[p].kind = "change" /\ op[p].step \in {"resolve", "project", "publish"} \cup Published
            => IsPrefix(After(p), durable)

\* What it knows of the configuration: every version it has read lies between
\* the first fingerprint and the present, and equals the fingerprint once that
\* was read again.
ConfigOK(p) ==
  /\ pub[p] # None => \A f \in Files : pub[p].config[f] <= ConfigNow[f]
  /\ op[p] # None =>
       /\ op[p].step = "source" => \A f \in Files : op[p].candidate[f] = None
       /\ op[p].step # "source" =>
            /\ Coherent(op[p].source)
            /\ op[p].current /\ pub[p] # None
                 => \A f \in Files : pub[p].config[f] <= op[p].source[f]
       /\ op[p].step \in {"build", "observe", "verify"} =>
            \A f \in Files : op[p].candidate[f] # None =>
               op[p].source[f] <= op[p].candidate[f] /\ op[p].candidate[f] <= ConfigNow[f]
       /\ op[p].step \in {"observe", "verify"} => \A f \in Files : op[p].candidate[f] # None
       /\ op[p].step \in Verified => op[p].candidate = op[p].source

LifeInv   == IsPrefix(durable, visible) /\ AckedSurvives /\ \A p \in Procs : LifeOK(p)
ConfigInv == \A p \in Procs : ConfigOK(p)
IInv      == TypeOK /\ LifeInv /\ ConfigInv

-----------------------------------------------------------------------------

LEMMA TypeProceed ==
  ASSUME TypeOK, NEW p \in Procs, ConfigOK(p), Proceed(p)
  PROVE  TypeOK'
<1>. USE DEF TypeOK, disk
<1>0. ConfigNow \in Config /\ visible \in Life /\ edits \in Seq(Files)
  BY CoherentNow
<1>1. CASE Source(p)
  BY <1>1, <1>0 DEF Source, At, Operation, Steps
<1>2. CASE Build(p)
  BY <1>2, BuildMeans DEF Build
<1>3. CASE Observe(p)
  BY <1>3, GotoType, AbortType DEF Observe, At, Steps
<1>4. CASE Verify(p)
  BY <1>4, GotoType, AbortType DEF Verify, At, Steps
<1>5. CASE PublishReload(p)
  <2>1. op[p].source \in Config /\ op[p].candidate = op[p].source /\ op[p].life \in Life
    BY <1>5, <1>0, CoherentBounded DEF PublishReload, At, ConfigOK, Verified, Operation
  <2>2. CASE op[p].current
    <3>1. End(p) /\ UNCHANGED <<visible, durable, flock, edits, acked, faults, missed>>
      BY <1>5, <2>2 DEF PublishReload
    <3>2. /\ pub' = [pub EXCEPT ![p] = [life |-> op[p].life, config |-> op[p].candidate]]
          /\ fp' = [fp EXCEPT ![p] = [life |-> op[p].life, config |-> op[p].source]]
      BY <1>5, <2>2 DEF PublishReload
    <3>3. pub' \in [Procs -> Snapshot \cup {None}] /\ fp' \in [Procs -> Snapshot \cup {None}]
      BY <2>1, <3>2 DEF Snapshot
    <3>4. op[p] # None
      BY <1>5 DEF PublishReload, At
    <3>. QED
      BY <3>1, <3>3, <3>4, EndType
  <2>3. CASE ~op[p].current
    BY <1>5, <2>3, AbortType DEF PublishReload
  <2>. QED
    BY <2>2, <2>3
<1>6. CASE Replace(p)
  BY <1>6, GotoType, AbortType, AfterType DEF Replace, At, Steps
<1>7. CASE Fsync(p)
  BY <1>7, GotoType DEF Fsync, At, Steps
<1>8. CASE Resolve(p)
  BY <1>8, GotoType, AbortType DEF Resolve, At, Steps
<1>9. CASE Project(p)
  BY <1>9, GotoType DEF Project, At, Steps
<1>10. CASE PublishChange(p)
  <2>1. op[p].source \in Config /\ op[p].candidate = op[p].source /\ After(p) \in Life
    BY <1>10, <1>0, CoherentBounded, AfterType DEF PublishChange, At, ConfigOK, Verified
  <2>. QED
    BY <1>10, <2>1, GotoType, AbortType DEF PublishChange, At, Steps, Snapshot
<1>11. CASE Recheck(p)
  BY <1>11, GotoType, EndType DEF Recheck, At, Steps
<1>12. CASE Refingerprint(p)
  BY <1>12, <1>0, AfterType, EndType DEF Refingerprint, At, Snapshot
<1>. QED
  BY <1>1, <1>2, <1>3, <1>4, <1>5, <1>6, <1>7, <1>8, <1>9, <1>10, <1>11, <1>12 DEF Proceed

LEMMA TypeFaults ==
  ASSUME TypeOK, NEW p \in Procs,
         \/ FsyncFails(p) \/ ReadBackFails(p) \/ OperationFails(p) \/ RecheckFails(p)
         \/ ProcessCrash(p)
  PROVE  TypeOK'
<1>. USE ConstantsAssumption DEF TypeOK, disk, WatchPcs
<1>1. CASE FsyncFails(p)
  BY <1>1, AbortType DEF FsyncFails
<1>2. CASE ReadBackFails(p)
  BY <1>2, GotoType DEF ReadBackFails, At, Steps
<1>3. CASE OperationFails(p)
  BY <1>3, AbortType DEF OperationFails
<1>4. CASE RecheckFails(p)
  BY <1>4, EndType DEF RecheckFails
<1>5. CASE ProcessCrash(p)
  BY <1>5 DEF ProcessCrash
<1>. QED
  BY <1>1, <1>2, <1>3, <1>4, <1>5

LEMMA TypeOutside ==
  ASSUME TypeOK, NEW p \in Procs, NEW f \in Files, Patch(p, f) \/ Edit(f)
  PROVE  TypeOK'
<1>. USE DEF TypeOK, disk, local, WatchPcs
<1>1. CASE Patch(p, f)
  BY <1>1, PatchMeans, VersionsEdit DEF Patch, Patched
<1>2. CASE Edit(f)
  BY <1>2, VersionsEdit DEF Edit
<1>. QED
  BY <1>1, <1>2

LEMMA TypeDraft == ASSUME TypeOK, NEW p \in Procs, DraftCommit(p) PROVE TypeOK'
BY PrefixNext DEF TypeOK, DraftCommit, Life, local

LEMMA TypeStep == ASSUME TypeOK, ConfigInv, Next PROVE TypeOK'
<1>1. ASSUME NEW p \in Procs, Act(p) PROVE TypeOK'
  BY <1>1, TypeStart, TypeProceed, TypeFaults, TypeOutside, TypeDraft DEF Act, ConfigInv
<1>2. CASE HostCrash
  BY <1>2, ConstantsAssumption DEF HostCrash, TypeOK, WatchPcs
<1>3. ASSUME NEW f \in Files, Edit(f) PROVE TypeOK'
  BY <1>3, VersionsEdit DEF Edit, TypeOK, local
<1>. QED
  BY <1>1, <1>2, <1>3 DEF Next, Act

-----------------------------------------------------------------------------
(* What an action of p leaves alone, and what it makes of its operation.     *)

LEMMA OthersAlone ==
  ASSUME TypeOK, NEW p \in Procs, Act(p), NEW q \in Procs, q # p
  PROVE  op'[q] = op[q] /\ pub'[q] = pub[q]
<1>. USE DEF TypeOK
<1>1. CASE Boot(p) \/ Watcher(p) \/ CommandReload(p) \/ BeginChange(p) \/ DraftCommit(p)
  BY <1>1 DEF Boot, Watcher, StartWatcher, InitFingerprint, Notice, BeginReload, CommandReload,
              BeginChange, DraftCommit, local
<1>2. CASE \/ FsyncFails(p) \/ ReadBackFails(p) \/ OperationFails(p) \/ RecheckFails(p) \/ ProcessCrash(p)
  BY <1>2 DEF FsyncFails, ReadBackFails, OperationFails, RecheckFails, ProcessCrash, Abort, End, Goto
<1>3. CASE Proceed(p)
  <2>1. CASE Source(p) \/ Observe(p) \/ Verify(p) \/ PublishReload(p) \/ Replace(p) \/ Fsync(p)
    BY <2>1 DEF Source, Observe, Verify, PublishReload, Replace, Fsync, Abort, End, Goto
  <2>2. CASE Build(p)
    BY <2>2 DEF Build
  <2>3. CASE Resolve(p) \/ Project(p) \/ PublishChange(p) \/ Recheck(p) \/ Refingerprint(p)
    BY <2>3 DEF Resolve, Project, PublishChange, Recheck, Refingerprint, Abort, End, Goto
  <2>. QED
    BY <1>3, <2>1, <2>2, <2>3 DEF Proceed
<1>4. ASSUME NEW f \in Files, Patch(p, f) PROVE op'[q] = op[q] /\ pub'[q] = pub[q]
  BY <1>4 DEF Patch
<1>. QED
  BY <1>1, <1>2, <1>3, <1>4 DEF Act

LEMMA GotoMeans ==
  ASSUME TypeOK, NEW p \in Procs, op[p] # None, NEW s \in Steps, Goto(p, s)
  PROVE  /\ op'[p].step = s /\ op'[p].kind = op[p].kind /\ op'[p].life = op[p].life
         /\ op'[p].source = op[p].source /\ op'[p].candidate = op[p].candidate
         /\ op'[p].current = op[p].current
BY DEF TypeOK, Operation, Goto

LEMMA EndMeans == ASSUME TypeOK, NEW p \in Procs, End(p) PROVE op'[p] = None
<1>1. op' = [op EXCEPT ![p] = None]
  BY DEF End
<1>2. op \in [Procs -> Operation \cup {None}]
  BY DEF TypeOK
<1>. QED
  BY <1>1, <1>2

LEMMA LifeFrame ==
  ASSUME TypeOK, TypeOK', NEW q \in Procs, LifeOK(q), op'[q] = op[q], pub'[q] = pub[q],
         IsPrefix(visible, visible'), IsPrefix(durable, durable'),
         op[q] # None /\ op[q].step = "fsync" => flock' = flock /\ visible' = visible
  PROVE  LifeOK(q)'
<1>1. visible \in Life /\ visible' \in Life /\ durable \in Life /\ durable' \in Life
  BY DEF TypeOK
<1>2. pub[q] # None => pub[q].life \in Life /\ IsPrefix(pub[q].life, visible')
  <2>1. pub \in [Procs -> Snapshot \cup {None}]
    BY DEF TypeOK
  <2>2. pub[q] # None => pub[q].life \in Life /\ IsPrefix(pub[q].life, visible)
    BY <2>1 DEF Snapshot, LifeOK
  <2>. QED
    BY <1>1, <2>2, PrefixChain DEF Life
<1>3. op[q] # None => op[q].life \in Life /\ IsPrefix(op[q].life, visible')
  <2>1. op[q] # None => op[q].life \in Life /\ IsPrefix(op[q].life, visible)
    BY DEF TypeOK, Operation, LifeOK
  <2>. QED
    BY <1>1, <2>1, PrefixChain DEF Life
<1>4. op[q] # None /\ IsPrefix(After(q), durable) => IsPrefix(After(q), durable')
  BY <1>1, AfterType, PrefixChain DEF Life
<1>5. After(q)' = After(q)
  BY DEF After
<1>. QED
  BY <1>2, <1>3, <1>4, <1>5 DEF LifeOK

LEMMA LifeEnds ==
  ASSUME TypeOK, TypeOK', NEW q \in Procs, LifeOK(q), op'[q] = None, pub'[q] = pub[q],
         visible' = visible
  PROVE  LifeOK(q)'
BY DEF LifeOK

LEMMA LifeMoves ==
  ASSUME TypeOK, NEW p \in Procs, LifeOK(p), op[p] # None, NEW s \in Steps, Goto(p, s), pub' = pub,
         UNCHANGED <<visible, durable, flock>>, s # "fsync",
         s \in Committing \cup Published => op[p].kind = "change",
         op[p].step \in Published => s \in Published,
         op[p].kind = "change" /\ s \in {"resolve", "project", "publish"} \cup Published
           => IsPrefix(After(p), durable)
  PROVE  LifeOK(p)'
BY GotoMeans DEF LifeOK, After

LEMMA LifeStarts ==
  ASSUME TypeOK, NEW p \in Procs, LifeOK(p), NEW kind, op' = [op EXCEPT ![p] = Started(kind, visible)],
         pub' = pub, UNCHANGED <<visible, durable, flock>>
  PROVE  LifeOK(p)'
<1>1. op'[p].life = visible /\ op'[p].step = "source"
  BY DEF TypeOK, Started
<1>2. IsPrefix(visible, visible)
  BY PrefixSelf DEF TypeOK, Life
<1>. QED
  BY <1>1, <1>2 DEF LifeOK, Committing, Published

LEMMA LifeGrows ==
  ASSUME TypeOK, TypeOK', LifeInv, NEW p \in Procs, Act(p)
  PROVE  /\ IsPrefix(visible, visible') /\ IsPrefix(durable, durable') /\ IsPrefix(durable', visible')
         /\ \A q \in Procs \ {p} : op[q] # None /\ op[q].step = "fsync"
                                   => flock' = flock /\ visible' = visible
<1>. DEFINE Held == \A q \in Procs \ {p} : op[q] # None /\ op[q].step = "fsync"
                                           => flock = q /\ flock # p /\ ~Unlocked
<1>1. visible \in Life /\ durable \in Life /\ IsPrefix(durable, visible) /\ IsPrefix(visible, visible)
      /\ IsPrefix(durable, durable) /\ Held
  <2>1. visible \in Life /\ durable \in Life /\ IsPrefix(durable, visible)
    BY DEF TypeOK, LifeInv
  <2>2. Held
    BY ConstantsAssumption DEF LifeInv, LifeOK, Unlocked
  <2>. QED
    BY <2>1, <2>2, PrefixSelf DEF Life
<1>. HIDE DEF Held
<1>2. CASE \/ Boot(p) \/ Watcher(p) \/ CommandReload(p) \/ BeginChange(p)
           \/ OperationFails(p) \/ RecheckFails(p)
  BY <1>1, <1>2 DEF Boot, Watcher, StartWatcher, InitFingerprint, Notice, BeginReload, CommandReload,
                    BeginChange, OperationFails, RecheckFails, disk
<1>3. CASE FsyncFails(p) \/ ProcessCrash(p)
  <2>1. visible' = visible /\ durable' = durable /\ (FsyncFails(p) => flock = p)
    BY <1>3 DEF FsyncFails, ProcessCrash, LifeInv, LifeOK, At
  <2>2. flock' = flock \/ flock = p
    BY <1>3, <2>1 DEF ProcessCrash
  <2>. QED
    BY <1>1, <2>1, <2>2 DEF Held
<1>4. CASE Fsync(p) \/ ReadBackFails(p)
  <2>1. flock = p /\ visible' = visible /\ durable' = visible
    BY <1>4 DEF Fsync, ReadBackFails, LifeInv, LifeOK, At
  <2>. QED
    BY <1>1, <2>1 DEF Held
<1>5. CASE \/ Source(p) \/ Build(p) \/ Observe(p) \/ Verify(p) \/ PublishReload(p) \/ Resolve(p)
           \/ Project(p) \/ PublishChange(p) \/ Recheck(p) \/ Refingerprint(p)
  BY <1>1, <1>5 DEF Source, Build, Observe, Verify, PublishReload, Resolve, Project, PublishChange,
                    Recheck, Refingerprint, disk
<1>6. CASE Replace(p)
  <2>1. CASE visible = op[p].life
    <3>1. visible' = After(p) /\ durable' = durable /\ Unlocked /\ op[p] # None
      BY <1>6, <2>1 DEF Replace, At
    <3>2. IsPrefix(visible, visible') /\ visible' \in Life
      BY <2>1, <3>1, AfterType
    <3>3. IsPrefix(durable, visible')
      BY <1>1, <3>2, PrefixChain DEF Life
    <3>. QED
      BY <1>1, <3>1, <3>2, <3>3 DEF Held
  <2>2. CASE visible # op[p].life
    BY <1>1, <1>6, <2>2 DEF Replace
  <2>. QED
    BY <2>1, <2>2
<1>7. CASE DraftCommit(p)
  <2>1. Unlocked /\ visible' = Append(visible, None) /\ durable' = visible'
    BY <1>7 DEF DraftCommit
  <2>2. visible' \in Life /\ IsPrefix(visible, visible')
    BY <1>1, <2>1, PrefixNext DEF Life
  <2>3. IsPrefix(durable, durable') /\ IsPrefix(durable', visible')
    BY <1>1, <2>1, <2>2, PrefixChain, PrefixSelf DEF Life
  <2>. QED
    BY <1>1, <2>1, <2>2, <2>3 DEF Held
<1>8. ASSUME NEW f \in Files, Patch(p, f)
      PROVE  UNCHANGED <<visible, durable, flock>>
  BY <1>8 DEF Patch
<1>. QED
  BY <1>1, <1>2, <1>3, <1>4, <1>5, <1>6, <1>7, <1>8 DEF Act, Proceed

-----------------------------------------------------------------------------
(* The lifecycle half of the invariant.                                      *)

LEMMA LifeProceeds ==
  ASSUME TypeOK, TypeOK', LifeInv, NEW p \in Procs, Proceed(p)
  PROVE  LifeOK(p)' /\ AckedSurvives'
<1>. USE DEF Committing, Published, Steps, At, disk
<1>0. LifeOK(p) /\ AckedSurvives /\ acked \subseteq Life
  BY DEF LifeInv, TypeOK
<1>00. UNCHANGED <<visible, durable>> /\ acked' = acked => AckedSurvives'
  BY <1>0 DEF AckedSurvives
<1>1. CASE Source(p)
  <2>1. op'[p].step = "build" /\ op'[p].life = op[p].life /\ op'[p].kind = op[p].kind
    BY <1>1 DEF Source, TypeOK, Operation
  <2>. QED
    BY <1>0, <1>00, <1>1, <2>1 DEF Source, LifeOK
<1>2. CASE Build(p)
  <2>1. op[p] # None /\ op[p].step = "build" /\ op'[p].step \in {"build", "observe"}
        /\ op'[p].life = op[p].life /\ op'[p].kind = op[p].kind
    BY <1>2, BuildMeans
  <2>. QED
    BY <1>0, <1>00, <1>2, <2>1 DEF Build, LifeOK
<1>3. CASE Observe(p)
  BY <1>0, <1>00, <1>3, LifeMoves, LifeEnds, EndMeans DEF Observe, Abort
<1>4. CASE Verify(p)
  BY <1>0, <1>00, <1>4, LifeMoves, LifeEnds, EndMeans DEF Verify, Abort
<1>5. CASE PublishReload(p)
  <2>1. op'[p] = None /\ UNCHANGED <<visible, durable, acked>>
    BY <1>5, EndMeans DEF PublishReload, Abort
  <2>2. pub'[p] = pub[p] \/ pub'[p].life = op[p].life
    BY <1>5 DEF PublishReload, Abort, TypeOK
  <2>. QED
    BY <1>0, <1>00, <1>5, <2>1, <2>2 DEF LifeOK, PublishReload
<1>6. CASE Replace(p)
  <2>1. CASE visible = op[p].life
    <3>1. /\ op'[p].step = "fsync" /\ op'[p].life = op[p].life /\ op'[p].kind = op[p].kind
          /\ visible' = After(p) /\ flock' = p /\ UNCHANGED <<durable, pub, acked>>
      BY <1>6, <2>1, GotoMeans DEF Replace
    <3>2. After(p)' = After(p)
      BY <3>1 DEF After
    <3>3. IsPrefix(visible, visible') /\ visible \in Life /\ visible' \in Life
      BY <1>6, <2>1, <3>1, AfterType DEF Replace, TypeOK
    <3>4. pub[p] # None => IsPrefix(pub[p].life, visible')
      <4>1. pub[p] # None => pub[p].life \in Life /\ IsPrefix(pub[p].life, visible)
        BY <1>0 DEF LifeOK, TypeOK, Snapshot
      <4>. QED
        BY <3>3, <4>1, PrefixChain DEF Life
    <3>5. LifeOK(p)'
      BY <1>0, <1>6, <2>1, <3>1, <3>2, <3>3, <3>4 DEF LifeOK, Replace
    <3>6. \A life \in acked : IsPrefix(life, visible')
      BY <1>0, <3>3, PrefixChain DEF AckedSurvives, Life
    <3>. QED
      BY <1>0, <3>1, <3>5, <3>6 DEF AckedSurvives
  <2>2. CASE visible # op[p].life
    BY <1>0, <1>00, <1>6, <2>2, LifeEnds, EndMeans DEF Replace, Abort
  <2>. QED
    BY <2>1, <2>2
<1>7. CASE Fsync(p)
  <2>1. /\ op'[p].step = "project" /\ op'[p].life = op[p].life /\ op'[p].kind = op[p].kind
        /\ visible = After(p) /\ durable' = visible /\ UNCHANGED <<visible, pub, acked>>
    BY <1>0, <1>7, GotoMeans DEF Fsync, LifeOK
  <2>2. After(p)' = After(p)
    BY <2>1 DEF After
  <2>3. IsPrefix(visible, visible)
    BY PrefixSelf DEF TypeOK, Life
  <2>4. LifeOK(p)'
    BY <1>0, <1>7, <2>1, <2>2, <2>3 DEF LifeOK, Fsync
  <2>. QED
    BY <1>0, <2>1, <2>4 DEF AckedSurvives
<1>8. CASE Resolve(p)
  <2>1. op[p].kind = "change" /\ IsPrefix(After(p), durable)
    BY <1>0, <1>8 DEF Resolve, LifeOK
  <2>. QED
    BY <1>0, <1>00, <1>8, <2>1, LifeMoves, LifeEnds, EndMeans DEF Resolve, Abort
<1>9. CASE Project(p)
  <2>1. op[p].kind = "change" /\ IsPrefix(After(p), durable)
    BY <1>0, <1>9 DEF Project, LifeOK
  <2>. QED
    BY <1>0, <1>00, <1>9, <2>1, LifeMoves DEF Project
<1>10. CASE PublishChange(p)
  <2>1. CASE op[p].current
    <3>1. /\ op'[p].step = "recheck" /\ op'[p].life = op[p].life /\ op'[p].kind = op[p].kind
          /\ pub'[p].life = After(p) /\ acked' = acked \cup {After(p)}
          /\ UNCHANGED <<visible, durable>>
      BY <1>10, <2>1, GotoMeans DEF PublishChange, TypeOK
    <3>2. IsPrefix(After(p), durable) /\ IsPrefix(durable, visible) /\ After(p) \in Life
      BY <1>0, <1>10, AfterType DEF LifeOK, LifeInv, PublishChange
    <3>3. IsPrefix(After(p), visible)
      BY <3>2, PrefixChain DEF TypeOK, Life
    <3>4. After(p)' = After(p)
      BY <3>1 DEF After
    <3>. QED
      BY <1>0, <1>10, <3>1, <3>2, <3>3, <3>4 DEF LifeOK, PublishChange, AckedSurvives
  <2>2. CASE ~op[p].current
    BY <1>0, <1>00, <1>10, <2>2, LifeEnds, EndMeans DEF PublishChange, Abort
  <2>. QED
    BY <2>1, <2>2
<1>11. CASE Recheck(p)
  <2>1. op[p].kind = "change" /\ IsPrefix(After(p), durable)
    BY <1>0, <1>11 DEF Recheck, LifeOK
  <2>. QED
    BY <1>0, <1>00, <1>11, <2>1, LifeMoves, LifeEnds, EndMeans DEF Recheck
<1>12. CASE Refingerprint(p)
  BY <1>0, <1>00, <1>12, LifeEnds, EndMeans DEF Refingerprint
<1>. QED
  BY <1>1, <1>2, <1>3, <1>4, <1>5, <1>6, <1>7, <1>8, <1>9, <1>10, <1>11, <1>12 DEF Proceed

LEMMA LifeAround ==
  ASSUME TypeOK, TypeOK', LifeInv, NEW p \in Procs, Act(p), ~Proceed(p)
  PROVE  LifeOK(p)' /\ acked' = acked
<1>. USE DEF disk, local
<1>0. LifeOK(p) /\ IsPrefix(visible, visible')
  BY LifeGrows DEF LifeInv
<1>1. CASE Boot(p) \/ BeginReload(p) \/ CommandReload(p)
  BY <1>0, <1>1, LifeStarts DEF Boot, BeginReload, CommandReload
<1>2. CASE BeginChange(p)
  BY <1>0, <1>2, LifeStarts DEF BeginChange, LifeOK, After
<1>3. CASE StartWatcher(p) \/ InitFingerprint(p) \/ Notice(p)
  BY <1>0, <1>3 DEF StartWatcher, InitFingerprint, Notice, LifeOK, After
<1>4. CASE DraftCommit(p)
  <2>1. op[p] # None => op[p].step # "fsync"
    BY <1>0, <1>4, ConstantsAssumption DEF DraftCommit, LifeOK, Unlocked
  <2>. QED
    BY <1>0, <1>4, <2>1, LifeFrame, LifeGrows DEF DraftCommit
<1>5. CASE FsyncFails(p) \/ OperationFails(p) \/ RecheckFails(p)
  BY <1>0, <1>5, LifeEnds, EndMeans DEF FsyncFails, OperationFails, RecheckFails, Abort
<1>6. CASE ReadBackFails(p)
  <2>1. /\ op'[p].step = "resolve" /\ op'[p].life = op[p].life /\ op'[p].kind = op[p].kind
        /\ visible = After(p) /\ durable' = visible /\ UNCHANGED <<visible, pub, acked>>
    BY <1>0, <1>6, GotoMeans DEF ReadBackFails, LifeOK, At, Steps
  <2>2. After(p)' = After(p)
    BY <2>1 DEF After
  <2>3. IsPrefix(visible, visible)
    BY PrefixSelf DEF TypeOK, Life
  <2>. QED
    BY <1>0, <1>6, <2>1, <2>2, <2>3 DEF LifeOK, ReadBackFails, At, Committing, Published
<1>7. CASE ProcessCrash(p)
  <2>1. op'[p] = None /\ pub'[p] = None /\ acked' = acked
    BY <1>7 DEF ProcessCrash, TypeOK
  <2>. QED
    BY <2>1 DEF LifeOK
<1>8. ASSUME NEW f \in Files, Patch(p, f) PROVE LifeOK(p)' /\ acked' = acked
  <2>1. UNCHANGED <<visible, durable, flock, acked>>
    BY <1>8 DEF Patch
  <2>2. op[p] # None => After(p)' = After(p)
    BY <1>8, PatchMeans DEF Patched, After
  <2>. QED
    BY <1>0, <1>8, <2>1, <2>2, PatchMeans DEF Patched, LifeOK
<1>. QED
  BY <1>1, <1>2, <1>3, <1>4, <1>5, <1>6, <1>7, <1>8 DEF Act, Watcher

LEMMA LifeStep == ASSUME TypeOK, TypeOK', LifeInv, Next PROVE LifeInv'
<1>0. /\ visible \in Life /\ visible' \in Life /\ durable \in Life /\ durable' \in Life /\ acked \subseteq Life
      /\ IsPrefix(durable, visible) /\ AckedSurvives /\ \A q \in Procs : LifeOK(q)
  BY DEF TypeOK, LifeInv
<1>1. ASSUME NEW p \in Procs, Act(p) PROVE LifeInv'
  <2>1. IsPrefix(visible, visible') /\ IsPrefix(durable, durable') /\ IsPrefix(durable', visible')
    BY <1>1, LifeGrows
  <2>2. ASSUME NEW q \in Procs, q # p PROVE LifeOK(q)'
    BY <1>0, <1>1, <2>1, <2>2, LifeGrows, OthersAlone, LifeFrame
  <2>3. acked' = acked => AckedSurvives'
    <3>1. \A life \in acked : IsPrefix(life, durable') /\ IsPrefix(life, visible')
      BY <1>0, <2>1, PrefixChain DEF AckedSurvives, Life
    <3>. QED
      BY <3>1 DEF AckedSurvives
  <2>4. LifeOK(p)' /\ AckedSurvives'
    BY <1>1, <2>3, LifeProceeds, LifeAround
  <2>. QED
    BY <2>1, <2>2, <2>4 DEF LifeInv
<1>2. CASE HostCrash
  <2>1. /\ visible' \in {visible, durable} /\ durable' = visible' /\ acked' = acked
        /\ \A q \in Procs : op'[q] = None /\ pub'[q] = None
    BY <1>2 DEF HostCrash
  <2>2. IsPrefix(durable', visible')
    BY <1>0, <2>1, PrefixSelf DEF Life
  <2>. QED
    BY <1>0, <2>1, <2>2 DEF LifeInv, LifeOK, AckedSurvives
<1>3. ASSUME NEW f \in Files, Edit(f) PROVE LifeInv'
  <2>1. UNCHANGED <<visible, durable, flock, op, pub, acked>>
    BY <1>3 DEF Edit, local
  <2>. QED
    BY <1>0, <2>1 DEF LifeInv, LifeOK, After, AckedSurvives
<1>. QED
  BY <1>1, <1>2, <1>3 DEF Next, Act

-----------------------------------------------------------------------------
(* The configuration half of the invariant.                                  *)

Edited == edits' = edits \/ \E g \in Files : edits' = Append(edits, g)

LEMMA EditedMeans ==
  ASSUME TypeOK, Edited
  PROVE  /\ ConfigNow \in Config /\ ConfigNow' \in Config
         /\ \A f \in Files : ConfigNow[f] <= ConfigNow'[f]
         /\ Len(edits) \in Nat /\ Len(edits') \in Nat /\ Len(edits) <= Len(edits')
         /\ \A n \in 0..Len(edits) : Versions(n)' = Versions(n)
<1>1. edits \in Seq(Files) /\ Len(edits) \in Nat /\ ConfigNow \in Config
  BY CoherentNow, LenProperties DEF TypeOK
<1>2. CASE edits' = edits
  BY <1>1, <1>2 DEF ConfigNow, Versions, Config
<1>3. ASSUME NEW g \in Files, edits' = Append(edits, g)
      PROVE  /\ ConfigNow' \in Config
             /\ \A f \in Files : ConfigNow[f] <= ConfigNow'[f]
             /\ Len(edits') = Len(edits) + 1
             /\ \A n \in 0..Len(edits) : Versions(n)' = Versions(n)
  BY <1>1, <1>3, VersionsEdit
<1>. QED
  BY <1>1, <1>2, <1>3 DEF Edited

LEMMA CoherentKept ==
  ASSUME TypeOK, Edited, NEW q \in Procs, Coherent(op[q].source), op'[q].source = op[q].source
  PROVE  Coherent(op[q].source)'
<1>1. PICK n \in 0..Len(edits) : op[q].source = Versions(n)
  BY DEF Coherent
<1>2. n \in 0..Len(edits') /\ op'[q].source = Versions(n)'
  BY <1>1, EditedMeans
<1>. QED
  BY <1>2 DEF Coherent

LEMMA SourceBounded ==
  ASSUME TypeOK, NEW p \in Procs, Coherent(op[p].source)
  PROVE  op[p].source \in Config /\ \A f \in Files : op[p].source[f] <= ConfigNow[f]
BY CoherentBounded DEF TypeOK

LEMMA ConfigFrame ==
  ASSUME TypeOK, NEW q \in Procs, ConfigOK(q), op'[q] = op[q], pub'[q] = pub[q], Edited
  PROVE  ConfigOK(q)'
<1>1. ConfigNow \in Config /\ ConfigNow' \in Config /\ \A f \in Files : ConfigNow[f] <= ConfigNow'[f]
  BY EditedMeans
<1>2. pub'[q] # None => \A f \in Files : pub'[q].config[f] <= ConfigNow'[f]
  <2>1. pub[q] # None => pub[q].config \in Config
    BY DEF TypeOK, Snapshot
  <2>. QED
    BY <1>1, <2>1 DEF ConfigOK, Config
<1>3. op[q] # None /\ op[q].step # "source" => Coherent(op[q].source)'
  BY CoherentKept DEF ConfigOK
<1>4. ASSUME op[q] # None, op[q].step \in {"build", "observe", "verify"}, NEW f \in Files, op[q].candidate[f] # None
      PROVE  op[q].candidate[f] <= ConfigNow'[f]
  <2>1. op[q].candidate[f] \in Nat
    BY <1>4 DEF TypeOK, Operation
  <2>. QED
    BY <1>1, <1>4, <2>1 DEF ConfigOK, Config
<1>. QED
  BY <1>2, <1>3, <1>4 DEF ConfigOK

LEMMA ConfigEnds ==
  ASSUME TypeOK, NEW q \in Procs, ConfigOK(q), op'[q] = None, pub'[q] = pub[q], edits' = edits
  PROVE  ConfigOK(q)'
BY DEF ConfigOK, ConfigNow, Versions

LEMMA ConfigMoves ==
  ASSUME TypeOK, NEW p \in Procs, ConfigOK(p), op[p] # None, op[p].step # "source",
         NEW s \in Steps, Goto(p, s), pub'[p] = pub[p], edits' = edits, s \notin {"source", "build", "observe"},
         s = "verify" => op[p].step = "observe",
         s \in Verified => op[p].candidate = op[p].source
  PROVE  ConfigOK(p)'
<1>1. /\ op'[p].step = s /\ op'[p].source = op[p].source /\ op'[p].candidate = op[p].candidate
      /\ op'[p].current = op[p].current
  BY GotoMeans
<1>2. Coherent(op[p].source)'
  BY <1>1, CoherentKept DEF ConfigOK, Edited
<1>3. ConfigNow' = ConfigNow
  BY DEF ConfigNow, Versions
<1>. QED
  BY <1>1, <1>2, <1>3 DEF ConfigOK

LEMMA ConfigStarts ==
  ASSUME TypeOK, NEW p \in Procs, ConfigOK(p), NEW kind, op' = [op EXCEPT ![p] = Started(kind, visible)],
         pub'[p] = pub[p], edits' = edits
  PROVE  ConfigOK(p)'
<1>1. op'[p].step = "source" /\ \A f \in Files : op'[p].candidate[f] = None
  BY DEF TypeOK, Started
<1>2. ConfigNow' = ConfigNow
  BY DEF ConfigNow, Versions
<1>. QED
  BY <1>1, <1>2 DEF ConfigOK, Verified, Committing

LEMMA ConfigProceeds ==
  ASSUME TypeOK, TypeOK', NEW p \in Procs, ConfigOK(p), Proceed(p)
  PROVE  ConfigOK(p)'
<1>. USE DEF Committing, Published, Verified, Steps, At, disk
<1>0. edits' = edits /\ ConfigNow' = ConfigNow /\ ConfigNow \in Config /\ Edited
  <2>1. edits' = edits
    BY DEF Proceed, Source, Build, Observe, Verify, PublishReload, Replace, Fsync, Resolve, Project,
           PublishChange, Recheck, Refingerprint
  <2>. QED
    BY <2>1, CoherentNow DEF TypeOK, Edited, ConfigNow, Versions
<1>1. CASE Source(p)
  <2>1. /\ op'[p].step = "build" /\ op'[p].source = ConfigNow /\ op'[p].candidate = op[p].candidate
        /\ pub'[p] = pub[p] /\ op[p].step = "source" /\ op[p] # None
    BY <1>1 DEF Source, TypeOK, Operation
  <2>2. Coherent(op[p].source)'
    <3>1. PICK n \in 0..Len(edits) : ConfigNow = Versions(n)
      BY CoherentNow DEF TypeOK, Coherent
    <3>2. n \in 0..Len(edits') /\ op'[p].source = Versions(n)'
      BY <1>0, <2>1, <3>1, EditedMeans
    <3>. QED
      BY <3>2 DEF Coherent
  <2>. QED
    BY <1>0, <2>1, <2>2 DEF ConfigOK
<1>2. CASE Build(p)
  <2>1. pub'[p] = pub[p]
    BY <1>2 DEF Build
  <2>2. /\ op[p] # None /\ op[p].step = "build" /\ op'[p].step \in {"build", "observe"}
        /\ op'[p].source = op[p].source /\ op'[p].current = op[p].current
    BY <1>2, BuildMeans
  <2>3. Coherent(op[p].source) /\ Coherent(op[p].source)' /\ op[p].source \in Config
        /\ \A f \in Files : op[p].source[f] <= ConfigNow[f]
    BY <1>0, <2>2, CoherentKept, SourceBounded DEF ConfigOK
  <2>4. \A g \in Files : op'[p].candidate[g] # None =>
           op[p].source[g] <= op'[p].candidate[g] /\ op'[p].candidate[g] <= ConfigNow[g]
    BY <1>0, <1>2, <2>2, <2>3, BuildMeans DEF ConfigOK, Config
  <2>5. op'[p].step = "observe" => \A g \in Files : op'[p].candidate[g] # None
    BY <1>0, <1>2, BuildMeans, ConstantsAssumption DEF Config
  <2>. QED
    BY <1>0, <2>1, <2>2, <2>3, <2>4, <2>5 DEF ConfigOK
<1>3. CASE Observe(p)
  BY <1>0, <1>3, ConfigMoves, ConfigEnds, EndMeans DEF Observe, Abort
<1>4. CASE Verify(p)
  <2>1. ASSUME ConfigNow = op[p].source PROVE op[p].candidate = op[p].source
    <3>1. op[p].candidate \in [Files -> Nat \cup {None}]
      BY <1>4 DEF Verify, TypeOK, Operation
    <3>2. \A f \in Files : op[p].candidate[f] = op[p].source[f]
      BY <1>0, <1>4, <2>1, <3>1 DEF ConfigOK, Verify, Config
    <3>. QED
      BY <1>0, <2>1, <3>1, <3>2 DEF Config
  <2>. QED
    BY <1>0, <1>4, <2>1, ConfigMoves, ConfigEnds, EndMeans DEF Verify, Abort
<1>5. CASE PublishReload(p)
  <2>1. op'[p] = None
    BY <1>5, EndMeans DEF PublishReload, Abort
  <2>2. pub'[p] = pub[p] \/ pub'[p].config = op[p].source
    BY <1>5 DEF PublishReload, Abort, TypeOK, ConfigOK
  <2>3. \A f \in Files : op[p].source[f] <= ConfigNow[f]
    BY <1>5, SourceBounded DEF PublishReload, ConfigOK
  <2>. QED
    BY <1>0, <2>1, <2>2, <2>3 DEF ConfigOK
<1>6. CASE Replace(p)
  BY <1>0, <1>6, ConfigMoves, ConfigEnds, EndMeans DEF Replace, Abort, ConfigOK
<1>7. CASE Fsync(p)
  BY <1>0, <1>7, ConfigMoves DEF Fsync, ConfigOK
<1>8. CASE Resolve(p)
  BY <1>0, <1>8, ConfigMoves, ConfigEnds, EndMeans DEF Resolve, Abort, ConfigOK
<1>9. CASE Project(p)
  BY <1>0, <1>9, ConfigMoves DEF Project, ConfigOK
<1>10. CASE PublishChange(p)
  <2>1. CASE op[p].current
    <3>1. /\ op'[p].step = "recheck" /\ op'[p].source = op[p].source /\ pub'[p].config = op[p].source
      BY <1>10, <2>1, GotoMeans DEF PublishChange, TypeOK, ConfigOK
    <3>2. Coherent(op[p].source)' /\ op[p].source \in Config /\ \A f \in Files : op[p].source[f] <= ConfigNow[f]
      BY <1>0, <1>10, <3>1, CoherentKept, SourceBounded DEF PublishChange, ConfigOK
    <3>. QED
      BY <1>0, <3>1, <3>2 DEF ConfigOK, Config
  <2>2. CASE ~op[p].current
    BY <1>0, <1>10, <2>2, ConfigEnds, EndMeans DEF PublishChange, Abort
  <2>. QED
    BY <2>1, <2>2
<1>11. CASE Recheck(p)
  BY <1>0, <1>11, ConfigMoves, ConfigEnds, EndMeans DEF Recheck
<1>12. CASE Refingerprint(p)
  BY <1>0, <1>12, ConfigEnds, EndMeans DEF Refingerprint
<1>. QED
  BY <1>1, <1>2, <1>3, <1>4, <1>5, <1>6, <1>7, <1>8, <1>9, <1>10, <1>11, <1>12 DEF Proceed

LEMMA ConfigAround ==
  ASSUME TypeOK, TypeOK', NEW p \in Procs, ConfigOK(p), Act(p), ~Proceed(p)
  PROVE  ConfigOK(p)'
<1>. USE DEF disk, local
<1>1. CASE Boot(p) \/ BeginReload(p) \/ CommandReload(p)
  BY <1>1, ConfigStarts DEF Boot, BeginReload, CommandReload
<1>2. CASE BeginChange(p)
  BY <1>2, ConfigStarts, ConfigFrame DEF BeginChange, Edited
<1>3. CASE StartWatcher(p) \/ InitFingerprint(p) \/ Notice(p) \/ DraftCommit(p)
  BY <1>3, ConfigFrame DEF StartWatcher, InitFingerprint, Notice, DraftCommit, Edited
<1>4. CASE FsyncFails(p) \/ OperationFails(p) \/ RecheckFails(p)
  BY <1>4, ConfigEnds, EndMeans DEF FsyncFails, OperationFails, RecheckFails, Abort
<1>5. CASE ReadBackFails(p)
  BY <1>5, ConfigMoves DEF ReadBackFails, At, Steps, ConfigOK, Verified, Committing
<1>6. CASE ProcessCrash(p)
  <2>1. op'[p] = None /\ pub'[p] = None
    BY <1>6 DEF ProcessCrash, TypeOK
  <2>. QED
    BY <2>1 DEF ConfigOK
<1>7. ASSUME NEW f \in Files, Patch(p, f) PROVE ConfigOK(p)'
  <2>0. Patched(p, f)
    BY <1>7, PatchMeans
  <2>1. Edited
    BY <2>0 DEF Edited, Patched
  <2>2. /\ ConfigNow \in Config /\ ConfigNow' \in Config /\ \A g \in Files : ConfigNow[g] <= ConfigNow'[g]
        /\ ConfigNow'[f] = ConfigNow[f] + 1
    BY <2>0, <2>1, EditedMeans, VersionsEdit DEF TypeOK, Patched
  <2>3. \A g \in Files : pub'[p].config[g] <= ConfigNow'[g]
    <3>1. pub[p].config \in Config /\ \A g \in Files : pub[p].config[g] <= ConfigNow[g]
      <4>1. pub[p] # None /\ pub \in [Procs -> Snapshot \cup {None}]
        BY <2>0 DEF Patched, TypeOK
      <4>. QED
        BY <4>1 DEF Snapshot, ConfigOK
    <3>2. \A g \in Files : pub'[p].config[g] = IF g = f THEN ConfigNow[f] + 1 ELSE pub[p].config[g]
      BY <2>0 DEF Patched
    <3>3. \A g \in Files : pub[p].config[g] \in Nat /\ ConfigNow[g] \in Nat /\ ConfigNow'[g] \in Nat
      BY <2>2, <3>1 DEF Config
    <3>. QED
      BY <2>2, <3>1, <3>2, <3>3
  <2>4. op[p] # None /\ op[p].step # "source" => Coherent(op[p].source)'
    BY <2>0, <2>1, CoherentKept DEF Patched, ConfigOK
  <2>5. ASSUME op[p] # None, op[p].step \in {"build", "observe", "verify"}, NEW g \in Files, op[p].candidate[g] # None
        PROVE  op[p].candidate[g] <= ConfigNow'[g]
    <3>1. op[p].candidate[g] \in Nat
      BY <2>5 DEF TypeOK, Operation
    <3>. QED
      BY <2>2, <2>5, <3>1 DEF ConfigOK, Config
  <2>. QED
    BY <2>0, <2>3, <2>4, <2>5 DEF Patched, ConfigOK
<1>. QED
  BY <1>1, <1>2, <1>3, <1>4, <1>5, <1>6, <1>7 DEF Act, Watcher

LEMMA ActEdits == ASSUME TypeOK, NEW p \in Procs, Act(p) PROVE Edited
<1>1. CASE Proceed(p)
  BY <1>1 DEF Proceed, Source, Build, Observe, Verify, PublishReload, Replace, Fsync, Resolve, Project,
              PublishChange, Recheck, Refingerprint, Edited, disk
<1>2. CASE ~Proceed(p)
  BY <1>2 DEF Act, Watcher, Boot, StartWatcher, InitFingerprint, Notice, BeginReload, CommandReload,
              BeginChange, DraftCommit, FsyncFails, ReadBackFails, OperationFails, RecheckFails,
              ProcessCrash, Patch, Edited, disk
<1>. QED
  BY <1>1, <1>2

LEMMA ConfigStep == ASSUME TypeOK, TypeOK', ConfigInv, Next PROVE ConfigInv'
<1>1. ASSUME NEW p \in Procs, Act(p) PROVE ConfigInv'
  <2>1. ConfigOK(p)'
    BY <1>1, ConfigProceeds, ConfigAround DEF ConfigInv
  <2>2. ASSUME NEW q \in Procs, q # p PROVE ConfigOK(q)'
    BY <1>1, <2>2, OthersAlone, ActEdits, ConfigFrame DEF ConfigInv
  <2>. QED
    BY <2>1, <2>2 DEF ConfigInv
<1>2. CASE HostCrash
  BY <1>2 DEF HostCrash, ConfigInv, ConfigOK
<1>3. ASSUME NEW f \in Files, Edit(f) PROVE ConfigInv'
  BY <1>3, ConfigFrame DEF Edit, local, Edited, ConfigInv
<1>. QED
  BY <1>1, <1>2, <1>3 DEF Next, Act

LEMMA IInit == Init => IInv
<1>. SUFFICES ASSUME Init PROVE IInv
  OBVIOUS
<1>1. << >> \in Life /\ << >> \in Seq(Files) /\ IsPrefix(<< >>, << >>)
  BY EmptySeq, EmptyPrefix DEF Life
<1>. QED
  BY <1>1, ConstantsAssumption
     DEF Init, IInv, TypeOK, LifeInv, ConfigInv, LifeOK, ConfigOK, AckedSurvives, WatchPcs

LEMMA IStep == IInv /\ [Next]_vars => IInv'
<1>. SUFFICES ASSUME IInv, [Next]_vars PROVE IInv'
  OBVIOUS
<1>1. CASE Next
  BY <1>1, TypeStep, LifeStep, ConfigStep DEF IInv
<1>2. CASE UNCHANGED vars
  <2>1. TypeOK'
    BY <1>2 DEF vars, IInv, TypeOK
  <2>2. LifeInv'
    BY <1>2 DEF vars, IInv, LifeInv, LifeOK, AckedSurvives, After
  <2>3. ConfigInv'
    BY <1>2, ConfigFrame DEF vars, IInv, ConfigInv, Edited
  <2>. QED
    BY <2>1, <2>2, <2>3 DEF IInv
<1>. QED
  BY <1>1, <1>2

LEMMA Inductive == Spec => []IInv
BY IInit, IStep, PTL DEF Spec

-----------------------------------------------------------------------------
(* The results.                                                              *)

\* The variables of every process keep their types, whatever the number of
\* processes, files, changes, edits and faults.
THEOREM TypeCorrect == Spec => []TypeOK
BY Inductive, PTL DEF IInv

\* A change that was acknowledged stays in the durable and in the visible
\* state through crashes, conflicts and the changes of other processes:
\* the acknowledgement follows the fsync under the exclusive lock.
THEOREM AcknowledgedSurvives == Spec => []AckedSurvives
BY Inductive, PTL DEF IInv, LifeInv

\* What a process serves is a prefix of the committed history: a reload and a
\* change publish only what their precondition or their commit established.
THEOREM ServesCommitted == Spec => []OnlyCommittedServed
<1>1. IInv => OnlyCommittedServed
  BY DEF IInv, LifeInv, LifeOK, OnlyCommittedServed
<1>. QED
  BY <1>1, Inductive, PTL

\* A candidate whose files were read one by one, between two equal
\* fingerprints, is the configuration of one moment.
THEOREM CandidatesCoherent == Spec => []NoTornCandidate
<1>1. IInv => NoTornCandidate
  BY DEF IInv, ConfigInv, ConfigOK, NoTornCandidate, Verified, Committing
<1>. QED
  BY <1>1, Inductive, PTL

\* The step of p takes p's own snapshot forwards.
Forwards(p) ==
  pub[p] # None /\ pub'[p] # None =>
    /\ IsPrefix(pub[p].life, pub'[p].life)
    /\ \A f \in Files : pub[p].config[f] <= pub'[p].config[f]

LEMMA KeptForwards == ASSUME TypeOK, NEW p \in Procs, pub'[p] = pub[p] PROVE Forwards(p)
<1>1. pub[p] # None => /\ pub[p].life \in Life /\ \A f \in Files : pub[p].config[f] \in Nat
  BY DEF TypeOK, Snapshot, Config
<1>2. pub[p] # None => IsPrefix(pub[p].life, pub[p].life)
  BY <1>1, PrefixSelf DEF Life
<1>. QED
  BY <1>1, <1>2 DEF Forwards

LEMMA StepForwards == ASSUME IInv, NEW p \in Procs, Act(p) PROVE Forwards(p)
<1>0. TypeOK /\ LifeOK(p) /\ ConfigOK(p)
  BY DEF IInv, LifeInv, ConfigInv
<1>1. CASE PublishReload(p)
  <2>1. CASE op[p].current
    <3>1. pub'[p].life = op[p].life /\ pub'[p].config = op[p].source
      BY <1>0, <1>1, <2>1 DEF PublishReload, At, TypeOK, ConfigOK, Verified
    <3>2. pub[p] # None => IsPrefix(pub[p].life, op[p].life)
      BY <1>0, <1>1 DEF PublishReload, At, LifeOK, Published
    <3>3. pub[p] # None => \A f \in Files : pub[p].config[f] <= op[p].source[f]
      BY <1>0, <1>1, <2>1 DEF PublishReload, At, ConfigOK
    <3>. QED
      BY <3>1, <3>2, <3>3 DEF Forwards
  <2>2. CASE ~op[p].current
    BY <1>0, <1>1, <2>2, KeptForwards DEF PublishReload, Abort
  <2>. QED
    BY <2>1, <2>2
<1>2. CASE PublishChange(p)
  <2>1. CASE op[p].current
    <3>1. pub'[p].life = After(p) /\ pub'[p].config = op[p].source
      BY <1>0, <1>2, <2>1 DEF PublishChange, At, TypeOK, ConfigOK, Verified
    <3>2. pub[p] # None => /\ pub[p].life \in Life /\ op[p].life \in Life
                           /\ IsPrefix(pub[p].life, op[p].life)
      BY <1>0, <1>2 DEF PublishChange, At, LifeOK, Published, TypeOK, Snapshot, Operation
    <3>3. After(p) \in Life /\ IsPrefix(op[p].life, After(p))
      BY <1>0, <1>2, AfterType DEF PublishChange, At
    <3>4. pub[p] # None => IsPrefix(pub[p].life, After(p))
      BY <3>2, <3>3, PrefixChain DEF Life
    <3>5. pub[p] # None => \A f \in Files : pub[p].config[f] <= op[p].source[f]
      BY <1>0, <1>2, <2>1 DEF PublishChange, At, ConfigOK
    <3>. QED
      BY <3>1, <3>4, <3>5 DEF Forwards
  <2>2. CASE ~op[p].current
    BY <1>0, <1>2, <2>2, KeptForwards DEF PublishChange, Abort
  <2>. QED
    BY <2>1, <2>2
<1>3. ASSUME NEW f \in Files, Patch(p, f) PROVE Forwards(p)
  <2>1. pub[p] # None /\ pub'[p].life = pub[p].life
        /\ \A g \in Files : pub'[p].config[g] = IF g = f THEN ConfigNow[f] + 1 ELSE pub[p].config[g]
    BY <1>0, <1>3, PatchMeans DEF Patched
  <2>2. pub[p].life \in Life /\ \A g \in Files : pub[p].config[g] \in Nat
    BY <1>0, <2>1 DEF TypeOK, Snapshot, Config
  <2>3. IsPrefix(pub[p].life, pub'[p].life)
    BY <2>1, <2>2, PrefixSelf DEF Life
  <2>4. \A g \in Files : pub[p].config[g] <= ConfigNow[g] /\ ConfigNow[g] \in Nat
    BY <1>0, <2>1, CoherentNow DEF TypeOK, ConfigOK, Config
  <2>. QED
    BY <2>1, <2>2, <2>3, <2>4 DEF Forwards
<1>4. CASE ProcessCrash(p)
  <2>1. pub'[p] = None
    BY <1>0, <1>4 DEF ProcessCrash, TypeOK
  <2>. QED
    BY <2>1 DEF Forwards
<1>5. CASE /\ ~PublishReload(p) /\ ~PublishChange(p) /\ ~ProcessCrash(p)
           /\ \A f \in Files : ~Patch(p, f)
  <2>1. pub' = pub
    BY <1>5 DEF Act, Proceed, Watcher, Boot, StartWatcher, InitFingerprint, Notice, BeginReload,
                CommandReload, BeginChange, DraftCommit, FsyncFails, ReadBackFails, OperationFails,
                RecheckFails, Source, Build, Observe, Verify, Replace, Fsync, Resolve, Project, Recheck,
                Refingerprint, Abort, local
  <2>. QED
    BY <1>0, <2>1, KeptForwards
<1>. QED
  BY <1>1, <1>2, <1>3, <1>4, <1>5

\* No publish takes a process back: a reload that was overtaken by an in-place
\* patch loses the compare-and-swap, every other one carries what is at least
\* as new as what it replaces.
THEOREM PublishesForwards == Spec => NeverBackwards
<1>1. IInv /\ [Next]_vars => \A p \in Procs : Forwards(p)
  <2>. SUFFICES ASSUME IInv, [Next]_vars, NEW q \in Procs PROVE Forwards(q)
    OBVIOUS
  <2>0. TypeOK
    BY DEF IInv
  <2>1. ASSUME NEW p \in Procs, Act(p) PROVE Forwards(q)
    BY <2>0, <2>1, StepForwards, OthersAlone, KeptForwards
  <2>2. CASE HostCrash
    BY <2>2 DEF HostCrash, Forwards
  <2>3. ASSUME NEW f \in Files, Edit(f) PROVE Forwards(q)
    BY <2>0, <2>3, KeptForwards DEF Edit, local
  <2>4. CASE UNCHANGED vars
    BY <2>0, <2>4, KeptForwards DEF vars
  <2>. QED
    BY <2>1, <2>2, <2>3, <2>4 DEF Next, Act
<1>2. IInv /\ [Next]_vars => \A p \in Procs : pub[p] # None /\ pub'[p] # None =>
        /\ IsPrefix(pub[p].life, pub'[p].life)
        /\ \A f \in Files : pub[p].config[f] <= pub'[p].config[f]
  BY <1>1 DEF Forwards
<1>. QED
  BY <1>2, Inductive, PTL DEF Spec, NeverBackwards
=============================================================================
