------------------------ MODULE ToolLifecycleProofs ------------------------
(***************************************************************************)
(* Type correctness, well-formedness and provenance of the generated-tool  *)
(* lifecycle, for every set of drafts, bundles, digests, tools, approvers  *)
(* and clock readings.                                                     *)
(*                                                                         *)
(* WellFormed is not inductive: DraftOK speaks of sets of evidence, while  *)
(* a step appends to a sequence, and a restored snapshot must have been    *)
(* well formed itself.  Good therefore lists the exact evidence sequences  *)
(* of every draft state, with dates in order, and is kept for the current  *)
(* state and for undo.                                                     *)
(***************************************************************************)
EXTENDS ToolLifecycle, SequenceTheorems, TLAPS

Validated == Append(<< >>, "static_validated")
Tested    == Append(Validated, "sandbox_tested")
Reviewed  == Append(Tested, "model_reviewed")

\* The evidence of a draft that may still be rejected.
OpenEvidence ==
  {<< >>, Validated, Tested, Reviewed,
   Append(<< >>, "validation_failed"), Append(Validated, "test_failed"),
   Append(Tested, "review_failed"), Append(Reviewed, "review_failed")}

\* The evidence sequences that a draft in state s can carry.
EvidenceOf(s) ==
  CASE s = "draft"             -> {<< >>}
    [] s = "static_validated"  -> {Validated}
    [] s = "sandbox_tested"    -> {Tested}
    [] s \in {"model_reviewed", "awaiting_approval", "approved"} -> {Reviewed}
    [] s = "validation_failed" -> {Append(<< >>, "validation_failed")}
    [] s = "test_failed"       -> {Append(Validated, "test_failed")}
    [] s = "review_failed"     -> {Append(Tested, "review_failed"), Append(Reviewed, "review_failed")}
    [] OTHER                   -> {Append(e, "rejected") : e \in OpenEvidence}

DraftsGood(D) ==
  /\ D \in [DraftIds -> DraftRecord \cup {None}]
  /\ \A d \in DraftIds :
       D[d] # None => D[d].evidence \in EvidenceOf(D[d].state) /\ DatesOK(D[d])

VersionsGood(V) ==
  /\ V \in [Bundles -> [Digests -> VersionRecord \cup {None}]]
  /\ \A b \in Bundles, g \in Digests : V[b][g] # None => VersionOK(V[b][g])

ActiveGood(V, A) ==
  /\ A \in [Bundles -> Digests \cup {None}]
  /\ \A b \in Bundles, g \in Digests :
       (A[b] = g) <=> (V[b][g] # None /\ V[b][g].state = "activated")

GrantsGood(V, G) ==
  /\ G \in [GrantKeys -> Approvers \cup {None}]
  /\ \A k \in GrantKeys :
       G[k] # None => V[k[1]][k[2]] # None /\ V[k[1]][k[2]].state # "archived"

ApprovedGood(D, V) ==
  \A d \in DraftIds :
    D[d] # None /\ D[d].state = "approved" => V[D[d].bundle][D[d].digest] # None

SourceGood(D, V) ==
  \A b \in Bundles, g \in Digests :
    V[b][g] # None =>
      LET d == V[b][g].source
      IN  /\ d \in DraftIds /\ D[d] # None
          /\ D[d].bundle = b /\ D[d].digest = g /\ D[d].state = "approved"

AllGood(D, V, A, G) ==
  /\ DraftsGood(D)
  /\ VersionsGood(V)
  /\ ActiveGood(V, A)
  /\ GrantsGood(V, G)
  /\ ApprovedGood(D, V)
  /\ SourceGood(D, V)

IInv ==
  /\ AllGood(drafts, versions, active, grants)
  /\ undo # None => AllGood(undo.drafts, undo.versions, undo.active, undo.grants)

-----------------------------------------------------------------------------
\* Appending a piece of evidence leads from one listed sequence to another.
LEMMA AppendEvidence ==
  /\ \A u : Append(<< >>, u) = <<u>>
  /\ \A u, v : Append(<<u>>, v) = <<u, v>>
  /\ \A u, v, w : Append(<<u, v>>, w) = <<u, v, w>>
  /\ \A u, v, w, x : Append(<<u, v, w>>, x) = <<u, v, w, x>>
  /\ \A u, v, w, x, y : Append(<<u, v, w, x>>, y) = <<u, v, w, x, y>>
<1>1. ASSUME NEW u
      PROVE  Append(<< >>, u) = <<u>>
  <2> DEFINE S == {u}
             s == << >>
             t == <<u>>
  <2>1. s \in Seq(S) /\ t \in Seq(S) /\ u \in S OBVIOUS
  <2>2. /\ Append(s, u) \in Seq(S) /\ Len(Append(s, u)) = Len(s) + 1
        /\ \A i \in 1..Len(s) : Append(s, u)[i] = s[i]
        /\ Append(s, u)[Len(s) + 1] = u
    BY <2>1, AppendProperties
  <2>3. Len(s) = 0 /\ Len(t) = 1 /\ t[1] = u OBVIOUS
  <2>4. Len(Append(s, u)) = Len(t) /\ \A i \in 1..Len(t) : Append(s, u)[i] = t[i] BY <2>2, <2>3
  <2>. QED BY <2>1, <2>2, <2>4, SeqEqual
<1>2. ASSUME NEW u, NEW v
      PROVE  Append(<<u>>, v) = <<u, v>>
  <2> DEFINE S == {u, v}
             s == <<u>>
             t == <<u, v>>
  <2>1. s \in Seq(S) /\ t \in Seq(S) /\ v \in S OBVIOUS
  <2>2. /\ Append(s, v) \in Seq(S) /\ Len(Append(s, v)) = Len(s) + 1
        /\ \A i \in 1..Len(s) : Append(s, v)[i] = s[i]
        /\ Append(s, v)[Len(s) + 1] = v
    BY <2>1, AppendProperties
  <2>3. Len(s) = 1 /\ Len(t) = 2 /\ t[1] = u /\ t[2] = v OBVIOUS
  <2>4. Len(Append(s, v)) = Len(t) /\ \A i \in 1..Len(t) : Append(s, v)[i] = t[i] BY <2>2, <2>3
  <2>. QED BY <2>1, <2>2, <2>4, SeqEqual
<1>3. ASSUME NEW u, NEW v, NEW w
      PROVE  Append(<<u, v>>, w) = <<u, v, w>>
  <2> DEFINE S == {u, v, w}
             s == <<u, v>>
             t == <<u, v, w>>
  <2>1. s \in Seq(S) /\ t \in Seq(S) /\ w \in S OBVIOUS
  <2>2. /\ Append(s, w) \in Seq(S) /\ Len(Append(s, w)) = Len(s) + 1
        /\ \A i \in 1..Len(s) : Append(s, w)[i] = s[i]
        /\ Append(s, w)[Len(s) + 1] = w
    BY <2>1, AppendProperties
  <2>3. Len(s) = 2 /\ Len(t) = 3 /\ t[1] = u /\ t[2] = v /\ t[3] = w OBVIOUS
  <2>4. Len(Append(s, w)) = Len(t) /\ \A i \in 1..Len(t) : Append(s, w)[i] = t[i] BY <2>2, <2>3
  <2>. QED BY <2>1, <2>2, <2>4, SeqEqual
<1>4. ASSUME NEW u, NEW v, NEW w, NEW x
      PROVE  Append(<<u, v, w>>, x) = <<u, v, w, x>>
  <2> DEFINE S == {u, v, w, x}
             s == <<u, v, w>>
             t == <<u, v, w, x>>
  <2>1. s \in Seq(S) /\ t \in Seq(S) /\ x \in S OBVIOUS
  <2>2. /\ Append(s, x) \in Seq(S) /\ Len(Append(s, x)) = Len(s) + 1
        /\ \A i \in 1..Len(s) : Append(s, x)[i] = s[i]
        /\ Append(s, x)[Len(s) + 1] = x
    BY <2>1, AppendProperties
  <2>3. Len(s) = 3 /\ Len(t) = 4 /\ t[1] = u /\ t[2] = v /\ t[3] = w /\ t[4] = x OBVIOUS
  <2>4. Len(Append(s, x)) = Len(t) /\ \A i \in 1..Len(t) : Append(s, x)[i] = t[i] BY <2>2, <2>3
  <2>. QED BY <2>1, <2>2, <2>4, SeqEqual
<1>5. ASSUME NEW u, NEW v, NEW w, NEW x, NEW y
      PROVE  Append(<<u, v, w, x>>, y) = <<u, v, w, x, y>>
  <2> DEFINE S == {u, v, w, x, y}
             s == <<u, v, w, x>>
             t == <<u, v, w, x, y>>
  <2>1. s \in Seq(S) /\ t \in Seq(S) /\ y \in S OBVIOUS
  <2>2. /\ Append(s, y) \in Seq(S) /\ Len(Append(s, y)) = Len(s) + 1
        /\ \A i \in 1..Len(s) : Append(s, y)[i] = s[i]
        /\ Append(s, y)[Len(s) + 1] = y
    BY <2>1, AppendProperties
  <2>3. Len(s) = 4 /\ Len(t) = 5 /\ t[1] = u /\ t[2] = v /\ t[3] = w /\ t[4] = x /\ t[5] = y OBVIOUS
  <2>4. Len(Append(s, y)) = Len(t) /\ \A i \in 1..Len(t) : Append(s, y)[i] = t[i] BY <2>2, <2>3
  <2>. QED BY <2>1, <2>2, <2>4, SeqEqual
<1>. QED BY <1>1, <1>2, <1>3, <1>4, <1>5

\* The sequences of EvidenceOf, written out.
LEMMA EvidenceTable ==
  /\ Validated = <<"static_validated">>
  /\ Tested = <<"static_validated", "sandbox_tested">>
  /\ Reviewed = <<"static_validated", "sandbox_tested", "model_reviewed">>
  /\ Append(<< >>, "validation_failed") = <<"validation_failed">>
  /\ Append(Validated, "test_failed") = <<"static_validated", "test_failed">>
  /\ Append(Tested, "review_failed") = <<"static_validated", "sandbox_tested", "review_failed">>
  /\ Append(Reviewed, "review_failed")
       = <<"static_validated", "sandbox_tested", "model_reviewed", "review_failed">>
<1>1. Validated = <<"static_validated">> BY AppendEvidence DEF Validated
<1>2. Tested = <<"static_validated", "sandbox_tested">> BY <1>1, AppendEvidence DEF Tested
<1>3. Reviewed = <<"static_validated", "sandbox_tested", "model_reviewed">>
  BY <1>2, AppendEvidence DEF Reviewed
<1>. QED BY <1>1, <1>2, <1>3, AppendEvidence

\* The listed evidence sequences satisfy what DraftRecord demands.
LEMMA EvidenceSound ==
  ASSUME NEW s \in DraftStates, NEW e \in EvidenceOf(s)
  PROVE  EvidenceOK(s, e)
<1>a. 1..Len(<< >>) = {} OBVIOUS
<1>b. \A u : 1..Len(<<u>>) = {1} OBVIOUS
<1>c. \A u, v : 1..Len(<<u, v>>) = {1, 2} OBVIOUS
<1>d. \A u, v, w : 1..Len(<<u, v, w>>) = {1, 2, 3} OBVIOUS
<1>e. \A u, v, w, x : 1..Len(<<u, v, w, x>>) = {1, 2, 3, 4} OBVIOUS
<1>f. \A u, v, w, x, y : 1..Len(<<u, v, w, x, y>>) = {1, 2, 3, 4, 5} OBVIOUS
<1>1. CASE s = "draft"
  <2>1. EvidenceOK("draft", << >>)
    BY <1>a DEF EvidenceOK, Required, Allowed, LastEvidence, EvidenceStates, SuccessStates,
                FailureStates
  <2>. QED BY <1>1, <2>1, EvidenceTable DEF EvidenceOf
<1>2. CASE s = "static_validated"
  <2>1. EvidenceOK("static_validated", <<"static_validated">>)
    BY <1>b DEF EvidenceOK, Required, Allowed, LastEvidence, EvidenceStates, SuccessStates,
                FailureStates
  <2>. QED BY <1>2, <2>1, EvidenceTable DEF EvidenceOf
<1>3. CASE s = "sandbox_tested"
  <2>1. EvidenceOK("sandbox_tested", <<"static_validated", "sandbox_tested">>)
    BY <1>c DEF EvidenceOK, Required, Allowed, LastEvidence, EvidenceStates, SuccessStates,
                FailureStates
  <2>. QED BY <1>3, <2>1, EvidenceTable DEF EvidenceOf
<1>4. CASE s = "model_reviewed"
  <2>1. EvidenceOK("model_reviewed", <<"static_validated", "sandbox_tested", "model_reviewed">>)
    BY <1>d DEF EvidenceOK, Required, Allowed, LastEvidence, EvidenceStates, SuccessStates,
                FailureStates
  <2>. QED BY <1>4, <2>1, EvidenceTable DEF EvidenceOf
<1>5. CASE s = "awaiting_approval"
  <2>1. EvidenceOK("awaiting_approval", <<"static_validated", "sandbox_tested", "model_reviewed">>)
    BY <1>d DEF EvidenceOK, Required, Allowed, LastEvidence, EvidenceStates, SuccessStates,
                FailureStates
  <2>. QED BY <1>5, <2>1, EvidenceTable DEF EvidenceOf
<1>6. CASE s = "approved"
  <2>1. EvidenceOK("approved", <<"static_validated", "sandbox_tested", "model_reviewed">>)
    BY <1>d DEF EvidenceOK, Required, Allowed, LastEvidence, EvidenceStates, SuccessStates,
                FailureStates
  <2>. QED BY <1>6, <2>1, EvidenceTable DEF EvidenceOf
<1>7. CASE s = "validation_failed"
  <2>1. EvidenceOK("validation_failed", <<"validation_failed">>)
    BY <1>b DEF EvidenceOK, Required, Allowed, LastEvidence, EvidenceStates, SuccessStates,
                FailureStates
  <2>. QED BY <1>7, <2>1, EvidenceTable DEF EvidenceOf
<1>8. CASE s = "test_failed"
  <2>1. EvidenceOK("test_failed", <<"static_validated", "test_failed">>)
    BY <1>c DEF EvidenceOK, Required, Allowed, LastEvidence, EvidenceStates, SuccessStates,
                FailureStates
  <2>. QED BY <1>8, <2>1, EvidenceTable DEF EvidenceOf
<1>9. CASE s = "review_failed"
  <2>1. EvidenceOK("review_failed", <<"static_validated", "sandbox_tested", "review_failed">>)
    BY <1>d DEF EvidenceOK, Required, Allowed, LastEvidence, EvidenceStates, SuccessStates,
                FailureStates
  <2>2. EvidenceOK("review_failed", <<"static_validated", "sandbox_tested", "model_reviewed", "review_failed">>)
    BY <1>e DEF EvidenceOK, Required, Allowed, LastEvidence, EvidenceStates, SuccessStates,
                FailureStates
  <2>. QED BY <1>9, <2>1, <2>2, EvidenceTable DEF EvidenceOf
<1>10. CASE s = "rejected"
  <2>1. EvidenceOK("rejected", <<"rejected">>)
    BY <1>b DEF EvidenceOK, Required, Allowed, LastEvidence, EvidenceStates, SuccessStates,
                FailureStates
  <2>2. EvidenceOK("rejected", <<"static_validated", "rejected">>)
    BY <1>c DEF EvidenceOK, Required, Allowed, LastEvidence, EvidenceStates, SuccessStates,
                FailureStates
  <2>3. EvidenceOK("rejected", <<"static_validated", "sandbox_tested", "rejected">>)
    BY <1>d DEF EvidenceOK, Required, Allowed, LastEvidence, EvidenceStates, SuccessStates,
                FailureStates
  <2>4. EvidenceOK("rejected", <<"static_validated", "sandbox_tested", "model_reviewed", "rejected">>)
    BY <1>e DEF EvidenceOK, Required, Allowed, LastEvidence, EvidenceStates, SuccessStates,
                FailureStates
  <2>5. EvidenceOK("rejected", <<"validation_failed", "rejected">>)
    BY <1>c DEF EvidenceOK, Required, Allowed, LastEvidence, EvidenceStates, SuccessStates,
                FailureStates
  <2>6. EvidenceOK("rejected", <<"static_validated", "test_failed", "rejected">>)
    BY <1>d DEF EvidenceOK, Required, Allowed, LastEvidence, EvidenceStates, SuccessStates,
                FailureStates
  <2>7. EvidenceOK("rejected", <<"static_validated", "sandbox_tested", "review_failed", "rejected">>)
    BY <1>e DEF EvidenceOK, Required, Allowed, LastEvidence, EvidenceStates, SuccessStates,
                FailureStates
  <2>8. EvidenceOK("rejected", <<"static_validated", "sandbox_tested", "model_reviewed", "review_failed", "rejected">>)
    BY <1>f DEF EvidenceOK, Required, Allowed, LastEvidence, EvidenceStates, SuccessStates,
                FailureStates
  <2>9. PICK f \in OpenEvidence : e = Append(f, "rejected") BY <1>10 DEF EvidenceOf
  <2>10. CASE f = << >>
    <3>1. f = << >> BY <2>10, EvidenceTable
    <3>2. e = <<"rejected">> BY <2>9, <3>1, AppendEvidence
    <3>. QED BY <1>10, <3>2, <2>1
  <2>11. CASE f = Validated
    <3>1. f = <<"static_validated">> BY <2>11, EvidenceTable
    <3>2. e = <<"static_validated", "rejected">> BY <2>9, <3>1, AppendEvidence
    <3>. QED BY <1>10, <3>2, <2>2
  <2>12. CASE f = Tested
    <3>1. f = <<"static_validated", "sandbox_tested">> BY <2>12, EvidenceTable
    <3>2. e = <<"static_validated", "sandbox_tested", "rejected">> BY <2>9, <3>1, AppendEvidence
    <3>. QED BY <1>10, <3>2, <2>3
  <2>13. CASE f = Reviewed
    <3>1. f = <<"static_validated", "sandbox_tested", "model_reviewed">> BY <2>13, EvidenceTable
    <3>2. e = <<"static_validated", "sandbox_tested", "model_reviewed", "rejected">> BY <2>9, <3>1, AppendEvidence
    <3>. QED BY <1>10, <3>2, <2>4
  <2>14. CASE f = Append(<< >>, "validation_failed")
    <3>1. f = <<"validation_failed">> BY <2>14, EvidenceTable
    <3>2. e = <<"validation_failed", "rejected">> BY <2>9, <3>1, AppendEvidence
    <3>. QED BY <1>10, <3>2, <2>5
  <2>15. CASE f = Append(Validated, "test_failed")
    <3>1. f = <<"static_validated", "test_failed">> BY <2>15, EvidenceTable
    <3>2. e = <<"static_validated", "test_failed", "rejected">> BY <2>9, <3>1, AppendEvidence
    <3>. QED BY <1>10, <3>2, <2>6
  <2>16. CASE f = Append(Tested, "review_failed")
    <3>1. f = <<"static_validated", "sandbox_tested", "review_failed">> BY <2>16, EvidenceTable
    <3>2. e = <<"static_validated", "sandbox_tested", "review_failed", "rejected">> BY <2>9, <3>1, AppendEvidence
    <3>. QED BY <1>10, <3>2, <2>7
  <2>17. CASE f = Append(Reviewed, "review_failed")
    <3>1. f = <<"static_validated", "sandbox_tested", "model_reviewed", "review_failed">> BY <2>17, EvidenceTable
    <3>2. e = <<"static_validated", "sandbox_tested", "model_reviewed", "review_failed", "rejected">> BY <2>9, <3>1, AppendEvidence
    <3>. QED BY <1>10, <3>2, <2>8
  <2>. QED BY <2>9, <2>10, <2>11, <2>12, <2>13, <2>14, <2>15, <2>16, <2>17 DEF OpenEvidence
<1>. QED BY <1>1, <1>2, <1>3, <1>4, <1>5, <1>6, <1>7, <1>8, <1>9, <1>10 DEF DraftStates, EvidenceStates, SuccessStates, FailureStates

\* A transition at a time not before the last one keeps the dates in order.
LEMMA AdvanceDated ==
  ASSUME NEW r \in DraftRecord, DatesOK(r), NEW now \in Times, now >= r.updated,
         NEW target \in DraftStates
  PROVE  DatesOK(Advance(r, target, now))
<1> DEFINE a == Advance(r, target, now)
           n == Len(r.recorded)
<1>1. /\ a.created = r.created /\ a.updated = now
      /\ a.evidence = IF target \in EvidenceStates THEN Append(r.evidence, target) ELSE r.evidence
      /\ a.recorded = IF target \in EvidenceStates THEN Append(r.recorded, now) ELSE r.recorded
  BY DEF Advance, DraftRecord
<1>2. /\ r.created \in Times /\ r.updated \in Times
      /\ r.recorded \in Seq(Times) /\ r.evidence \in Seq(EvidenceStates)
  BY DEF DraftRecord
<1>3. Times \subseteq Nat BY ConstantsAssumption
<1>4. r.created \in Nat /\ r.updated \in Nat /\ now \in Nat BY <1>2, <1>3
<1>5. n \in Nat /\ \A i \in 1..n : r.recorded[i] \in Nat
  <2>1. n \in Nat BY <1>2, LenProperties
  <2>2. \A i \in 1..n : r.recorded[i] \in Times BY <1>2, ElementOfSeq
  <2>. QED BY <1>3, <2>1, <2>2
<1>6. /\ r.created <= r.updated /\ Len(r.evidence) = n
      /\ \A i \in 1..n : r.created <= r.recorded[i] /\ r.recorded[i] <= r.updated
      /\ \A i, j \in 1..n : i <= j => r.recorded[i] <= r.recorded[j]
  BY <1>4 DEF DatesOK
<1>7. CASE target \notin EvidenceStates
  <2>1. a.recorded = r.recorded /\ a.evidence = r.evidence BY <1>1, <1>7
  <2>2. \A i \in 1..n : a.created <= a.recorded[i] /\ a.recorded[i] <= a.updated
    BY <1>1, <1>4, <1>5, <1>6, <2>1
  <2>3. a.updated >= a.created BY <1>1, <1>4, <1>6
  <2>. QED BY <1>6, <2>1, <2>2, <2>3 DEF DatesOK
<1>8. CASE target \in EvidenceStates
  <2>1. Len(a.evidence) = n + 1 BY <1>1, <1>2, <1>6, <1>8, AppendProperties
  <2>2. Len(a.recorded) = n + 1 /\ a.recorded[n + 1] = now
        /\ \A i \in 1..n : a.recorded[i] = r.recorded[i]
    BY <1>1, <1>2, <1>8, AppendProperties
  <2>. SUFFICES DatesOK(a) OBVIOUS
  <2>. HIDE DEF a, n
  <2>3. \A i \in 1..(n + 1) : i = n + 1 \/ i \in 1..n BY <1>5
  <2>4. r.created <= now BY <1>4, <1>6
  <2>5. \A i \in 1..(n + 1) : a.recorded[i] \in Nat /\ a.created <= a.recorded[i]
                              /\ a.recorded[i] <= a.updated
    <3>1. ASSUME NEW i \in 1..n
          PROVE  a.recorded[i] \in Nat /\ a.created <= a.recorded[i] /\ a.recorded[i] <= a.updated
      BY <1>1, <1>4, <1>5, <1>6, <2>2
    <3>. QED BY <1>1, <1>4, <2>2, <2>3, <2>4, <3>1
  <2>6. \A i, j \in 1..(n + 1) : i <= j => a.recorded[i] <= a.recorded[j]
    <3>1. ASSUME NEW i \in 1..(n + 1), NEW j \in 1..(n + 1), i <= j
          PROVE  a.recorded[i] <= a.recorded[j]
      <4>1. CASE j = n + 1 BY <1>1, <2>2, <2>5, <4>1
      <4>2. CASE j \in 1..n
        <5>1. i \in 1..n BY <1>5, <3>1, <4>2
        <5>. QED BY <1>6, <2>2, <3>1, <4>2, <5>1
      <4>. QED BY <2>3, <4>1, <4>2
    <3>. QED BY <3>1
  <2>7. a.updated >= a.created BY <1>1, <1>4, <2>4
  <2>. QED BY <2>1, <2>2, <2>5, <2>6, <2>7 DEF DatesOK
<1>. QED BY <1>7, <1>8

\* A transition takes a draft record with good evidence to another one, of the
\* target state and of the same bundle and digest.
LEMMA AdvanceGood ==
  ASSUME NEW r \in DraftRecord, r.evidence \in EvidenceOf(r.state), NEW now \in Times,
         NEW target \in DraftStates,
         \/ target \in DraftTransitions(r.state)
         \/ target = "rejected" /\ r.state \notin {"approved", "rejected"}
         \/ target = "approved" /\ r.state = "awaiting_approval"
  PROVE  LET a == Advance(r, target, now)
         IN  /\ a \in DraftRecord
             /\ a.state = target /\ a.bundle = r.bundle /\ a.digest = r.digest
             /\ a.evidence \in EvidenceOf(target)
<1> DEFINE e == IF target \in EvidenceStates THEN Append(r.evidence, target) ELSE r.evidence
<1>1. /\ Advance(r, target, now).state = target
      /\ Advance(r, target, now).bundle = r.bundle
      /\ Advance(r, target, now).digest = r.digest
      /\ Advance(r, target, now).evidence = e
  BY DEF Advance, DraftRecord
<1>2. Advance(r, target, now) \in DraftRecord
  <2>1. target \in EvidenceStates => /\ Append(r.evidence, target) \in Seq(EvidenceStates)
                                     /\ Append(r.recorded, now) \in Seq(Times)
    BY AppendProperties DEF DraftRecord
  <2>. QED BY <2>1 DEF Advance, DraftRecord
<1>3. e \in EvidenceOf(target)
  <2> USE DEF EvidenceStates, SuccessStates, FailureStates
  <2>1. CASE r.state = "draft"
    <3>1. target \in {"static_validated", "validation_failed", "rejected"} BY <2>1 DEF DraftTransitions
    <3>2. CASE target = "static_validated" BY <2>1, <3>2 DEF EvidenceOf, OpenEvidence, Validated, Tested, Reviewed
    <3>3. CASE target = "validation_failed" BY <2>1, <3>3 DEF EvidenceOf, OpenEvidence, Validated, Tested, Reviewed
    <3>4. CASE target = "rejected" BY <2>1, <3>4 DEF EvidenceOf, OpenEvidence, Validated, Tested, Reviewed
    <3>. QED BY <3>1, <3>2, <3>3, <3>4
  <2>2. CASE r.state = "static_validated"
    <3>1. target \in {"sandbox_tested", "test_failed", "rejected"} BY <2>2 DEF DraftTransitions
    <3>2. CASE target = "sandbox_tested" BY <2>2, <3>2 DEF EvidenceOf, OpenEvidence, Validated, Tested, Reviewed
    <3>3. CASE target = "test_failed" BY <2>2, <3>3 DEF EvidenceOf, OpenEvidence, Validated, Tested, Reviewed
    <3>4. CASE target = "rejected" BY <2>2, <3>4 DEF EvidenceOf, OpenEvidence, Validated, Tested, Reviewed
    <3>. QED BY <3>1, <3>2, <3>3, <3>4
  <2>3. CASE r.state = "sandbox_tested"
    <3>1. target \in {"model_reviewed", "review_failed", "rejected"} BY <2>3 DEF DraftTransitions
    <3>2. CASE target = "model_reviewed" BY <2>3, <3>2 DEF EvidenceOf, OpenEvidence, Validated, Tested, Reviewed
    <3>3. CASE target = "review_failed" BY <2>3, <3>3 DEF EvidenceOf, OpenEvidence, Validated, Tested, Reviewed
    <3>4. CASE target = "rejected" BY <2>3, <3>4 DEF EvidenceOf, OpenEvidence, Validated, Tested, Reviewed
    <3>. QED BY <3>1, <3>2, <3>3, <3>4
  <2>4. CASE r.state = "model_reviewed"
    <3>1. target \in {"awaiting_approval", "review_failed", "rejected"} BY <2>4 DEF DraftTransitions
    <3>2. CASE target = "awaiting_approval" BY <2>4, <3>2 DEF EvidenceOf, OpenEvidence, Validated, Tested, Reviewed
    <3>3. CASE target = "review_failed" BY <2>4, <3>3 DEF EvidenceOf, OpenEvidence, Validated, Tested, Reviewed
    <3>4. CASE target = "rejected" BY <2>4, <3>4 DEF EvidenceOf, OpenEvidence, Validated, Tested, Reviewed
    <3>. QED BY <3>1, <3>2, <3>3, <3>4
  <2>5. CASE r.state = "awaiting_approval"
    <3>1. target \in {"approved", "rejected"} BY <2>5 DEF DraftTransitions
    <3>2. CASE target = "approved" BY <2>5, <3>2 DEF EvidenceOf, OpenEvidence, Validated, Tested, Reviewed
    <3>3. CASE target = "rejected" BY <2>5, <3>3 DEF EvidenceOf, OpenEvidence, Validated, Tested, Reviewed
    <3>. QED BY <3>1, <3>2, <3>3
  <2>6. CASE r.state = "approved" BY <2>6 DEF DraftTransitions
  <2>7. CASE r.state = "validation_failed"
    <3>1. target \in {"rejected"} BY <2>7 DEF DraftTransitions
    <3>2. CASE target = "rejected" BY <2>7, <3>2 DEF EvidenceOf, OpenEvidence, Validated, Tested, Reviewed
    <3>. QED BY <3>1, <3>2
  <2>8. CASE r.state = "test_failed"
    <3>1. target \in {"rejected"} BY <2>8 DEF DraftTransitions
    <3>2. CASE target = "rejected" BY <2>8, <3>2 DEF EvidenceOf, OpenEvidence, Validated, Tested, Reviewed
    <3>. QED BY <3>1, <3>2
  <2>9. CASE r.state = "review_failed"
    <3>1. target \in {"rejected"} BY <2>9 DEF DraftTransitions
    <3>2. CASE target = "rejected" BY <2>9, <3>2 DEF EvidenceOf, OpenEvidence, Validated, Tested, Reviewed
    <3>. QED BY <3>1, <3>2
  <2>10. CASE r.state = "rejected" BY <2>10 DEF DraftTransitions
  <2>. QED
    BY <2>1, <2>2, <2>3, <2>4, <2>5, <2>6, <2>7, <2>8, <2>9, <2>10 DEF DraftRecord, DraftStates
<1>. QED BY <1>1, <1>2, <1>3

-----------------------------------------------------------------------------
\* Advancing one draft keeps every draft good and touches no other draft.
LEMMA DraftAdvanced ==
  ASSUME DraftsGood(drafts), NEW d \in DraftIds, drafts[d] # None,
         NEW now \in Times, NEW target \in DraftStates, now >= drafts[d].updated,
         \/ target \in DraftTransitions(drafts[d].state)
         \/ target = "rejected" /\ drafts[d].state \notin {"approved", "rejected"}
         \/ target = "approved" /\ drafts[d].state = "awaiting_approval",
         drafts' = [drafts EXCEPT ![d] = Advance(@, target, now)]
  PROVE  /\ DraftsGood(drafts')
         /\ drafts[d].state # "approved"
         /\ drafts'[d] # None
         /\ drafts'[d].state = target
         /\ drafts'[d].bundle = drafts[d].bundle
         /\ drafts'[d].digest = drafts[d].digest
         /\ \A c \in DraftIds \ {d} : drafts'[c] = drafts[c]
<1>1. /\ drafts[d] \in DraftRecord /\ drafts[d].evidence \in EvidenceOf(drafts[d].state)
      /\ DatesOK(drafts[d])
  BY DEF DraftsGood
<1>2. drafts'[d] = Advance(drafts[d], target, now) /\ \A c \in DraftIds \ {d} : drafts'[c] = drafts[c]
  BY DEF DraftsGood
<1>3. /\ drafts'[d] \in DraftRecord
      /\ drafts'[d].state = target
      /\ drafts'[d].bundle = drafts[d].bundle
      /\ drafts'[d].digest = drafts[d].digest
      /\ drafts'[d].evidence \in EvidenceOf(target)
      /\ DatesOK(drafts'[d])
  BY <1>1, <1>2, AdvanceGood, AdvanceDated
<1>4. drafts[d].state # "approved"
  BY DEF DraftTransitions
<1>5. DraftsGood(drafts')
  BY <1>2, <1>3 DEF DraftsGood
<1>. QED BY <1>2, <1>3, <1>4, <1>5, ConstantsAssumption

\* A change of one draft that is not an approval leaves the rest of AllGood alone.
LEMMA DraftOnlyStep ==
  ASSUME AllGood(drafts, versions, active, grants),
         NEW d \in DraftIds, NEW target \in DraftStates \ {"approved"}, NEW now \in Times,
         drafts[d] # None, now >= drafts[d].updated,
         \/ target \in DraftTransitions(drafts[d].state)
         \/ target = "rejected" /\ drafts[d].state \notin {"approved", "rejected"},
         drafts' = [drafts EXCEPT ![d] = Advance(@, target, now)]
  PROVE  AllGood(drafts', versions, active, grants)
<1>1. DraftsGood(drafts) BY DEF AllGood
<1>2. /\ DraftsGood(drafts')
      /\ drafts[d].state # "approved"
      /\ drafts'[d].state = target
      /\ \A c \in DraftIds \ {d} : drafts'[c] = drafts[c]
  BY <1>1, DraftAdvanced
<1>3. ApprovedGood(drafts', versions) BY <1>2 DEF AllGood, ApprovedGood
<1>4. SourceGood(drafts', versions)
  <2>1. SUFFICES ASSUME NEW b \in Bundles, NEW g \in Digests, versions[b][g] # None
                 PROVE  versions[b][g].source \in DraftIds \ {d}
    BY <1>2, <2>1 DEF AllGood, SourceGood
  <2>. QED BY <1>2, <2>1 DEF AllGood, SourceGood
<1>. QED BY <1>2, <1>3, <1>4 DEF AllGood

\* Every version but <<b, g>> is where it was and names the same source draft.
SameSourcesBut(b, g, W, V) ==
  \A c \in Bundles, h \in Digests :
    (c # b \/ h # g) => /\ (W[c][h] = None) <=> (V[c][h] = None)
                        /\ V[c][h] # None => W[c][h].source = V[c][h].source

\* Making g the active version of b deprecates its predecessor and keeps
\* versions, active and grants consistent.
LEMMA SwitchedGood ==
  ASSUME VersionsGood(versions), ActiveGood(versions, active), GrantsGood(versions, grants),
         NEW b \in Bundles, NEW g \in Digests, NEW now \in Times,
         NEW record \in VersionRecord, VersionOK(record), record.state = "activated",
         PredecessorOK(b, g, now),
         versions' = Switched(b, g, record, now),
         active' = [active EXCEPT ![b] = g]
  PROVE  /\ VersionsGood(versions')
         /\ ActiveGood(versions', active')
         /\ GrantsGood(versions', grants)
         /\ versions'[b][g] = record
         /\ SameSourcesBut(b, g, versions', versions)
<1>1. \A c \in Bundles, h \in Digests :
        versions'[c][h] = IF c # b THEN versions[c][h]
                          ELSE IF h = g THEN record
                          ELSE IF h = active[b] THEN Deprecated(versions[b][h], now)
                          ELSE versions[b][h]
  BY DEF Switched, VersionsGood
<1>2. ASSUME NEW h \in Digests, h = active[b], h # g
      PROVE  /\ versions[b][h] \in VersionRecord
             /\ Deprecated(versions[b][h], now) \in VersionRecord
             /\ Deprecated(versions[b][h], now).state = "deprecated"
             /\ Deprecated(versions[b][h], now).source = versions[b][h].source
             /\ VersionOK(Deprecated(versions[b][h], now))
  <2>1. /\ versions[b][h] \in VersionRecord /\ versions[b][h].state = "activated"
        /\ VersionOK(versions[b][h])
        /\ active[b] \notin {None, g}
    BY <1>2, ConstantsAssumption DEF VersionsGood, ActiveGood
  <2>2. NotBefore(now, versions[b][h].activated)
    BY <1>2, <2>1 DEF PredecessorOK
  <2>. QED BY <2>1, <2>2, ConstantsAssumption
           DEF Deprecated, VersionRecord, VersionOK, VersionStates, OptionalTime, NotBefore
<1>3. VersionsGood(versions')
  <2>1. versions' \in [Bundles -> [Digests -> VersionRecord \cup {None}]]
    <3>1. ASSUME NEW c \in Bundles, NEW h \in Digests
          PROVE  versions'[c][h] \in VersionRecord \cup {None}
      BY <1>1, <1>2 DEF VersionsGood
    <3>2. \E f \in [Digests -> VersionRecord \cup {None}] : versions'[b] = f
      <4> DEFINE f == [h \in Digests |-> versions'[b][h]]
      <4>1. f \in [Digests -> VersionRecord \cup {None}] BY <3>1
      <4>2. versions'[b] = f BY DEF Switched, VersionsGood
      <4>. QED BY <4>1, <4>2
    <3>3. versions' = [versions EXCEPT ![b] = versions'[b]] BY DEF Switched, VersionsGood
    <3>. QED BY <3>2, <3>3 DEF VersionsGood
  <2>2. ASSUME NEW c \in Bundles, NEW h \in Digests, versions'[c][h] # None
        PROVE  VersionOK(versions'[c][h])
    BY <1>1, <1>2, <2>2 DEF VersionsGood
  <2>. QED BY <2>1, <2>2 DEF VersionsGood
<1>4. ActiveGood(versions', active')
  <2>1. active' \in [Bundles -> Digests \cup {None}] BY DEF ActiveGood
  <2>2. ASSUME NEW c \in Bundles, NEW h \in Digests
        PROVE  (active'[c] = h) <=> (versions'[c][h] # None /\ versions'[c][h].state = "activated")
    <3>1. CASE c # b BY <1>1, <3>1 DEF ActiveGood
    <3>2. CASE c = b /\ h = g BY <1>1, <3>2, ConstantsAssumption DEF ActiveGood
    <3>3. CASE c = b /\ h # g
      <4>1. active'[c] = g BY <3>3 DEF ActiveGood
      <4>2. CASE h = active[b] BY <1>1, <1>2, <3>3, <4>1, <4>2
      <4>3. CASE h # active[b] BY <1>1, <3>3, <4>1, <4>3 DEF ActiveGood
      <4>. QED BY <4>2, <4>3
    <3>. QED BY <3>1, <3>2, <3>3
  <2>. QED BY <2>1, <2>2 DEF ActiveGood
<1>5. GrantsGood(versions', grants)
  <2>1. SUFFICES ASSUME NEW k \in GrantKeys, grants[k] # None
                 PROVE  versions'[k[1]][k[2]] # None /\ versions'[k[1]][k[2]].state # "archived"
    BY DEF GrantsGood
  <2>2. /\ k[1] \in Bundles /\ k[2] \in Digests
        /\ versions[k[1]][k[2]] # None /\ versions[k[1]][k[2]].state # "archived"
    BY <2>1 DEF GrantsGood, GrantKeys
  <2>3. CASE k[1] # b \/ (k[2] # g /\ k[2] # active[b]) BY <1>1, <2>2, <2>3
  <2>4. CASE k[1] = b /\ k[2] = g BY <1>1, <2>4, ConstantsAssumption
  <2>5. CASE k[1] = b /\ k[2] # g /\ k[2] = active[b] BY <1>1, <1>2, <2>2, <2>5, ConstantsAssumption
  <2>. QED BY <2>3, <2>4, <2>5
<1>6. ASSUME NEW c \in Bundles, NEW h \in Digests, c # b \/ h # g
      PROVE  /\ (versions'[c][h] = None) <=> (versions[c][h] = None)
             /\ versions[c][h] # None => versions'[c][h].source = versions[c][h].source
  <2>1. CASE c # b \/ h # active[b] BY <1>1, <1>6, <2>1
  <2>2. CASE c = b /\ h = active[b] BY <1>1, <1>2, <1>6, <2>2, ConstantsAssumption
  <2>. QED BY <2>1, <2>2
<1>. QED BY <1>1, <1>3, <1>4, <1>5, <1>6 DEF SameSourcesBut

\* The version records that the plans make active are well formed.
LEMMA ReactivatedGood ==
  ASSUME NEW v \in VersionRecord, NEW now \in Times, VersionOK(v), NotBeforeVersion(now, v)
  PROVE  /\ Reactivated(v, now) \in VersionRecord
         /\ VersionOK(Reactivated(v, now))
         /\ Reactivated(v, now).state = "activated"
         /\ Reactivated(v, now).source = v.source
BY ConstantsAssumption
   DEF Reactivated, VersionRecord, VersionOK, NotBeforeVersion, NotBefore, VersionStates, OptionalTime

LEMMA NewVersionGood ==
  ASSUME NEW d \in DraftIds, NEW now \in Times, NEW s \in {"approved", "activated"}
  PROVE  /\ NewVersion(s, d, now) \in VersionRecord
         /\ VersionOK(NewVersion(s, d, now))
         /\ NewVersion(s, d, now).state = s
         /\ NewVersion(s, d, now).source = d
BY ConstantsAssumption DEF NewVersion, VersionRecord, VersionOK, VersionStates, OptionalTime, NotBefore

-----------------------------------------------------------------------------
\* Every plan keeps the collections good.
LEMMA RecordDraftGood ==
  ASSUME AllGood(drafts, versions, active, grants),
         NEW d \in DraftIds, NEW b \in Bundles, NEW g \in Digests, NEW now \in Times,
         RecordDraft(d, b, g, now)
  PROVE  AllGood(drafts', versions', active', grants')
<1> DEFINE r == [bundle |-> b, digest |-> g, state |-> "draft", created |-> now, updated |-> now,
                  evidence |-> << >>, recorded |-> << >>]
<1>0. DatesOK(r)
  <2>1. now \in Nat BY ConstantsAssumption
  <2>. QED BY <2>1 DEF DatesOK
<1>1. /\ r \in DraftRecord /\ r.state = "draft" /\ r.evidence \in EvidenceOf("draft")
      /\ DatesOK(r)
  BY <1>0 DEF DraftRecord, DraftStates, EvidenceOf
<1>2. drafts' = [drafts EXCEPT ![d] = r] /\ drafts[d] = None BY DEF RecordDraft
<1>. HIDE DEF r
<1>3. DraftsGood(drafts') BY <1>1, <1>2 DEF AllGood, DraftsGood
<1>4. \A c \in DraftIds : drafts'[c] = IF c = d THEN r ELSE drafts[c]
  BY <1>2 DEF AllGood, DraftsGood
<1>5. ApprovedGood(drafts', versions) BY <1>1, <1>4 DEF AllGood, ApprovedGood
<1>6. SourceGood(drafts', versions) BY <1>2, <1>4 DEF AllGood, SourceGood
<1>. QED BY <1>3, <1>5, <1>6 DEF AllGood, RecordDraft

LEMMA TransitionDraftGood ==
  ASSUME AllGood(drafts, versions, active, grants),
         NEW d \in DraftIds, NEW target \in DraftStates, NEW now \in Times,
         TransitionDraft(d, target, now)
  PROVE  AllGood(drafts', versions', active', grants')
<1>1. target # "approved" BY DEF TransitionDraft, DraftTransitions
<1>. QED BY <1>1, DraftOnlyStep DEF TransitionDraft

LEMMA RejectDraftGood ==
  ASSUME AllGood(drafts, versions, active, grants),
         NEW d \in DraftIds, NEW now \in Times, RejectDraft(d, now)
  PROVE  AllGood(drafts', versions', active', grants')
BY DraftOnlyStep DEF RejectDraft, DraftStates, EvidenceStates

LEMMA ApproveDraftGood ==
  ASSUME AllGood(drafts, versions, active, grants),
         NEW d \in DraftIds, NEW now \in Times, ApproveDraft(d, now)
  PROVE  AllGood(drafts', versions', active', grants')
<1> DEFINE b == drafts[d].bundle
           g == drafts[d].digest
<1>1. /\ DraftsGood(drafts')
      /\ drafts[d].state # "approved"
      /\ drafts'[d] # None /\ drafts'[d].state = "approved"
      /\ drafts'[d].bundle = b /\ drafts'[d].digest = g
      /\ \A c \in DraftIds \ {d} : drafts'[c] = drafts[c]
  BY DraftAdvanced DEF ApproveDraft, Approvable, AllGood, DraftStates
<1>2. b \in Bundles /\ g \in Digests
  BY DEF ApproveDraft, Approvable, AllGood, DraftsGood, DraftRecord
<1>3. CASE versions[b][g] # None
  <2>1. versions' = versions BY <1>3 DEF ApproveDraft
  <2>2. ApprovedGood(drafts', versions) BY <1>1, <1>3 DEF AllGood, ApprovedGood
  <2>3. SourceGood(drafts', versions) BY <1>1 DEF AllGood, SourceGood
  <2>. QED BY <1>1, <2>1, <2>2, <2>3 DEF AllGood, ApproveDraft
<1>4. CASE versions[b][g] = None
  <2> DEFINE v == NewVersion("approved", d, now)
  <2>1. v \in VersionRecord /\ VersionOK(v) /\ v.state = "approved" /\ v.source = d
    BY NewVersionGood
  <2>2. versions' = [versions EXCEPT ![b][g] = v] BY <1>4 DEF ApproveDraft
  <2>. HIDE DEF v
  <2>3. \A c \in Bundles, h \in Digests :
          versions'[c][h] = IF c = b /\ h = g THEN v ELSE versions[c][h]
    BY <1>2, <2>2 DEF AllGood, VersionsGood
  <2>4. VersionsGood(versions') BY <1>2, <2>1, <2>2, <2>3 DEF AllGood, VersionsGood
  <2>5. ActiveGood(versions', active) BY <1>4, <2>1, <2>3 DEF AllGood, ActiveGood
  <2>6. GrantsGood(versions', grants)
    BY <1>4, <2>1, <2>3, ConstantsAssumption DEF AllGood, GrantsGood, GrantKeys
  <2>7. ApprovedGood(drafts', versions')
    <3>1. SUFFICES ASSUME NEW c \in DraftIds, drafts'[c] # None, drafts'[c].state = "approved"
                   PROVE  versions'[drafts'[c].bundle][drafts'[c].digest] # None
      BY DEF ApprovedGood
    <3>2. drafts'[c].bundle \in Bundles /\ drafts'[c].digest \in Digests
      BY <1>1, <3>1 DEF DraftsGood, DraftRecord
    <3>. QED BY <1>1, <2>1, <2>3, <3>1, <3>2, ConstantsAssumption DEF AllGood, ApprovedGood
  <2>8. SourceGood(drafts', versions') BY <1>1, <2>1, <2>3 DEF AllGood, SourceGood
  <2>. QED BY <1>1, <2>4, <2>5, <2>6, <2>7, <2>8 DEF AllGood, ApproveDraft
<1>. QED BY <1>3, <1>4

\* plan_activate_version and plan_rollback make an existing version active.
LEMMA ReactivateGood ==
  ASSUME AllGood(drafts, versions, active, grants),
         NEW b \in Bundles, NEW g \in Digests, NEW now \in Times,
         versions[b][g] # None, NotBeforeVersion(now, versions[b][g]), PredecessorOK(b, g, now),
         versions' = Switched(b, g, Reactivated(versions[b][g], now), now),
         active' = [active EXCEPT ![b] = g]
  PROVE  AllGood(drafts, versions', active', grants)
<1> DEFINE r == Reactivated(versions[b][g], now)
<1>1. r \in VersionRecord /\ VersionOK(r) /\ r.state = "activated" /\ r.source = versions[b][g].source
  BY ReactivatedGood DEF AllGood, VersionsGood
<1>. HIDE DEF r
<1>2. /\ VersionsGood(versions') /\ ActiveGood(versions', active') /\ GrantsGood(versions', grants)
      /\ versions'[b][g] = r
      /\ SameSourcesBut(b, g, versions', versions)
  BY <1>1, SwitchedGood DEF AllGood, r
<1>3. ASSUME NEW c \in Bundles, NEW h \in Digests
      PROVE  /\ (versions'[c][h] = None) <=> (versions[c][h] = None)
             /\ versions[c][h] # None => versions'[c][h].source = versions[c][h].source
  <2>1. CASE c = b /\ h = g BY <1>1, <1>2, <2>1, ConstantsAssumption
  <2>2. CASE c # b \/ h # g BY <1>2, <2>2 DEF SameSourcesBut
  <2>. QED BY <2>1, <2>2
<1>4. ApprovedGood(drafts, versions')
  BY <1>3 DEF AllGood, ApprovedGood, DraftsGood, DraftRecord
<1>5. SourceGood(drafts, versions') BY <1>3 DEF AllGood, SourceGood
<1>. QED BY <1>2, <1>4, <1>5 DEF AllGood

LEMMA ActivateFromDraftGood ==
  ASSUME AllGood(drafts, versions, active, grants),
         NEW d \in DraftIds, NEW now \in Times, ActivateFromDraft(d, now)
  PROVE  AllGood(drafts', versions', active', grants')
<1> DEFINE b == drafts[d].bundle
           g == drafts[d].digest
           v == versions[b][g]
           r == FromDraft(d, v, now)
<1>1. /\ DraftsGood(drafts')
      /\ drafts[d].state # "approved"
      /\ drafts'[d] # None /\ drafts'[d].state = "approved"
      /\ drafts'[d].bundle = b /\ drafts'[d].digest = g
      /\ \A c \in DraftIds \ {d} : drafts'[c] = drafts[c]
  BY DraftAdvanced DEF ActivateFromDraft, Approvable, AllGood, DraftStates
<1>2. b \in Bundles /\ g \in Digests
  BY DEF ActivateFromDraft, Approvable, AllGood, DraftsGood, DraftRecord
<1>3. /\ r \in VersionRecord /\ VersionOK(r) /\ r.state = "activated"
      /\ r.source = IF v = None THEN d ELSE v.source
  <2>1. CASE v = None BY <2>1, NewVersionGood DEF FromDraft
  <2>2. CASE v # None
    <3>1. v \in VersionRecord /\ VersionOK(v) /\ v.source \in DraftIds
      BY <1>2, <2>2 DEF AllGood, VersionsGood, SourceGood
    <3>2. CASE v.state = "activated" BY <2>2, <3>1, <3>2 DEF FromDraft
    <3>3. CASE v.state # "activated"
      <4>1. NotBeforeVersion(now, v)
        <5>1. v # None /\ v.state # "activated" => NotBeforeVersion(now, v) BY DEF ActivateFromDraft
        <5>. QED BY <2>2, <3>3, <5>1
      <4> DEFINE w == Reactivated(v, now)
      <4>2. w \in VersionRecord /\ VersionOK(w) /\ w.state = "activated" /\ w.source = v.source
        BY <3>1, <4>1, ReactivatedGood
      <4>3. r = [w EXCEPT !.source = IF @ = None THEN d ELSE @] BY <2>2, <3>3 DEF FromDraft
      <4>. HIDE DEF r, w
      <4>4. r = w BY <3>1, <4>2, <4>3, ConstantsAssumption DEF VersionRecord
      <4>. QED BY <2>2, <4>2, <4>4
    <3>. QED BY <3>2, <3>3
  <2>. QED BY <2>1, <2>2
<1>4. /\ PredecessorOK(b, g, now)
      /\ versions' = Switched(b, g, r, now)
      /\ active' = [active EXCEPT ![b] = g]
      /\ grants' = grants
  BY DEF ActivateFromDraft
<1>. HIDE DEF b, g, v, r
<1>5. /\ VersionsGood(versions') /\ ActiveGood(versions', active') /\ GrantsGood(versions', grants)
      /\ versions'[b][g] = r
      /\ SameSourcesBut(b, g, versions', versions)
  BY <1>2, <1>3, <1>4, SwitchedGood DEF AllGood
<1>6. ApprovedGood(drafts', versions')
  <2>1. SUFFICES ASSUME NEW c \in DraftIds, drafts'[c] # None, drafts'[c].state = "approved"
                 PROVE  versions'[drafts'[c].bundle][drafts'[c].digest] # None
    BY DEF ApprovedGood
  <2>2. drafts'[c].bundle \in Bundles /\ drafts'[c].digest \in Digests
    BY <1>1, <2>1 DEF DraftsGood, DraftRecord
  <2>3. CASE drafts'[c].bundle = b /\ drafts'[c].digest = g
    BY <1>3, <1>5, <2>3, ConstantsAssumption
  <2>4. CASE drafts'[c].bundle # b \/ drafts'[c].digest # g
    <3>1. c # d /\ drafts'[c] = drafts[c] BY <1>1, <2>4
    <3>2. versions[drafts[c].bundle][drafts[c].digest] # None
      BY <2>1, <3>1 DEF AllGood, ApprovedGood
    <3>. QED BY <1>5, <2>2, <2>4, <3>1, <3>2 DEF SameSourcesBut
  <2>. QED BY <2>3, <2>4
<1>7. SourceGood(drafts', versions')
  <2>1. SUFFICES ASSUME NEW c \in Bundles, NEW h \in Digests, versions'[c][h] # None
                 PROVE  LET s == versions'[c][h].source
                        IN  /\ s \in DraftIds /\ drafts'[s] # None
                            /\ drafts'[s].bundle = c /\ drafts'[s].digest = h
                            /\ drafts'[s].state = "approved"
    BY DEF SourceGood
  <2>2. CASE c = b /\ h = g /\ v = None
    <3>1. versions'[c][h].source = d BY <1>3, <1>5, <2>2
    <3>. QED BY <1>1, <2>2, <3>1
  <2>3. CASE ~(c = b /\ h = g /\ v = None)
    <3>1. CASE c = b /\ h = g
      <4>1. versions[c][h] # None /\ versions'[c][h].source = versions[c][h].source
        BY <1>3, <1>5, <2>3, <3>1 DEF v
      <4>. QED BY <1>1, <4>1 DEF AllGood, SourceGood
    <3>2. CASE c # b \/ h # g
      <4>1. versions[c][h] # None /\ versions'[c][h].source = versions[c][h].source
        BY <1>5, <2>1, <3>2 DEF SameSourcesBut
      <4>. QED BY <1>1, <4>1 DEF AllGood, SourceGood
    <3>. QED BY <3>1, <3>2
  <2>. QED BY <2>2, <2>3
<1>. QED BY <1>1, <1>4, <1>5, <1>6, <1>7 DEF AllGood

LEMMA DeactivateGood ==
  ASSUME AllGood(drafts, versions, active, grants),
         NEW b \in Bundles, NEW now \in Times, Deactivate(b, now)
  PROVE  AllGood(drafts', versions', active', grants')
<1> DEFINE g == active[b]
           v == versions[b][g]
           r == Deprecated(v, now)
<1>1. /\ g \in Digests /\ v \in VersionRecord /\ v.state = "activated" /\ VersionOK(v)
  BY ConstantsAssumption DEF Deactivate, AllGood, ActiveGood, VersionsGood
<1>2. /\ NotBefore(now, v.activated)
      /\ versions' = [versions EXCEPT ![b][g] = r]
      /\ active' = [active EXCEPT ![b] = None]
      /\ UNCHANGED <<drafts, grants>>
  BY DEF Deactivate
<1>. HIDE DEF g
<1>3. r \in VersionRecord /\ VersionOK(r) /\ r.state = "deprecated" /\ r.source = v.source
  BY <1>1, <1>2, ConstantsAssumption
     DEF Deprecated, VersionRecord, VersionOK, VersionStates, OptionalTime, NotBefore
<1>. HIDE DEF r
<1>4. \A c \in Bundles, h \in Digests :
        versions'[c][h] = IF c = b /\ h = g THEN r ELSE versions[c][h]
  BY <1>1, <1>2 DEF AllGood, VersionsGood
<1>5. v # None /\ r # None BY <1>1, <1>3, ConstantsAssumption
<1>6. VersionsGood(versions') BY <1>1, <1>2, <1>3, <1>4 DEF AllGood, VersionsGood
<1>7. ActiveGood(versions', active')
  <2>1. active' \in [Bundles -> Digests \cup {None}] BY <1>2 DEF AllGood, ActiveGood
  <2>2. ASSUME NEW c \in Bundles, NEW h \in Digests
        PROVE  (active'[c] = h) <=> (versions'[c][h] # None /\ versions'[c][h].state = "activated")
    <3>1. CASE c # b BY <1>2, <1>4, <3>1 DEF AllGood, ActiveGood
    <3>2. CASE c = b
      <4>1. active'[c] # h BY <1>2, <3>2, ConstantsAssumption DEF AllGood, ActiveGood
      <4>2. h # g => active[b] # h BY DEF g
      <4>. QED BY <1>3, <1>4, <3>2, <4>1, <4>2 DEF AllGood, ActiveGood
    <3>. QED BY <3>1, <3>2
  <2>. QED BY <2>1, <2>2 DEF ActiveGood
<1>8. GrantsGood(versions', grants) BY <1>3, <1>4, <1>5 DEF AllGood, GrantsGood, GrantKeys
<1>9. ApprovedGood(drafts, versions') BY <1>4, <1>5 DEF AllGood, ApprovedGood, DraftsGood, DraftRecord
<1>10. SourceGood(drafts, versions') BY <1>1, <1>3, <1>4, <1>5 DEF AllGood, SourceGood
<1>. QED BY <1>2, <1>6, <1>7, <1>8, <1>9, <1>10 DEF AllGood

LEMMA ArchiveGood ==
  ASSUME AllGood(drafts, versions, active, grants),
         NEW b \in Bundles, NEW g \in Digests, NEW now \in Times, Archive(b, g, now)
  PROVE  AllGood(drafts', versions', active', grants')
<1> DEFINE v == versions[b][g]
           r == [v EXCEPT !.state = "archived", !.archived = now]
<1>1. v \in VersionRecord /\ VersionOK(v) /\ v.state = "deprecated" /\ v # None
  BY DEF Archive, AllGood, VersionsGood
<1>2. /\ NotBeforeVersion(now, v)
      /\ versions' = [versions EXCEPT ![b][g] = r]
      /\ UNCHANGED <<drafts, active>>
  BY DEF Archive, AllGood, VersionsGood
<1>3. r \in VersionRecord /\ VersionOK(r) /\ r.state = "archived" /\ r.source = v.source
  BY <1>1, <1>2, ConstantsAssumption
     DEF VersionRecord, VersionOK, VersionStates, OptionalTime, NotBefore, NotBeforeVersion
<1>. HIDE DEF r
<1>4. \A c \in Bundles, h \in Digests :
        versions'[c][h] = IF c = b /\ h = g THEN r ELSE versions[c][h]
  BY <1>2 DEF AllGood, VersionsGood
<1>5. r # None BY <1>3, ConstantsAssumption
<1>6. VersionsGood(versions') BY <1>2, <1>3, <1>4 DEF AllGood, VersionsGood
<1>7. ActiveGood(versions', active)
  BY <1>1, <1>3, <1>4 DEF AllGood, ActiveGood
<1>8. GrantsGood(versions', grants')
  <2>1. grants' = [k \in GrantKeys |-> IF k[1] = b /\ k[2] = g THEN None ELSE grants[k]]
    BY DEF Archive
  <2>. QED BY <1>4, <2>1 DEF AllGood, GrantsGood, GrantKeys
<1>9. ApprovedGood(drafts, versions') BY <1>4, <1>5 DEF AllGood, ApprovedGood, DraftsGood, DraftRecord
<1>10. SourceGood(drafts, versions') BY <1>1, <1>3, <1>4 DEF AllGood, SourceGood
<1>. QED BY <1>2, <1>6, <1>7, <1>8, <1>9, <1>10 DEF AllGood

LEMMA GrantStepGood ==
  ASSUME AllGood(drafts, versions, active, grants), GrantStep
  PROVE  AllGood(drafts', versions', active', grants')
<1>1. PICK b \in Bundles, g \in Digests, t \in Tools :
        (\E who \in Approvers : Grant(b, g, t, who)) \/ Revoke(b, g, t)
  BY DEF GrantStep
<1>2. <<b, g, t>> \in GrantKeys BY DEF GrantKeys
<1>3. /\ versions[b][g] # None /\ versions[b][g].state # "archived"
      /\ \E x \in Approvers \cup {None} : grants' = [grants EXCEPT ![<<b, g, t>>] = x]
      /\ UNCHANGED <<drafts, versions, active>>
  BY <1>1 DEF Grant, Revoke
<1>4. GrantsGood(versions, grants') BY <1>2, <1>3 DEF AllGood, GrantsGood
<1>. QED BY <1>3, <1>4 DEF AllGood

-----------------------------------------------------------------------------
LEMMA InitIInv == Init => IInv
BY ConstantsAssumption
   DEF Init, IInv, AllGood, DraftsGood, VersionsGood, ActiveGood, GrantsGood, ApprovedGood, SourceGood

LEMMA NextIInv == IInv /\ [Next]_vars => IInv'
<1> SUFFICES ASSUME IInv, [Next]_vars PROVE IInv' OBVIOUS
<1>1. AllGood(drafts, versions, active, grants) BY DEF IInv
<1>2. CASE UNCHANGED vars BY <1>2 DEF IInv, vars
<1>3. ASSUME undo' = Snapshot, AllGood(drafts', versions', active', grants') PROVE IInv'
  BY <1>1, <1>3 DEF IInv, Snapshot
<1>4. ASSUME NEW now \in Times, DraftStep(now) PROVE IInv'
  <2>1. PICK d \in DraftIds :
          \/ \E b \in Bundles, g \in Digests : RecordDraft(d, b, g, now)
          \/ \E target \in DraftStates : TransitionDraft(d, target, now)
          \/ RejectDraft(d, now)
          \/ ApproveDraft(d, now)
          \/ ActivateFromDraft(d, now)
    BY <1>4 DEF DraftStep
  <2>2. undo' = Snapshot
    BY <2>1 DEF RecordDraft, TransitionDraft, RejectDraft, ApproveDraft, ActivateFromDraft
  <2>3. AllGood(drafts', versions', active', grants')
    BY <1>1, <2>1, RecordDraftGood, TransitionDraftGood, RejectDraftGood, ApproveDraftGood,
       ActivateFromDraftGood
  <2>. QED BY <1>3, <2>2, <2>3
<1>5. ASSUME NEW now \in Times, VersionStep(now) PROVE IInv'
  <2>1. PICK b \in Bundles :
          \/ Deactivate(b, now)
          \/ \E g \in Digests : ActivateVersion(b, g, now) \/ Rollback(b, g, now) \/ Archive(b, g, now)
    BY <1>5 DEF VersionStep
  <2>2. undo' = Snapshot BY <2>1 DEF Deactivate, ActivateVersion, Rollback, Archive
  <2>3. CASE Deactivate(b, now) BY <1>1, <1>3, <2>2, <2>3, DeactivateGood
  <2>4. ASSUME NEW g \in Digests, ActivateVersion(b, g, now) \/ Rollback(b, g, now)
        PROVE  AllGood(drafts', versions', active', grants')
    <3>1. AllGood(drafts, versions', active', grants)
      BY <1>1, <2>4, ReactivateGood DEF ActivateVersion, Rollback
    <3>. QED BY <2>4, <3>1 DEF ActivateVersion, Rollback
  <2>5. ASSUME NEW g \in Digests, Archive(b, g, now)
        PROVE  AllGood(drafts', versions', active', grants')
    BY <1>1, <2>5, ArchiveGood
  <2>. QED BY <1>3, <2>1, <2>2, <2>3, <2>4, <2>5
<1>6. CASE GrantStep
  <2>1. undo' = Snapshot BY <1>6 DEF GrantStep, Grant, Revoke
  <2>. QED BY <1>1, <1>3, <1>6, <2>1, GrantStepGood
<1>7. CASE RestoreSnapshot BY <1>3, <1>7 DEF RestoreSnapshot, IInv
<1>. QED BY <1>2, <1>4, <1>5, <1>6, <1>7 DEF Next

LEMMA SpecIInv == Spec => []IInv
BY InitIInv, NextIInv, PTL DEF Spec

\* AllGood implies what the runs check of a state.
LEMMA GoodImplies ==
  ASSUME NEW s, AllGood(s.drafts, s.versions, s.active, s.grants)
  PROVE  StateType(s) /\ Consistent(s) /\ Provenance(s)
<1>1. StateType(s)
  BY DEF AllGood, DraftsGood, VersionsGood, ActiveGood, GrantsGood, StateType
<1>2. ASSUME NEW d \in DraftIds, s.drafts[d] # None PROVE DraftOK(s.drafts[d])
  <2>1. /\ s.drafts[d] \in DraftRecord /\ s.drafts[d].evidence \in EvidenceOf(s.drafts[d].state)
        /\ DatesOK(s.drafts[d])
    BY <1>2 DEF AllGood, DraftsGood
  <2>2. s.drafts[d].state \in DraftStates BY <2>1 DEF DraftRecord
  <2>. QED BY <2>1, <2>2, EvidenceSound DEF DraftOK
<1>3. Consistent(s)
  BY <1>2 DEF AllGood, VersionsGood, ActiveGood, GrantsGood, ApprovedGood, Consistent
<1>4. ASSUME NEW b \in Bundles, NEW g \in Digests, s.versions[b][g] # None
      PROVE  LET d == s.versions[b][g].source
             IN  /\ d \in DraftIds /\ s.drafts[d] # None
                 /\ s.drafts[d].bundle = b /\ s.drafts[d].digest = g
                 /\ s.drafts[d].state = "approved"
                 /\ s.drafts[d].evidence = <<"static_validated", "sandbox_tested", "model_reviewed">>
  <2> DEFINE d == s.versions[b][g].source
  <2>1. /\ d \in DraftIds /\ s.drafts[d] # None
        /\ s.drafts[d].bundle = b /\ s.drafts[d].digest = g
        /\ s.drafts[d].state = "approved"
    BY <1>4 DEF AllGood, SourceGood
  <2>2. s.drafts[d].evidence \in {Reviewed} BY <2>1 DEF AllGood, DraftsGood, EvidenceOf
  <2>. QED BY <2>1, <2>2, EvidenceTable
<1>5. Provenance(s)
  <2>1. SUFFICES ASSUME NEW b \in Bundles, NEW g \in Digests, s.versions[b][g] # None
                 PROVE  \E d \in DraftIds :
                          /\ d = s.versions[b][g].source
                          /\ s.drafts[d] # None
                          /\ s.drafts[d].bundle = b /\ s.drafts[d].digest = g
                          /\ s.drafts[d].state = "approved"
                          /\ s.drafts[d].evidence
                               = <<"static_validated", "sandbox_tested", "model_reviewed">>
    BY DEF Provenance
  <2>. QED BY <1>4, <2>1
<1>. QED BY <1>1, <1>3, <1>5

\* Every collection of the lifecycle state, and of the snapshot a compensation
\* would restore, keeps its declared type (LifecycleState).
THEOREM TypeCorrect == Spec => []TypeOK
<1>1. IInv => TypeOK BY GoodImplies DEF IInv, TypeOK, Snapshot
<1>. QED BY <1>1, SpecIInv, PTL

\* No sequence of plan_* operations, however the clock behaves between them,
\* builds a state that the constructors of DraftRecord, VersionRecord and
\* LifecycleState reject as corrupt: the evidence a draft's state demands, its
\* dates and those of the versions, and the references between collections.
THEOREM NeverCorrupt == Spec => []WellFormed
<1>1. IInv => WellFormed BY GoodImplies DEF IInv, WellFormed, Snapshot
<1>. QED BY <1>1, SpecIInv, PTL

\* Every durable version goes back to a draft of its own digest that was
\* validated, sandbox tested, reviewed and approved (plan_activate_from_draft,
\* plan_approve_draft, and every plan that keeps versions).
THEOREM AlwaysReviewed == Spec => []ReviewedProvenance
<1>1. IInv => ReviewedProvenance BY GoodImplies DEF IInv, ReviewedProvenance, Snapshot
<1>. QED BY <1>1, SpecIInv, PTL

\* An approved or rejected draft is never changed again but by a compensation
\* (plan_reject and plan_approve_draft refuse decided drafts).
THEOREM DecisionsFrozen == Spec => DecidedDraftsFrozen
<1> DEFINE Frozen(d) == drafts[d] # None /\ drafts[d].state \in {"approved", "rejected"}
                          => drafts'[d] = drafts[d] \/ RestoreSnapshot
<1>1. IInv /\ [Next]_vars => [\A d \in DraftIds : Frozen(d)]_vars
  <2> SUFFICES ASSUME IInv, Next, NEW d \in DraftIds PROVE Frozen(d) OBVIOUS
  <2>1. drafts \in [DraftIds -> DraftRecord \cup {None}] BY DEF IInv, AllGood, DraftsGood
  <2>2. ASSUME NEW now \in Times, NEW c \in DraftIds,
               \/ \E b \in Bundles, g \in Digests : RecordDraft(c, b, g, now)
               \/ \E target \in DraftStates : TransitionDraft(c, target, now)
               \/ RejectDraft(c, now)
               \/ ApproveDraft(c, now)
               \/ ActivateFromDraft(c, now)
        PROVE  Frozen(d)
    <3>1. drafts[c] = None \/ drafts[c].state \notin {"approved", "rejected"}
      BY <2>2 DEF RecordDraft, TransitionDraft, RejectDraft, ApproveDraft, ActivateFromDraft,
                  Approvable, DraftTransitions
    <3>2. c # d => drafts'[d] = drafts[d]
      BY <2>1, <2>2 DEF RecordDraft, TransitionDraft, RejectDraft, ApproveDraft, ActivateFromDraft
    <3>. QED BY <3>1, <3>2
  <2>3. ASSUME NEW now \in Times, VersionStep(now) PROVE Frozen(d)
    BY <2>3 DEF VersionStep, Deactivate, ActivateVersion, Rollback, Archive
  <2>4. CASE GrantStep BY <2>4 DEF GrantStep, Grant, Revoke
  <2>. QED BY <2>2, <2>3, <2>4 DEF Next, DraftStep
<1>. QED BY <1>1, SpecIInv, PTL DEF Spec, DecidedDraftsFrozen

\* An archived version stays as it is, is not active and has no grants. But
\* for a compensation no plan changes that: each of them asks for the state of
\* the version it is about, and touches no other one but the active one
\* (plan_activate, plan_rollback, plan_archive, plan_grant).
THEOREM ArchivesFinal == Spec => ArchivedIsFinal
<1> DEFINE Final(b, g) ==
             /\ versions'[b][g] = versions[b][g] /\ active'[b] # g
             /\ \A t \in Tools : grants'[<<b, g, t>>] = None
           Archived(b, g) == versions[b][g] # None /\ versions[b][g].state = "archived"
           Stays(b, g) == Archived(b, g) => Final(b, g) \/ RestoreSnapshot
<1>1. IInv /\ [Next]_vars => [\A b \in Bundles, g \in Digests : Stays(b, g)]_vars
  <2> SUFFICES ASSUME IInv, Next, NEW b \in Bundles, NEW g \in Digests, Archived(b, g),
                      ~RestoreSnapshot
               PROVE  Final(b, g)
    OBVIOUS
  <2>1. /\ versions \in [Bundles -> [Digests -> VersionRecord \cup {None}]]
        /\ active \in [Bundles -> Digests \cup {None}]
        /\ grants \in [GrantKeys -> Approvers \cup {None}]
    BY DEF IInv, AllGood, VersionsGood, ActiveGood, GrantsGood
  <2>2. active[b] # g /\ \A t \in Tools : <<b, g, t>> \in GrantKeys /\ grants[<<b, g, t>>] = None
    <3>1. active[b] # g
      BY DEF IInv, AllGood, ActiveGood
    <3>2. ASSUME NEW t \in Tools PROVE <<b, g, t>> \in GrantKeys /\ grants[<<b, g, t>>] = None
      <4>1. <<b, g, t>> \in GrantKeys
        BY DEF GrantKeys
      <4>2. <<b, g, t>>[1] = b /\ <<b, g, t>>[2] = g
        OBVIOUS
      <4>. QED
        BY <4>1, <4>2 DEF IInv, AllGood, GrantsGood
    <3>. QED
      BY <3>1, <3>2
  \* The versions are switched to one that is not archived.
  <2>3. ASSUME NEW c \in Bundles, NEW h \in Digests, NEW r, NEW now, ~Archived(c, h),
               versions' = Switched(c, h, r, now), active' = [active EXCEPT ![c] = h], UNCHANGED grants
        PROVE  Final(b, g)
    <3>1. versions' = [versions EXCEPT ![c] =
                         [k \in Digests |->
                            CASE k = h         -> r
                              [] k # h /\ k = active[c] -> Deprecated(versions[c][k], now)
                              [] OTHER         -> versions[c][k]]]
      BY <2>3 DEF Switched
    <3>2. CASE b # c
      BY <2>1, <2>2, <2>3, <3>1, <3>2
    <3>3. CASE b = c
      <4>1. g # h /\ g # active[c]
        BY <2>2, <2>3, <3>3
      <4>. QED
        BY <2>1, <2>2, <2>3, <3>1, <3>3, <4>1
    <3>. QED
      BY <3>2, <3>3
  <2>4. ASSUME NEW now \in Times, NEW d \in DraftIds,
               \/ \E c \in Bundles, h \in Digests : RecordDraft(d, c, h, now)
               \/ \E target \in DraftStates : TransitionDraft(d, target, now)
               \/ RejectDraft(d, now)
        PROVE  Final(b, g)
    BY <2>2, <2>4 DEF RecordDraft, TransitionDraft, RejectDraft
  <2>5. ASSUME NEW now \in Times, NEW d \in DraftIds, ApproveDraft(d, now) \/ ActivateFromDraft(d, now)
        PROVE  Final(b, g)
    <3> DEFINE c == drafts[d].bundle
               h == drafts[d].digest
    <3>1. c \in Bundles /\ h \in Digests /\ ~Archived(c, h)
      <4>1. drafts[d] \in DraftRecord /\ Approvable(d, now)
        BY <2>5 DEF ApproveDraft, ActivateFromDraft, Approvable, IInv, AllGood, DraftsGood
      <4>. QED
        BY <4>1 DEF DraftRecord, Approvable
    <3>2. CASE ApproveDraft(d, now)
      <4>1. UNCHANGED <<active, grants>> /\ versions'[b][g] = versions[b][g]
        <5>1. UNCHANGED <<active, grants>>
          BY <3>2 DEF ApproveDraft
        <5>2. CASE versions[c][h] = None
          <6>1. versions' = [versions EXCEPT ![c][h] = NewVersion("approved", d, now)]
            BY <3>2, <5>2 DEF ApproveDraft
          <6>2. b # c \/ g # h
            BY <5>2
          <6>. HIDE DEF c, h
          <6>. QED
            BY <2>1, <3>1, <5>1, <6>1, <6>2
        <5>3. CASE versions[c][h] # None
          BY <3>2, <5>1, <5>3 DEF ApproveDraft
        <5>. QED
          BY <5>2, <5>3
      <4>. QED
        BY <2>2, <4>1
    <3>3. CASE ActivateFromDraft(d, now)
      <4>1. /\ versions' = Switched(c, h, FromDraft(d, versions[c][h], now), now)
            /\ active' = [active EXCEPT ![c] = h] /\ UNCHANGED grants
        BY <3>3 DEF ActivateFromDraft
      <4>. HIDE DEF c, h
      <4>. QED
        BY <2>3, <3>1, <4>1
    <3>. QED
      BY <2>5, <3>2, <3>3
  <2>6. ASSUME NEW now \in Times, NEW c \in Bundles, Deactivate(c, now)
        PROVE  Final(b, g)
    <3>1. /\ versions' = [versions EXCEPT ![c][active[c]] = Deprecated(versions[c][active[c]], now)]
          /\ active' = [active EXCEPT ![c] = None] /\ UNCHANGED grants /\ active[c] \in Digests
      BY <2>1, <2>6 DEF Deactivate
    <3>2. b # c \/ g # active[c]
      BY <2>2
    <3>. QED
      BY <2>1, <2>2, <3>1, <3>2, ConstantsAssumption
  <2>7. ASSUME NEW now \in Times, NEW c \in Bundles, NEW h \in Digests,
               ActivateVersion(c, h, now) \/ Rollback(c, h, now)
        PROVE  Final(b, g)
    <3>1. /\ versions' = Switched(c, h, Reactivated(versions[c][h], now), now)
          /\ active' = [active EXCEPT ![c] = h] /\ UNCHANGED grants /\ ~Archived(c, h)
      BY <2>7 DEF ActivateVersion, Rollback
    <3>. QED
      BY <2>3, <3>1
  <2>8. ASSUME NEW now \in Times, NEW c \in Bundles, NEW h \in Digests, Archive(c, h, now)
        PROVE  Final(b, g)
    <3>1. /\ versions[c][h].state = "deprecated" /\ UNCHANGED active
          /\ versions' = [versions EXCEPT ![c][h].state = "archived", ![c][h].archived = now]
          /\ grants' = [k \in GrantKeys |-> IF k[1] = c /\ k[2] = h THEN None ELSE grants[k]]
      BY <2>8 DEF Archive
    <3>2. b # c \/ g # h
      BY <3>1
    <3>3. versions'[b][g] = versions[b][g]
      BY <2>1, <3>1, <3>2
    <3>4. \A t \in Tools : grants'[<<b, g, t>>] = None
      BY <2>2, <3>1
    <3>. QED
      BY <2>2, <3>1, <3>3, <3>4
  <2>9. CASE GrantStep
    <3>1. PICK c \in Bundles, h \in Digests, t \in Tools :
            (\E who \in Approvers : Grant(c, h, t, who)) \/ Revoke(c, h, t)
      BY <2>9 DEF GrantStep
    <3>2. /\ versions[c][h] # None /\ versions[c][h].state # "archived"
          /\ \E x : grants' = [grants EXCEPT ![<<c, h, t>>] = x]
          /\ UNCHANGED <<versions, active>>
      BY <3>1 DEF Grant, Revoke
    <3>3. b # c \/ g # h
      BY <3>2
    <3>4. \A s \in Tools : <<b, g, s>> # <<c, h, t>>
      BY <3>3
    <3>. QED
      BY <2>1, <2>2, <3>2, <3>4
  <2>. QED
    BY <2>4, <2>5, <2>6, <2>7, <2>8, <2>9 DEF Next, DraftStep, VersionStep
<1>2. (\A b \in Bundles, g \in Digests : Stays(b, g)) =>
        \A b \in Bundles, g \in Digests :
          versions[b][g] # None /\ versions[b][g].state = "archived"
            => \/ /\ versions'[b][g] = versions[b][g]
                  /\ active'[b] # g
                  /\ \A t \in Tools : grants'[<<b, g, t>>] = None
               \/ RestoreSnapshot
  OBVIOUS
<1>. HIDE DEF Stays
<1>. QED
  BY <1>1, <1>2, SpecIInv, PTL DEF Spec, ArchivedIsFinal
=============================================================================
