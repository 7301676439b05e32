---------------------------- MODULE ToolLifecycle ----------------------------
(***************************************************************************)
(* The canonical lifecycle of generated tool bundles                       *)
(* (generated_tool_lifecycle.py): drafts that collect evidence, immutable  *)
(* versions, the active version of every bundle and the permission grants  *)
(* bound to exact versions.                                                *)
(*                                                                         *)
(* Every action is one plan_* function followed by its commit: the guard   *)
(* is the chain of checks that raise, the primed variables are the         *)
(* plan.after_state.  A plan with no_op = True writes nothing and is a     *)
(* stuttering step.  The revision number, the digest and the              *)
(* compare-and-swap that commits a plan are modelled in RuntimeReload.     *)
(*                                                                         *)
(* The constructors DraftRecord, VersionRecord and LifecycleState raise    *)
(* LifecycleCorruptionError on an inconsistent value.  They are NOT part   *)
(* of the guards: WellFormed states what they check, and the runs and the  *)
(* theorems show that no sequence of plans ever trips them.                *)
(***************************************************************************)
EXTENDS Integers, Sequences

CONSTANTS
  DraftIds,   \* identifiers of drafts
  Bundles,    \* bundle identifiers
  Digests,    \* content digests a bundle version may have
  Tools,      \* tool names that a permission grant may name
  Approvers,  \* administrators that may grant the "user" permission
  Times,      \* readings of time.time(); it may step backwards
  None        \* Python's None: absent draft, version, digest or timestamp

VARIABLES
  drafts,     \* draft id -> draft record or None
  versions,   \* bundle -> digest -> version record or None
  active,     \* bundle -> digest of the active version or None
  grants,     \* <<bundle, digest, tool>> -> approver or None
  undo        \* before state of the last committed plan, or None

vars == <<drafts, versions, active, grants, undo>>

-----------------------------------------------------------------------------
(* Draft states, their transitions and the evidence they carry. *)

SuccessStates  == {"static_validated", "sandbox_tested", "model_reviewed"}
FailureStates  == {"validation_failed", "test_failed", "review_failed"}
EvidenceStates == SuccessStates \cup FailureStates \cup {"rejected"}
DraftStates    == EvidenceStates \cup {"draft", "awaiting_approval", "approved"}
VersionStates  == {"approved", "activated", "deprecated", "archived"}

\* Mutant: a validated draft may be submitted without sandbox test and review.
DraftTransitions_SkipReview(from) ==
  CASE from = "draft"            -> {"static_validated", "validation_failed", "rejected"}
    [] from = "static_validated" -> {"sandbox_tested", "awaiting_approval", "rejected"}
    [] OTHER                     -> {"rejected"}

DraftTransitions(from) ==
  CASE from = "draft"             -> {"static_validated", "validation_failed", "rejected"}
    [] from = "static_validated"  -> {"sandbox_tested", "test_failed", "rejected"}
    [] from = "sandbox_tested"    -> {"model_reviewed", "review_failed", "rejected"}
    [] from = "model_reviewed"    -> {"awaiting_approval", "review_failed", "rejected"}
    [] from = "awaiting_approval" -> {"rejected"}
    [] OTHER                      -> {}

\* `recorded` holds the recorded_at of each piece of evidence.
DraftRecord ==
  [bundle : Bundles, digest : Digests, state : DraftStates, created : Times,
   updated : Times, evidence : Seq(EvidenceStates), recorded : Seq(Times)]

OptionalTime == Times \cup {None}

VersionRecord ==
  [state : VersionStates, source : DraftIds \cup {None}, approved : Times,
   activated : OptionalTime, deprecated : OptionalTime, archived : OptionalTime]

GrantKeys == Bundles \X Digests \X Tools

ASSUME ConstantsAssumption ==
  /\ Times \subseteq Nat
  /\ None \notin Digests
  /\ None \notin Times
  /\ None \notin DraftIds
  /\ None \notin DraftRecord
  /\ None \notin VersionRecord

\* _transition_timestamp raises when the clock reads earlier than `earlier`.
NotBefore(now, earlier) == earlier # None => now >= earlier

-----------------------------------------------------------------------------
(* What the constructors demand. *)

Required(s) ==
  CASE s = "static_validated"                                  -> {"static_validated"}
    [] s = "sandbox_tested"                                    -> {"static_validated", "sandbox_tested"}
    [] s \in {"model_reviewed", "awaiting_approval", "approved"} -> SuccessStates
    [] s = "validation_failed"                                 -> {"validation_failed"}
    [] s = "test_failed"                                       -> {"static_validated", "test_failed"}
    [] s = "review_failed" -> {"static_validated", "sandbox_tested", "review_failed"}
    [] s = "rejected"                                          -> {"rejected"}
    [] OTHER                                                   -> {}

Allowed(s) ==
  CASE s = "review_failed" -> Required(s) \cup {"model_reviewed"}
    [] s = "rejected"      -> EvidenceStates
    [] OTHER               -> Required(s)

LastEvidence(s) ==
  IF s \in {"awaiting_approval", "approved"} THEN "model_reviewed" ELSE s

EvidenceOK(s, e) ==
  LET seen == {e[i] : i \in 1..Len(e)}
  IN  /\ \A i, j \in 1..Len(e) : e[i] = e[j] => i = j
      /\ Required(s) \subseteq seen
      /\ seen \subseteq Allowed(s)
      /\ Len(e) > 0 => e[Len(e)] = LastEvidence(s)

\* The evidence was recorded within the record's span, in order.
DatesOK(r) ==
  /\ r.updated >= r.created
  /\ Len(r.recorded) = Len(r.evidence)
  /\ \A i \in 1..Len(r.recorded) : r.created <= r.recorded[i] /\ r.recorded[i] <= r.updated
  /\ \A i, j \in 1..Len(r.recorded) : i <= j => r.recorded[i] <= r.recorded[j]

DraftOK(r) == DatesOK(r) /\ EvidenceOK(r.state, r.evidence)

VersionOK(v) ==
  /\ v.activated # None => v.activated >= v.approved
  /\ v.deprecated # None => v.activated # None /\ v.deprecated >= v.activated
  /\ v.archived # None => /\ v.archived >= v.approved
                          /\ NotBefore(v.archived, v.activated)
                          /\ NotBefore(v.archived, v.deprecated)
  /\ v.state = "approved" => v.activated = None /\ v.deprecated = None /\ v.archived = None
  /\ v.state = "activated" => v.activated # None /\ v.deprecated = None /\ v.archived = None
  /\ v.state = "deprecated" => v.activated # None /\ v.deprecated # None /\ v.archived = None
  /\ v.state = "archived" => v.activated # None /\ v.deprecated # None /\ v.archived # None

-----------------------------------------------------------------------------
(* Plans.  Committed(S) records the before state a later compensation of    *)
(* this plan restores.                                                      *)

Snapshot == [drafts |-> drafts, versions |-> versions, active |-> active, grants |-> grants]

Init ==
  /\ drafts   = [d \in DraftIds |-> None]
  /\ versions = [b \in Bundles |-> [g \in Digests |-> None]]
  /\ active   = [b \in Bundles |-> None]
  /\ grants   = [k \in GrantKeys |-> None]
  /\ undo     = None

RecordDraft(d, b, g, now) ==
  /\ drafts[d] = None
  /\ drafts' = [drafts EXCEPT ![d] =
       [bundle |-> b, digest |-> g, state |-> "draft", created |-> now, updated |-> now,
        evidence |-> << >>, recorded |-> << >>]]
  /\ undo' = Snapshot
  /\ UNCHANGED <<versions, active, grants>>

\* Mutant: the evidence names the state the draft leaves, not the one it enters.
Advance_StaleEvidence(r, target, now) ==
  [r EXCEPT !.state = target, !.updated = now,
            !.evidence = IF target \in EvidenceStates THEN Append(@, r.state) ELSE @,
            !.recorded = IF target \in EvidenceStates THEN Append(@, now) ELSE @]

\* replace(record, state=target, updated_at=now, evidence=...): the evidence
\* is recorded at the very time of the transition, or the plan raises.
Advance(r, target, now) ==
  [r EXCEPT !.state = target,
            !.updated = now,
            !.evidence = IF target \in EvidenceStates THEN Append(@, target) ELSE @,
            !.recorded = IF target \in EvidenceStates THEN Append(@, now) ELSE @]

TransitionDraft(d, target, now) ==
  /\ drafts[d] # None
  /\ target \in DraftTransitions(drafts[d].state)
  /\ now >= drafts[d].updated
  /\ drafts' = [drafts EXCEPT ![d] = Advance(@, target, now)]
  /\ undo' = Snapshot
  /\ UNCHANGED <<versions, active, grants>>

\* Mutant: an approved draft can still be rejected.
RejectDraft_Approved(d, now) ==
  /\ drafts[d] # None
  /\ drafts[d].state # "rejected"
  /\ now >= drafts[d].updated
  /\ drafts' = [drafts EXCEPT ![d] = Advance(@, "rejected", now)]
  /\ undo' = Snapshot
  /\ UNCHANGED <<versions, active, grants>>

RejectDraft(d, now) ==
  /\ drafts[d] # None
  /\ drafts[d].state \notin {"approved", "rejected"}
  /\ now >= drafts[d].updated
  /\ drafts' = [drafts EXCEPT ![d] = Advance(@, "rejected", now)]
  /\ undo' = Snapshot
  /\ UNCHANGED <<versions, active, grants>>

NewVersion(s, d, now) ==
  [state |-> s, source |-> d, approved |-> now,
   activated |-> IF s = "activated" THEN now ELSE None,
   deprecated |-> None, archived |-> None]

Approvable(d, now) ==
  /\ drafts[d] # None
  /\ drafts[d].state = "awaiting_approval"
  /\ now >= drafts[d].updated
  /\ LET v == versions[drafts[d].bundle][drafts[d].digest]
     IN  v # None => v.state # "archived"

ApproveDraft(d, now) ==
  LET b == drafts[d].bundle
      g == drafts[d].digest
  IN  /\ Approvable(d, now)
      /\ versions' = IF versions[b][g] = None
                       THEN [versions EXCEPT ![b][g] = NewVersion("approved", d, now)]
                       ELSE versions
      /\ drafts' = [drafts EXCEPT ![d] = Advance(@, "approved", now)]
      /\ undo' = Snapshot
      /\ UNCHANGED <<active, grants>>

\* The record of an existing version that becomes the active one.
Reactivated(v, now) ==
  [v EXCEPT !.state = "activated", !.activated = now, !.deprecated = None, !.archived = None]

Deprecated(v, now) ==
  [v EXCEPT !.state = "deprecated", !.deprecated = now, !.archived = None]

NotBeforeVersion(now, v) ==
  NotBefore(now, v.approved) /\ NotBefore(now, v.activated) /\ NotBefore(now, v.deprecated)

\* Mutant: the clock is not compared with the predecessor's times.
PredecessorOK_NoClock(b, g, now) == TRUE

\* The active version of b, if another one than g, may be deprecated at now.
PredecessorOK(b, g, now) ==
  active[b] \notin {None, g} =>
    LET p == versions[b][active[b]]
    IN  NotBefore(now, p.activated) /\ NotBefore(now, p.deprecated)

\* The versions of b once `record` is the active version g.
Switched(b, g, record, now) ==
  [versions EXCEPT ![b] =
     [h \in Digests |->
        CASE h = g         -> record
          [] h # g /\ h = active[b] -> Deprecated(versions[b][h], now)
          [] OTHER         -> versions[b][h]]]

ActivateVersion(b, g, now) ==
  /\ versions[b][g] # None
  /\ active[b] # g
  /\ versions[b][g].state \in {"approved", "deprecated"}
  /\ NotBeforeVersion(now, versions[b][g])
  /\ PredecessorOK(b, g, now)
  /\ versions' = Switched(b, g, Reactivated(versions[b][g], now), now)
  /\ active' = [active EXCEPT ![b] = g]
  /\ undo' = Snapshot
  /\ UNCHANGED <<drafts, grants>>

\* Mutant: an archived version can be rolled back to.
Rollback_Archived(b, g, now) ==
  /\ versions[b][g] # None
  /\ active[b] # g
  /\ NotBeforeVersion(now, versions[b][g])
  /\ PredecessorOK(b, g, now)
  /\ versions' = Switched(b, g, Reactivated(versions[b][g], now), now)
  /\ active' = [active EXCEPT ![b] = g]
  /\ undo' = Snapshot
  /\ UNCHANGED <<drafts, grants>>

Rollback(b, g, now) ==
  /\ versions[b][g] # None
  /\ versions[b][g].state # "archived"
  /\ active[b] # g
  /\ NotBeforeVersion(now, versions[b][g])
  /\ PredecessorOK(b, g, now)
  /\ versions' = Switched(b, g, Reactivated(versions[b][g], now), now)
  /\ active' = [active EXCEPT ![b] = g]
  /\ undo' = Snapshot
  /\ UNCHANGED <<drafts, grants>>

\* The record plan_activate_from_draft stores: a fresh version, the version
\* that is already active, or an older one made active again.
FromDraft(d, v, now) ==
  IF v = None THEN NewVersion("activated", d, now)
  ELSE IF v.state = "activated" THEN v
  ELSE [Reactivated(v, now) EXCEPT !.source = IF @ = None THEN d ELSE @]

ActivateFromDraft(d, now) ==
  LET b == drafts[d].bundle
      g == drafts[d].digest
      v == versions[b][g]
  IN  /\ Approvable(d, now)
      /\ v # None /\ v.state # "activated" => NotBeforeVersion(now, v)
      /\ PredecessorOK(b, g, now)
      /\ versions' = Switched(b, g, FromDraft(d, v, now), now)
      /\ active' = [active EXCEPT ![b] = g]
      /\ drafts' = [drafts EXCEPT ![d] = Advance(@, "approved", now)]
      /\ undo' = Snapshot
      /\ UNCHANGED grants

Deactivate(b, now) ==
  /\ active[b] # None
  /\ LET v == versions[b][active[b]]
     IN  /\ NotBefore(now, v.activated)
         /\ NotBefore(now, v.deprecated)
         /\ versions' = [versions EXCEPT ![b][active[b]] = Deprecated(v, now)]
  /\ active' = [active EXCEPT ![b] = None]
  /\ undo' = Snapshot
  /\ UNCHANGED <<drafts, grants>>

Grant(b, g, t, who) ==
  /\ versions[b][g] # None
  /\ versions[b][g].state # "archived"
  /\ grants[<<b, g, t>>] # who
  /\ grants' = [grants EXCEPT ![<<b, g, t>>] = who]
  /\ undo' = Snapshot
  /\ UNCHANGED <<drafts, versions, active>>

Revoke(b, g, t) ==
  /\ versions[b][g] # None
  /\ versions[b][g].state # "archived"
  /\ grants[<<b, g, t>>] # None
  /\ grants' = [grants EXCEPT ![<<b, g, t>>] = None]
  /\ undo' = Snapshot
  /\ UNCHANGED <<drafts, versions, active>>

Archive(b, g, now) ==
  /\ versions[b][g] # None
  /\ active[b] # g
  /\ versions[b][g].state = "deprecated"
  /\ NotBeforeVersion(now, versions[b][g])
  /\ versions' = [versions EXCEPT ![b][g].state = "archived", ![b][g].archived = now]
  /\ grants' = [k \in GrantKeys |-> IF k[1] = b /\ k[2] = g THEN None ELSE grants[k]]
  /\ undo' = Snapshot
  /\ UNCHANGED <<drafts, active>>

\* plan_restore_snapshot: the current state is still the after state of the
\* failed plan and the snapshot is that plan's exact before state.
RestoreSnapshot ==
  /\ undo # None
  /\ drafts'   = undo.drafts
  /\ versions' = undo.versions
  /\ active'   = undo.active
  /\ grants'   = undo.grants
  /\ undo'     = Snapshot

DraftStep(now) ==
  \E d \in DraftIds :
    \/ \E b \in Bundles, g \in Digests : RecordDraft(d, b, g, now)
    \/ \E target \in DraftStates : TransitionDraft(d, target, now)
    \/ RejectDraft(d, now)
    \/ ApproveDraft(d, now)
    \/ ActivateFromDraft(d, now)

VersionStep(now) ==
  \E b \in Bundles :
    \/ Deactivate(b, now)
    \/ \E g \in Digests :
         \/ ActivateVersion(b, g, now)
         \/ Rollback(b, g, now)
         \/ Archive(b, g, now)

GrantStep ==
  \E b \in Bundles, g \in Digests, t \in Tools :
    \/ \E who \in Approvers : Grant(b, g, t, who)
    \/ Revoke(b, g, t)

Next ==
  \/ \E now \in Times : DraftStep(now) \/ VersionStep(now)
  \/ GrantStep
  \/ RestoreSnapshot

Spec == Init /\ [][Next]_vars

-----------------------------------------------------------------------------
(* Properties. *)

StateType(s) ==
  /\ s.drafts   \in [DraftIds -> DraftRecord \cup {None}]
  /\ s.versions \in [Bundles -> [Digests -> VersionRecord \cup {None}]]
  /\ s.active   \in [Bundles -> Digests \cup {None}]
  /\ s.grants   \in [GrantKeys -> Approvers \cup {None}]

\* Every collection of LifecycleState holds records of its declared type, in
\* the current state and in the one a compensation would restore.
TypeOK ==
  /\ StateType(Snapshot)
  /\ undo # None => StateType(undo)

\* LifecycleState.__post_init__: active points at the unique Activated
\* version, no grant points at a missing or archived version, and every
\* Approved draft has its durable version.
Consistent(s) ==
  /\ \A d \in DraftIds : s.drafts[d] # None => DraftOK(s.drafts[d])
  /\ \A b \in Bundles, g \in Digests :
       s.versions[b][g] # None => VersionOK(s.versions[b][g])
  /\ \A b \in Bundles, g \in Digests :
       (s.active[b] = g) <=> (s.versions[b][g] # None /\ s.versions[b][g].state = "activated")
  /\ \A k \in GrantKeys :
       s.grants[k] # None => /\ s.versions[k[1]][k[2]] # None
                             /\ s.versions[k[1]][k[2]].state # "archived"
  /\ \A d \in DraftIds :
       s.drafts[d] # None /\ s.drafts[d].state = "approved"
         => s.versions[s.drafts[d].bundle][s.drafts[d].digest] # None

\* The version names as its source an approved draft of its own bundle and
\* digest that was validated, sandbox tested and reviewed, in that order.
Provenance(s) ==
  \A b \in Bundles, g \in Digests :
    s.versions[b][g] # None =>
      \E d \in DraftIds :
        /\ d = s.versions[b][g].source
        /\ s.drafts[d] # None
        /\ s.drafts[d].bundle = b /\ s.drafts[d].digest = g
        /\ s.drafts[d].state = "approved"
        /\ s.drafts[d].evidence = <<"static_validated", "sandbox_tested", "model_reviewed">>

\* No sequence of plans, whatever the clock reads at each of them, builds a
\* state that DraftRecord, VersionRecord or LifecycleState would reject as
\* corrupt: evidence and its dates, the dates of versions, and the references
\* between drafts, versions, active versions and grants.
WellFormed == Consistent(Snapshot)

\* Every durable version, active or not, whatever rollbacks, restores and
\* re-approvals came before, goes back to a reviewed and approved draft.
ReviewedProvenance == Provenance(Snapshot)

\* A decided draft stays decided: approved and rejected drafts never change
\* again, except when a failed plan is compensated by restoring its snapshot.
DecidedDraftsFrozen ==
  [][ \A d \in DraftIds :
        drafts[d] # None /\ drafts[d].state \in {"approved", "rejected"}
          => drafts'[d] = drafts[d] \/ RestoreSnapshot ]_vars

\* An archived version is never activated or granted again, except when the
\* archiving plan itself is compensated.
ArchivedIsFinal ==
  [][ \A b \in Bundles, g \in Digests :
        versions[b][g] # None /\ versions[b][g].state = "archived"
          => \/ /\ versions'[b][g] = versions[b][g]
                /\ active'[b] # g
                /\ \A t \in Tools : grants'[<<b, g, t>>] = None
             \/ RestoreSnapshot ]_vars
=============================================================================
