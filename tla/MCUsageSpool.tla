---------------------------- MODULE MCUsageSpool ----------------------------
(***************************************************************************)
(* UsageSpool for TLC: one usage record that goes through its queue, one   *)
(* audit record that a request hands over directly.                        *)
(***************************************************************************)
EXTENDS UsageSpool

CONSTANTS u1, a1

MCUsage == {u1}
MCAudit == {a1}
MCQueued == {u1}
=============================================================================
