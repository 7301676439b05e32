----------------------------- MODULE HistoryLog -----------------------------
(***************************************************************************)
(* What the recent history of a conversation promises, whatever cache lies *)
(* before the message table: a read returns the newest messages of a state *)
(* of the table that contains everything settled when the read began.      *)
(* HistoryCache implements it.                                             *)
(***************************************************************************)
EXTENDS Integers, FiniteSets

CONSTANTS Messages,    \* message ids, in the order of the table
          Readers,
          Limit        \* how many messages each reader asks for

VARIABLES exact,       \* whether a read returns as many as it asked for
          committed,   \* the rows of the table
          settled,     \* those whose append was confirmed to everybody
          reads        \* per reader what it asked for and what it got

vars == <<exact, committed, settled, reads>>

Newest(S, n) == {m \in S : Cardinality({k \in S : k > m}) < n}

Closed(got)   == [open |-> FALSE, low |-> {}, got |-> got]

Init == /\ exact \in BOOLEAN
        /\ committed = {} /\ settled = {}
        /\ reads = [r \in Readers |-> Closed({})]

Append(m) ==
  /\ committed' = committed \cup {m}
  /\ settled' \in {settled, settled \cup {m}}
  /\ UNCHANGED <<exact, reads>>

Open(r) ==
  /\ ~reads[r].open
  /\ reads' = [reads EXCEPT ![r] =
       [open |-> TRUE, low |-> settled, got |-> {}]]
  /\ UNCHANGED <<exact, committed, settled>>

\* The answer is a suffix of one state of the table, no older than the settled
\* messages the read began with.
Answer(r) ==
  /\ reads[r].open
  /\ \E S \in SUBSET committed, n \in 1 .. Limit[r] :
       /\ reads[r].low \subseteq S
       /\ exact => n = Limit[r]
       /\ reads' = [reads EXCEPT ![r] = Closed(Newest(S, n))]
  /\ UNCHANGED <<exact, committed, settled>>

Abort(r) ==
  /\ reads' = [reads EXCEPT ![r] = Closed({})]
  /\ UNCHANGED <<exact, committed, settled>>

Next == \/ \E m \in Messages : Append(m)
        \/ \E r \in Readers : Open(r) \/ Answer(r) \/ Abort(r)

Spec == Init /\ [][Next]_vars
=============================================================================
