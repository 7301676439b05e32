----------------------------- MODULE MCChatGate -----------------------------
(* Model-checking instances of ChatGate: three messages of u1 and one of u2.   *)
(* u1 writes through OneBot v11, whose events carry the user id as a number;   *)
(* u2 through v12, where it is text.                                           *)
EXTENDS ChatGate

CONSTANTS r1, r2, r3, r4, u1, u2, k1, k1text, k2

MCUserOf == [r \in Requests |-> IF r = r4 THEN u2 ELSE u1]
MCEventTime == [r \in Requests |-> IF r = r1 THEN Cooldown ELSE Cooldown + 1]
LateEventTime == [r \in Requests |-> IF r = r1 THEN Cooldown ELSE Cooldown + 2]
MCClaimKey == [u \in Users |-> IF u = u1 THEN k1 ELSE k2]
MCResetKey == [u \in Users |-> IF u = u1 THEN k1text ELSE k2]
MCSettings == <<[active |-> 1, pending |-> 2, perUser |-> 2],
                [active |-> 2, pending |-> 1, perUser |-> 1]>>
OneSetting == <<[active |-> 1, pending |-> 1, perUser |-> 2]>>
=============================================================================
