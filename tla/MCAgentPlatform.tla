-------------------------- MODULE MCAgentPlatform --------------------------
EXTENDS AgentPlatform

CONSTANTS r1, c1

MCRequests   == {r1, c1}
MCChats      == {r1}
MCConfirmers == {c1}
MCSettings   == {"database"}
MCMayFail    == {"database"}
=============================================================================
