SPECIFICATION Spec
CONSTANTS
  r1 = r1
  c1 = c1
  Requests <- MCRequests
  Chats <- MCChats
  Confirmers <- MCConfirmers
  Settings <- MCSettings
  MayFail <- MCMayFail
  MaxGen = 2
  MaxRounds = 1
INVARIANT EveryRunEnds
