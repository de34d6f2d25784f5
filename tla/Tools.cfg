CONSTANTS bread = bread cab = cab bus = bus soup = soup cash = cash card = card yen = yen food = food travel = travel
 MaxChanges = 2 Top = 1 Failed = Failed NotAsked = NotAsked
 Operands = {0, 1, 30, 50, 250, 400} MaxOperands = 3 MaxMinor = 300
 Prices <- MCPrices Days <- MCDays Dates <- MCDates Clocks <- MCClocks
 inst1 = inst1 m1 = m1 m2 = m2 r1 = r1 r2 = r2 k1 = k1 k2 = k2 k3 = k3 c1 = c1 c2 = c2 None = None
 Instance = {inst1, inst2}
 Message = {m1, m2}
 Run = {r1, r2}
 Call = {k1, k2, k3}
 Id = {c1, c2}
 ConvOf <- MCConv
 Image = {m2}
 TextOf <- MCText
 PromptOf <- MCPrompt
 PromptEnds <- MCEnds
 MsgOf <- MCMsgOf
 RunOf <- MCRunOf
 IdOf <- MCIdOf
 PromptAge = 0 MaxAge = 1 EndTtl = 1 MaxTime = 3 MaxReceived = 1
SPECIFICATION MCSpec
ACTION_CONSTRAINT Searched
INVARIANTS
  TypeOK
  
  AnswersAreTrue
  NumbersAreRight
PROPERTIES
  EndedRunsWriteNothing
CHECK_DEADLOCK FALSE
