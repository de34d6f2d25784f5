CONSTANTS
  Bot = {A, B}
  User = {u, v}
  Waiter = {gateway, terminal}
  A = A
  u = u
  gateway = gateway
  terminal = terminal
  None = None
  MaxTokens = 1
  MaxLogins = 2
  MaxMishaps = 1
  MaxRuns = 2
  MaxDeliveries = 2
  MaxTools = 1
  MaxErrors = 3
  Alphabets = {{"star", "C", "nl"}, {"tick", "nl", "a"}, {"bang", "lb", "rb", "lp", "rp", "a"}, {"hash", "space", "nl", "under"}}
  MaxLength = 5
SPECIFICATION MCSpec
INVARIANTS
  AccountsHold
  RunsKeepApart
  OutcomeIsTrue
  FilterOnlyRemoves
CHECK_DEADLOCK FALSE
