CONSTANTS
  LastMessage = 3
  MaxFailures = 3
  MaxFaults = 4
  Publishers = {p1, p2, p3}
  NoPublisher = NoPublisher
  GuardFaults = 5
  gateway = gateway
  Instances = {gateway, tool}
  Currencies = {usd, jpy}
  LastDay = 3
  None = None
  CredentialFaults = 2
  MaxReviews = 3
  MaxEpochs = 2
SPECIFICATION MCSpec
INVARIANTS
  MessagesAreKept
  OnlyVerifiedIsPublished
  TokensAreGuarded
PROPERTIES
  QuotesAreOfTheDay
  RecordsAreTrue
  LoopsRecover
CHECK_DEADLOCK FALSE
