CONSTANTS
  r1 = r1  r2 = r2  r3 = r3
  m1 = m1  m2 = m2  m3 = m3
  d1 = d1  d2 = d2
  p1 = p1  p2 = p2
  Instances = {i1}
  Runs = {r1, r2}
  Sends = {s1, s2}
  Messages = {m1, m2}
  Deliveries = {d1, d2}
  Recipients = {p1, p2}
  SourceOf <- Asked
  DeliveryOf <- Homes
  RecipientOf <- Owners
  NoMsg = NoMsg
  NoRun = NoRun
SPECIFICATION MCSpec
SYMMETRY ReplySymmetry
INVARIANTS
  TypeOK
  RowsAreCurrent
  RepliesReachTheirOwn
PROPERTIES
  NothingStaleIsPutIn
