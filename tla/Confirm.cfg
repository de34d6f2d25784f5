CONSTANTS
  t1 = t1  t2 = t2
  p1 = p1  p2 = p2  p3 = p3  p4 = p4
  r1 = r1  r2 = r2  
  Calls = {c1, c2}
  Texts = {t1, t2}
  Pictures = {p1, p2, p3, p4}
  Replies = {r1, r2}
  ShownOn <- Shown
  Says <- Decisions
  Names <- Named
  MaxOpen = 2
  NoMsg = NoMsg
SPECIFICATION MCSpec
SYMMETRY CallSymmetry
VIEW Watched
INVARIANTS
  TypeOK
  PendingTextIsLatest
  ProposalsAreKept
  EveryReplyTakesOne
  BookedOnlyAsAsked
PROPERTIES
  BareReplyNeverChooses
