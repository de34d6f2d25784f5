CONSTANTS
  m1 = m1  m2 = m2  m3 = m3
  i1 = i1  i2 = i2
  Workers = {w1, w2}
  Messages = {m1, m2}
  Images = {i1}
  Orders = {}
  ImageOf <- ResentImage
  NoMsg = NoMsg
  NoImage = NoImage
  NoOrder = NoOrder
SPECIFICATION FairSpec
INVARIANTS
  TypeOK
  OneOpenPostPerImage
  ReceiptsTellTheTruth
PROPERTIES
  ReceiptsArePermanent
  ImplementsExactlyOnce
  EveryCallEnds
