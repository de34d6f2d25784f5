CONSTANTS
  m1 = m1  m2 = m2  m3 = m3
  i1 = i1  i2 = i2
  Workers = {w1, w2}
  Messages = {m1, m2, m3}
  Images = {i1, i2}
  Orders = {o1}
  ImageOf <- ImagesAndText
  NoMsg = NoMsg
  NoImage = NoImage
  NoOrder = NoOrder
SPECIFICATION MCSpec
SYMMETRY TwoImagesSymmetry
INVARIANTS
  AtMostOncePerMessage
  OneOpenDirectPostPerOrder
PROPERTIES
  LinksReleasedOnlyAfterDeletion
