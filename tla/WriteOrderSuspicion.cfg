CONSTANTS
  m1 = m1  m2 = m2  m3 = m3
  i1 = i1  i2 = i2
  Workers = {w1}
  Messages = {m1, m2, m3}
  Images = {i1, i2}
  Orders = {o1}
  ImageOf <- TwoImages
  NoMsg = NoMsg
  NoImage = NoImage
  NoOrder = NoOrder
SPECIFICATION Spec
PROPERTIES
  DirectPostMeansNewOrder
