SPECIFICATION Spec
CONSTANTS
  None = None
  a = a
  b = b
  c = c
  d = d
  e = e
  f = f
  g = g
  h = h
  unknown = unknown
  Fields <- MCFields
  Network <- MCNetwork
  Similar <- MCSimilar
INVARIANTS
  TypeOK
  AnswerShowsPath
  NoAnswerNoPath
  PathIsShortest
PROPERTY
  SearchEnds
