SPECIFICATION Spec
CONSTANTS
  n1 = n1
  n2 = n2
  n3 = n3
  x1 = x1
  x2 = x2
  Fields <- FieldsDef
  Profile <- ProfileDef
  NoAttribute = NoAttribute
  NoRatio = NoRatio
  Ranges <- RangesDef
  SimilarText <- SimilarTextDef
  SimilarName <- SimilarNameDef
  Late <- LateDef
  MaxBuilds = 2
  Nothing = Nothing
INVARIANTS
  TypeOK
  LoadedWhole
  FilesAgree
  SimilarWhenRangesShare
PROPERTY
  BuildEnds
CHECK_DEADLOCK FALSE
