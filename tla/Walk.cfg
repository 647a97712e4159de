SPECIFICATION FairSpec
CONSTANTS
  a = a
  b = b
  c = c
  f = f
  none = none
  Names <- McNames
  NoName = none
  Lbas <- McLbas
  Sizes <- McSizes
  Root <- McRoot
  MaxWalkDepth = 1
  Images <- AnyImages
INVARIANTS TypeOK PathAcyclic NothingForgotten PreOrder OutcomeJustified EveryDirListed
PROPERTIES Refines Terminates
CHECK_DEADLOCK FALSE
