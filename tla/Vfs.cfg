SPECIFICATION Spec
CONSTANTS
  w1 = w1
  w2 = w2
  a = a
  b = b
  s0 = s0
  s1 = s1
  s2 = s2
  none = none
  Workers <- McWorkers
  Lbas <- McLbas
  Names <- McNames
  Facts <- McFacts
  Root = 1
  RootFacts = s0
  NoHandle = none
  Discs <- Volumes
INVARIANTS TypeOK HandlesResolve CacheFromDisc
PROPERTY StatAnswersFound
