\* Three markets, so that an event can name one that is not the position's; an
\* expiration that lies ahead, is reached and has passed.
SPECIFICATION PositionSpec
CONSTANTS
  Tokens = {t1, t2, t3}
  Times = {1}
  NoTime = NoTime
  NoToken = NoToken
  CanBorrow = TRUE
  MaxPar = 1
  MaxNow = 2
SYMMETRY TokenSymmetry
INVARIANTS
  CloseColumnsFitStatus
  MirrorsAccount
PROPERTIES
  PositionOnlyEnds
