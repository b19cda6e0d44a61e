CONSTANTS
  Sizes = {2, 3}
  IdSpace = 8
  MaxLive = 2
SPECIFICATION Spec
INVARIANTS RoutesHome IdsUnique
CONSTRAINT TwoAtWork
