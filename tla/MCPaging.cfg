SPECIFICATION Spec
CONSTANTS
  Files = {1, 2, 3}
  Created <- MCCreated
  Size <- MCSize
  Described <- MCDescribed
  PerMs = 10
  Limit = 1
  Chips = {"all", "largest"}
  AtFirst = {1, 3}
  MaxChanges = 2
  None = None
INVARIANTS
  NothingTwice
  NothingMissed
