SPECIFICATION Spec
CONSTANTS
  Consumers = {k1, k2}
  Grace = 2
  Refresh = 3
  Cooldown = 4
  Lapses = {1, 5}
INVARIANTS
  RebindsApart ReadyThroughout
PROPERTIES
  StallAnswered
