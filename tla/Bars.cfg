SPECIFICATION FairSpec
CONSTANTS
  fut = fut
  None = None
  Token <- OneToken
  Price <- TwoPrices
  Traded <- MoreOrLess
  MaxMinute = 4
  MaxTicks = 3
  TicksCap = 2
  OutCap = 1
INVARIANTS
  TypeOK
  BarsInOrder
  BarsFaithful
  VolumeIsDelta
  ClosedMinutesOnly
PROPERTIES
  EveryMinuteCloses
