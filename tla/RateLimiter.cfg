SPECIFICATION FairSpec
CONSTANTS
  Turns = {t1, t2, t3, t4}
  Interval = 3
  NoTurn = NoTurn
PROPERTIES
  Spaced
  EveryTurnComes
