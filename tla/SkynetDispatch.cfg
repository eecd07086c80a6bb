CONSTANTS
  w1 = w1
  w2 = w2
  Worker = {w1, w2}
  Timer = timer
  Weight <- MCWeight
  NBoot = 1
  MaxHandle = 2
  MaxMsg = 2
SPECIFICATION FairSpec
INVARIANTS TypeOK RefCounted OwnedOnce OneThreadPerService InitFirst NoUseAfterFree TurnsCovered InOrder QuitWhenDead
PROPERTIES ComesToRest Terminates
