SPECIFICATION FairSpec
CONSTANTS
  Components = {"c1"}
  Beats = {"h1", "h2"}
  ComponentOf <- OneComponent
  Durations = {1, 2}
  FirstDuration = 1
  Updates = {"u1", "u2"}
  NewDuration <- ThereAndBack
  Allowed = {"any", "spaced"}
  UpdatesOf <- TwoIfSpaced
INVARIANTS TrackersAlive SpacedIsOne PaceInForce
PROPERTIES EndsWhenTold
CHECK_DEADLOCK FALSE
