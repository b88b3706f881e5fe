SPECIFICATION Spec
CONSTANTS
  Components = {"c1"}
  Beats = {"h1", "h2", "h3"}
  ComponentOf <- OneComponent
  Durations = {1, 2}
  FirstDuration = 1
  Updates = {"u1"}
  NewDuration <- ThereAndBack
  Allowed = {"settled"}
  UpdatesOf <- TwoIfSpaced
INVARIANT OneHeartbeat
CHECK_DEADLOCK FALSE
