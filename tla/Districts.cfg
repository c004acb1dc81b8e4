CONSTANTS
  NTracks = 2
  CanBrake = {0}
  Cabs = {3, 4}
  Mods = {"INV"}
  Usages <- MCUsages
  TopSpeed = 2
SPECIFICATION Spec
INVARIANTS TracksAgree NoSideEffects DCFollowsThrottle
