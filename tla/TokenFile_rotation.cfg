SPECIFICATION Spec
CONSTANTS
  old = old
  new = new
  ctl = ctl
  comment = comment
  r1 = r1
  r2 = r2
  Tokens = {old, new, ctl}
  Noise = {comment}
  HeaderSafe = {old, new}
  Files <- MCFiles
  Requests = {r1, r2}
  Presented <- MCPresented
INVARIANTS
  LiveUsable
  ReloadTruthful
PROPERTIES
  NeverAMix
  RotationApplies
