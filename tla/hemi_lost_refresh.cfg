SPECIFICATION Spec
CONSTANTS
  self = self
  div = div
  reverb = reverb
  Unbound = Unbound
  Nobody = Nobody
  Algorithms = {self, div, reverb}
  HemiGuid = {self, div}
  Compatible = {div}
  Label <- MCLabel
  ParamCount <- MCParamCount
  Self = self
  NumLanes = 2
  MaxProxyParams = 2
  MaxEnumEntries = 3
  FooterRestoreSteps = 0
  MaxSlots = 3
  MaxPending = 1
  QuietEdits = FALSE
INVARIANT
  LanesFollowSelectors
