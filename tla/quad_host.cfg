SPECIFICATION Spec
CONSTANTS
  self = self
  div1 = div1
  div2 = div2
  Unbound = Unbound
  Nobody = Nobody
  Algorithms = {self, div1, div2}
  HemiGuid = {self, div1, div2}
  Compatible = {div1, div2}
  Label <- MCLabel
  ParamCount <- MCParamCount
  Self = self
  NumLanes = 2
  MaxProxyParams = 1
  MaxEnumEntries = 3
  FooterRestoreSteps = 0
  MaxSlots = 3
  MaxPending = 1
  QuietEdits = TRUE
  MaxMembers = 2
INVARIANTS
  TypeOK
  DefinitionsCurrent
  CachedPluginsLive
PROPERTIES
  ViewAndParametersAgree
SYMMETRY MCSymmetry
