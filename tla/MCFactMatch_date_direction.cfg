CONSTANTS
  i1 = i1  i2 = i2  i3 = i3
  Paris = Paris  Lyon = Lyon  France = France  Europe = Europe  Gaul = Gaul  Name = Name
  P26 = P26  P27 = P27  P569 = P569  P1448 = P1448  P159 = P159  CIs = CIs
  P276 = P276  P69 = P69  P131 = P131  P361 = P361  P279 = P279  P749 = P749
  SingleValue = SingleValue  NoValue = NoValue  NoQuery = NoQuery  NoMatch = NoMatch
  Items <- MC_Items
  Entities <- MC_Entities
  Literals <- MC_Literals
  Dates <- MC_Dates
  Props <- MC_Props
  PropTarget <- MC_PropTarget
  SubpropertyOf <- MC_SubpropertyOf
  ConstraintTypes <- MC_ConstraintTypes
  Constraints <- MC_Constraints
  ConstraintIs <- MC_ConstraintIs
  Edges <- MC_Edges
  Resolve <- MC_Resolve
  Facts <- MC_Facts
  Paths <- MC_Paths
SPECIFICATION Spec
INVARIANT ProposedFinerDateSubsumes
