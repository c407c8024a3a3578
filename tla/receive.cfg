SPECIFICATION Spec
CONSTANTS
  Shapes <- AllShapes
  MaxMessages = 2
  Setters = {s1, s2}
  NaN = NaN
  Infinity = Infinity
  Flags <- SomeFlags
  MaxInt = 63
  Templates <- SomeTemplates
  MaxSets = 2
SYMMETRY Symmetry
INVARIANTS TypeOK ResultsDoNotMixMessages WellFormedDelivered SettingsApplied EntriesFollowTemplate ReturnedIsLogged
