CONSTANTS
  Tables <- SmallTables
  Strategies <- FewStrategies
  RaiseRules = {0, 1, 2}
  RealRaises = {0, 1}
SPECIFICATION Spec
INVARIANT TypeOK
INVARIANT RaiseRaises
INVARIANT RaisePayable
INVARIANT MinRaise
INVARIANT FreeFoldIsFailure
