CONSTANTS
  Words <- MCWords
  Users = {"u1"}
  Roles = {"CX", "HU"}
  Methods = {"GET"}
  Patterns <- SomePatterns
  Paths <- AllPaths
  Effects = {"allow", "deny"}
  MaxPolicies = 2
  MaxSegments = 4
SPECIFICATION RulesSpec
INVARIANT GlobReference
INVARIANT DecisionByRule
