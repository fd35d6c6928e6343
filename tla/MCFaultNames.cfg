CONSTANTS
  Netlists <- MCNetlists
SPECIFICATION NamesSpec
INVARIANTS
  NeverAborts
  SameFault
  ListsAgree
  CollapsingIsExact
  InputsMatch
