CONSTANTS
  Netlists <- PassedThrough
SPECIFICATION NamesSpec
INVARIANTS
  TargetsAreNamed
