CONSTANTS
  Netlists <- MCNetlists
SPECIFICATION TopoSpec
INVARIANTS
  Mirrored
  SameCircuit
  StemsAreSplit
  IdsAreTopological
  CountedOnce
  GivesUpRightly
PROPERTIES
  GetsPrepared
