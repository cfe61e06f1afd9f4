\* Every topology of three devices, agents and relays included.
SPECIFICATION Spec
CONSTANTS
  Targets <- ThreeTargets
  None = None
  Kinds <- BothKinds
  MaxDepth = 3
INVARIANTS TypeOK BlamedIsDownAncestor LetThroughOnlyIfClear NearestBlamed CauseSpeaksIfAcyclic
