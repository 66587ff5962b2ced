SPECIFICATION Spec
CONSTANTS
  Editors = {o1, o2, o3}
  Patches <- SomePatches
  Defaults <- DefaultRow
  Legacy <- OldRows
  MaxRestarts = 2
INVARIANTS
  TypeOK
  DisjointEditsBothLand
PROPERTIES
  OnlyOperatorsTighten
SYMMETRY EditorSymmetry
CHECK_DEADLOCK FALSE
