CONSTANTS
  Processes = {p1, p2, p3, p4, p5}
  NoFile = noFile
SPECIFICATION Spec
SYMMETRY ProcessSymmetry
INVARIANTS TypeOK SingleUnlessExposed RecoversAlone
