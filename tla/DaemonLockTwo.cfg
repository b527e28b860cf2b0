CONSTANTS
  Processes = {p1, p2}
  NoFile = noFile
SPECIFICATION Spec
INVARIANTS SingleInstance
