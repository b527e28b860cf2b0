SPECIFICATION Spec
CONSTANTS
  p1 = p1
  p2 = p2
  c1 = c1
  c2 = c2
  Prompts = {p1, p2}
  Controls = {c1}
  Loads = {l1}
  Nobody = nobody
  MaxObjects = 2
  MaxAsks = 2
INVARIANTS TypeOK SlotIsRunning RunSeesHistory GrantIsForRequest
SYMMETRY MCSymmetry
