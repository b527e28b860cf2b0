SPECIFICATION Spec
CONSTANTS
  p1 = p1
  p2 = p2
  c1 = c1
  c2 = c2
  Prompts = {p1, p2}
  Controls = {c1}
  Loads = {}
  Nobody = nobody
  MaxObjects = 1
  MaxAsks = 1
INVARIANT CloseStopsTurns
