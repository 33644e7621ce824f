CONSTANTS
  Ivs = {i1}
  Handlers = {h1, h2, h3}
  Targets <- Requested
  MaxTime = 2
SPECIFICATION Spec
SYMMETRY Symmetry
INVARIANTS TypeOK ExecutedWasAccepted
PROPERTY StickyOnceQuiet
