CONSTANTS
  Ivs = {i1}
  Handlers = {h1, h2}
  Targets <- Requested
  MaxTime = 2
SPECIFICATION Spec
PROPERTY TerminalSticky
