CONSTANTS
  Processes = {p, q}
  Objects = {x}
  Definitions = {d}
  Malformed = m
  Registered = d
  Overlapping = FALSE
  Unsaved = {}
  MaxVersions = 2
  MaxWrites <- Writes

SPECIFICATION Spec
SYMMETRY Symmetry

INVARIANTS
  PublishedValid
  StartedFromPublished

PROPERTY ImplementsHistory
