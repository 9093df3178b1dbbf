CONSTANTS
  Processes = {p, q}
  Objects = {x}
  Definitions = {d, e}
  Malformed = m
  Registered = d
  Overlapping = TRUE
  Unsaved = {}
  MaxVersions = 2
  MaxWrites <- Writes

SPECIFICATION Spec
SYMMETRY Symmetry

PROPERTY PublishedFixed
