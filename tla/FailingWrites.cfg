CONSTANTS
  Processes = {p, q}
  Objects = {}
  Definitions = {d, e}
  Malformed = m
  Registered = d
  Overlapping = FALSE
  Unsaved = {p}
  MaxVersions = 1
  MaxWrites <- FewWrites

SPECIFICATION Spec

INVARIANT ServesStored
PROPERTY PublishedFixed
