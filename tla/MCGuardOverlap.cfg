SPECIFICATION Spec
CONSTANTS
  Processes = {p1, p2}
  Overlap = TRUE
  Timely = TRUE
INVARIANT OnePrimary
