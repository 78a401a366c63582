SPECIFICATION Spec
CONSTANTS
  Processes = {p1, p2}
  Overlap = FALSE
  Timely = FALSE
INVARIANT OnePrimary
