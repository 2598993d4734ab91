\* Two nodes that start, two visitors, a name beside admin, three posts, one failed call.
SPECIFICATION Spec
CONSTANTS
  Nodes = {n1, n2}
  Visitors = {v1, v2}
  Names = {admin, u}
  Admin = admin
  Preset = password
  None = None
  MaxPosts = 3
  MaxFaults = 1
INVARIANTS
  AdminThere
  RegisteredIsThere
  SessionIsOwner
SYMMETRY Symmetry
CHECK_DEADLOCK FALSE
