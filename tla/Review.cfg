SPECIFICATION Spec
CONSTANTS
  viewer = viewer
  reviewer = reviewer
  finance = finance
  admin = admin
  Detections = {d1, d2}
  Disputes = {k1, k2}
  Users = {viewer, reviewer, finance, admin}
  NoUser = NoUser
  RoleOf <- MCRoleOf
SYMMETRY MCSymmetry
INVARIANTS TypeOK DisputedIffOpen TrailTellsStatus
PROPERTIES ImplementsLifecycle
CHECK_DEADLOCK FALSE
