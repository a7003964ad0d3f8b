\* The inductive invariant of Dashboard, part by part, on the instance of Dash.cfg.
SPECIFICATION Spec
CONSTANTS
  p = p
  q = q
  c1 = c1
  c2 = c2
  None = None
  Profiles = {p, q}
  Classes = {c1, c2}
  MaxEpoch = 3
  MaxFaults = 2
SYMMETRY Symmetry
INVARIANTS
    TypeOK
    RequestInv
    MutationInv
    PublishInv
    MetInv
    StatusInv
    ShownInv
    RoundInv
    CourseInv
