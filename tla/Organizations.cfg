SPECIFICATION Spec
CONSTANTS
    Users = {u1, u2, u3}
    Founder = u1
    SiteAdmin = root
    None = None
    Requests = {q1, q2}
INVARIANT OneOwner
PROPERTY ComesBackByInvitation
CHECK_DEADLOCK FALSE
SYMMETRY Symmetry
