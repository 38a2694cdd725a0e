\* Whether a workspace always keeps an owner.
SPECIFICATION Spec
CONSTANTS
    ann = ann
    bob = bob
    cid = cid
    Users = {ann, bob, cid}
    Clients = {c1, c2}
    Processes = {p1}
    Invites = {}
    None = None
    Founder = ann
    FirstRoles <- MCFirstRoles
    NewRoles = {"OWNER", "MEMBER"}
    MaxRequests = 2
    Ops = {"role", "remove"}
SYMMETRY Symmetry
INVARIANTS
    HasOwner
CHECK_DEADLOCK FALSE
