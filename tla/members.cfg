\* Role changes, removals, room joins and cached memberships racing.
SPECIFICATION Spec
CONSTANTS
    ann = ann
    bob = bob
    cid = cid
    Users = {ann, bob, cid}
    Clients = {c1, c2}
    Processes = {p1, p2}
    Invites = {i1, i2}
    None = None
    Founder = ann
    FirstRoles <- MCFirstRoles
    NewRoles = {"OWNER", "MEMBER"}
    MaxRequests = 3
    Ops = {"use", "role", "remove", "join", "invite", "revoke", "accept", "archive", "delete", "unarchive", "outage", "crash"}
SYMMETRY Symmetry
INVARIANTS
    TypeOK
    SoleOwner
    CacheFresh
    RoomOfMembers
    OneActiveInvitation
PROPERTIES
    JoinsByOpenInvitation
CHECK_DEADLOCK FALSE
