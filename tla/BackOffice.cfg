SPECIFICATION OfficeSpec
CONSTANTS
    x1 = x1
    x2 = x2
    ann = ann
    bob = bob
    sys = sys
    chair = chair
    v1 = v1
    v2 = v2
    k1 = k1
    k2 = k2
    g1 = g1
    g2 = g2
    g3 = g3
    g4 = g4
    kid = kid
    mum = mum
    SlotSession = {p1, p2}
    Signer = {m1, m2}
    Capacities = {0, 1}
    MaxEdits = 2
    PhotoSession = {p1, p2}
    Photo = {x1, x2}
    Claim = 1
    UploadSize <- MCUploadSize
    MaxUpload = 2
    Quota = 1
    Job = {j1, j2}
    Requester = {r1, r2}
    Worker = {w1, w2}
    Stages = 2
    PatrolName = {n1}
    MaxFaults = 1
    RoleSession = {p1, p2}
    Adult = {ann, bob}
    Post = {sys, chair}
    System = sys
    Founder = ann
    Term <- MCTerm
    MaxChanges = 3
    ClaimSession = {p1, p2}
    Account = {ann, bob}
    Seat = {kid, mum}
    Mailbox <- MCMailbox
    MaxTokens = 2
    Operator = {p1, p2}
    Client = {c1}
    Row = {x1}
    Officer = {ann, bob}
    FirstOfficer = ann
    MaxTicks = 3
    AdvSession = {p1, p2}
    Version = {v1, v2}
    Latest = v2
    Leaf <- MCLeaf
    AutoLeaf <- MCAutoLeaf
    MaxRequests = 3
    Group = {g1, g2, g3, g4}
    Patrol = {g3, g4}
    Person = {kid, mum}
    Scout = {kid}
    Trait <- MCTrait
    ParentsOf <- MCParentsOf
    RefSets <- MCRefSets
    Roster <- MCRoster
    MaxGroupEdits = 3
INVARIANTS SlotsTypeOK DeletedSlotIsEmpty PhotosTypeOK MeterIsExact GalleryHasObjects QuotaKept JobsTypeOK
INVARIANTS GovTypeOK ClaimsTypeOK SeatOnLastToken PlatformTypeOK AdvTypeOK EarnedWhenComplete GroupsMeanWhatTheySay
PROPERTIES LastSeatOnce DeletedArePurged KeepsLedger EveryJobEnds AdminRemains
PROPERTIES DeletedIsExported OnlyLateRowsOutlive RevokedNotCredited
CHECK_DEADLOCK FALSE
