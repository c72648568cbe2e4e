SPECIFICATION Spec
CONSTANTS
    ann = ann
    dm = dm
    cast = cast
    swing = swing
    quaff = quaff
    walk = walk
    undo = undo
    Cmds = {cast, swing, quaff, walk, undo}
    Kind <- MCKind
    Users <- MCUsers
    By <- MCBy
    LastTurn = 2
    Owner <- MCOwner
    Dm = dm
    Resources <- MCResources
    Action = "action"
    Attack = "attack"
    Allowance <- MCAllowance
    Spends <- MCSpends
    Nobody = Nobody
INVARIANTS
    GateInv
    CoveredTurnsExact
    OneActionATurn
CHECK_DEADLOCK FALSE
