SPECIFICATION Spec
CONSTANTS
    Clients = {a, b, c}
    Bodies = {x, y}
    NoBody = NoBody
    Dialect = "sqlite"
    MaxVersion = 3
SYMMETRY MCSymmetry
CHECK_DEADLOCK FALSE
INVARIANT TypeOK
PROPERTIES
    PublishedStay
    FreshVersion
    PublishTakesNewest
    ImplementsChain
