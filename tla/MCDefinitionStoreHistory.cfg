SPECIFICATION Spec
CONSTANTS
    Clients = {a, b}
    Bodies = {x, y}
    NoBody = NoBody
    Dialect = "postgres"
    MaxVersion = 3
SYMMETRY MCSymmetry
CHECK_DEADLOCK FALSE
PROPERTY PublishedStay
