SPECIFICATION Spec
CONSTANTS
    Value = {v1, v2}
    None = None
    capacity = 4
    UsizeMod = 16
    MaxAdds = 8
INVARIANTS
    BufInv
PROPERTIES
    ImplementsInFlightTable
