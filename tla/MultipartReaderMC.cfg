SPECIFICATION Spec
CONSTANTS
    Bytes = {"x", "CR", "LF", "D", "B", "f"}
    Bodies <- MCBodies
    Boundary <- MCBoundary
    MaxBytes = 2
    MaxHeader = 4
INVARIANTS
    ChunksDoNotShow
    SinkWithinBudget
    SinkHoldsTheFile
    BufferBounded
