CONSTANTS
    NQuads = 2
    MaxFaults = 1
SPECIFICATION Spec
PROPERTY SuccessIsLatched
