\* Four templates, a tag with two values and a gate; three or four constraints of
\* five signals over F_3; files in bytes of four values.
SPECIFICATION CircuitSpec
CONSTANTS
    Keys <- KeySet
    Main <- MainKey
    Programs <- ProgramSet
    Buses <- BusTable
    P = 3
    Outputs = 1
    PublicInputs = 1
    PrivateInputs = 1
    MaxSignal = 5
    CustomSignals = {}
    Systems <- AllCircuits
    Settings <- MCSettings
    LessOccurrences = 2
    Base = 4
    FieldSize = 2
    FileCircuits <- CircuitsWritten
INVARIANTS
    CircuitNumbered
    SimplifiedEquivalent
    FileReadsBack
