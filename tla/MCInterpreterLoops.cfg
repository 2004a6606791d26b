\* Templates of one signal with a loop under an if; the other instances are left as small
\* as they can be.
SPECIFICATION InterpreterSpec
CONSTANTS
    P <- Prime
    Inputs <- InputSet
    Functions <- FunctionBodies
    MaxIterations = 6
    Programs = {}
    SignalNames = {s1}
    MaxIds = 5
    MaxDepth = 3
    MaxWrites = 2
    NamedInputs <- MCNamedInputs
    MaxNamedWrites = 6
    AnonymousInputs <- MCAnonymousInputs
    MaxAnonymousWrites = 4
    MaxIfs = 2
    Fields = {"x", "y"}
    TagValues = {v1, v2}
    NoTag = NoTag
    TagNames = {maxbit}
    Absent = Absent
    None = None
    UsizeRange = 16
    SCells = 3
    BCells = 1
    FCells = 2
    MaxBusIfs = 1
    Points = {}
    Operands = {}
    AmountRange = 3
INVARIANT
    LoopsAssignOnce
CHECK_DEADLOCK FALSE
