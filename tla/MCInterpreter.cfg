\* Every template of two statements, a condition or loop and one more; templates of
\* one signal with up to five unknown conditions; the components and the wires above;
\* expressions of three operators over F_7.
SPECIFICATION InterpreterSpec
CONSTANTS
    P <- Prime
    Inputs <- InputSet
    Functions <- FunctionBodies
    MaxIterations = 6
    Programs <- ProgramSet
    SignalNames = {s1}
    MaxIds = 5
    MaxDepth = 3
    MaxWrites = 3
    NamedInputs <- MCNamedInputs
    MaxNamedWrites = 6
    AnonymousInputs <- MCAnonymousInputs
    MaxAnonymousWrites = 4
    MaxIfs = 2
    Fields = {"x", "y"}
    TagValues = {v1, v2}
    NoTag = NoTag
    TagNames = {maxbit}
    Absent = Absent
    None = None
    UsizeRange = 16
    SCells = 3
    BCells = 1
    FCells = 2
    MaxBusIfs = 1
    Points <- MCPoints
    Operands <- MCOperands
    AmountRange = 3
INVARIANTS
    SignalsAssignedOnce
    ComponentsComplete
    ExpressionsMeanTheirOperators
    ExecutionSound
    CodeSound
PROPERTY
    TagsLikeParameters
CHECK_DEADLOCK FALSE
