\* Bodies of up to three statements with sugar nested twice; two templates and four
\* functions; templates of up to three stores (of size zero and anonymous ones too),
\* branches and loops; fathers of up to five subcomponents.
SPECIFICATION GenerationSpec
CONSTANTS
    Programs <- ProgramsDef
    Mixed <- MixedDef
    StartEnv <- StartEnvDef
    MaxTurns = 4
    Calls <- CallsDef
    MaxInstances = 8
    Lists <- ListsDef
    MaxLoop = 2
    Names <- NamesDef
    Dims <- DimsDef
    Templates <- TemplatesDef
    OwnSignals = 2
    Fathers <- FathersDef
INVARIANTS
    CleanedSame
    CallsHaveInstances
    InputsTrigger
    ComponentsPlaced
CHECK_DEADLOCK FALSE
