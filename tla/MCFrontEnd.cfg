\* Every project of four files of MCProgramFiles, every text of at most six
\* characters, and the bodies above.
SPECIFICATION FrontSpec
CONSTANTS
    Library <- LibraryDef
    Programs <- ProgramsDef
    Projects <- MCProjects
    Dirs <- MCDirs
    CanonicalDir <- MCCanonicalDir
    Given <- FullGiven
    Libraries <- MCLibraries
    CompilerVersion <- MCCompilerVersion
    WithExtension <- MCWithExtension
    Texts <- MCTexts
INVARIANTS
    FilesReadRight
    CommentsBlanked
    SugarRemoved
PROPERTY
    ReadingEnds
