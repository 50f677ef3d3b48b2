SPECIFICATION MCSpec
CONSTANTS
    top = top
    left = left
    right = right
    deep = deep
    plain = plain
    near = near
    far = far
    Null = Null
    Dirs <- MCDirs
    Files <- MCFiles
    Children <- MCChildren
    IsEnv <- MCIsEnv
    Node <- MCNode
    PathArgs <- MCPathArgs
    Contents <- MCContents
    MaxLines = 3
    Upper <- MCUpper
    InitialEnvs <- MCInitialEnvs
    Chars <- MCChars
    MaxChars = 5
    Delimiter = "/"
INVARIANTS
    HandlesClosed SearchIsComplete LoadedSoFar
    SplitLosesNothing JoinKeepsNames DirAndBaseRejoin StemAndExtension
