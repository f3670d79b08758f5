SPECIFICATION MCSpec
CONSTANTS
    Names = {"a", "b", "e", "h", "..", "h.."}
    DOT = "."
    Ups = {".."}
    DOTDOT = ".."
    Mids = {"h.."}
    MaxInodes = 4
    MaxRef = 2
    Bytes = {0, 1, 2, 3}
    MinCap = 3
    MaxSize = 5
    FD_MAX = 2
    Paths <- TreePaths
    FlagSets = {}
    Chunks = {}
    Counts = {}
    Offsets = {}
    Args <- MCArgs
    Texts <- MCTexts
    SpaceByte = 2
    NewlineByte = 3
    CatBuf = 2
    LsBuf = 1
    MaxDepth = 2
    MaxLost = 1
    InitialDirs <- MCInitialDirs
    HostDir = "e"
    HostFile = "h"
    HostText <- MCHostText
    LOST = 9
PROPERTY CdFollowsPath
