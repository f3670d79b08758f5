SPECIFICATION Spec
CONSTANTS
    VGA_ROWS = 2
    VGA_COLS = 4
    Glyph <- MCGlyph
    MaxLogs = 1
    Letter = {"a"}
    SHELL_BUF_SIZE = 5
    NAME_SIZE = 3
    Commands <- MCCommands
    Logout <- MCLogout
    MaxArgs = 1
    MaxKeys = 7
    NONE = NONE
CHECK_DEADLOCK FALSE
INVARIANTS
    WritesStayNear
    ScreenShowsLine
    RunsWhatWasTyped
