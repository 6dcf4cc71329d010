CONSTANTS
    PyNone = PyNone
    NoneStr = NoneStr
    Dash = Dash
    Empty = Empty
    Home = Home
    Cwd = Cwd
    Stdout = Stdout
    ArgSpace <- MCArgSpace
    FileSystems <- MCFileSystems
SPECIFICATION Spec
INVARIANT ConfigAsDocumented
CHECK_DEADLOCK FALSE
