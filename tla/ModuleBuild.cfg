\* Three libraries, one copy that fails or is interrupted; five modules, two edits.
SPECIFICATION Spec
CONSTANTS
    a = a
    b = b
    c = c
    Own1 = Own1
    Own2 = Own2
    Test = Test
    key = key
    other = other
    x = x
    y = y
    Libraries = {a, b, c}
    Prelude = Prelude
    Ffi = Ffi
    Main = Main
    Entry = Entry
    Modules = {Own1, Own2}
    Tests = {Test}
    Systems = {a}
    Absent = Absent
    Graphs <- MCGraphs
    Projects <- MCProjects
    StackLimit = 5
    MaxDamage = 1
    MaxEdits = 2
INVARIANTS
    ScriptsFitPackages
    DependentsFirst
    UpToDate
PROPERTIES
    EveryBuildEnds
