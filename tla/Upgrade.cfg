CONSTANTS
    Commands = {c1}
    Bare = {}
    Lost = Lost
    Unversioned = Unversioned
    MaxVersion = 2
    MaxBuild = 1
SPECIFICATION Spec
PROPERTIES RollsBackWhenAsked
CHECK_DEADLOCK FALSE
