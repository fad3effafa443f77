SPECIFICATION FairSpec
CONSTANTS
    None = None
    Workers = {w1, w2}
    Callers = {c1, c2}
    NumTasks = 3
INVARIANTS
    TypeOK
    EachTaskOnce
    NoneSleepsOnWork
    MembersOutliveTasks
PROPERTIES
    Closes
    ImplementsTaskPool
