CONSTANTS
    m1 = m1  l1 = l1  f1 = f1  f2 = f2
    Messages = {m1}
    Logs = {l1}
    Facts = {f1}
    Nothing = Nothing
    MaxOps = 2
    MaxCount = 3
SPECIFICATION FairSpec
INVARIANTS TypeOK OnlyReadRowsMarked CountsAreBacked
PROPERTIES Drained
CHECK_DEADLOCK FALSE
