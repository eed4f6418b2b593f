CONSTANTS
    i1 = i1  i2 = i2  i3 = i3  j1 = j1  j2 = j2  g1 = g1  ws = ws  voice = voice
    Inputs = {i1, i2, i3}
    Jobs = {j1}
    Greetings = {}
    Handlers = {ws, voice}
    NoTask = NoTask
    NoInput = NoInput
    MaxQuestions = 2
SPECIFICATION FairSpec
PROPERTY Served
CHECK_DEADLOCK FALSE
