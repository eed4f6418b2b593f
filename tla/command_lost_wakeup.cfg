CONSTANTS
    i1 = i1  i2 = i2  i3 = i3  j1 = j1  j2 = j2  g1 = g1  ws = ws  voice = voice
    Inputs = {i1, i2}
    Jobs = {}
    Greetings = {}
    Handlers = {ws}
    NoTask = NoTask
    NoInput = NoInput
    MaxQuestions = 1
SPECIFICATION FairSpec
PROPERTY AnswerWakesAsker
CHECK_DEADLOCK FALSE
