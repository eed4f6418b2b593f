CONSTANTS
    i1 = i1  i2 = i2  i3 = i3  j1 = j1  j2 = j2  g1 = g1  ws = ws  voice = voice
    Inputs = {i1, i2, i3}
    Jobs = {j1, j2}
    Greetings = {g1}
    Handlers = {ws}
    NoTask = NoTask
    NoInput = NoInput
    MaxQuestions = 2
SPECIFICATION Spec
INVARIANTS TypeOK OneTurnAtATime BusyIsLowered FlagBelongsToAsker
PROPERTIES AnswerMatchesQuestion ImplementsOneMind
SYMMETRY Symmetry
CHECK_DEADLOCK FALSE
