CONSTANTS
    Agents = {"coder", "full"}
    Tools <- MCTools
    Answers <- MCAnswers
    InputFiles <- MCInputFiles
    Paths = {"f", "g", "o"}
    Outside = {"o"}
    OwnWrite = {"coder"}
    AllowList = {"sort", "find", "tail"}
    Endless = {"tail"}
    Effects <- MCEffects
    Overlaid <- MCOverlaid
    Contents = {"old", "new", "big", "mix"}
    TooLarge = {"big", "mix"}
    Absent = Absent
    Empty = Empty
    Initial <- MCInitial
    Providers = {p1}
    MaxIterations <- MCMaxIterations
    None = None
SPECIFICATION Spec
INVARIANT AgentsFollow
PROPERTY RunsEnd
