\* Two games in a row against a catalogue of two objects with a third to learn;
\* boards of two and three pairs; every kind of question over small banks; two
\* sessions of one or two questions; two learners and two plans of the same two
\* lessons, the second of which builds on the first.
SPECIFICATION Spec
CONSTANTS
    cat = cat
    dog = dog
    sun = sun
    Object <- MCObject
    NoObject = NoObject
    Base <- MCBase
    Questions = 2
    InformativeLimit = 1
    TotalLimit = 2
    BonusCount = 1
    MaxGames = 2
    MinPairs = 2
    MaxPairs = 3
    MaxRounds = 2
    MaxTables = 3
    Letter = {"a", "c", "k", "r", "s"}
    SoundOf <- MCSoundOf
    Word <- MCWord
    Filed <- MCFiled
    Heard <- MCHeard
    Scenario <- MCScenario
    Clean <- MCClean
    Pattern <- MCPattern
    Symbol = {"circle", "star", "square", "moon"}
    TopNumber = 9
    ChoiceCount = 3
    MaxAttempts = 2
    Learner = {l1, l2}
    PlanId = {p1, p2}
    NoPlan = NoPlan
    Lesson = {1, 2}
    Outlines <- MCOutlines
    Length = 2
    QuickLength = 1
    MaxTries = 2
    Repetitions = {1}
    HistoryLimit = 2
    SessionLimit = 1
    EvidenceLimit = 2
    MinEvidence = 2
    MaxSessions = 2
    Pupil = {k1}
    Course = {c1, c2}
    Nothing = Nothing
    Subject <- MCSubject
    Prerequisites <- MCPrerequisites
    Option = {o1, o2}
    MaxQuestions = 1
INVARIANTS
    BoardsArePlayable
    JudgedByThePrompt
    RecordIsKept
    ScreensAreSafe
PROPERTIES
    TwentyIsFair
SYMMETRY GamesSymmetry
CHECK_DEADLOCK FALSE
