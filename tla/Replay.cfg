SPECIFICATION Spec
CONSTANTS
    b1 = b1
    b2 = b2
    Bots = {b1, b2}
    Prices = {1, 2}
    Qtys = {1, 2}
    MaxTopic = 2
    Loads <- SerialAndConcurrent
SYMMETRY BotSymmetry
INVARIANTS
    PerfectEngineScoresPerfect
    BooksAgree
    BookWellFormed
