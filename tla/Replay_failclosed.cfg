SPECIFICATION Spec
CONSTANTS
    b1 = b1
    b2 = b2
    Bots = {b1}
    Prices = {1}
    Qtys = {1}
    MaxTopic = 2
    Loads <- Failing
INVARIANT
    VerdictNeedsAuthoritativeFill
