\* Two messages of one chat, two saves at once, a bot's charge and a top-up.
CONSTANTS
    m1 = m1 m2 = m2 s1 = s1 s2 = s2
    NoMessage = NoMessage
    Messages = {m1, m2}
    Savers = {s1, s2}
    Costs = {1}
    Start = 0
    MaxCredits = 1
    MaxDebits = 1
SPECIFICATION Spec
INVARIANTS TypeOK FinishedCharged NeverOvercharged
SYMMETRY Symmetry
