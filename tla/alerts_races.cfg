SPECIFICATION Spec
CONSTANTS
    a1 = a1
    a2 = a2
    a3 = a3
    t1 = t1
    t2 = t2
    AlertId = {a1, a2}
    Watch <- MCWatch
    Token = {t1, t2}
    Item = {1}
    Quote <- MCQuote
    Null = Null
    Evaluator = {service, once}
    MaxTroubles = 1
INVARIANTS DuplicatesBounded ForgetHolds
