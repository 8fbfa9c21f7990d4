SPECIFICATION FairSpec
CONSTANTS
    ann = ann
    ben = ben
    zoe = zoe
    Roster <- TwoBots
    Strangers = {zoe}
    Before <- NoneOrOne
    Nobody = Nobody
    Pass = Pass
    Callers = {c1, c2}
    MaxAccounts = 6
    Budgets <- Scenarios
INVARIANTS TypeOK IndexComplete IndexTrue
PROPERTIES EventsInOrder EventsArrive BotsComeUp
CHECK_DEADLOCK FALSE
