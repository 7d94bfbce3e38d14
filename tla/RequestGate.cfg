SPECIFICATION Spec
CONSTANTS
    c1 = c1
    t1 = t1
    t2 = t2
    Clients = {c1}
    Tabs = {t1, t2}
    ClientOf <- MCClientOf
    Configs <- MCConfigs
    Limit = 2
    TokenTTL = 2
    MaxMinutes = 2
    MaxTokens = 2
    MaxHits = 3
    MaxFaults = 1
SYMMETRY MCSymmetry
INVARIANTS TypeOK MinuteHolds
PROPERTIES LimitedForThatMinute TokenStaysGood
