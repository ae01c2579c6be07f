SPECIFICATION Spec
CONSTANTS
    c1 = c1
    c2 = c2
    o1 = o1
    o2 = o2
    n1 = n1
    n2 = n2
    Channels = {c1, c2}
    Opens = {o1, o2}
    Nudges = {n1, n2}
    ChannelOf <- MCChannelOf
    TriggerCap = 4
    MaxGen = 5
PROPERTIES
    NudgesNeverLost
