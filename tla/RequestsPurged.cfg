SPECIFICATION Spec
CONSTANTS
    c1 = c1
    c2 = c2
    alice = alice
    bob = bob
    Channels = {c1, c2}
    Addresses = {alice, bob}
    Messages <- MCMessages
    CloseMargin = 1
    KeepFor = 1
    MaxTime = 3
PROPERTY OldRequestsPurged
