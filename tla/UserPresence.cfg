SPECIFICATION Spec
CONSTANTS
    Servers = {"s1", "s2"}
    Main = "s1"
    Users = {"u1", "u2", "u3"}
    AddressOf <- MCAddressOf
    ServerOf <- MCServerOf
    BadUsers = {"u3"}
    Announced = {"online", "offline"}
    MaxChanges = 3
    MaxLogins = 2
INVARIANTS
    TypeOK
    EveryUserHeardOnce
    LoneListenerRepairs
    NewestOfOneClient
CHECK_DEADLOCK FALSE
