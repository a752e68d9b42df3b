SPECIFICATION WindowSpec
CONSTANTS
    win = 4
    Mod = 16
INVARIANTS DeliveredOnce AcceptReturns
PROPERTIES FreshDelivered
