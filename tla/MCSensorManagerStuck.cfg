CONSTANTS
    c1 = c1
    c2 = c2
    Clients <- MCClients
    MaxStarts = 2
    NULL = NULL
SPECIFICATION Spec
PROPERTY EventQueueReturns
