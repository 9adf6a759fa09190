\* The disagreement between the comment at SslClient.cpp:240 and the code.
CONSTANTS
    MaxQueue = 1
    MaxDue = 1
SPECIFICATION Spec
INVARIANTS
    WaitEnds
