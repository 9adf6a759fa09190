\* The disagreement between the comment at TcpClient.cpp:116 and the code.
CONSTANTS
    Messages = {m1}
    Lengths = {0}
SPECIFICATION Spec
INVARIANTS
    WaitEnds
