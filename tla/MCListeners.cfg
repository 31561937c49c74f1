SPECIFICATION Spec
CONSTANTS
    Ports = {q1, q2, q3, q4}
    Hosts = {h1}
    Fds = {3, 4, 5, 6, 7}
    MaxListeners = 3
    NULL = NULL
SYMMETRY Symmetry
INVARIANTS
    StillServing
    NoStraySocket
PROPERTIES
    OwnPortNeverFails
    KeptSocket
