\* Two clients sharing one scanner handle.
CONSTANTS
    Clients = {c1, c2}
SPECIFICATION Spec
INVARIANT TypeOK OneBatchInFlight
PROPERTY EveryCallAnswered
