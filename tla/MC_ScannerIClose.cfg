\* Two clients sharing one scanner handle; a completed scan closes itself.
CONSTANTS
    Clients = {c1, c2}
SPECIFICATION Spec
PROPERTY NoUseAfterClose
