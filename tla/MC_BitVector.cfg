\* Two objects; zero bits (allocBits returns no buffer), a size with a
\* partial last byte, a whole byte, and one bit into a second byte.
CONSTANTS
    Vectors = {va, vb}
    Sizes = {0, 3, 8, 9}
    RawBytes = {0, 255}
    Null = Null
    Undef = Undef
SPECIFICATION Spec
INVARIANT NoOverrun
