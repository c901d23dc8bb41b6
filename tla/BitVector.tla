------------------------------ MODULE BitVector ------------------------------
(***************************************************************************)
(* warp/bit_vector.cc: a BitVector owns a buffer of size_t words and its   *)
(* bit count nBits.  The buffer is sized by bitsToWords; clear, the copy   *)
(* operations, load and population touch bitsToBytes(nBits) bytes of it,   *)
(* and |=, &= and ^= combine bitsToWords(nBits) whole words.               *)
(*                                                                         *)
(* A buffer is the sequence of its bytes, or Null when allocBits returned  *)
(* 0; a byte nothing has written is Undef (new size_t[] leaves it          *)
(* uninitialised).  Every access is checked against the allocation: one    *)
(* past it, or through Null, sets the ghost overrun.  bit_vector.h, which  *)
(* defines bitsToBytes, is not in the tree: it is modelled as the byte     *)
(* count of nBits bits, the count load's mask of byte(nBits-1) presumes.   *)
(***************************************************************************)
EXTENDS Naturals, Sequences, Bitwise

CONSTANTS
    Vectors,        \* the BitVector objects of the program
    Sizes,          \* the nBits values constructors and load are given
    RawBytes,       \* byte values of the memory load copies from
    Null,           \* the null buffer allocBits(0) returns
    Undef           \* an uninitialised byte

\* sizeof(size_t) on the LP64 build.
WordBytes == 8

VARIABLES
    vec,            \* vec[v]: [n |-> nBits, buf |-> buffer] of object v
    overrun         \* ghost: some access left its allocation

vars == <<vec, overrun>>

TypeOK ==
    /\ vec \in [Vectors -> [n : Sizes, buf : {Null} \cup Seq(0..255 \cup {Undef})]]
    /\ overrun \in BOOLEAN

-----------------------------------------------------------------------------
(* The anonymous namespace and the header                                  *)

\* bitsToWords: "the number of size_t words required to hold" nBits bits.
BitsToWords(nBits) == (nBits + (WordBytes * 8 - 1)) \div WordBytes

\* bitsToBytes (bit_vector.h, not in the tree).
BitsToBytes(nBits) == (nBits + 7) \div 8

\* new size_t[k]: k uninitialised words, never null.
NewWords(k) == [j \in 1..(k * WordBytes) |-> Undef]

\* allocBits: no buffer at all for zero bits.
AllocBits(nBits) == IF nBits # 0 THEN NewWords(BitsToWords(nBits)) ELSE Null

\* The first k bytes of buf lie in its allocation.
InAlloc(buf, k) == k = 0 \/ (buf # Null /\ k <= Len(buf))

\* memcpy(dst, src, k) and memset(dst, 0, k), for in-bounds k.
Memcpy(dst, src, k) ==
    IF k = 0 THEN dst ELSE [j \in DOMAIN dst |-> IF j <= k THEN src[j] ELSE dst[j]]
Memset0(dst, k) ==
    IF k = 0 THEN dst ELSE [j \in DOMAIN dst |-> IF j <= k THEN 0 ELSE dst[j]]

\* ~(0xffu << k), truncated to the uint8_t it is and-ed into.
ByteMask(k) == 255 - ((255 * 2^k) % 256)

-----------------------------------------------------------------------------
(* BitVector's members                                                     *)

\* BitVector(nBits): allocBits, then clear() sets bitsToBytes(nBits) bytes.
Constructed(n) ==
    LET buf == AllocBits(n) IN
    [n |-> n, buf |-> IF InAlloc(buf, BitsToBytes(n))
                      THEN Memset0(buf, BitsToBytes(n)) ELSE buf]

Construct(v) ==
    \E n \in Sizes :
        /\ vec' = [vec EXCEPT ![v] = Constructed(n)]
        /\ overrun' = (overrun \/ ~InAlloc(AllocBits(n), BitsToBytes(n)))

\* clear(): memset of bitsToBytes(nBits) bytes.
Clear(v) ==
    LET k == BitsToBytes(vec[v].n) IN
    /\ vec' = [vec EXCEPT ![v].buf = IF InAlloc(@, k) THEN Memset0(@, k) ELSE @]
    /\ overrun' = (overrun \/ ~InAlloc(vec[v].buf, k))

\* Object v replaced by a copy of w (BitVector(BitVector const &)): a
\* buffer of bitsToWords(o.nBits) words, never null, and a memcpy.
CopyConstruct(v, w) ==
    LET n   == vec[w].n
        buf == NewWords(BitsToWords(n))
        ok  == InAlloc(buf, BitsToBytes(n)) /\ InAlloc(vec[w].buf, BitsToBytes(n))
    IN
    /\ v # w
    /\ vec' = [vec EXCEPT ![v] = [n |-> n,
                  buf |-> IF ok THEN Memcpy(buf, vec[w].buf, BitsToBytes(n))
                          ELSE buf]]
    /\ overrun' = (overrun \/ ~ok)

\* operator=: buffer.reset(new ...) frees the old buffer first, then the
\* memcpy reads o.buffer, which for v = w is the fresh one.
Assign(v, w) ==
    LET n   == vec[w].n
        buf == NewWords(BitsToWords(n))
        src == IF v = w THEN buf ELSE vec[w].buf
        ok  == InAlloc(buf, BitsToBytes(n)) /\ InAlloc(src, BitsToBytes(n))
    IN
    /\ vec' = [vec EXCEPT ![v] = [n |-> n,
                  buf |-> IF ok THEN Memcpy(buf, src, BitsToBytes(n)) ELSE buf]]
    /\ overrun' = (overrun \/ ~ok)

\* load(nBits, raw): allocBits, memcpy from raw, and mask the bits past
\* nBits in the last byte when nBits is not a multiple of 8.
Load(v) ==
    \E n \in Sizes :
    \E raw \in [1..BitsToBytes(n) -> RawBytes] :
        LET buf    == AllocBits(n)
            ok     == InAlloc(buf, BitsToBytes(n))
            copied == IF ok THEN Memcpy(buf, raw, BitsToBytes(n)) ELSE buf
            last   == (n - 1) \div 8 + 1
        IN
        /\ vec' = [vec EXCEPT ![v] = [n |-> n,
                     buf |-> IF ok /\ n % 8 # 0
                             THEN [copied EXCEPT ![last] = @ & ByteMask(n % 8)]
                             ELSE copied]]
        /\ overrun' = (overrun \/ ~ok)

\* One byte of *dst++ op= *src++; an uninitialised operand gives garbage.
Combine(op, x, y) ==
    IF x = Undef \/ y = Undef THEN Undef
    ELSE CASE op = "or"  -> x | y
           [] op = "and" -> x & y
           [] op = "xor" -> x ^^ y

\* operator|=, &=, ^=: bitsToWords(nBits) words of this combined with o's.
\* The operands are of one size, as the callers use them.
WordOp(op, v, w) ==
    LET k   == BitsToWords(vec[v].n) * WordBytes
        dst == vec[v].buf
        src == vec[w].buf
        ok  == InAlloc(dst, k) /\ InAlloc(src, k)
    IN
    /\ vec[v].n = vec[w].n
    /\ vec' = [vec EXCEPT ![v].buf =
                 IF ok /\ k > 0
                 THEN [j \in DOMAIN dst |->
                         IF j <= k THEN Combine(op, dst[j], src[j]) ELSE dst[j]]
                 ELSE dst]
    /\ overrun' = (overrun \/ ~ok)

-----------------------------------------------------------------------------
\* Every object starts out constructed.
Init ==
    /\ vec \in [Vectors -> {Constructed(n) : n \in Sizes}]
    /\ overrun = FALSE

Next ==
    \E v, w \in Vectors :
        \/ Construct(v)
        \/ Clear(v)
        \/ CopyConstruct(v, w)
        \/ Assign(v, w)
        \/ Load(v)
        \/ \E op \in {"or", "and", "xor"} : WordOp(op, v, w)

Spec == Init /\ [][Next]_vars

-----------------------------------------------------------------------------
(* Properties                                                              *)

\* Every byte clear, the copies, load and |=, &=, ^= touch lies inside the
\* buffer allocBits or new size_t[] gave the object: the word count
\* bitsToWords computes and the byte count the loops and mem* calls use
\* agree, for every nBits, zero included.
NoOverrun == ~overrun
=============================================================================
