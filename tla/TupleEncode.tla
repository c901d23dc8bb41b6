----------------------------- MODULE TupleEncode -----------------------------
(***************************************************************************)
(* warp/tuple_encode.h: a sequence (or tuple) of byte strings is encoded   *)
(* as one string by writing each item ZeroEscape'd and followed by the     *)
(* terminator "\0\0"; decoding splits at the first "\0\0" (std::search_n)  *)
(* and zero-unescapes each piece.  The header promises that decoding       *)
(* inverts encoding and that the encoding keeps the nested lexicographic   *)
(* order of the items.                                                     *)
(*                                                                         *)
(* Bytes are small naturals, 0 standing for '\0'.  ZeroEscape and          *)
(* zeroUnescape live in warp/zero_escape.h, outside the source tree:       *)
(* they are modelled as escaping each '\0' to "\0\1", the escape that      *)
(* makes "\0\0" impossible inside an escaped item and sorts an escaped     *)
(* '\0' above the terminator.                                              *)
(*                                                                         *)
(* The state machine is one call of each function on bounded inputs: two   *)
(* tuples x and y, encoded by encodeStringSequence and encodeTuple, then   *)
(* decoded by decodeStringSequence and by decodeTuple at every arity.      *)
(***************************************************************************)
EXTENDS Naturals, Sequences, SequencesExt

CONSTANTS
    Bytes,          \* the byte values of the input strings, 0 among them
    MaxStrLen,      \* longest input string
    MaxItems,       \* most items in an input tuple
    Invalid,        \* ValueError("invalid tuple-encoded string")
    WrongSize       \* ValueError("decode tuple of wrong size")

ASSUME /\ 0 \in Bytes /\ Bytes \subseteq Nat
       /\ MaxStrLen \in Nat /\ MaxItems \in Nat

Strings == UNION {[1..n -> Bytes] : n \in 0..MaxStrLen}
Tuples  == UNION {[1..n -> Strings] : n \in 0..MaxItems}
Arities == 0..(MaxItems + 1)

VARIABLES
    x, y,           \* the two input tuples
    ex, ey,         \* encodeStringSequence(x), encodeTuple(y)
    dx,             \* decodeStringSequence(ex)
    dy,             \* dy[k]: decodeTuple(ey) into a tuple of k strings
    stage           \* "input", "encoded", "decoded"

vars == <<x, y, ex, ey, dx, dy, stage>>

-----------------------------------------------------------------------------
(* zero_escape.h (spec-modelled)                                           *)

ZeroEscape(s) ==
    FlattenSeq([j \in DOMAIN s |-> IF s[j] = 0 THEN <<0, 1>> ELSE <<s[j]>>])

RECURSIVE ZeroUnescape(_)
ZeroUnescape(e) ==
    CASE e = <<>>                 -> <<>>
      [] Head(e) = 0 /\ Len(e) > 1 -> <<0>> \o ZeroUnescape(Tail(Tail(e)))
      [] OTHER                     -> <<Head(e)>> \o ZeroUnescape(Tail(e))

-----------------------------------------------------------------------------
(* tuple_encode.h                                                          *)

\* The item terminator, '\0' << '\0'.
Terminator == <<0, 0>>

\* std::search_n(p, end, 2, '\0'): index of the first "\0\0" of e, or 0
\* when there is none (the search returned end).
SearchTerminator(e) ==
    LET at == {j \in 1..(Len(e) - 1) : e[j] = 0 /\ e[j + 1] = 0}
    IN IF at = {} THEN 0 ELSE Min(at)

\* Mutant: the decoder steps over one byte of the terminator only.
AfterItemOffByOne(e, pp) == SubSeq(e, pp + 1, Len(e))

\* The rest of the encoding after the item ending at pp: p = pp + 2.
AfterItem(e, pp) == SubSeq(e, pp + 2, Len(e))

\* Mutant: the items are written without ZeroEscape.
EncodeStringSequenceUnescaped(seq) ==
    FlattenSeq([j \in DOMAIN seq |-> seq[j] \o Terminator])

\* StringSequenceEncoder's operator<<, as encodeStringSequence runs it:
\* every item escaped and terminated, in order.
EncodeStringSequence(seq) ==
    FlattenSeq([j \in DOMAIN seq |-> ZeroEscape(seq[j]) \o Terminator])

\* decodeStringSequence: cut at the first terminator, unescape the item,
\* go on after the terminator; a tail without one is invalid.
RECURSIVE DecodeStringSequence(_)
DecodeStringSequence(e) ==
    IF e = <<>> THEN <<>>
    ELSE LET pp   == SearchTerminator(e)
             rest == IF pp = 0 THEN Invalid
                     ELSE DecodeStringSequence(AfterItem(e, pp))
         IN IF pp = 0 \/ rest = Invalid THEN Invalid
            ELSE <<ZeroUnescape(SubSeq(e, 1, pp - 1))>> \o rest

\* TupleEncoder's operator<<: the escaped head, the terminator, then the
\* tail; the empty tuple (and null_type) writes nothing.
RECURSIVE EncodeTuple(_)
EncodeTuple(t) ==
    IF t = <<>> THEN <<>>
    ELSE ZeroEscape(Head(t)) \o Terminator \o EncodeTuple(Tail(t))

\* Mutant: the empty-tuple specialisation ignores what is left over.
DecodeEmptyTupleLenient(e) == <<>>

\* details::decodeTuple for tuple<> and null_type: leftover input means
\* the tuple was of the wrong size.
DecodeEmptyTuple(e) == IF e # <<>> THEN WrongSize ELSE <<>>

\* details::decodeTuple into a tuple of k strings: the head is the
\* unescaped text before the first terminator, the tail decodes the rest.
RECURSIVE DecodeTuple(_, _)
DecodeTuple(e, k) ==
    IF k = 0 THEN DecodeEmptyTuple(e)
    ELSE LET p    == SearchTerminator(e)
             tail == IF p = 0 THEN WrongSize
                     ELSE DecodeTuple(AfterItem(e, p), k - 1)
         IN IF p = 0 \/ tail = WrongSize THEN WrongSize
            ELSE <<ZeroUnescape(SubSeq(e, 1, p - 1))>> \o tail

-----------------------------------------------------------------------------
Init ==
    /\ x \in Tuples /\ y \in Tuples
    /\ ex = <<>> /\ ey = <<>> /\ dx = <<>>
    /\ dy = [k \in Arities |-> <<>>]
    /\ stage = "input"

\* encodeStringSequence(container) of x and encodeTuple of y.
Encode ==
    /\ stage = "input"
    /\ ex' = EncodeStringSequence(x)
    /\ ey' = EncodeTuple(y)
    /\ stage' = "encoded"
    /\ UNCHANGED <<x, y, dx, dy>>

\* decodeStringSequence(encoded) of ex, and decodeTuple of ey into tuples
\* of every size.
Decode ==
    /\ stage = "encoded"
    /\ dx' = DecodeStringSequence(ex)
    /\ dy' = [k \in Arities |-> DecodeTuple(ey, k)]
    /\ stage' = "decoded"
    /\ UNCHANGED <<x, y, ex, ey>>

Next == Encode \/ Decode

Spec == Init /\ [][Next]_vars

-----------------------------------------------------------------------------
(* Properties, against reference definitions                              *)

\* Lexicographic order of sequences, items compared by less(_, _): the
\* order of std::string for bytes, and of a tuple of strings for items.
LexLess(a, b, less(_, _)) ==
    \E j \in 0..Len(a) :
        /\ j <= Len(b)
        /\ \A i \in 1..j : a[i] = b[i]
        /\ \/ j = Len(a) /\ j < Len(b)
           \/ j < Len(a) /\ j < Len(b) /\ less(a[j + 1], b[j + 1])

ByteLess(u, v) == u < v
StringLess(s, t) == LexLess(s, t, ByteLess)
TupleLess(s, t) == LexLess(s, t, StringLess)

\* Decoding inverts encoding: decodeStringSequence(encodeStringSequence(x))
\* is x, and decodeTuple(encodeTuple(y)) into a tuple of y's size is y,
\* whatever '\0' bytes and empty strings the items hold.
RoundTrip ==
    stage = "decoded" => dx = x /\ dy[Len(y)] = y

\* "maintaining nested lexicographical order": the encodings of x and y
\* compare as strings exactly as x and y compare as tuples of strings.
OrderPreserved ==
    stage # "input" =>
        /\ TupleLess(x, y) <=> StringLess(ex, ey)
        /\ TupleLess(y, x) <=> StringLess(ey, ex)

\* decodeTuple into a tuple of any other size than the encoded one raises
\* "decode tuple of wrong size" instead of returning a tuple.
WrongSizeRejected ==
    stage = "decoded" => \A k \in Arities \ {Len(y)} : dy[k] = WrongSize
=============================================================================
