------------------------------- MODULE IntSet -------------------------------
(***************************************************************************)
(* The set of integers kept sorted in an array of bytes: every value takes *)
(* the width of the widest, and a value wider than all widens them, in     *)
(* place.  A byte is a digit to base ByteBase, the widths are Widths.      *)
(***************************************************************************)
EXTENDS Integers, Sequences, SequencesExt, FiniteSetsExt

CONSTANTS
    ByteBase,   \* 256 in the program
    Widths      \* {2, 4, 8} in the program

ASSUME IntSetAssumption ==
    /\ ByteBase \in Nat /\ ByteBase % 2 = 0 /\ ByteBase > 0
    /\ Widths \subseteq Nat \ {0} /\ Widths # {}

(* The values of a width, in two's complement *)
Half(enc) == ByteBase ^ enc \div 2
Fits(v, enc) == -Half(enc) <= v /\ v < Half(enc)

IntSetNew == [enc |-> Min(Widths), bytes |-> <<>>]

IntLen(s) == Len(s.bytes) \div s.enc

(* get_by_enc and set_by_enc, at position pos from 0: the digits from the
   lowest, the last one with the sign *)
GetByEnc(bytes, pos, enc) ==
    LET digits == SubSeq(bytes, pos * enc + 1, pos * enc + enc)
        v == FoldRight(LAMBDA byte, high : high * ByteBase + byte, digits, 0)
    IN IF digits[enc] >= ByteBase \div 2 THEN v - ByteBase ^ enc ELSE v

SetByEnc(bytes, pos, enc, v) ==
    [c \in DOMAIN bytes |->
        LET i == c - 1 - pos * enc IN
        IF i \in 0..(enc - 1) THEN ((v % ByteBase ^ enc) \div ByteBase ^ i) % ByteBase ELSE bytes[c]]

IntGet(s, pos) == GetByEnc(s.bytes, pos, s.enc)
Zeros(n) == [i \in 1..n |-> 0]

(* value_encoding *)
ValueEncoding(v) == Min({enc \in Widths : Fits(v, enc)})

(* The loop of search between the positions low and high: where v is, or
   where it belongs *)
RECURSIVE Bisect(_, _, _, _)
Bisect(s, v, low, high) ==
    LET mid == low + (high - low) \div 2 IN
    IF low > high THEN [found |-> FALSE, at |-> low]
    ELSE IF v < IntGet(s, mid) THEN Bisect(s, v, low, mid - 1)
    ELSE IF IntGet(s, mid) < v THEN Bisect(s, v, mid + 1, high)
    ELSE [found |-> TRUE, at |-> mid]

Search(s, v) ==
    IF IntLen(s) = 0 \/ v < IntGet(s, 0) THEN [found |-> FALSE, at |-> 0]
    ELSE IF IntGet(s, IntLen(s) - 1) < v THEN [found |-> FALSE, at |-> IntLen(s)]
    ELSE Bisect(s, v, 0, IntLen(s) - 1)

-----------------------------------------------------------------------------
(* Mutant: the first value moves first. *)
RECURSIVE WidenFromFirst(_, _, _, _, _)
WidenFromFirst(bytes, n, shift, old, new) ==
    IF n = 0 THEN bytes
    ELSE LET before == WidenFromFirst(bytes, n - 1, shift, old, new)
         IN SetByEnc(before, n - 1 + shift, new, GetByEnc(before, n - 1, old))

(* The loop of upgrade_and_add: the first n values move to wide places, the
   last one first, each read with the old width from the same array. *)
RECURSIVE Widen(_, _, _, _, _)
Widen(bytes, n, shift, old, new) ==
    IF n = 0 THEN bytes
    ELSE Widen(SetByEnc(bytes, n - 1 + shift, new, GetByEnc(bytes, n - 1, old)), n - 1, shift, old, new)

UpgradeAndAdd(s, v) ==
    LET n == IntLen(s)
        new == ValueEncoding(v)
        room == s.bytes \o Zeros((n + 1) * new - Len(s.bytes))
        first == v < GetByEnc(room, 0, s.enc)
        widened == Widen(room, n, IF first THEN 1 ELSE 0, s.enc, new)
    IN [enc |-> new, bytes |-> SetByEnc(widened, IF first THEN 0 ELSE n, new, v)]

(* move_tail by one place up or down *)
Opened(s, pos) ==
    [s EXCEPT !.bytes = SubSeq(@, 1, pos * s.enc) \o Zeros(s.enc) \o SubSeq(@, pos * s.enc + 1, Len(@))]
Closed(s, pos) ==
    [s EXCEPT !.bytes = SubSeq(@, 1, pos * s.enc) \o SubSeq(@, (pos + 1) * s.enc + 1, Len(@))]

IntAdd(s, v) ==
    LET found == Search(s, v)
        open == Opened(s, found.at)
    IN IF ValueEncoding(v) > s.enc THEN UpgradeAndAdd(s, v)
       ELSE IF found.found THEN s
       ELSE [open EXCEPT !.bytes = SetByEnc(@, found.at, s.enc, v)]

IntHas(s, v) == Search(s, v).found

IntRemove(s, v) ==
    IF ValueEncoding(v) > s.enc \/ ~IntHas(s, v) THEN s ELSE Closed(s, Search(s, v).at)

(* The values from first to last *)
IntValues(s) == [i \in 1..IntLen(s) |-> IntGet(s, i - 1)]
=============================================================================
