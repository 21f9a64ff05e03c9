------------------------------ MODULE ZipList ------------------------------
(***************************************************************************)
(* The list packed in one array of bytes.  An entry begins with the length *)
(* of the one before it, by which the list is read backwards; the header   *)
(* has the offset of the last entry and the number of entries.             *)
(*                                                                         *)
(* An offset counts from the first entry.  The model has entries so short  *)
(* (ShortAssumption) that the previous length is one byte wherever they    *)
(* are; the code means to widen it in place for longer ones.  The bytes of *)
(* an element are its spelling, or the integer if it spells one.           *)
(***************************************************************************)
EXTENDS Integers, Sequences, SequencesExt, FiniteSetsExt, Functions, TLC

CONSTANTS
    Items,
    BytesOf,    \* the encoding with its content, of each item
    Large,      \* 254: a previous length with more than a byte
    UpgradeLen, \* 7 items
    UpgradeSize \* 65536 bytes

(* No item is between the lengths a zip list has room for in the model and
   those for which a push gives it up. *)
ASSUME ShortAssumption ==
    /\ BytesOf \in [Items -> Nat \ {0}]
    /\ \A x \in Items : BytesOf[x] + 1 < Large \/ BytesOf[x] > UpgradeSize

Short(x) == BytesOf[x] + 1 < Large

ZipNew == [at |-> << >>, end |-> 0, tail |-> 0, len |-> 0]

(* parse_blob_len *)
Blob(z, off) == 1 + BytesOf[z.at[off].value]

MoveNext(z, off) == off + Blob(z, off)
MovePrev(z, off) == off - z.at[off].prev

(* The entries from an offset on, further up or down by so many bytes *)
Spliced(at, from, by) ==
    [o \in {IF p < from THEN p ELSE p + by : p \in DOMAIN at} |->
        IF o < from + by /\ o < from THEN at[o] ELSE at[o - by]]

(* inner_insert.  Before another entry, the length of the previous one is what
   that entry has recorded. *)
ZipInsert(z, off, x) ==
    LET prev == IF off # z.end THEN z.at[off].prev
                ELSE IF z.tail # z.end THEN Blob(z, z.tail) ELSE 0
        size == 1 + BytesOf[x]
        moved == Spliced(z.at, off, size)
        entry == off :> [prev |-> prev, value |-> x]
    IN [at |-> entry @@ (IF off = z.end THEN moved ELSE [moved EXCEPT ![off + size].prev = size]),
        end |-> z.end + size,
        tail |-> IF off = z.end THEN off ELSE z.tail + size,
        len |-> z.len + 1]

(* inner_delete of num entries from an offset on *)
ZipDelete(z, off, num) ==
    LET next == FoldLeft(LAMBDA o, i : IF o = z.end THEN o ELSE MoveNext(z, o), off, [i \in 1..num |-> i])
        gone == {o \in DOMAIN z.at : off <= o /\ o < next}
        left == IF next = z.end THEN z.at ELSE [z.at EXCEPT ![next].prev = z.at[off].prev]
    IN IF next = off THEN z
       ELSE [at |-> Spliced(Restrict(left, DOMAIN left \ gone), next, off - next),
             end |-> z.end - (next - off),
             tail |-> IF next = z.end THEN off - z.at[off].prev ELSE z.tail - (next - off),
             len |-> z.len - Cardinality(gone)]

(* Iter and IterRev: the offsets they meet *)
Forward(z) ==
    FoldLeft(LAMBDA s, i : IF s.off = z.end THEN s
                           ELSE [off |-> MoveNext(z, s.off), met |-> Append(s.met, s.off)],
             [off |-> 0, met |-> << >>], [i \in 1..z.len |-> i]).met

Backward(z) ==
    FoldLeft(LAMBDA s, i : IF s.off = z.end \/ s.last THEN s
                           ELSE [off |-> MovePrev(z, s.off), last |-> z.at[s.off].prev = 0,
                                 met |-> Append(s.met, s.off)],
             [off |-> z.tail, last |-> FALSE, met |-> << >>], [i \in 1..z.len |-> i]).met

ItemsAt(z, offs) == [i \in DOMAIN offs |-> z.at[offs[i]].value]
=============================================================================
