------------------------------- MODULE Netset -------------------------------
(***************************************************************************)
(* Address sets (internal/netset/netset.go): what a list of CIDRs covers,  *)
(* as sorted intervals of W-bit addresses, and the set operations on them. *)
(* The arithmetic is that of the code, in words of W bits that wrap; the   *)
(* code's W is 32.  Two lists grow one CIDR at a time.                     *)
(***************************************************************************)
EXTENDS Integers, Sequences, FiniteSets

Seqs == INSTANCE SequencesExt

CONSTANTS
  W,          \* bits of an address
  MaxRanges   \* bound: CIDRs in both lists together

ASSUME WidthAssumption == W \in Nat \ {0} /\ MaxRanges \in Nat

VARIABLES left, right   \* two lists of CIDRs

vars == <<left, right>>

-----------------------------------------------------------------------------
\* 1 << n
Power[n \in Nat] == IF n = 0 THEN 1 ELSE 2 * Power[n - 1]

Top == Power[W] - 1
Word(n) == n % Power[W]
Cidr == [addr : 0..Top, bits : 0..W]

\* The host bits are masked; the shift by a whole word yields 0, and 0 - 1 wraps.
IntervalOf(c) ==
  LET lo == c.addr - (c.addr % Power[W - c.bits])
  IN [lo |-> lo, hi |-> Word(lo + Word(Word(Power[W - c.bits]) - 1))]

Before(x, y) == x.lo < y.lo \/ (x.lo = y.lo /\ x.hi < y.hi)

\* The intervals in order: each has as many before it as its place says.
Sorted(intervals) ==
  [i \in 1..Cardinality(intervals) |->
     CHOOSE x \in intervals : Cardinality({y \in intervals : Before(y, x)}) = i - 1]

\* Mutant: adjacent intervals stay apart.
MergedOverlapping(merged, iv) ==
  LET n == Len(merged) IN
  IF iv.lo > merged[n].hi THEN Append(merged, iv)
  ELSE IF iv.hi > merged[n].hi THEN [merged EXCEPT ![n].hi = iv.hi]
  ELSE merged

\* One turn of normalize: an interval that overlaps or adjoins the last one
\* extends it.
Merged(merged, iv) ==
  LET n == Len(merged)  last == merged[n] IN
  IF iv.lo <= last.hi \/ (last.hi # Top /\ iv.lo = Word(last.hi + 1))
  THEN IF iv.hi > last.hi THEN [merged EXCEPT ![n].hi = iv.hi] ELSE merged
  ELSE Append(merged, iv)

\* Of equal intervals all but the first change nothing, so what is normalized is
\* the set of them.
Normalize(intervals) ==
  LET sorted == Sorted(intervals)
      merged[i \in 1..Len(sorted)] ==
        IF i = 1 THEN <<sorted[1]>> ELSE Merged(merged[i - 1], sorted[i])
  IN IF intervals = {} THEN <<>> ELSE merged[Len(sorted)]

Parse(cidrs) == Normalize({IntervalOf(cidrs[i]) : i \in DOMAIN cidrs})

Contains(s, a) == \E i \in DOMAIN s : s[i].lo <= a /\ a <= s[i].hi
CoversAll(s) == s = <<[lo |-> 0, hi |-> Top]>>
Union(s, t) == Normalize({s[i] : i \in DOMAIN s} \cup {t[j] : j \in DOMAIN t})

\* Mutant: an overlap of one address is taken for none.
IntersectProper(s, t) ==
  LET overlap(x, y) == [lo |-> IF y.lo > x.lo THEN y.lo ELSE x.lo,
                        hi |-> IF y.hi < x.hi THEN y.hi ELSE x.hi]
  IN Normalize({iv \in {overlap(s[i], t[j]) : i \in DOMAIN s, j \in DOMAIN t} : iv.lo < iv.hi})

Intersect(s, t) ==
  LET overlap(x, y) == [lo |-> IF y.lo > x.lo THEN y.lo ELSE x.lo,
                        hi |-> IF y.hi < x.hi THEN y.hi ELSE x.hi]
  IN Normalize({iv \in {overlap(s[i], t[j]) : i \in DOMAIN s, j \in DOMAIN t} : iv.lo <= iv.hi})

\* The largest block that begins at lo and ends by hi.
Bits(lo, hi) ==
  LET fits(b) == Power[W - b] <= hi - lo + 1 /\ lo % Power[W - b] = 0
  IN CHOOSE bits \in 0..W : fits(bits) /\ \A b \in 0..W : fits(b) => bits <= b

\* Prefixes of one interval, from its low end on, in words wide enough for Top + 1.
PrefixesOf(iv) ==
  LET from[lo \in 0..(Top + 1)] ==
        IF lo > iv.hi THEN <<>>
        ELSE LET bits == Bits(lo, iv.hi)
             IN <<[addr |-> lo, bits |-> bits]>> \o from[lo + Power[W - bits]]
  IN from[iv.lo]

Prefixes(s) == Seqs!FlattenSeq([i \in DOMAIN s |-> PrefixesOf(s[i])])
Equal(s, t) == Prefixes(s) = Prefixes(t)

-----------------------------------------------------------------------------
Init == left = <<>> /\ right = <<>>

Room == Len(left) + Len(right) < MaxRanges

AddLeft == Room /\ \E c \in Cidr : left' = Append(left, c) /\ UNCHANGED right
AddRight == Room /\ \E c \in Cidr : right' = Append(right, c) /\ UNCHANGED left

Next == AddLeft \/ AddRight

Spec == Init /\ [][Next]_vars

-----------------------------------------------------------------------------
(* Reference: the addresses that share a CIDR's leading bits.              *)

Block(c) == {a \in 0..Top : a \div Power[W - c.bits] = c.addr \div Power[W - c.bits]}
Covered(cidrs) == UNION {Block(cidrs[i]) : i \in DOMAIN cidrs}
Members(s) == {a \in 0..Top : Contains(s, a)}

\* Parsing, Union and Intersect are those of the covered addresses, at both ends
\* of the address space too; CoversAll knows every spelling of the whole of it;
\* and a parsed set has no two intervals that touch or adjoin.
OperationsAreExact ==
  LET s == Parse(left)  t == Parse(right) IN
  /\ Members(s) = Covered(left)
  /\ \A i, j \in DOMAIN s : i < j => s[i].hi + 1 < s[j].lo
  /\ \A i \in DOMAIN s : s[i].lo <= s[i].hi
  /\ Members(Union(s, t)) = Covered(left) \cup Covered(right)
  /\ Members(Intersect(s, t)) = Covered(left) \cap Covered(right)
  /\ CoversAll(Union(s, t)) <=> Covered(left) \cup Covered(right) = 0..Top

\* Two lists are Equal exactly when they cover the same addresses, and what is
\* printed reads back as the same set.
OneSpelling ==
  /\ Equal(Parse(left), Parse(right)) <=> Covered(left) = Covered(right)
  /\ Parse(Prefixes(Parse(left))) = Parse(left)
=============================================================================
