------------------------------ MODULE BootRanges ------------------------------
(***************************************************************************)
(* The raw disk ranges of the boot filter (BootRangesAreValid and          *)
(* BootWriteIntersectsProtectedRange), with the widths of the code: an     *)
(* offset is a signed 64-bit number, sums are taken modulo 2^64.  Half     *)
(* stands for 2^63.                                                        *)
(***************************************************************************)
EXTENDS Integers, FiniteSets

CONSTANTS
  Half,          \* 2^63
  MaxRanges,     \* XDOWS_BOOT_MAX_RANGES
  RangeMaxBytes, \* XDOWS_BOOT_RANGE_MAX_BYTES
  MaxLength      \* the largest ULONG write length

ASSUME WidthAssumption ==
  /\ Half \in Nat \ {0} /\ MaxRanges \in Nat \ {0}
  /\ RangeMaxBytes \in Nat \ {0} /\ RangeMaxBytes <= Half
  /\ MaxLength \in Nat /\ MaxLength <= Half

Offsets == (-Half)..(Half - 1)
U64 == 0..(2 * Half - 1)

\* The sum of two unsigned numbers, reduced once: each is below the modulus.
Plus(a, b) == IF a + b >= 2 * Half THEN a + b - 2 * Half ELSE a + b

\* A range of a CONFIGURE request.
RawRange == [offset : Offsets, length : U64]
RangeIsValid(r) ==
  /\ r.offset >= 0
  /\ r.length # 0
  /\ r.length <= RangeMaxBytes
  /\ Plus(r.offset, r.length) >= r.offset
RangesAreValid(rs) ==
  /\ rs # {} /\ Cardinality(rs) <= MaxRanges
  /\ \A r \in rs : RangeIsValid(r)

OverlapsMutClosed(start, end, r) ==
  start < Plus(r.offset, r.length) /\ r.offset <= end
Overlaps(start, end, r) ==
  start < Plus(r.offset, r.length) /\ r.offset < end

\* A write before the start of the disk, or one whose end wraps, counts as a hit.
Intersects(offset, length, rs) ==
  IF offset < 0 \/ length = 0 THEN offset < 0
  ELSE \/ Plus(offset, length) < offset
       \/ \E r \in rs : Overlaps(offset, Plus(offset, length), r)

\* The bytes a write or a range covers.
Bytes(offset, length) == {b \in U64 : offset <= b /\ b < offset + length}

\* On the ranges CONFIGURE accepts, the test is exact: a write on the disk is caught if
\* and only if it touches a protected byte (BootWriteIntersectsProtectedRange).
TestIsExactFor(offset, length, rs) ==
  Intersects(offset, length, rs) <=>
    \E r \in rs : Bytes(offset, length) \cap Bytes(r.offset, r.length) # {}
=============================================================================
