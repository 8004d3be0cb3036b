--------------------------- MODULE BlockedFilter ---------------------------
(***************************************************************************)
(* The blocked Bloom filter (bloomfs-bloom).  A key is its 128-bit hash,   *)
(* here a record of a high and a low word.  The high word picks one block, *)
(* the low word the K bits inside it; a filter is the set of the bits that *)
(* are set.                                                                *)
(***************************************************************************)
EXTENDS Naturals

CONSTANTS
    HalfWord,    \* 2^32, the modulus of the probe arithmetic
    BlockBits,   \* bits in a block
    NumBlocks,
    K            \* probes per key

ASSUME FilterAssumption ==
    /\ HalfWord \in Nat \ {0} /\ BlockBits \in Nat \ {0}
    /\ NumBlocks \in Nat \ {0} /\ K \in Nat \ {0}

Keys == [hi : 0 .. HalfWord * HalfWord - 1, lo : 0 .. HalfWord * HalfWord - 1]

\* fastrange: the high word scaled down to a block.
BlockOf(key) == (key.hi * NumBlocks) \div (HalfWord * HalfWord)

\* The first probe, and the stride, made odd.
H1(key) == key.lo % HalfWord
H2(key) == ((key.lo \div HalfWord) \div 2) * 2 + 1

\* Enhanced double hashing: the stride grows by the number of the probe.
Probe(key) ==
    LET p[i \in 0 .. K] ==
            IF i = 0 THEN [a |-> H1(key), b |-> H2(key)]
            ELSE [a |-> (p[i - 1].a + p[i - 1].b) % HalfWord,
                  b |-> (p[i - 1].b + (i - 1)) % HalfWord]
    IN p

Bits == [key \in Keys |-> {<<BlockOf(key), Probe(key)[i].a % BlockBits>> : i \in 0 .. K - 1}]

FilterBits == UNION {Bits[key] : key \in Keys}

EmptyFilter == {}
AddKey(filter, key) == filter \cup Bits[key]
TestKey(filter, key) == Bits[key] \subseteq filter
=============================================================================
