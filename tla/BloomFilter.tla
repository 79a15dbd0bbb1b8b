---------------------------- MODULE BloomFilter ----------------------------
(***************************************************************************)
(* The Bloom filter of a table (src/bloom_filter.cpp).  The two hashes of  *)
(* a key, Hash with its two seeds, are arbitrary numbers; everything that  *)
(* is done with them is here.  A filter is the number of its hashes, its   *)
(* size in bytes and the set of the bits that are set.                     *)
(***************************************************************************)
EXTENDS Integers, FiniteSets

CONSTANTS Key,         \* the keys
          Hash1,       \* Hash(key, 0xbc9f1d34)
          Hash2,       \* Hash(key, 0xef017832)
          BitsPerKey   \* options.bloom_bits_per_key

ASSUME HashAssumption == Hash1 \in [Key -> Nat] /\ Hash2 \in [Key -> Nat]
ASSUME BitsPerKeyAssumption == BitsPerKey \in Nat

\* bits_per_key * ln(2), at least 1 and at most 30.
NumHashes ==
  LET k == (BitsPerKey * 6931) \div 10000
  IN  IF k < 1 THEN 1 ELSE IF k > 30 THEN 30 ELSE k

\* Mutant: the bits of the keys are taken before the size is rounded.
AtLeast64(num_keys) ==
  IF num_keys * BitsPerKey < 64 THEN 64 ELSE num_keys * BitsPerKey

\* At least 64 bits, rounded up to whole bytes.
NumBits(num_keys) == ((AtLeast64(num_keys) + 7) \div 8) * 8

\* Double hashing: the i-th of the bits of a key.
BitPos(key, i, num_bits) == (Hash1[key] + i * Hash2[key]) % num_bits

Bits(key, num_hashes, num_bits) ==
  {BitPos(key, i, num_bits) : i \in 0 .. num_hashes - 1}

NoFilter == [num_hashes |-> NumHashes, num_bytes |-> 0, bits |-> {}]

CreateFilter(keys) ==
  LET n == Cardinality(keys)
  IN  IF keys = {} THEN NoFilter
      ELSE [num_hashes |-> NumHashes,
            num_bytes |-> (AtLeast64(n) + 7) \div 8,
            bits |-> UNION {Bits(key, NumHashes, NumBits(n)) : key \in keys}]

\* All bits of the key are set.  The reader knows what is in the file.
MayContain(filter, key) ==
  /\ filter.num_bytes > 0
  /\ Bits(key, filter.num_hashes, filter.num_bytes * 8) \subseteq filter.bits
=============================================================================
