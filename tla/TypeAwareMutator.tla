-------------------------- MODULE TypeAwareMutator --------------------------
(***************************************************************************)
(* MutateByType of tracing/mutation/type_aware_mutator.go: how a value of  *)
(* an ABI type is mutated.  The number of the variant chooses a strategy   *)
(* and then, modulo another length, what the strategy does.                *)
(*                                                                         *)
(* A type is [kind, size]; an address, a string and bytes are sequences of *)
(* bytes, a bool is 0 or 1, an integer an integer.  Integers of 8 to 64    *)
(* bits are Go's own and wrap; wider ones do not.  random stands for what  *)
(* crypto/rand returns.                                                    *)
(***************************************************************************)
EXTENDS StepMutation

CONSTANTS
    AddressBytes,     \* bytes of an address: 20 in the code
    Max32,            \* the largest uint32
    KnownAddresses    \* the chain's well-known addresses, a sequence

ASSUME TypeAwareMutatorAssumption ==
    /\ AddressBytes \in 1..WordBytes
    /\ Max32 \in Nat \ {0}
    /\ KnownAddresses \in Seq([1..AddressBytes -> 0..255]) /\ KnownAddresses # <<>>

AddressLimit == Power256[AddressBytes]
ZeroAddress == [p \in 1..AddressBytes |-> 0]
NonNegative(n) == IF n < 0 THEN 0 ELSE n
AtMost(n, bound) == IF n < bound THEN n ELSE bound
\* big.Int.Bytes: no zero byte in front.
MinimalBytes(n, k) ==
    LET bytes == ToBytes(n, k)
        first == {p \in 1..k : \A q \in 1..p : bytes[q] = 0}
    IN  SubSeq(bytes, Cardinality(first) + 1, k)
-----------------------------------------------------------------------------
(* Addresses.                                                              *)

\* The last bytes, one to three of them.
FlipAddressBytes(addr, variant) ==
    [p \in 1..AddressBytes |->
        LET i == AddressBytes - p
        IN  IF i <= variant % 3 THEN (addr[p] + variant + i) % 256 ELSE addr[p]]

\* The sum is copied to the front of the address: without its leading zero
\* bytes it is shifted, and the last bytes stay what they were.
GenerateNearbyAddr(addr, variant) ==
    LET step == (variant % 1000) + 1
        moved == (FromBytes(addr) + (IF variant % 2 = 0 THEN step ELSE -step)) % AddressLimit
        bytes == MinimalBytes(moved, AddressBytes)
    IN  bytes \o SubSeq(addr, Len(bytes) + 1, AddressBytes)

MutateAddress(addr, variant, random) ==
    CASE variant % 5 = 0 -> FlipAddressBytes(addr, variant)
      [] variant % 5 = 1 -> Pick(KnownAddresses, variant)
      [] variant % 5 = 2 -> GenerateNearbyAddr(addr, variant)
      [] variant % 5 = 3 -> ZeroAddress
      [] variant % 5 = 4 -> random
-----------------------------------------------------------------------------
(* Integers.                                                               *)

UintMutationSteps == <<1, 10, 100, 1000, -1, -10, -100, -1000>>
SignedSteps == <<1, -1, 10, -10, 100, -100, 1000, -1000>>
UintBoundaries == <<0, 1, 255, 65535, Max32>>
BitPatterns == <<Max32, 2 * (Max32 \div 3), Max32 \div 3>>
SignedBoundaries ==
    <<-128, 127, -32768, 32767, -(Max32 \div 2) - 1, Max32 \div 2, 0, -1, 1>>

AddStepToBigInt(value, variant) == NonNegative(value + Pick(UintMutationSteps, variant))
SetSpecialValues(value, variant) == IF value = 0 THEN 1 ELSE 2^(variant % 9)

MutateBigUint(value, variant) ==
    CASE variant % 5 = 0 -> AddStepToBigInt(value, variant)
      [] variant % 5 = 1 -> value * Pick(<<2, 10, 0>>, variant)
      [] variant % 5 = 2 -> Pick(UintBoundaries, variant)
      [] variant % 5 = 3 -> Pick(BitPatterns, variant)
      [] variant % 5 = 4 -> SetSpecialValues(value, variant)

\* mutateUint8 to mutateUint64.
MutateUintN(value, max, variant) ==
    LET wrap(n) == n % (max + 1)
    IN  Pick(<<wrap(value + 1), wrap(value - 1), 0, max, max - value, wrap(2 * value),
               value \div 2>>, variant)

MutateBigInt(value, variant) ==
    CASE variant % 3 = 0 -> value + Pick(SignedSteps, variant)
      [] variant % 3 = 1 -> -value
      [] variant % 3 = 2 -> Pick(SignedBoundaries, variant)

\* mutateInt8 to mutateInt64: the smallest value is its own negation.
MutateIntN(value, max, variant) ==
    LET wrap(n) == ((n + max + 1) % (2 * max + 2)) - max - 1
    IN  Pick(<<wrap(value + 1), wrap(value - 1), 0, max, -max - 1, wrap(-value),
               IF value < 0 THEN -value - max - 2 ELSE max - value>>, variant)
-----------------------------------------------------------------------------
(* Strings and bytes.                                                      *)

\* truncateString and truncateBytes.
Truncate(value, variant) ==
    LET n == Len(value)
    IN  IF n <= 1 THEN <<>> ELSE SubSeq(value, 1, Pick(<<0, 1, n \div 2, n - 1>>, variant))

\* An empty string becomes one character, and a string is cut to 1000 of them.
RepeatString(value, variant) ==
    LET wanted == Pick(<<2, 3, 10>>, variant)
        n == Len(value)
        times == IF n * wanted <= 1000 THEN wanted ELSE IF 1000 \div n < 1 THEN 1 ELSE 1000 \div n
    IN  IF n = 0 THEN <<120>> ELSE [i \in 1..(n * times) |-> value[((i - 1) % n) + 1]]

\* Text stands for the literals: what is appended, put in front or put instead.
Text == <<116, 101>>
MutateString(value, variant) ==
    CASE variant % 7 \in {0, 6} -> value \o Text
      [] variant % 7 = 1 -> Text \o value
      [] variant % 7 = 2 -> Truncate(value, variant)
      [] variant % 7 = 3 -> IF variant % 5 = 0 THEN <<>> ELSE Text
      [] variant % 7 = 4 -> <<>>
      [] variant % 7 = 5 -> RepeatString(value, variant)

\* Positions are taken modulo the length, so two flips may meet and cancel.
FlipBytes(value, variant) ==
    LET n == Len(value)
        flips(p) == {i \in 0..AtMost(variant % 3, n - 1) : (variant + i) % n = p - 1}
    IN  [p \in 1..n |-> IF Cardinality(flips(p)) % 2 = 1 THEN 255 - value[p] ELSE value[p]]

MutateBytes(value, variant) ==
    IF value = <<>> THEN Text
    ELSE CASE variant % 5 = 0 -> FlipBytes(value, variant)
           [] variant % 5 = 1 -> value \o Pick(<<<<0>>, <<255>>, <<170>>, <<85>>, Text>>, variant)
           [] variant % 5 = 2 -> Truncate(value, variant)
           [] variant % 5 = 3 -> Pick(<<<<>>, <<0>>, <<255>>, Text, Text>>, variant)
           [] variant % 5 = 4 -> <<>>

\* Arrays of 1, 4 and 32 bytes have one byte XORed with the variant.
XorByte(a, b) ==
    FoldLeft(LAMBDA n, bit : n + IF (a \div bit) % 2 = (b \div bit) % 2 THEN 0 ELSE bit, 0,
             <<1, 2, 4, 8, 16, 32, 64, 128>>)
MutateFixedBytes(value, variant) ==
    IF Len(value) \in {1, 4, WordBytes}
    THEN [value EXCEPT ![(variant % Len(value)) + 1] = XorByte(@, variant % 256)] ELSE value

\* An integer of one of Go's sizes is Go's own, any other a big.Int.
GoSized(type) == type.size \in {8, 16, 32, 64}
\* How many values such an integer has.
GoLimit(type) == Power256[type.size \div 8]

\* Arrays and types it does not know are returned as they are.
MutateByType(type, value, variant, random) ==
    CASE type.kind = "address" -> MutateAddress(value, variant, random)
      [] type.kind = "uint" -> IF GoSized(type) THEN MutateUintN(value, GoLimit(type) - 1, variant)
                               ELSE MutateBigUint(value, variant)
      [] type.kind = "int" -> IF GoSized(type) THEN MutateIntN(value, GoLimit(type) \div 2 - 1, variant)
                              ELSE MutateBigInt(value, variant)
      [] type.kind = "bool" -> 1 - value
      [] type.kind = "string" -> MutateString(value, variant)
      [] type.kind = "bytes" -> MutateBytes(value, variant)
      [] type.kind = "fixedBytes" -> MutateFixedBytes(value, variant)
      [] OTHER -> value

\* getMutationStrategies of the type: how many strategies there are.
GetMutationStrategies(type) ==
    CASE type.kind \in {"address", "uint", "int", "bytes"} -> 5
      [] type.kind = "string" -> 7
      [] type.kind = "fixedBytes" -> 3
      [] OTHER -> 1
=============================================================================
