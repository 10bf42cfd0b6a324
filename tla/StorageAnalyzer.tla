--------------------------- MODULE StorageAnalyzer ---------------------------
(***************************************************************************)
(* The storage analyzer and the storage type mutator                       *)
(* (tracing/analysis/storage_analyzer.go): the type a slot's value looks   *)
(* like, how important the slot is, which slots a variant mutates and to   *)
(* what.  The numeric limits of the heuristics are constants: what matters *)
(* is their order, which the assumption fixes as it is in the code.        *)
(*                                                                         *)
(* A slot's description is not modelled.  Importance is in hundredths, 0   *)
(* when the contract has no ABI and the analysis stops at the types.       *)
(***************************************************************************)
EXTENDS TypeAwareMutator

CONSTANTS
    MinAddressBytes,   \* an integer below 256^this with fewer bytes that are not zero: 4
    SmallValue,        \* counters and flags are below it: 1000000
    LengthLimit,       \* lengths are up to it: 10000
    CounterMax,        \* filterSlotsLikeCounter: 1000000
    BalanceMin,        \* 10^15
    BalanceMax,        \* 10^27
    FirstSlots         \* slots below it get a bonus: 10

ASSUME StorageAnalyzerAssumption ==
    /\ MinAddressBytes \in 1..AddressBytes
    /\ {SmallValue, LengthLimit, CounterMax, BalanceMin, BalanceMax, FirstSlots} \subseteq Nat
    /\ LengthLimit < SmallValue /\ SmallValue <= CounterMax
    /\ CounterMax < BalanceMin /\ BalanceMin <= BalanceMax

\* Zero up to the address, and enough of its bytes not zero.
LooksLikeAddress(value) ==
    LET bytes == ToBytes(value, WordBytes)
        nonZero == Cardinality({p \in 1..WordBytes : bytes[p] # 0})
    IN  /\ \A p \in 1..(WordBytes - AddressBytes) : bytes[p] = 0
        /\ nonZero > 0
        /\ nonZero < MinAddressBytes => value >= 256^MinAddressBytes

LooksLikeLength(value) == value <= LengthLimit
LooksLikeBalance(value) == BalanceMin <= value /\ value <= BalanceMax

\* No value is taken for a mapping or an array.
InferSlotType(value) ==
    IF value = 0 THEN "empty"
    ELSE IF value = 1 THEN "bool"
    ELSE IF LooksLikeAddress(value) THEN "address"
    ELSE IF value < SmallValue \/ LooksLikeLength(value) THEN "uint256"
    ELSE "bytes32"

CalculateSlotImportance(slot, type, value) ==
    LET base ==
            CASE type = "address" -> 90
              [] type = "uint256" -> IF LooksLikeBalance(value) THEN 95 ELSE 70
              [] type = "bool" -> 60
              [] type = "mapping" -> 85
              [] type = "array" -> 75
              [] type = "empty" -> 10
              [] OTHER -> 50
    IN  AtMost(base + IF slot < FirstSlots THEN 10 ELSE 0, 100)

\* The slots come in the order Go's map gives them.
AnalyzeContractStorage(storage, order, hasABI) ==
    [k \in 1..Len(order) |->
        LET value == storage[order[k]]
            type == InferSlotType(value)
        IN  [slot |-> order[k], value |-> value, type |-> type,
             score |-> IF hasABI THEN CalculateSlotImportance(order[k], type, value) ELSE 0]]

GetMutationStrategiesForSlot(info) ==
    {"step_increment", "step_decrement"} \cup
    (CASE info.type = "address" -> {"known_addresses", "zero_address", "flip_bytes"}
       [] info.type = "uint256" ->
            {"boundary_values", "multiplication", "bit_patterns"} \cup
            IF LooksLikeBalance(info.value) THEN {"balance_scaling", "zero_balance"} ELSE {}
       [] info.type = "bool" -> {"boolean_flip"}
       [] info.type = "bytes32" -> {"byte_flip", "pattern_fill", "hash_collision"}
       [] OTHER -> {}) \cup
    IF info.score > 80 THEN {"conservative_mutation"} ELSE {}
-----------------------------------------------------------------------------
(* The storage type mutator.                                               *)

MaxSlots == 3

Important(infos) == Sublist(infos, {k \in 1..Len(infos) : infos[k].score > 50})

\* Bug form: the parity plays no part.
SelectSlotsUpToMax(infos, variant) ==
    LET important == Important(infos)
    IN  {important[k].slot : k \in 1..AtMost(MaxSlots, Len(important))}

\* The parity that lets a slot in changes when one is taken.
SelectSlotsForMutation(infos, variant) ==
    LET important == Important(infos)
        taken[n \in 0..Len(important)] ==   \* after the first n of them
            IF n = 0 THEN {}
            ELSE LET count == Cardinality(taken[n - 1])
                 IN  IF count < AtMost(MaxSlots, Len(infos)) /\ (variant + count) % 2 = 0
                     THEN taken[n - 1] \cup {important[n].slot} ELSE taken[n - 1]
        slots == taken[Len(important)]
    IN  IF slots = {} /\ infos # <<>> THEN {Pick(infos, variant).slot} ELSE slots

SlotSteps == <<1, -1, 10, -10, 100, -100, 1000, -1000>>
MutateGenericSlot(value, variant) == BigToHash(NonNegative(value + Pick(SlotSteps, variant)))

MutateAddressSlot(value, variant, random) ==
    LET addr == SubSeq(ToBytes(value, WordBytes), WordBytes - AddressBytes + 1, WordBytes)
    IN  FromBytes(MutateByType([kind |-> "address", size |-> 0], addr, variant, random))
MutateUintSlot(value, variant) ==
    BigToHash(MutateByType([kind |-> "uint", size |-> 256], value, variant, ZeroAddress))
MutateBytesSlot(value, variant) == FromBytes(FlipBytes(ToBytes(value, WordBytes), variant))

MutateSlotValue(info, variant, random) ==
    CASE info.type = "address" -> MutateAddressSlot(info.value, variant, random)
      [] info.type = "uint256" -> MutateUintSlot(info.value, variant)
      [] info.type = "bool" -> IF info.value = 0 THEN 1 ELSE 0
      [] info.type = "bytes32" -> MutateBytesSlot(info.value, variant)
      [] OTHER -> MutateGenericSlot(info.value, variant)

MutateStorage(storage, order, hasABI, variant, random) ==
    LET infos == AnalyzeContractStorage(storage, order, hasABI)
        chosen == SelectSlotsForMutation(infos, variant)
    IN  [slot \in DOMAIN storage |->
            IF slot \in chosen
            THEN MutateSlotValue(CHOOSE info \in ToSet(infos) : info.slot = slot, variant, random)
            ELSE storage[slot]]
=============================================================================
