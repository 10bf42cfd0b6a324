---------------------------- MODULE InputModifier ----------------------------
(***************************************************************************)
(* ModifyInputDataByStrategy of tracing/mutation/modifier.go: the input    *)
(* data of a call with a parameter mutated, by its ABI type when the       *)
(* contract's ABI has the method, by rules on the raw words when not.      *)
(*                                                                         *)
(* An ABI is a function from selectors to the types of the parameters,     *)
(* types of one word each; packing and unpacking are go-ethereum's.        *)
(***************************************************************************)
EXTENDS TypeAwareMutator

ParamCount(input) ==
    IF Len(input) <= SelectorBytes THEN 0 ELSE (Len(input) - SelectorBytes) \div WordBytes
WordOf(input, k) == SubSeq(input, SelectorBytes + k * WordBytes + 1,
                           SelectorBytes + (k + 1) * WordBytes)
ReplaceWord(input, k, word) ==
    LET start == SelectorBytes + k * WordBytes
    IN  SubSeq(input, 1, start) \o word \o SubSeq(input, start + WordBytes + 1, Len(input))
\* copy(result[paramStart+32-len(valueBytes):], valueBytes): a value of 33 bytes
\* starts on the byte before the parameter.
WriteValue(input, k, value) ==
    LET start == SelectorBytes + k * WordBytes
        written == ReplaceWord(input, k, ToBytes(value, WordBytes))
    IN  IF value < WordLimit THEN written
        ELSE [written EXCEPT ![start] = value \div WordLimit]
\* The strategies that go on to the next parameter after a round of their choices.
Target(input, choices, variant) == (variant \div Len(choices)) % ParamCount(input)
-----------------------------------------------------------------------------
(* Without the ABI.                                                        *)

\* Every parameter that starts as an address does; change maps its last two bytes.
ChangeAddresses(input, change(_, _)) ==
    [p \in 1..Len(input) |->
        LET k == (p - SelectorBytes - 1) \div WordBytes
            place == (p - SelectorBytes - 1) % WordBytes
        IN  IF /\ p > SelectorBytes /\ k < ParamCount(input)
               /\ \A q \in 1..(WordBytes - AddressBytes) : WordOf(input, k)[q] = 0
            THEN change(input[p], WordBytes - 1 - place) ELSE input[p]]

MutateAddressesInParams(input, variant) ==
    ChangeAddresses(input, LAMBDA b, fromEnd : IF fromEnd = 0 THEN (b + variant) % 256 ELSE b)
MutateAddressesNearby(input, variant) ==
    ChangeAddresses(input, LAMBDA b, fromEnd :
        CASE fromEnd = 0 -> (b + variant) % 256
          [] fromEnd = 1 -> (b + 1000 + 100 * variant) % 256
          [] OTHER -> b)

MutateUintBoundary(input, variant) ==
    LET boundaries == <<[p \in 1..WordBytes |-> 0], [p \in 1..WordBytes |-> 255]>>
    IN  ReplaceWord(input, Target(input, boundaries, variant), Pick(boundaries, variant))

ParamSteps == <<1, -1, 10, -10, 100, -100, 1000, -1000>>
MutateUintStep(input, variant) ==
    LET k == Target(input, ParamSteps, variant)
    IN  WriteValue(input, k, NonNegative(FromBytes(WordOf(input, k)) + Pick(ParamSteps, variant)))

\* A product that does not fit leaves the parameter zero.
Multipliers == <<2, 10, 100, 1000>>
MutateUintMultiplier(input, variant) ==
    LET k == Target(input, Multipliers, variant)
        value == FromBytes(WordOf(input, k))
        fits == value <= (WordLimit - 1) \div Pick(Multipliers, variant)
    IN  WriteValue(input, k, IF fits THEN value * Pick(Multipliers, variant) ELSE 0)

MutateBoolFlip(input, variant) ==
    LET k == variant % ParamCount(input)
    IN  [input EXCEPT ![SelectorBytes + (k + 1) * WordBytes] = IF @ = 0 THEN 1 ELSE 0]

Patterns == <<0, 255, 170, 85, 222, 173, 190, 239>>
MutateBytePatterns(input, variant) ==
    ReplaceWord(input, Target(input, Patterns, variant),
                [p \in 1..WordBytes |-> Pick(Patterns, variant)])

LengthVariations == <<0, 1, 32, 64, 1000, 10000>>
MutateStringLength(input, variant) ==
    WriteValue(input, variant % ParamCount(input), Pick(LengthVariations, variant))

ModifyInputDataDefault(input, variant) ==
    LET n == Len(input) - SelectorBytes
        bump(data, p, by) == [data EXCEPT ![SelectorBytes + p + 1] = (@ + by) % 256]
        first == bump(input, variant % n, variant + 1)
    IN  IF n = 0 THEN input
        ELSE IF variant > 10 /\ n > WordBytes
             THEN bump(first, (7 * variant) % n, 2 * variant) ELSE first

ModifyInputDataBasicStrategy(input, strategy, variant) ==
    CASE strategy = "address_known_substitution" -> MutateAddressesInParams(input, variant)
      [] strategy = "address_nearby_mutation" -> MutateAddressesNearby(input, variant)
      [] strategy = "uint256_boundary_values" -> MutateUintBoundary(input, variant)
      [] strategy = "uint256_step_increment" -> MutateUintStep(input, variant)
      [] strategy = "uint256_multiplier" -> MutateUintMultiplier(input, variant)
      [] strategy = "bool_flip" -> MutateBoolFlip(input, variant)
      [] strategy = "bytes_pattern_fill" -> MutateBytePatterns(input, variant)
      [] strategy = "string_length_mutation" -> MutateStringLength(input, variant)
      [] OTHER -> ModifyInputDataDefault(input, variant)
-----------------------------------------------------------------------------
(* With the ABI.                                                           *)

\* Arguments.Unpack: a bool is 0 or 1, an integer of one of Go's sizes fits it.
Signed(word) ==
    LET n == FromBytes(word) IN IF 2 * n < WordLimit THEN n ELSE n - WordLimit
Decodes(type, word) ==
    CASE type.kind = "bool" -> FromBytes(word) <= 1
      [] type.kind = "uint" /\ GoSized(type) -> FromBytes(word) < GoLimit(type)
      [] type.kind = "int" /\ GoSized(type) ->
           -GoLimit(type) <= 2 * Signed(word) /\ 2 * Signed(word) < GoLimit(type)
      [] OTHER -> TRUE
Unpacks(types, input) ==
    /\ Len(input) - SelectorBytes >= Len(types) * WordBytes
    /\ \A k \in 1..Len(types) : Decodes(types[k], WordOf(input, k - 1))
Unpack(types, input) ==
    [k \in 1..Len(types) |->
        LET word == WordOf(input, k - 1)
        IN  CASE types[k].kind = "address" -> SubSeq(word, WordBytes - AddressBytes + 1, WordBytes)
              [] types[k].kind = "int" -> Signed(word)
              [] OTHER -> FromBytes(word)]
\* Arguments.Pack: a word per parameter, integers modulo the word.
PackWord(type, value) ==
    IF type.kind = "address" THEN [p \in 1..(WordBytes - AddressBytes) |-> 0] \o value
    ELSE ToBytes(value % WordLimit, WordBytes)
Pack(types, values) ==
    [p \in 1..(Len(types) * WordBytes) |->
        LET k == ((p - 1) \div WordBytes) + 1
        IN  PackWord(types[k], values[k])[((p - 1) % WordBytes) + 1]]

\* The strategy is not looked at: the variant chooses the parameter, and its
\* type what happens to it.
MutateParametersByStrategy(types, values, variant, random) ==
    LET target == (variant % Len(values)) + 1
    IN  [values EXCEPT ![target] = MutateByType(types[target], @, variant, random)]

\* The method is in the ABI and its parameters can be read.
UsesABI(abi, input) ==
    Selector(input) \in DOMAIN abi /\ Unpacks(abi[Selector(input)], input)
\* variant % len(values) divides by zero for a method without parameters.
ModifyPanics(abi, input) == UsesABI(abi, input) /\ abi[Selector(input)] = <<>>

ModifyInputDataWithStrategy(abi, input, strategy, variant, random) ==
    LET types == abi[Selector(input)]
    IN  IF UsesABI(abi, input)
        THEN Selector(input) \o
             Pack(types, MutateParametersByStrategy(types, Unpack(types, input), variant, random))
        ELSE ModifyInputDataBasicStrategy(input, strategy, variant)
=============================================================================
