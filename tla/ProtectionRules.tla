--------------------------- MODULE ProtectionRules ---------------------------
(***************************************************************************)
(* The on-chain protection rule of a variation of an attack: the modifier  *)
(* makes the variation (StepVariation), createProtectionRule of the attack *)
(* replayer turns its changes into parameter and storage rules with the    *)
(* helpers of tracing/utils/types.go, and validateProtectionRule checks    *)
(* the result.  The repository has these operations and no code that calls *)
(* them one after the other: a caller that may take or leave each          *)
(* modification, the fallbacks included, is modelled.                      *)
(***************************************************************************)
EXTENDS StepVariation

CONSTANTS
    Calls,            \* the attacks: [types, input, storage]
    RuleContracts,    \* the contracts rules are made for
    ZeroContract,     \* the zero address
    RuleStrategies,   \* strategies of the modifier
    MaxVariant        \* bound: variants 0..MaxVariant

\* The types whose values a word holds as they are.
OneWordTypes == [kind : {"uint", "int", "bool", "address"}, size : Nat]

ASSUME RulesAssumption ==
    /\ MaxVariant \in Nat
    /\ \A call \in Calls :
         /\ call.types = NoMethod \/ call.types \in Seq(OneWordTypes)
         /\ call.input \in Seq(0..255)
         /\ IsFiniteSet(DOMAIN call.storage)

VARIABLE protection   \* the attack's call, the variation and its rule

RulesInit ==
    \E call \in Calls, contract \in RuleContracts, typeAware \in BOOLEAN :
        protection = [stage |-> "input", call |-> call, contract |-> contract,
                      typeAware |-> typeAware, input |-> NoModification,
                      storage |-> NoModification, rule |-> [inputs |-> <<>>, storage |-> <<>>],
                      valid |-> FALSE]
-----------------------------------------------------------------------------
(* Rules.                                                                  *)

\* A change of more than a tenth is checked as a range.
Ranged(ratio) == 10 * ratio.num > ratio.den
DetermineCheckType(change) ==
    LET numeric == \E kind \in {"uint", "int"}, size \in {8, 256} : IsKind(change.type, kind, size)
    IN  IF numeric /\ Ranged(change.ratio) THEN "range" ELSE "exact"
DetermineStorageCheckType(change) == IF Ranged(change.ratio) THEN "range" ELSE "exact"

FifthAround(value) == [min |-> NonNegative(value - value \div 5), max |-> value + value \div 5]

\* Bug form: the range is around the original value.
CalculateValueRangeOfOriginal(change) ==
    IF IsBig(change.type) THEN FifthAround(change.original)
    ELSE [min |-> change.original, max |-> change.original]

\* A fifth around a big integer, 20 around a uint8, an int8 itself.
CalculateValueRange(change) ==
    CASE IsBig(change.type) -> FifthAround(change.modified)
      [] IsKind(change.type, "uint", 8) ->
           [min |-> NonNegative(change.modified - 20), max |-> AtMost(change.modified + 20, 255)]
      [] OTHER -> [min |-> change.modified, max |-> change.modified]
CalculateStorageValueRange(change) == FifthAround(change.modified)

\* A rule checks a value against a range or against the modified value alone.
NoRange == [min |-> 0, max |-> 0]
ParameterRule(change) ==
    LET check == DetermineCheckType(change)
    IN  [index |-> change.index, type |-> change.type, value |-> change.modified, check |-> check,
         range |-> IF check = "range" THEN CalculateValueRange(change) ELSE NoRange]
CreateInputProtectionRule(modification) ==
    [k \in 1..Len(modification.changes) |-> ParameterRule(modification.changes[k])]

StorageRule(contract, change) ==
    LET check == DetermineStorageCheckType(change)
    IN  [contract |-> contract, slot |-> change.slot, value |-> change.modified, check |-> check,
         range |-> IF check = "range" THEN CalculateStorageValueRange(change) ELSE NoRange]
DefaultStorageRule(contract) ==
    [contract |-> contract, slot |-> 0, value |-> 1, check |-> "exact", range |-> NoRange]
CreateStorageProtectionRules(modification, contract) ==
    IF modification.changes = <<>> THEN <<DefaultStorageRule(contract)>>
    ELSE [k \in 1..Len(modification.changes) |-> StorageRule(contract, modification.changes[k])]

\* The zero address and slot 0 count as missing.
Addressed(rule) == rule.contract # ZeroContract /\ rule.slot # 0

CreateFallbackProtectionRule(contract) ==
    [inputs |-> <<>>, storage |-> <<DefaultStorageRule(contract)>>]

\* Bug form: storage rules of slot 0 stay, and there is no fallback.
CreateProtectionRuleUnfiltered(contract, input, storage) ==
    [inputs |-> IF input = NoModification THEN <<>> ELSE <<CreateInputProtectionRule(input)>>,
     storage |-> CreateStorageProtectionRules(storage, contract)]

\* A nil modification gives no rule, and no rule at all the fallback.
CreateProtectionRule(contract, input, storage) ==
    LET inputs == IF input = NoModification THEN <<>> ELSE <<CreateInputProtectionRule(input)>>
        rules == CreateStorageProtectionRules(storage, contract)
        slots == IF storage = NoModification THEN <<>>
                 ELSE Sublist(rules, {k \in 1..Len(rules) : Addressed(rules[k])})
    IN  IF inputs = <<>> /\ slots = <<>> THEN CreateFallbackProtectionRule(contract)
        ELSE [inputs |-> inputs, storage |-> slots]

ValidateProtectionRule(rule) ==
    /\ rule.inputs # <<>> \/ rule.storage # <<>>
    /\ \A k \in 1..Len(rule.inputs) : rule.inputs[k] # <<>>
    /\ \A k \in 1..Len(rule.storage) : Addressed(rule.storage[k])
-----------------------------------------------------------------------------
(* The caller.                                                             *)

\* The modification of the input by a strategy or its fallback, or none.
VaryInput ==
    /\ protection.stage = "input"
    /\ \E variant \in 0..MaxVariant, strategy \in RuleStrategies :
         LET call == protection.call
             stepped == GenerateStepBasedInputModification(call.types, call.input, strategy,
                            variant, protection.typeAware, ZeroAddress)
             fallback == GenerateFallbackStepBasedInputModification(call.types, call.input, variant)
             Give(modification) ==
                 protection' = [protection EXCEPT !.stage = "storage", !.input = modification]
         IN  \/ Give(NoModification)
             \/ Give(stepped)
             \/ ~FallbackPanics(call.input, variant) /\ Give(fallback)
             \/ /\ FallbackPanics(call.input, variant) /\ call.types # NoMethod
                /\ protection' = [protection EXCEPT !.stage = "panicked"]

VaryStorage ==
    /\ protection.stage = "storage"
    /\ \E variant \in 0..MaxVariant, strategy \in RuleStrategies,
          order \in SetToSeqs(DOMAIN protection.call.storage) :
         \E modification \in
                {NoModification,
                 GenerateStepBasedStorageModification(
                     protection.call.storage, order, strategy, variant),
                 GenerateFallbackStepBasedStorageModification(
                     protection.call.storage, order, variant)} :
             protection' = [protection EXCEPT !.stage = "create", !.storage = modification]

CreateRule ==
    /\ protection.stage = "create"
    /\ protection' = [protection EXCEPT !.stage = "validate",
           !.rule = CreateProtectionRule(protection.contract, protection.input, protection.storage)]

ValidateRule ==
    /\ protection.stage = "validate"
    /\ protection' = [protection EXCEPT !.stage = "done",
                                        !.valid = ValidateProtectionRule(protection.rule)]

RulesEnd ==
    /\ protection.stage \in {"done", "panicked"}
    /\ UNCHANGED protection

RulesNext == VaryInput \/ VaryStorage \/ CreateRule \/ ValidateRule \/ RulesEnd
-----------------------------------------------------------------------------
(* Properties.                                                             *)

RulesTypeOK ==
    /\ protection.stage \in {"input", "storage", "create", "validate", "done", "panicked"}
    /\ protection.call \in Calls /\ protection.contract \in RuleContracts
    /\ Len(protection.storage.changes) <= MaxChanges
    /\ protection.valid => protection.stage = "done"

Satisfies(rule, value) ==
    IF rule.check = "range" THEN rule.range.min <= value /\ value <= rule.range.max
    ELSE value = rule.value

\* The values of a rule a caller's data can show: a big integer is packed into
\* a word, whose first bit is the sign of a signed one.
Fits(type, value) ==
    CASE type.kind = "uint" -> value \in 0..(WordLimit - 1)
      [] type.kind = "int" -> -WordLimit <= 2 * value /\ 2 * value < WordLimit
      [] OTHER -> TRUE

\* A rule on the parameters holds of the very input it was made from, except
\* where a step left the type and the packed parameter wrapped, and where the
\* range of a negative number is cut at zero and empty (types.go:941).
RuleCoversVariation ==
    \A i \in 1..Len(protection.rule.inputs) :
        LET rules == protection.rule.inputs[i]
            types == protection.call.types
        IN  \A k \in 1..Len(rules) :
                LET rule == rules[k]
                    negative == rule.check = "range" /\ rule.value < 0
                IN  rule.type.kind # "bytes" =>
                    (Satisfies(rule, Unpack(types, protection.input.input)[rule.index + 1])
                        <=> Fits(rule.type, rule.value) /\ ~negative)

\* The created rule is valid exactly if the input was modified or a slot other
\* than slot 0 of a real contract was: the fallback rule guards slot 0, which
\* never is (txReplayer.go:1145).
RuleIsValid ==
    protection.stage = "done" =>
        (protection.valid <=>
            \/ protection.input # NoModification
            \/ /\ protection.contract # ZeroContract
               /\ \E k \in 1..Len(protection.storage.changes) :
                      protection.storage.changes[k].slot # 0)

RulesSpec == RulesInit /\ [][RulesNext]_protection
=============================================================================
