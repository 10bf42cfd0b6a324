---------------------------- MODULE StepVariation ----------------------------
(***************************************************************************)
(* The step-based variations of tracing/mutation/modifier.go: the input of *)
(* a call with its unpacked parameters stepped and packed again, and the   *)
(* original storage with steps added to its slots, each with the list of   *)
(* changes a protection rule is made from, and their fallbacks.            *)
(*                                                                         *)
(* A change keeps the original and the modified value and the ratio of     *)
(* the change as a fraction.  Parameters of more than one word, names,     *)
(* texts of change types and hashes are left out.                          *)
(***************************************************************************)
EXTENDS InputModifier

\* DefaultStepMutationConfig; nearby values are on and boundary values are off.
IntSteps == <<1, 10, 100, 1000, -1, -10, -100, -1000, 5, -5>>
UintSteps == <<1, 10, 100, 1000, 5, 50, 500>>
AddressSteps == <<1, 2, 5, 10, -1, -2, -5, -10>>
BytesSteps == <<1, 2, 4, 8, 16>>
SlotValueSteps == <<1, 10, 100, 1000, -1, -10, -100, -1000, 5, -5, 50, -50>>
MaxChanges == 3

NoModification == [changes |-> <<>>]
NoMethod == <<[kind |-> "none", size |-> 0]>>   \* the ABI has no such selector
Fraction(num, den) == IF den < 0 THEN [num |-> -num, den |-> -den] ELSE [num |-> num, den |-> den]
IsKind(type, kind, size) == type.kind = kind /\ type.size = size
IsBig(type) == type.kind \in {"uint", "int"} /\ ~GoSized(type)
-----------------------------------------------------------------------------
(* One parameter: its new value.  Unchanged means the code says FALSE.     *)

Unchanged == [changed |-> FALSE]
ChangedTo(value) == [changed |-> TRUE, value |-> value]
AddToLastBytes(addr, count, step) ==
    [p \in 1..AddressBytes |-> IF p > AddressBytes - count THEN (addr[p] + step) % 256 ELSE addr[p]]
Clamp(n, low, high) == IF n < low THEN low ELSE AtMost(n, high)

\* A big integer does not wrap; an int8 or a uint8 stops at its limits, which
\* counts as a change even if it was there; the 16 to 64 bit ones are left alone.
ModifyWithSteps(type, arg, variant) ==
    LET up == Pick(UintSteps, variant)
    IN  CASE type.kind = "uint" /\ IsBig(type) -> ChangedTo(arg + up)
          [] IsKind(type, "uint", 8) /\ up <= 255 -> ChangedTo(AtMost(arg + up, 255))
          [] type.kind = "int" /\ IsBig(type) -> ChangedTo(arg + Pick(IntSteps, variant))
          [] IsKind(type, "int", 8) -> ChangedTo(Clamp(arg + Pick(IntSteps, variant), -128, 127))
          [] type.kind = "bool" -> ChangedTo(1 - arg)
          [] type.kind = "address" -> ChangedTo(AddToLastBytes(arg, 2, Pick(AddressSteps, variant)))
          [] OTHER -> Unchanged

ModifyNearbyWithSteps(type, arg, variant) ==
    LET sign == IF variant % 2 = 0 THEN 1 ELSE -1
    IN  CASE type.kind = "uint" /\ IsBig(type) ->
               ChangedTo(NonNegative(arg + sign * Pick(UintSteps, variant)))
          [] type.kind = "int" /\ IsBig(type) -> ChangedTo(arg + sign * Pick(IntSteps, variant))
          [] OTHER -> ModifyWithSteps(type, arg, variant)

\* Type-aware mutation first, where it is enabled and changes the value.
ModifyArgumentByStepStrategy(typeAware, type, arg, strategy, variant, random) ==
    IF /\ typeAware /\ strategy \in {"type_aware", "step_based"}
       /\ MutateByType(type, arg, variant, random) # arg
    THEN ChangedTo(MutateByType(type, arg, variant, random))
    ELSE IF strategy = "nearby_values" THEN ModifyNearbyWithSteps(type, arg, variant)
    ELSE ModifyWithSteps(type, arg, variant)

\* A step too large for a uint8 becomes one, which wraps; a type without a step
\* stays as it is and is reported as a change.
ForceStepModifyArgument(type, arg, variant) ==
    LET stepped == ModifyWithSteps(type, arg, variant)
    IN  CASE type.kind = "address" -> AddToLastBytes(arg, 1, Pick(AddressSteps, variant))
          [] IsKind(type, "uint", 8) /\ ~stepped.changed -> (arg + 1) % 256
          [] OTHER -> IF stepped.changed THEN stepped.value ELSE arg

TenPercent == Fraction(1, 10)
CalculateParameterChangeRatio(type, original, modified) ==
    CASE IsBig(type) \/ IsKind(type, "uint", 8) ->
           IF original = 0 THEN Fraction(1, 1) ELSE Fraction(modified - original, original)
      [] type.kind = "bool" -> Fraction(1, 1)
      [] OTHER -> TenPercent
-----------------------------------------------------------------------------
(* The input.                                                              *)

Change(index, type, original, modified, ratio) ==
    [index |-> index, type |-> type, original |-> original, modified |-> modified, ratio |-> ratio]

ModifiedArguments(args, changes) ==
    [k \in 1..Len(args) |->
        LET here == {i \in 1..Len(changes) : changes[i].index = k - 1}
        IN  IF here = {} THEN args[k] ELSE changes[Min(here)].modified]

\* An error, and a method without parameters, give no modification.
GenerateStepBasedInputModification(types, input, strategy, variant, typeAware, random) ==
    LET args == Unpack(types, input)
        new(k) ==
            ModifyArgumentByStepStrategy(typeAware, types[k], args[k], strategy, variant, random)
        stepped == Sublist([k \in 1..Len(types) |-> k], {k \in 1..Len(types) : new(k).changed})
        forced == ForceStepModifyArgument(types[1], args[1], variant)
        changes ==
            IF stepped = <<>> THEN <<Change(0, types[1], args[1], forced, TenPercent)>>
            ELSE [i \in 1..Len(stepped) |->
                    LET k == stepped[i]
                    IN  Change(k - 1, types[k], args[k], new(k).value,
                               CalculateParameterChangeRatio(types[k], args[k], new(k).value))]
    IN  IF \/ Len(input) < SelectorBytes \/ types \in {NoMethod, <<>>}
           \/ ~Unpacks(types, input)
        THEN NoModification
        ELSE [changes |-> changes, input |-> Selector(input) \o Pack(types, ModifiedArguments(args, changes))]

\* Bytes after the selector: the first word, one byte, or three of them.
ApplyStepMutationToParameterBytes(params, step, variant) ==
    LET n == Len(params)
    IN  CASE n = 0 \/ (variant % 3 = 0 /\ n < WordBytes) -> params
          [] n > 0 /\ variant % 3 > 0 ->
               [p \in 1..n |-> IF (p - 1 - variant) % n <= 2 * ((variant % 3) - 1)
                               THEN (params[p] + step) % 256 ELSE params[p]]
          [] OTHER -> ToBytes(FromBytes(SubSeq(params, 1, WordBytes)) + step, WordBytes)
                        \o SubSeq(params, WordBytes + 1, n)

\* It panics as its namesake does when the first word overflows.
FallbackPanics(input, variant) == WordOverflows(Params(input), Pick(BytesSteps, variant), variant)

GenerateFallbackStepBasedInputModification(types, input, variant) ==
    LET modified == Selector(input) \o
            ApplyStepMutationToParameterBytes(Params(input), Pick(BytesSteps, variant), variant)
    IN  IF Len(input) < SelectorBytes \/ types = NoMethod THEN NoModification
        ELSE [changes |-> <<Change(0, [kind |-> "bytes", size |-> 0], input, modified, TenPercent)>>,
              input |-> modified]
-----------------------------------------------------------------------------
(* The storage.                                                            *)

ApplyStepToStorageValue(original, step) ==
    BigToHash(IF step > 0 THEN original + step ELSE NonNegative(original + step))

SmallStep(step) ==
    LET tenth == Magnitude(step) \div 10
    IN  IF tenth = 0 THEN 1 ELSE IF step < 0 THEN -tenth ELSE tenth
ModifyStorageByStepStrategy(original, strategy, step, variant) ==
    IF strategy # "nearby_values" THEN ApplyStepToStorageValue(original, step)
    ELSE IF variant % 2 = 0 THEN BigToHash(original + SmallStep(step))
    ELSE BigToHash(NonNegative(original - SmallStep(step)))

CalculateChangeRatio(original, modified) ==
    IF original # 0 THEN Fraction(modified - original, original)
    ELSE IF modified = 0 THEN Fraction(0, 1) ELSE Fraction(1, 1)
SlotChange(slot, original, modified) ==
    [slot |-> slot, original |-> original, modified |-> modified,
     ratio |-> CalculateChangeRatio(original, modified)]
FirstChanges(changes) == SubSeq(changes, 1, AtMost(Len(changes), MaxChanges))

\* Slots whose value a step does not change are passed over.
GenerateStepBasedStorageModification(storage, order, strategy, variant) ==
    LET step == Pick(SlotValueSteps, variant)
        all == [k \in 1..Len(order) |->
                  SlotChange(order[k], storage[order[k]],
                      ModifyStorageByStepStrategy(storage[order[k]], strategy, step, variant))]
    IN  [changes |-> FirstChanges(Sublist(all, {k \in 1..Len(all) : all[k].modified # all[k].original}))]

\* They are kept here; without storage two slots are made up.
GenerateFallbackStepBasedStorageModification(storage, order, variant) ==
    LET step == Pick(SlotValueSteps, variant)
    IN  [changes |->
            IF order # <<>>
            THEN FirstChanges([k \in 1..Len(order) |->
                    SlotChange(order[k], storage[order[k]],
                               ApplyStepToStorageValue(storage[order[k]], step))])
            ELSE [i \in 1..2 |-> [slot |-> i - 1, original |-> 0,
                                  modified |-> BigToHash(step * i), ratio |-> Fraction(1, 1)]]]
=============================================================================
