---------------------------- MODULE StepMutation ----------------------------
(***************************************************************************)
(* How the attack replayer derives mutation candidates from an attack      *)
(* transaction (tracing/replay/txReplayer.go with                          *)
(* tracing/mutation/mutation_manager.go): steps added to words, chunks and *)
(* bytes of the input and to storage values, and the modifications it      *)
(* forces when a step changes nothing.                                     *)
(*                                                                         *)
(* Input data is a sequence of bytes, selector first.  Contract storage is *)
(* a function from slots to words; the code walks it in Go's map order, so *)
(* every operator over storage takes that order as a sequence of slots.    *)
(* Words are WordBytes wide and the chunks of the mutation manager         *)
(* ChunkBytes: the arithmetic wraps, clamps and truncates as the code's    *)
(* does at 32 and 8.                                                       *)
(***************************************************************************)
EXTENDS Integers, Sequences, SequencesExt, FiniteSets, TLC

CONSTANTS
    WordBytes,   \* bytes of an EVM word: 32 in the code
    ChunkBytes,  \* bytes of the manager's wider step: 8 in the code
    NoInput      \* a nil InputData

ASSUME StepMutationAssumption ==
    /\ WordBytes \in Nat \ {0} /\ ChunkBytes \in Nat \ {0}
    /\ NoInput \notin Seq(0..255)

SelectorBytes == 4
\* What k bytes can tell apart: 256^k, in a form that proofs can unfold.
Power256[k \in Nat] == IF k = 0 THEN 1 ELSE 256 * Power256[k - 1]
WordLimit == Power256[WordBytes]

\* DefaultMutationConfig.
InputSteps == <<10, 100, 1000, -10, -100, -1000, 1, -1, 50, -50>>
StorageSteps == <<1, 10, 100, 1000, -1, -10, -100, -1000, 5, -5>>
ByteSteps == <<1, 2, 5, 10, -1, -2, -5, -10>>
MaxMutations == 3
Pick(steps, variant) == steps[(variant % Len(steps)) + 1]

Magnitude(n) == IF n < 0 THEN -n ELSE n
FromBytes(bytes) ==
    LET value[k \in 0..Len(bytes)] == IF k = 0 THEN 0 ELSE 256 * value[k - 1] + bytes[k]
    IN  value[Len(bytes)]
\* The last k bytes of n, zero bytes first.
ToBytes(n, k) == [i \in 1..k |-> (n \div Power256[k - i]) % 256]
\* common.BigToHash: the sign is lost and the leading bytes are cropped.
BigToHash(n) == Magnitude(n) % WordLimit
Bits == [k \in 1..(8 * WordBytes) |-> 2^(k - 1)]
Xor(a, b) ==
    FoldLeft(LAMBDA n, bit : n + IF (a \div bit) % 2 = (b \div bit) % 2 THEN 0 ELSE bit, 0, Bits)
\* The first of the values a list of attempts gives that differs from the original.
FirstDifferent(original, attempts, otherwise) ==
    LET different == {k \in DOMAIN attempts : attempts[k] # original}
    IN  IF different = {} THEN otherwise
        ELSE attempts[Min(different)]
\* The elements of s at the places in K, in their order.
Sublist(s, K) ==
    LET kept[n \in 0..Len(s)] ==
            IF n = 0 THEN <<>> ELSE IF n \in K THEN Append(kept[n - 1], s[n]) ELSE kept[n - 1]
    IN  kept[Len(s)]

Selector(input) == SubSeq(input, 1, SelectorBytes)
Params(input) == SubSeq(input, SelectorBytes + 1, Len(input))
-----------------------------------------------------------------------------
(* Input data.                                                             *)

\* Adding a step to the first word overflows it: the code then slices
\* data[32 - 33 : 32] and panics.
WordOverflows(params, step, variant) ==
    /\ variant % 3 = 0 /\ Len(params) >= WordBytes
    /\ Magnitude(FromBytes(SubSeq(params, 1, WordBytes)) + step) >= WordLimit

\* Its result where it does not panic.
ApplyStepMutationToBytes(params, step, variant) ==
    LET n == Len(params)
        distance(p) == (p - 1 - variant) % n   \* how far p is from byte variant % n
        byteStep == Magnitude(step) % 256
    IN  IF n = 0 THEN params
        ELSE CASE variant % 3 = 0 /\ n >= WordBytes ->
                    ToBytes(Magnitude(FromBytes(SubSeq(params, 1, WordBytes)) + step), WordBytes)
                      \o SubSeq(params, WordBytes + 1, n)
               [] variant % 3 = 0 /\ n < WordBytes -> params
               [] variant % 3 = 1 -> [params EXCEPT ![(variant % n) + 1] = (@ + step) % 256]
               [] variant % 3 = 2 ->
                    [p \in 1..n |-> IF distance(p) > 2 THEN params[p]
                                    ELSE IF distance(p) = 1 THEN (params[p] - byteStep) % 256
                                    ELSE (params[p] + byteStep) % 256]

GenerateStepBasedInputDataFromCall(input, variant) ==
    IF Len(input) < SelectorBytes THEN input
    ELSE Selector(input) \o
         ApplyStepMutationToBytes(Params(input), Pick(InputSteps, variant), variant)

\* One round of the manager: a byte step, then a wider step on the chunk there.
ByteThenChunk(params, step, variant, round) ==
    LET offset == (variant + 17 * round) % Len(params)
        stepped == [params EXCEPT ![offset + 1] = (@ + Pick(ByteSteps, variant)) % 256]
        delta == step * (round + 1) * (IF variant % 2 = 1 THEN -1 ELSE 1)
        chunk == FromBytes(SubSeq(stepped, offset + 1, offset + ChunkBytes))
    IN  IF Len(params) < offset + ChunkBytes THEN stepped
        ELSE SubSeq(stepped, 1, offset) \o ToBytes(Magnitude(chunk + delta), ChunkBytes)
               \o SubSeq(stepped, offset + ChunkBytes + 1, Len(params))

ManagerStepMutationToBytes(params, step, variant) ==
    IF params = <<>> THEN params
    ELSE FoldLeft(LAMBDA data, round :
                    IF round <= variant % MaxMutations /\ round < Len(params)
                    THEN ByteThenChunk(data, step, variant, round) ELSE data,
                  params, <<0, 1, 2>>)

GenerateStepBasedInputData(input, variant) ==
    IF Len(input) < SelectorBytes THEN input
    ELSE Selector(input) \o
         ManagerStepMutationToBytes(Params(input), Pick(InputSteps, variant), variant)

\* forceModifyInputData: the first byte, else the last
\* of the first word, else some byte.
ForceModifyInputData(input, variant) ==
    LET params == Params(input)
        bump(p, by) == [params EXCEPT ![p] = (@ + by) % 256]
        wraps == (variant + 1) % 256 = 0
    IN  IF Len(input) <= SelectorBytes THEN input
        ELSE Selector(input) \o
             (IF ~wraps THEN bump(1, variant + 1) ELSE bump((variant % Len(params)) + 1, 1))

\* The source repeats it for calls, as it does the two below.
ForceModifyInputDataFromCall(input, variant) == ForceModifyInputData(input, variant)
-----------------------------------------------------------------------------
(* Storage.                                                                *)

GenerateStepBasedStorageValueFromCall(original, step, variant) ==
    CASE variant % 4 = 0 -> BigToHash(original + step)
      [] variant % 4 = 1 -> IF original < step THEN 0 ELSE BigToHash(original - step)
      [] variant % 4 = 2 ->
           BigToHash(original * (IF Magnitude(step) > 10 THEN 2 ELSE Magnitude(step)))
      [] variant % 4 = 3 -> IF original = 0 THEN original ELSE Xor(original, Magnitude(step))

ForceStorageValueChange(original, variant) ==
    FirstDifferent(original,
                   <<BigToHash(original + variant + 1), BigToHash(original - (variant + 1)),
                     Xor(original, variant + 1), BigToHash(variant + 42)>>,
                   IF original = 0 THEN 1 ELSE 0)

\* Whether a slot is changed depends on how many already are, so at most one is.
GenerateStepBasedStorageChangesFromCall(storage, order, variant) ==
    LET value(slot) ==
            FirstDifferent(storage[slot],
                <<GenerateStepBasedStorageValueFromCall(
                      storage[slot], Pick(StorageSteps, variant), variant)>>,
                ForceStorageValueChange(storage[slot], variant))
        changes[k \in 0..Len(order)] ==   \* after the first k slots
            IF k = 0 THEN <<>>
            ELSE LET slot == order[k]
                     count == Cardinality(DOMAIN changes[k - 1])
                 IN  IF /\ count < MaxMutations
                        /\ (variant + count) % 2 = 0
                        /\ value(slot) # storage[slot]
                     THEN [s \in DOMAIN changes[k - 1] \cup {slot} |->
                              IF s = slot THEN value(slot) ELSE changes[k - 1][s]]
                     ELSE changes[k - 1]
    IN  changes[Len(order)]

\* The manager wraps modulo the largest word, not modulo one more.
GenerateStepBasedStorageValue(original, step, variant) ==
    LET new == original + step * (IF variant % 3 = 0 THEN variant + 1 ELSE 1)
        wrapped == IF new < 0 THEN new + (WordLimit - 1) ELSE new
    IN  BigToHash(IF wrapped >= WordLimit THEN wrapped % (WordLimit - 1) ELSE wrapped)

\* It lists every slot, those after the first maxModifications unchanged.
GenerateStepBasedStorageChanges(storage, order, variant) ==
    [slot \in DOMAIN storage |->
        LET keyIndex == (CHOOSE k \in 1..Len(order) : order[k] = slot) - 1
        IN  IF keyIndex > variant % MaxMutations THEN storage[slot]
            ELSE GenerateStepBasedStorageValue(
                     storage[slot], Pick(StorageSteps, variant), variant + keyIndex)]

\* forceModifyStorageData: two slots at most.
ForceModifyStorageData(storage, order, variant) ==
    LET v == variant + 1
        value(original) ==
            FirstDifferent(original,
                <<BigToHash(original + v), BigToHash(IF original < v THEN v ELSE original - v),
                  Xor(original, v), BigToHash(variant + 100)>>,
                IF original = 0 THEN BigToHash(v) ELSE 0)
        changed == {order[k] : k \in 1..(IF Len(order) < 2 THEN Len(order) ELSE 2)}
    IN  [slot \in changed |-> value(storage[slot])]

ForceModifyStorageDataFromCall(storage, order, variant) ==
    ForceModifyStorageData(storage, order, variant)

\* Two slots that need not exist; a hash of the call's data moves those of a call.
VirtualSlots(base, variant) ==
    [slot \in {<<base, variant * 10 + 1>>, <<base, variant * 10 + 2>>} |->
        BigToHash(variant * 100 + 41 + (slot[2] - variant * 10))]
CreateVirtualStorageModification(variant) == VirtualSlots("zero", variant)
CreateVirtualStorageModificationFromCall(input, variant) ==
    VirtualSlots(<<"hash", input>>, variant)
-----------------------------------------------------------------------------
(* Candidates.                                                             *)

Candidate(input, storage, modType) ==
    [input |-> input, storage |-> storage, modType |-> modType]

Forced(input, newInput, newStorage, virtual) ==
    CASE newInput # input -> Candidate(newInput, <<>>, "forced_input_step")
      [] newInput = input /\ newStorage # <<>> ->
           Candidate(NoInput, newStorage, "forced_storage_step")
      [] OTHER -> Candidate(NoInput, virtual, "forced_virtual_storage")

ForceValidModification(input, storage, order, variant) ==
    Forced(input, ForceModifyInputData(input, variant),
           ForceModifyStorageData(storage, order, variant),
           CreateVirtualStorageModification(variant))

ForceValidModificationFromCall(input, storage, order, variant) ==
    Forced(input, ForceModifyInputDataFromCall(input, variant),
           ForceModifyStorageDataFromCall(storage, order, variant),
           CreateVirtualStorageModificationFromCall(input, variant))

\* The choice by variant % 3 of input, storage or both, given what each would be.
StepCandidate(input, newInput, newStorage, variant, forced) ==
    LET inputPart == IF variant % 3 = 1 \/ newInput = input THEN NoInput ELSE newInput
        storagePart == IF variant % 3 = 0 THEN <<>> ELSE newStorage
    IN  IF inputPart = NoInput /\ storagePart = <<>> THEN forced
        ELSE Candidate(inputPart, storagePart,
                       <<"input_step", "storage_step", "both_step">>[(variant % 3) + 1])

\* Candidate number variant of a batch, from the call the trace extracted ...
CandidateFromCall(input, storage, order, variant) ==
    StepCandidate(input, GenerateStepBasedInputDataFromCall(input, variant),
                  GenerateStepBasedStorageChangesFromCall(storage, order, variant), variant,
                  ForceValidModificationFromCall(input, storage, order, variant))

\* ... and from the transaction itself when it extracted none.
CandidateFromTransaction(input, storage, order, variant) ==
    StepCandidate(input, GenerateStepBasedInputData(input, variant),
                  GenerateStepBasedStorageChanges(storage, order, variant), variant,
                  ForceValidModification(input, storage, order, variant))

\* The types of a candidate made from a call bear a suffix that is left out here.
PredictModificationImpact(modType) ==
    CASE modType = "input_step" -> "step_based_input_behavior_change"
      [] modType = "storage_step" -> "step_based_state_manipulation"
      [] modType = "both_step" -> "comprehensive_step_based_attack_vector"
      [] OTHER -> "unknown_step_based"
=============================================================================
