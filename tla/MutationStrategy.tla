--------------------------- MODULE MutationStrategy ---------------------------
(***************************************************************************)
(* The smart mutation strategy (tracing/mutation/                          *)
(* smart_mutation_strategy.go) as a record: what it counts, the batch size *)
(* it adapts and the plan it makes for a contract.                         *)
(*                                                                         *)
(* The score of a strategy is a floating-point mix of averages and of the  *)
(* time since its last use, cut to ten values, and the strategies of one   *)
(* score come in the order of Go's map: a ranking is any permutation here. *)
(***************************************************************************)
EXTENDS StorageAnalyzer, InputModifier

CONSTANTS
    Strategies,     \* the base strategies, some of the code's 17
    InitialBatch,   \* 50
    MinBatch,       \* 10
    MaxBatch,       \* 200
    Warmup          \* results before the batch size adapts: 10

ASSUME MutationStrategyAssumption ==
    /\ IsFiniteSet(Strategies) /\ Strategies # {}
    /\ MinBatch \in Nat \ {0} /\ MaxBatch \in Nat /\ Warmup \in Nat \ {0}
    /\ InitialBatch \in MinBatch..MaxBatch

StorageStrategies ==
    {"storage_address_mutation", "storage_balance_scaling", "storage_bool_flip",
     "storage_counter_increment", "storage_mapping_key_mutation",
     "storage_array_length_mutation", "multi_slot_coordinated", "dependency_aware_mutation"}
IsStorageStrategy(strategy) == strategy \in StorageStrategies

NewSmartMutationStrategy(threshold) ==
    [attempts |-> [s \in Strategies |-> 0], successes |-> [s \in Strategies |-> 0],
     total |-> 0, high |-> 0, batch |-> InitialBatch, threshold |-> threshold]
-----------------------------------------------------------------------------
(* Recording results.  The statistics of the strategy and the totals are   *)
(* two operators: a reset, which holds another lock, can come between.     *)

RecordStrategy(sms, strategy, success) ==
    IF strategy \notin Strategies THEN sms
    ELSE [sms EXCEPT !.attempts[strategy] = @ + 1,
                     !.successes[strategy] = @ + IF success THEN 1 ELSE 0]

\* Bug form: without its limits.
AdaptBatchSizeUnlimited(sms) ==
    IF sms.total < Warmup THEN sms.batch
    ELSE IF 10 * sms.high > 3 * sms.total THEN (sms.batch * 11) \div 10
    ELSE IF 10 * sms.high < sms.total THEN (sms.batch * 9) \div 10 ELSE sms.batch

\* A tenth more if over 0.3 of the results are similar, a tenth less under 0.1.
AdaptBatchSize(sms) ==
    LET adapted == IF 10 * sms.high > 3 * sms.total THEN (sms.batch * 11) \div 10
                   ELSE IF 10 * sms.high < sms.total THEN (sms.batch * 9) \div 10
                   ELSE sms.batch
    IN  IF sms.total < Warmup THEN sms.batch
        ELSE IF adapted < MinBatch THEN MinBatch ELSE AtMost(adapted, MaxBatch)

\* similarity is a fraction, the threshold a percentage.
RecordTotals(sms, similarity) ==
    LET high == IF 100 * similarity.num >= sms.threshold * similarity.den THEN 1 ELSE 0
        counted == [sms EXCEPT !.total = @ + 1, !.high = @ + high]
    IN  [counted EXCEPT !.batch = AdaptBatchSize(counted)]

\* ResetStrategies: the strategies first, the totals then.
ResetStatistics(sms) ==
    [sms EXCEPT !.attempts = [s \in Strategies |-> 0], !.successes = [s \in Strategies |-> 0]]

\* Bug form: the count of similar results is forgotten.
ResetTotalsKeepsHigh(sms) == [sms EXCEPT !.total = 0, !.batch = InitialBatch]
ResetTotals(sms) == [sms EXCEPT !.total = 0, !.high = 0, !.batch = InitialBatch]

\* GetOverallStats: the rate of no results at all is not a number.
NaN == [num |-> 0, den |-> 0]
GetOverallStats(sms) ==
    [total |-> sms.total, high |-> sms.high, batch |-> sms.batch,
     rate |-> IF sms.total = 0 THEN NaN ELSE [num |-> sms.high, den |-> sms.total]]
-----------------------------------------------------------------------------
(* Plans.                                                                  *)

FilterSlotsByType(infos, type) ==
    Sublist(infos, {k \in 1..Len(infos) : infos[k].type = type})
FilterSlotsLikeBalance(infos) ==
    Sublist(infos, {k \in 1..Len(infos) :
                      infos[k].type = "uint256" /\ LooksLikeBalance(infos[k].value)})
FilterSlotsLikeCounter(infos) ==
    Sublist(infos, {k \in 1..Len(infos) :
                      infos[k].type = "uint256" /\ infos[k].value <= CounterMax})

\* The most important first.
ByScore(infos) ==
    LET above(j) == {i \in 1..Len(infos) :
                       \/ infos[i].score > infos[j].score
                       \/ infos[i].score = infos[j].score /\ i < j}
    IN  [k \in 1..Len(infos) |->
            infos[CHOOSE j \in 1..Len(infos) : Cardinality(above(j)) = k - 1]]

SelectTargetSlots(strategy, infos) ==
    CASE strategy = "storage_address_mutation" -> FilterSlotsByType(infos, "address")
      [] strategy = "storage_balance_scaling" -> FilterSlotsLikeBalance(infos)
      [] strategy = "storage_bool_flip" -> FilterSlotsByType(infos, "bool")
      [] strategy = "storage_counter_increment" -> FilterSlotsLikeCounter(infos)
      [] strategy = "storage_mapping_key_mutation" -> FilterSlotsByType(infos, "mapping")
      [] strategy = "storage_array_length_mutation" -> FilterSlotsByType(infos, "array")
      [] OTHER -> ByScore(infos)

\* Every parameter, whatever the strategy.
SelectTargetPositions(strategy, input) == [k \in 1..ParamCount(input) |-> k - 1]

GenerateStorageMutationPlans(strategy, infos, variants) ==
    LET targets == SelectTargetSlots(strategy, infos)
    IN  [i \in 1..AtMost(variants, Len(targets)) |->
            [strategy |-> strategy, slot |-> targets[i].slot, variant |-> i - 1]]
GenerateInputMutationPlans(strategy, input, variants) ==
    LET targets == SelectTargetPositions(strategy, input)
    IN  [i \in 1..AtMost(variants, Len(targets)) |->
            [strategy |-> strategy, argument |-> targets[i], variant |-> i - 1]]

\* A strategy uses up its share of the batch whether or not it finds targets.
GetOptimalMutationPlan(sms, ranking, infos, input) ==
    LET share == IF sms.batch < Len(ranking) THEN 1 ELSE sms.batch \div Len(ranking)
        variants(i) == AtMost(share, sms.batch - (i - 1) * share)
        planned == Sublist([i \in 1..Len(ranking) |-> <<ranking[i], variants(i)>>],
                           {i \in 1..Len(ranking) : variants(i) > 0})
        mutates == {i \in 1..Len(planned) : IsStorageStrategy(planned[i][1])}
        storage == Sublist(planned, mutates)
        inputs == Sublist(planned, (1..Len(planned)) \ mutates)
    IN  [storage |-> FlattenSeq([i \in 1..Len(storage) |->
                        GenerateStorageMutationPlans(storage[i][1], infos, storage[i][2])]),
         input |-> FlattenSeq([i \in 1..Len(inputs) |->
                        GenerateInputMutationPlans(inputs[i][1], input, inputs[i][2])])]
=============================================================================
