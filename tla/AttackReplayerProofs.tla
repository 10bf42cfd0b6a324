------------------------ MODULE AttackReplayerProofs ------------------------
(***************************************************************************)
(* The campaigns and the protection rules of the attack replayer for any   *)
(* attack, storage, ABI and strategies, and that each part of the replayer *)
(* keeps its promises when its caller runs one of the five operations.     *)
(***************************************************************************)
EXTENDS AttackReplayer, CollectionProofs, AttackTxProofs, ConcurrencyManagerProofs

\* Every step of the caller is a step of one component and leaves the others as
\* they are.
LEMMA Components ==
    Spec => CollectSpec /\ CampaignSpec /\ RulesSpec /\ TableSpec /\ ManagerSpec
<1>1. Init => CollectInit /\ CampaignInit /\ RulesInit /\ TableInit /\ ManagerInit
    BY DEF Init
<1>2. ASSUME [Next]_replayerVars
      PROVE  /\ [CollectNext]_collectVars /\ [CampaignNext]_campaignVars
             /\ [RulesNext]_protection /\ [TableNext]_table /\ [ManagerNext]_managerVars
    <2>1. CASE Collect
        BY <2>1 DEF Collect
    <2>2. CASE Campaign
        BY <2>2 DEF Campaign
    <2>3. CASE Rule
        BY <2>3 DEF Rule
    <2>4. CASE Record
        BY <2>4 DEF Record
    <2>5. CASE Operate
        BY <2>5 DEF Operate
    <2>6. CASE UNCHANGED replayerVars
        BY <2>6 DEF replayerVars
    <2> QED
        BY <1>2, <2>1, <2>2, <2>3, <2>4, <2>5, <2>6 DEF Next
<1> QED
    BY <1>1, <1>2, PTL DEF Spec, CollectSpec, CampaignSpec, RulesSpec, TableSpec, ManagerSpec

-----------------------------------------------------------------------------
(* Sequences                                                               *)

\* The elements of a sublist are the chosen ones, and there are some if any was
\* chosen.
LEMMA SublistOf ==
    ASSUME NEW S, NEW s \in Seq(S), NEW K
    PROVE  LET P == {s[k] : k \in K \cap 1..Len(s)}
           IN  /\ Sublist(s, K) \in Seq(P)
               /\ K \cap 1..Len(s) # {} => Len(Sublist(s, K)) > 0
<1> DEFINE n == Len(s)
           P == {s[k] : k \in K \cap 1..n}
           next(before, k) == IF k \in K THEN Append(before, s[k]) ELSE before
           Unrolled(f, m) == [k \in 0..m |-> IF k = 0 THEN <<>> ELSE next(f[k - 1], k)]
           kept == CHOOSE f : f = Unrolled(f, n)
<1>1. n \in Nat /\ \A k \in K \cap 1..n : s[k] \in P
    OBVIOUS
<1>2. Sublist(s, K) = kept[n]
    BY DEF Sublist
<1>3. kept = Unrolled(kept, n)
    <2> DEFINE Good(f, m) == f = Unrolled(f, m)
               Bad == {m \in Nat : m <= n /\ ~(\E f : Good(f, m))}
    <2> HIDE DEF Good
    <2>1. Bad = {}
        <3> SUFFICES ASSUME Bad # {} PROVE FALSE
            OBVIOUS
        <3>1. PICK m \in Bad : \A k \in Bad : m <= k
            BY LeastNumber
        <3>2. m \in Nat /\ m <= n /\ ~(\E f : Good(f, m))
            BY <3>1
        <3>3. m # 0
            <4> DEFINE e == [k \in {0} |-> <<>>]
            <4> HIDE DEF next
            <4>1. e = Unrolled(e, 0)
                OBVIOUS
            <4>2. Good(e, 0)
                BY <4>1 DEF Good
            <4> QED
                BY <3>2, <4>2
        <3>4. m - 1 \in Nat /\ m - 1 <= n /\ ~(m <= m - 1)
            BY <1>1, <3>2, <3>3
        <3>5. m - 1 \notin Bad
            BY <3>1, <3>4
        <3>6. PICK f : Good(f, m - 1)
            BY <3>4, <3>5
        <3> DEFINE g == [k \in 0..m |-> IF k = 0 THEN <<>> ELSE next(f[k - 1], k)]
        <3> HIDE DEF next
        <3>7. ASSUME NEW k \in 0..m, k # 0 PROVE g[k - 1] = f[k - 1]
            <4>1. k - 1 \in 0..(m - 1) /\ k - 1 \in 0..m
                BY <3>2, <3>7
            <4>2. f = [j \in 0..(m - 1) |-> IF j = 0 THEN <<>> ELSE next(f[j - 1], j)]
                BY <3>6 DEF Good
            <4>3. f[k - 1] = IF k - 1 = 0 THEN <<>> ELSE next(f[(k - 1) - 1], k - 1)
                BY <4>1, <4>2
            <4> QED
                BY <4>1, <4>3
        <3>8. g = Unrolled(g, m)
            BY <3>7
        <3> HIDE DEF g
        <3>9. Good(g, m)
            BY <3>8 DEF Good
        <3> QED
            BY <3>2, <3>9
    <2>2. \E f : Good(f, n)
        BY <1>1, <2>1
    <2>3. \E f : f = Unrolled(f, n)
        BY <2>2 DEF Good
    <2> HIDE DEF next
    <2> QED
        BY <2>3
<1> HIDE DEF kept, P
<1>4. kept[0] = <<>> /\ \A k \in 1..n : kept[k] = next(kept[k - 1], k)
    <2> HIDE DEF next
    <2> QED
        BY <1>1, <1>3
<1> DEFINE Right(k) == /\ kept[k] \in Seq(P)
                       /\ K \cap 1..k # {} => Len(kept[k]) > 0
           Wrong == {k \in Nat : k <= n /\ ~Right(k)}
<1>5. Wrong = {}
    <2> HIDE DEF Right
    <2> SUFFICES ASSUME Wrong # {} PROVE FALSE
        OBVIOUS
    <2>1. PICK k \in Wrong : \A j \in Wrong : k <= j
        BY LeastNumber
    <2>2. k \in Nat /\ k <= n /\ ~Right(k)
        BY <2>1
    <2>3. k # 0
        <3>1. Right(0)
            <4>1. K \cap 1..0 = {}
                OBVIOUS
            <4> QED
                BY <1>4, <4>1 DEF Right
        <3> QED
            BY <2>2, <3>1
    <2>4. k \in 1..n /\ k - 1 \in Nat /\ k - 1 <= n /\ ~(k <= k - 1)
        BY <1>1, <2>2, <2>3
    <2>5. Right(k - 1)
        BY <2>1, <2>4
    <2>6. kept[k - 1] \in Seq(P) /\ (K \cap 1..(k - 1) # {} => Len(kept[k - 1]) > 0)
        BY <2>5 DEF Right
    <2>7. CASE k \in K
        <3>1. s[k] \in P
            BY <1>1, <2>4, <2>7
        <3>2. kept[k] = Append(kept[k - 1], s[k])
            BY <1>4, <2>4, <2>7
        <3>3. kept[k] \in Seq(P) /\ Len(kept[k]) > 0
            BY <2>6, <3>1, <3>2
        <3> QED
            BY <2>2, <3>3 DEF Right
    <2>8. CASE k \notin K
        <3>1. kept[k] = kept[k - 1]
            BY <1>4, <2>4, <2>8
        <3>2. K \cap 1..k = K \cap 1..(k - 1)
            BY <2>4, <2>8
        <3> QED
            BY <2>2, <2>6, <3>1, <3>2 DEF Right
    <2> QED
        BY <2>7, <2>8
<1>6. Right(n)
    <2> HIDE DEF Right
    <2> QED
        BY <1>1, <1>5
<1> QED
    BY <1>2, <1>6 DEF P
-----------------------------------------------------------------------------
(* Protection rules                                                        *)

GoodInput(modification) ==
    modification = NoModification \/ Len(modification.changes) \in Nat \ {0}
GoodStorage(modification) ==
    /\ modification = [changes |-> modification.changes]
    /\ IsSeq(modification.changes) /\ Len(modification.changes) <= MaxChanges

\* A rule is made of the two modifications, and valid is what the validation
\* says of it.
RulesInv ==
    /\ DOMAIN protection = {"stage", "call", "contract", "typeAware", "input", "storage", "rule",
                            "valid"}
    /\ protection.stage \in {"input", "storage", "create", "validate", "done", "panicked"}
    /\ protection.call \in Calls /\ protection.contract \in RuleContracts
    /\ GoodInput(protection.input) /\ GoodStorage(protection.storage)
    /\ protection.stage # "done" => protection.valid = FALSE
    /\ protection.stage \in {"validate", "done"} =>
         protection.rule =
             CreateProtectionRule(protection.contract, protection.input, protection.storage)
    /\ protection.stage = "done" => protection.valid = ValidateProtectionRule(protection.rule)

\* No modification has nothing wrong with it.
LEMMA NothingIsGood == GoodInput(NoModification) /\ GoodStorage(NoModification)
<1>1. <<>> \in Seq({}) /\ Len(<<>>) = 0
    OBVIOUS
<1>2. IsSeq(<<>>)
    BY <1>1, SeqOfElements
<1> QED
    BY <1>1, <1>2 DEF GoodInput, GoodStorage, NoModification, MaxChanges

\* A modification of the input has a change.
LEMMA InputVaried ==
    ASSUME NEW types, Len(types) \in Nat, NEW input, NEW strategy, NEW variant, NEW typeAware,
           NEW random
    PROVE  GoodInput(GenerateStepBasedInputModification(types, input, strategy, variant,
                                                        typeAware, random))
<1> DEFINE args == Unpack(types, input)
           new(k) ==
               ModifyArgumentByStepStrategy(typeAware, types[k], args[k], strategy, variant, random)
           places == [k \in 1..Len(types) |-> k]
           K == {k \in 1..Len(types) : new(k).changed}
           stepped == Sublist(places, K)
           forced == ForceStepModifyArgument(types[1], args[1], variant)
           one == <<Change(0, types[1], args[1], forced, TenPercent)>>
           each == [i \in 1..Len(stepped) |->
                       LET k == stepped[i]
                       IN  Change(k - 1, types[k], args[k], new(k).value,
                                  CalculateParameterChangeRatio(types[k], args[k], new(k).value))]
           changes == IF stepped = <<>> THEN one ELSE each
           modified == ModifiedArguments(args, changes)
           whole == [changes |-> changes, input |-> Selector(input) \o Pack(types, modified)]
<1>1. GenerateStepBasedInputModification(types, input, strategy, variant, typeAware, random)
        \in {NoModification, whole}
    BY DEF GenerateStepBasedInputModification
<1> HIDE DEF modified
<1>2. whole.changes = changes
    OBVIOUS
<1> HIDE DEF whole, new, args
<1>3. places \in Seq(Nat)
    OBVIOUS
<1> HIDE DEF places, K
<1>4. stepped \in Seq({places[k] : k \in K \cap 1..Len(places)})
    BY <1>3, SublistOf
<1>5. Len(stepped) \in Nat /\ (stepped # <<>> => Len(stepped) # 0)
    BY <1>4
<1> HIDE DEF stepped
<1>6. Len(one) = 1
    OBVIOUS
<1>7. Len(each) = Len(stepped)
    BY <1>5
<1> HIDE DEF one, each
<1>8. Len(changes) \in Nat \ {0}
    BY <1>5, <1>6, <1>7
<1> HIDE DEF changes
<1> QED
    BY <1>1, <1>2, <1>8 DEF GoodInput

\* The fallback varies the input with a change to show for it.
LEMMA FallbackInputVaried ==
    ASSUME NEW types, NEW input, NEW variant
    PROVE  GoodInput(GenerateFallbackStepBasedInputModification(types, input, variant))
<1> DEFINE modified == Selector(input) \o
               ApplyStepMutationToParameterBytes(Params(input), Pick(BytesSteps, variant), variant)
           changes == <<Change(0, [kind |-> "bytes", size |-> 0], input, modified, TenPercent)>>
           whole == [changes |-> changes, input |-> modified]
<1>1. GenerateFallbackStepBasedInputModification(types, input, variant) \in {NoModification, whole}
    BY DEF GenerateFallbackStepBasedInputModification
<1> HIDE DEF modified
<1>2. Len(changes) = 1
    OBVIOUS
<1> HIDE DEF changes
<1>3. whole.changes = changes
    OBVIOUS
<1> HIDE DEF whole
<1> QED
    BY <1>1, <1>2, <1>3 DEF GoodInput

\* What is left of the changes beyond MaxChanges is fine.
LEMMA FirstOf ==
    ASSUME NEW changes, IsSeq(changes)
    PROVE  GoodStorage([changes |-> FirstChanges(changes)])
<1> DEFINE S == Elements(changes)
           n == AtMost(Len(changes), MaxChanges)
           first == SubSeq(changes, 1, n)
<1>1. changes \in Seq(S)
    BY DEF IsSeq
<1> HIDE DEF S
<1>2. Len(changes) \in Nat
    BY <1>1
<1>3. n \in 0..MaxChanges /\ n <= Len(changes)
    <2>1. CASE Len(changes) < 3
        <3>1. n = Len(changes)
            BY <2>1 DEF AtMost, MaxChanges
        <3> HIDE DEF n
        <3> QED
            BY <1>2, <2>1, <3>1 DEF MaxChanges
    <2>2. CASE ~(Len(changes) < 3)
        <3>1. n = 3
            BY <2>2 DEF AtMost, MaxChanges
        <3> QED
            BY <1>2, <2>2, <3>1 DEF MaxChanges
    <2> QED
        BY <2>1, <2>2
<1> HIDE DEF n
<1>4. first \in Seq(S) /\ Len(first) = n
    BY <1>1, <1>2, <1>3 DEF MaxChanges
<1>5. FirstChanges(changes) = first
    BY DEF FirstChanges, n
<1> HIDE DEF first
<1>6. IsSeq(first) /\ Len(first) <= MaxChanges
    BY <1>3, <1>4, SeqOfElements DEF MaxChanges
<1> QED
    BY <1>5, <1>6 DEF GoodStorage

\* A variation of the slots changes MaxChanges of them at most.
LEMMA StorageVaried ==
    ASSUME NEW storage, NEW order, Len(order) \in Nat, NEW strategy, NEW variant
    PROVE  /\ GoodStorage(GenerateStepBasedStorageModification(storage, order, strategy, variant))
           /\ GoodStorage(GenerateFallbackStepBasedStorageModification(storage, order, variant))
<1> DEFINE step == Pick(SlotValueSteps, variant)
           all == [k \in 1..Len(order) |->
                     SlotChange(order[k], storage[order[k]],
                         ModifyStorageByStepStrategy(storage[order[k]], strategy, step, variant))]
           K == {k \in 1..Len(all) : all[k].modified # all[k].original}
           kept == [k \in 1..Len(order) |->
                      SlotChange(order[k], storage[order[k]],
                                 ApplyStepToStorageValue(storage[order[k]], step))]
           madeUp == [i \in 1..2 |-> [slot |-> i - 1, original |-> 0,
                                      modified |-> BigToHash(step * i), ratio |-> Fraction(1, 1)]]
<1>1. GenerateStepBasedStorageModification(storage, order, strategy, variant)
        = [changes |-> FirstChanges(Sublist(all, K))]
    BY DEF GenerateStepBasedStorageModification
<1>2. GenerateFallbackStepBasedStorageModification(storage, order, variant)
        = [changes |-> IF order # <<>> THEN FirstChanges(kept) ELSE madeUp]
    BY DEF GenerateFallbackStepBasedStorageModification
<1>3. all = [k \in 1..Len(order) |-> all[k]] /\ kept = [k \in 1..Len(order) |-> kept[k]]
      /\ madeUp = [i \in 1..2 |-> madeUp[i]]
    OBVIOUS
<1> HIDE DEF all, kept, madeUp, K
<1>4. IsSeq(all) /\ IsSeq(kept)
    BY <1>3, FunctionIsSeq
<1>5. 2 \in Nat
    OBVIOUS
<1>6. IsSeq(madeUp) /\ Len(madeUp) = 2
    BY <1>3, <1>5, FunctionIsSeq
<1>7. IsSeq(Sublist(all, K))
    <2>1. all \in Seq(Elements(all))
        BY <1>4 DEF IsSeq
    <2>2. Sublist(all, K) \in Seq({all[k] : k \in K \cap 1..Len(all)})
        BY <2>1, SublistOf
    <2> QED
        BY <2>2, SeqOfElements
<1>8. GoodStorage([changes |-> FirstChanges(Sublist(all, K))])
    BY <1>7, FirstOf
<1>9. GoodStorage([changes |-> FirstChanges(kept)])
    BY <1>4, FirstOf
<1>10. GoodStorage([changes |-> madeUp])
    <2> DEFINE made == [changes |-> madeUp]
    <2>1. made.changes = madeUp /\ made = [changes |-> made.changes]
        OBVIOUS
    <2> HIDE DEF made
    <2>2. Len(made.changes) <= 3
        BY <1>6, <2>1
    <2>3. GoodStorage(made)
        BY <1>6, <2>1, <2>2 DEF GoodStorage, MaxChanges
    <2> QED
        BY <2>3 DEF made
<1> QED
    BY <1>1, <1>2, <1>8, <1>9, <1>10

\* The fallback rule guards slot 0, which counts as missing: a rule is valid if
\* one was made of a change.
LEMMA ValidRule ==
    ASSUME NEW contract, NEW input, NEW storage, GoodInput(input), GoodStorage(storage)
    PROVE  ValidateProtectionRule(CreateProtectionRule(contract, input, storage)) <=>
             \/ input # NoModification
             \/ /\ contract # ZeroContract
                /\ \E k \in 1..Len(storage.changes) : storage.changes[k].slot # 0
<1> DEFINE inputs == IF input = NoModification THEN <<>> ELSE <<CreateInputProtectionRule(input)>>
           rules == CreateStorageProtectionRules(storage, contract)
           K == {k \in 1..Len(rules) : Addressed(rules[k])}
           slots == IF storage = NoModification THEN <<>> ELSE Sublist(rules, K)
           n == Len(storage.changes)
           rule == CreateProtectionRule(contract, input, storage)
<1>1. IsSeq(storage.changes) /\ n \in Nat
    BY SeqOfElements DEF GoodStorage, IsSeq
<1> DEFINE guards == contract # ZeroContract /\ \E k \in 1..n : storage.changes[k].slot # 0
<1>2. \A k \in K : k \in 1..Len(rules) /\ Addressed(rules[k])
    OBVIOUS
<1>3. /\ slots = <<>> <=> ~guards
      /\ IsSeq(slots) /\ \A k \in 1..Len(slots) : Addressed(slots[k])
    <2>1. CASE storage.changes = <<>>
        <3>1. storage = NoModification
            BY <2>1 DEF GoodStorage, NoModification
        <3>2. slots = <<>>
            BY <3>1
        <3>3. n = 0
            BY <2>1
        <3>4. ~guards
            BY <3>3
        <3>5. Len(<<>>) = 0 /\ <<>> \in Seq({})
            OBVIOUS
        <3>6. IsSeq(<<>>)
            BY <3>5, SeqOfElements
        <3> HIDE DEF slots, guards
        <3> QED
            BY <3>2, <3>4, <3>5, <3>6
    <2>2. CASE storage.changes # <<>>
        <3>1. storage # NoModification /\ slots = Sublist(rules, K)
            BY <2>2 DEF NoModification
        <3>2. rules = [k \in 1..n |-> StorageRule(contract, storage.changes[k])]
            BY <2>2 DEF CreateStorageProtectionRules
        <3> HIDE DEF rules
        <3>3. IsSeq(rules) /\ Len(rules) = n
            <4>1. rules = [k \in 1..n |-> rules[k]]
                BY <3>2
            <4> QED
                BY <1>1, <4>1, FunctionIsSeq
        <3>4. \A k \in 1..n :
                 rules[k].contract = contract /\ rules[k].slot = storage.changes[k].slot
            BY <3>2 DEF StorageRule
        <3>5. guards <=> K \cap 1..Len(rules) # {}
            BY <3>3, <3>4 DEF Addressed
        <3>6. LET P == {rules[k] : k \in K \cap 1..Len(rules)}
              IN  /\ Sublist(rules, K) \in Seq(P)
                  /\ K \cap 1..Len(rules) # {} => Len(Sublist(rules, K)) > 0
            <4>1. rules \in Seq(Elements(rules))
                BY <3>3 DEF IsSeq
            <4> HIDE DEF K
            <4> QED
                BY <4>1, SublistOf
        <3> HIDE DEF guards
        <3> DEFINE P == {rules[k] : k \in K \cap 1..Len(rules)}
        <3>7. (\A r \in P : Addressed(r)) /\ (K \cap 1..Len(rules) = {} => P = {})
            BY <1>2
        <3> HIDE DEF K, slots
        <3>8. slots \in Seq(P) /\ (guards => Len(slots) > 0)
            BY <3>1, <3>5, <3>6
        <3>9. ~guards => P = {}
            BY <3>5, <3>7
        <3> HIDE DEF P
        <3>10. IsSeq(slots) /\ Len(slots) \in Nat /\ Elements(slots) \subseteq P
            BY <3>8, SeqOfElements
        <3>11. \A k \in 1..Len(slots) : slots[k] \in P
            BY <3>8
        <3>12. guards => slots # <<>>
            BY <3>8
        <3>13. ~guards => slots = <<>>
            BY <3>8, <3>9
        <3> QED
            BY <3>7, <3>10, <3>11, <3>12, <3>13
    <2> QED
        BY <2>1, <2>2
<1>4. /\ inputs = <<>> <=> input = NoModification
      /\ \A k \in 1..Len(inputs) : inputs[k] # <<>>
    <2>1. CASE input = NoModification
        BY <2>1
    <2>2. CASE input # NoModification
        <3> DEFINE made == CreateInputProtectionRule(input)
        <3>1. Len(input.changes) \in Nat \ {0}
            BY <2>2 DEF GoodInput
        <3>2. made = [k \in 1..Len(input.changes) |-> made[k]]
            BY DEF CreateInputProtectionRule
        <3> HIDE DEF made
        <3>3. Len(made) = Len(input.changes)
            BY <3>1, <3>2, FunctionIsSeq
        <3>4. made # <<>>
            BY <3>1, <3>3
        <3>5. inputs = <<made>>
            BY <2>2 DEF made
        <3> QED
            BY <2>2, <3>4, <3>5
    <2> QED
        BY <2>1, <2>2
<1> HIDE DEF guards
<1>5. rule = IF inputs = <<>> /\ slots = <<>> THEN CreateFallbackProtectionRule(contract)
             ELSE [inputs |-> inputs, storage |-> slots]
    BY DEF CreateProtectionRule
<1> HIDE DEF inputs, slots, rule
<1>6. CASE inputs = <<>> /\ slots = <<>>
    <2> DEFINE fallback == CreateFallbackProtectionRule(contract)
    <2>1. fallback.storage = <<DefaultStorageRule(contract)>>
        BY DEF CreateFallbackProtectionRule
    <2>2. ~Addressed(DefaultStorageRule(contract))
        BY DEF Addressed, DefaultStorageRule
    <2>3. Len(fallback.storage) = 1 /\ ~Addressed(fallback.storage[1])
        BY <2>1, <2>2
    <2> HIDE DEF fallback
    <2>4. ~ValidateProtectionRule(fallback)
        BY <2>3 DEF ValidateProtectionRule
    <2>5. rule = fallback
        BY <1>5, <1>6 DEF fallback
    <2>6. ~ValidateProtectionRule(rule)
        BY <2>4, <2>5
    <2> QED
        BY <1>3, <1>4, <1>6, <2>6 DEF guards, rule
<1>7. CASE ~(inputs = <<>> /\ slots = <<>>)
    <2>1. rule.inputs = inputs /\ rule.storage = slots
        BY <1>5, <1>7
    <2>2. ValidateProtectionRule(rule)
        BY <1>3, <1>4, <1>7, <2>1 DEF ValidateProtectionRule
    <2> QED
        BY <1>3, <1>4, <1>7, <2>2 DEF guards, rule
<1> QED
    BY <1>6, <1>7

\* The caller starts with nothing modified.
LEMMA InitRulesInv == RulesInit => RulesInv
<1> SUFFICES ASSUME RulesInit PROVE RulesInv
    OBVIOUS
<1>1. PICK call \in Calls, contract \in RuleContracts, typeAware \in BOOLEAN :
        protection = [stage |-> "input", call |-> call, contract |-> contract,
                      typeAware |-> typeAware, input |-> NoModification,
                      storage |-> NoModification, rule |-> [inputs |-> <<>>, storage |-> <<>>],
                      valid |-> FALSE]
    BY DEF RulesInit
<1> QED
    BY <1>1, NothingIsGood DEF RulesInv

\* Each step of the caller keeps RulesInv.
LEMMA VaryInputStep == ASSUME RulesInv, VaryInput PROVE RulesInv'
<1>1. /\ protection.stage = "input" /\ protection.call \in Calls
      /\ Len(protection.call.types) \in Nat
    <2>1. \A types \in Seq(OneWordTypes) : Len(types) \in Nat
        OBVIOUS
    <2>2. Len(NoMethod) \in Nat
        BY DEF NoMethod
    <2> QED
        BY <2>1, <2>2, RulesAssumption DEF VaryInput, RulesInv
<1>2. CASE \E modification : GoodInput(modification) /\ protection' =
                [protection EXCEPT !.stage = "storage", !.input = modification]
    <2>1. PICK modification : GoodInput(modification) /\ protection' =
                [protection EXCEPT !.stage = "storage", !.input = modification]
        BY <1>2
    <2>2. GoodStorage(protection.storage)
        BY DEF RulesInv
    <2> HIDE DEF GoodInput, GoodStorage
    <2> QED
        BY <1>1, <2>1, <2>2 DEF RulesInv
<1>3. CASE protection' = [protection EXCEPT !.stage = "panicked"]
    BY <1>1, <1>3 DEF RulesInv
<1>4. PICK variant \in 0..MaxVariant, strategy \in RuleStrategies :
         LET call == protection.call
             stepped == GenerateStepBasedInputModification(call.types, call.input, strategy,
                            variant, protection.typeAware, ZeroAddress)
             fallback == GenerateFallbackStepBasedInputModification(call.types, call.input, variant)
             Give(modification) ==
                 protection' = [protection EXCEPT !.stage = "storage", !.input = modification]
         IN  \/ Give(NoModification)
             \/ Give(stepped)
             \/ ~FallbackPanics(call.input, variant) /\ Give(fallback)
             \/ /\ FallbackPanics(call.input, variant) /\ call.types # NoMethod
                /\ protection' = [protection EXCEPT !.stage = "panicked"]
    BY DEF VaryInput
<1> DEFINE stepped == GenerateStepBasedInputModification(protection.call.types,
               protection.call.input, strategy, variant, protection.typeAware, ZeroAddress)
           fallback == GenerateFallbackStepBasedInputModification(
               protection.call.types, protection.call.input, variant)
<1>5. GoodInput(NoModification) /\ GoodInput(stepped) /\ GoodInput(fallback)
    BY <1>1, NothingIsGood, InputVaried, FallbackInputVaried
<1>6. \/ protection' = [protection EXCEPT !.stage = "storage", !.input = NoModification]
      \/ protection' = [protection EXCEPT !.stage = "storage", !.input = stepped]
      \/ protection' = [protection EXCEPT !.stage = "storage", !.input = fallback]
      \/ protection' = [protection EXCEPT !.stage = "panicked"]
    BY <1>4
<1> HIDE DEF stepped, fallback
<1> QED
    BY <1>2, <1>3, <1>5, <1>6

LEMMA VaryStorageStep == ASSUME RulesInv, VaryStorage PROVE RulesInv'
<1>1. /\ protection.stage = "storage" /\ protection.call \in Calls
      /\ IsFiniteSet(DOMAIN protection.call.storage)
    BY RulesAssumption DEF VaryStorage, RulesInv
<1>2. PICK variant \in 0..MaxVariant, strategy \in RuleStrategies,
           order \in SetToSeqs(DOMAIN protection.call.storage) :
         \E modification \in
                {NoModification,
                 GenerateStepBasedStorageModification(
                     protection.call.storage, order, strategy, variant),
                 GenerateFallbackStepBasedStorageModification(
                     protection.call.storage, order, variant)} :
             protection' = [protection EXCEPT !.stage = "create", !.storage = modification]
    BY DEF VaryStorage
<1>3. Len(order) \in Nat
    <2> DEFINE n == Cardinality(DOMAIN protection.call.storage)
    <2>1. n \in Nat
        BY <1>1, FS_CardinalityType
    <2>2. order \in [1..n -> DOMAIN protection.call.storage]
        BY DEF SetToSeqs
    <2> HIDE DEF n
    <2> QED
        BY <2>1, <2>2
<1>4. PICK modification :
        /\ modification \in
                {NoModification,
                 GenerateStepBasedStorageModification(
                     protection.call.storage, order, strategy, variant),
                 GenerateFallbackStepBasedStorageModification(
                     protection.call.storage, order, variant)}
        /\ protection' = [protection EXCEPT !.stage = "create", !.storage = modification]
    BY <1>2
<1>5. GoodStorage(modification)
    BY <1>3, <1>4, NothingIsGood, StorageVaried
<1>6. GoodInput(protection.input)
    BY DEF RulesInv
<1> QED
    BY <1>1, <1>4, <1>5, <1>6 DEF RulesInv

LEMMA NextRulesInv == RulesInv /\ [RulesNext]_protection => RulesInv'
<1> SUFFICES ASSUME RulesInv, [RulesNext]_protection PROVE RulesInv'
    OBVIOUS
<1>1. CASE CreateRule
    BY <1>1 DEF CreateRule, RulesInv
<1>2. CASE ValidateRule
    BY <1>2 DEF ValidateRule, RulesInv
<1>3. CASE UNCHANGED protection
    BY <1>3 DEF RulesInv
<1> QED
    BY <1>1, <1>2, <1>3, VaryInputStep, VaryStorageStep DEF RulesNext, RulesEnd

\* The caller's rule is what the modifications make of it, and the verdict is of
\* that rule (txReplayer.go:1145).
THEOREM RulesInvariance == RulesSpec => []RulesInv
<1> QED
    BY InitRulesInv, NextRulesInv, PTL DEF RulesSpec

\* A created rule is valid exactly if the input was modified or a slot other
\* than slot 0 of a real contract was: the fallback rule never is
\* (txReplayer.go:1048, 1145).
THEOREM ValidExactly == Spec => []RuleIsValid
<1>1. RulesInv => RuleIsValid
    BY ValidRule DEF RulesInv, RuleIsValid
<1> QED
    BY <1>1, Components, RulesInvariance, PTL
-----------------------------------------------------------------------------
(* Sums                                                                    *)

Sum(f) == FoldFunction(LAMBDA a, b : a + b, 0, f)
Pickof(s) == CHOOSE x \in s : TRUE

\* The fold walks the domain from element to element.
SumOver(f, g, sets) ==
    g = [s \in sets |-> IF s = {} THEN 0 ELSE f[Pickof(s)] + g[s \ {Pickof(s)}]]

\* There is a function that sums f over every part of a finite set, however
\* the fold of Sum chooses its elements.
LEMMA PartialSums ==
    ASSUME NEW D, IsFiniteSet(D), NEW f
    PROVE  \E g : SumOver(f, g, SUBSET D)
<1> DEFINE Sets(m) == {s \in SUBSET D : Cardinality(s) <= m}
           n == Cardinality(D)
           Good(m) == \E g : SumOver(f, g, Sets(m))
           Bad == {m \in Nat : ~Good(m)}
<1>1. n \in Nat
    BY FS_CardinalityType
<1>2. \A s \in SUBSET D : IsFiniteSet(s) /\ Cardinality(s) \in Nat /\ Cardinality(s) <= n
    BY FS_Subset, FS_CardinalityType
<1>3. \A s \in SUBSET D : s # {} =>
          /\ Pickof(s) \in s /\ s \ {Pickof(s)} \in SUBSET D
          /\ Cardinality(s \ {Pickof(s)}) = Cardinality(s) - 1
    <2> SUFFICES ASSUME NEW s \in SUBSET D, s # {}
                 PROVE  /\ Pickof(s) \in s /\ s \ {Pickof(s)} \in SUBSET D
                        /\ Cardinality(s \ {Pickof(s)}) = Cardinality(s) - 1
        OBVIOUS
    <2>1. Pickof(s) \in s
        BY DEF Pickof
    <2> QED
        BY <1>2, <2>1, FS_RemoveElement
<1>4. Bad = {}
    <2> SUFFICES ASSUME Bad # {} PROVE FALSE
        OBVIOUS
    <2> HIDE DEF Good
    <2>1. PICK m \in Bad : \A k \in Bad : m <= k
        BY LeastNumber
    <2>2. m \in Nat /\ ~Good(m)
        BY <2>1
    <2>3. m # 0
        <3> DEFINE e == [s \in Sets(0) |-> 0]
        <3>1. \A s \in Sets(0) : s = {}
            BY <1>2, FS_EmptySet
        <3>2. SumOver(f, e, Sets(0))
            BY <3>1 DEF SumOver
        <3> QED
            BY <2>2, <3>2 DEF Good
    <2>4. m - 1 \in Nat /\ ~(m <= m - 1)
        BY <2>2, <2>3
    <2>5. Good(m - 1)
        BY <2>1, <2>4
    <2>6. PICK g : SumOver(f, g, Sets(m - 1))
        BY <2>5 DEF Good
    <2> DEFINE more == [s \in Sets(m) |->
                          IF s = {} THEN 0 ELSE f[Pickof(s)] + g[s \ {Pickof(s)}]]
    <2>7. ASSUME NEW s \in Sets(m), s # {}
          PROVE  more[s \ {Pickof(s)}] = g[s \ {Pickof(s)}]
        <3> DEFINE rest == s \ {Pickof(s)}
        <3>1. rest \in SUBSET D /\ Cardinality(rest) <= m - 1 /\ Cardinality(rest) <= m
            BY <1>2, <1>3, <2>2, <2>7
        <3> HIDE DEF rest
        <3>2. rest \in Sets(m - 1) /\ rest \in Sets(m)
            BY <3>1
        <3>3. g[rest] = IF rest = {} THEN 0 ELSE f[Pickof(rest)] + g[rest \ {Pickof(rest)}]
            BY <2>6, <3>2 DEF SumOver
        <3>4. more[rest] = IF rest = {} THEN 0 ELSE f[Pickof(rest)] + g[rest \ {Pickof(rest)}]
            BY <3>2
        <3> QED
            BY <3>3, <3>4 DEF rest
    <2>8. SumOver(f, more, Sets(m))
        BY <2>7 DEF SumOver
    <2> HIDE DEF more
    <2> QED
        BY <2>2, <2>8 DEF Good
<1>5. Sets(n) = SUBSET D
    BY <1>2
<1>6. Good(n)
    BY <1>1, <1>4
<1> QED
    BY <1>5, <1>6

\* Sum is such a sum of the whole domain.
LEMMA SumIs ==
    ASSUME NEW D, IsFiniteSet(D), NEW f, DOMAIN f = D
    PROVE  \E g : SumOver(f, g, SUBSET D) /\ Sum(f) = g[D]
<1> DEFINE g == CHOOSE g : SumOver(f, g, SUBSET D)
<1>1. SumOver(f, g, SUBSET D)
    BY PartialSums
<1>2. Sum(f) = g[D]
    BY DEF Sum, FoldFunction, FoldFunctionOnSet, MapThenFoldSet, SumOver, Pickof
<1> HIDE DEF g
<1> QED
    BY <1>1, <1>2

\* One more at one place is one more in the sum; the sum of nothing is 0.
LEMMA SumOne ==
    ASSUME NEW D, IsFiniteSet(D), NEW f \in [D -> Nat], NEW x \in D, NEW more,
           more = [f EXCEPT ![x] = @ + 1]
    PROVE  Sum(f) \in Nat /\ Sum(more) = Sum(f) + 1
<1>1. more \in [D -> Nat] /\ DOMAIN more = D /\ DOMAIN f = D
    OBVIOUS
<1>2. PICK g : SumOver(f, g, SUBSET D) /\ Sum(f) = g[D]
    BY <1>1, SumIs
<1>3. PICK h : SumOver(more, h, SUBSET D) /\ Sum(more) = h[D]
    BY <1>1, SumIs
<1> DEFINE Right(s) == g[s] \in Nat /\ h[s] = g[s] + IF x \in s THEN 1 ELSE 0
           Wrong == {m \in Nat : \E s \in SUBSET D : Cardinality(s) = m /\ ~Right(s)}
<1>4. \A s \in SUBSET D : IsFiniteSet(s) /\ Cardinality(s) \in Nat
    BY FS_Subset, FS_CardinalityType
<1>5. Wrong = {}
    <2> SUFFICES ASSUME Wrong # {} PROVE FALSE
        OBVIOUS
    <2> HIDE DEF Right
    <2>1. PICK m \in Wrong : \A k \in Wrong : m <= k
        BY LeastNumber
    <2>2. PICK s \in SUBSET D : Cardinality(s) = m /\ ~Right(s)
        BY <2>1
    <2>3. g[s] = (IF s = {} THEN 0 ELSE f[Pickof(s)] + g[s \ {Pickof(s)}])
          /\ h[s] = (IF s = {} THEN 0 ELSE more[Pickof(s)] + h[s \ {Pickof(s)}])
        BY <1>2, <1>3 DEF SumOver
    <2>4. CASE s = {}
        BY <2>2, <2>3, <2>4 DEF Right
    <2>5. CASE s # {}
        <3> DEFINE p == Pickof(s)
                   rest == s \ {p}
        <3>1. p \in s /\ p \in D
            BY <2>5 DEF Pickof
        <3>2. rest \in SUBSET D /\ (x \in s <=> x \in rest \/ x = p) /\ p \notin rest
            BY <3>1
        <3>3. Cardinality(rest) = m - 1
            BY <1>4, <2>2, <3>1, FS_RemoveElement
        <3>4. g[s] = f[p] + g[rest] /\ h[s] = more[p] + h[rest]
            BY <2>3, <2>5
        <3> HIDE DEF p, rest
        <3>5. Cardinality(rest) \in Nat /\ ~(m <= Cardinality(rest))
            BY <1>4, <2>1, <3>2, <3>3
        <3>6. Right(rest)
            BY <2>1, <3>2, <3>5
        <3>7. g[rest] \in Nat /\ h[rest] = g[rest] + IF x \in rest THEN 1 ELSE 0
            BY <3>6 DEF Right
        <3>8. f[p] \in Nat /\ more[p] = f[p] + IF x = p THEN 1 ELSE 0
            BY <3>1
        <3>9. CASE x = p
            BY <2>2, <3>2, <3>4, <3>7, <3>8, <3>9 DEF Right
        <3>10. CASE x # p
            <4>1. (x \in s <=> x \in rest) /\ more[p] = f[p]
                BY <3>2, <3>8, <3>10
            <4> QED
                BY <2>2, <3>4, <3>7, <3>8, <4>1 DEF Right
        <3> QED
            BY <3>9, <3>10
    <2> QED
        BY <2>4, <2>5
<1>6. Right(D)
    <2> HIDE DEF Right
    <2> QED
        BY <1>4, <1>5
<1> QED
    BY <1>2, <1>3, <1>6

\* Nothing but zeros sums to zero.
LEMMA SumZero ==
    ASSUME NEW D, IsFiniteSet(D)
    PROVE  Sum([x \in D |-> 0]) = 0
<1> DEFINE f == [x \in D |-> 0]
<1>1. DOMAIN f = D /\ \A x \in D : f[x] = 0
    OBVIOUS
<1> HIDE DEF f
<1>2. PICK g : SumOver(f, g, SUBSET D) /\ Sum(f) = g[D]
    BY <1>1, SumIs
<1> DEFINE Wrong == {m \in Nat : \E s \in SUBSET D : Cardinality(s) = m /\ g[s] # 0}
<1>3. \A s \in SUBSET D : IsFiniteSet(s) /\ Cardinality(s) \in Nat
    BY FS_Subset, FS_CardinalityType
<1>4. Wrong = {}
    <2> SUFFICES ASSUME Wrong # {} PROVE FALSE
        OBVIOUS
    <2>1. PICK m \in Wrong : \A k \in Wrong : m <= k
        BY LeastNumber
    <2>2. PICK s \in SUBSET D : Cardinality(s) = m /\ g[s] # 0
        BY <2>1
    <2>3. g[s] = IF s = {} THEN 0 ELSE f[Pickof(s)] + g[s \ {Pickof(s)}]
        BY <1>2 DEF SumOver
    <2> DEFINE p == Pickof(s)
               rest == s \ {p}
    <2>4. s # {} /\ g[s] = f[p] + g[rest]
        BY <2>2, <2>3
    <2>5. p \in s /\ p \in D
        BY <2>4 DEF Pickof
    <2>6. rest \in SUBSET D /\ Cardinality(rest) = m - 1
        BY <1>3, <2>2, <2>5, FS_RemoveElement
    <2> HIDE DEF p, rest
    <2>7. Cardinality(rest) \in Nat /\ ~(m <= Cardinality(rest))
        BY <1>3, <2>1, <2>6
    <2>8. g[rest] = 0
        BY <2>1, <2>6, <2>7
    <2>9. f[p] = 0
        BY <1>1, <2>5
    <2> QED
        BY <2>2, <2>4, <2>8, <2>9
<1>5. g[D] = 0
    BY <1>3, <1>4
<1> QED
    BY <1>2, <1>5 DEF f
-----------------------------------------------------------------------------
(* Slots                                                                   *)

\* The first slot taken changes the parity that let it in: no second one is.
LEMMA OneSlotChosen ==
    ASSUME NEW infos, IsSeq(infos), NEW variant \in Nat
    PROVE  \E slot : SelectSlotsForMutation(infos, variant) \subseteq {slot}
<1> DEFINE important == Important(infos)
           n == Len(important)
           next(before, k) ==
               LET count == Cardinality(before)
               IN  IF count < AtMost(MaxSlots, Len(infos)) /\ (variant + count) % 2 = 0
                   THEN before \cup {important[k].slot} ELSE before
           Unrolled(f, m) == [k \in 0..m |-> IF k = 0 THEN {} ELSE next(f[k - 1], k)]
           taken == CHOOSE f : f = Unrolled(f, n)
           slots == taken[n]
           first == {Pick(infos, variant).slot}
<1>1. n \in Nat
    <2>1. infos \in Seq(Elements(infos))
        BY DEF IsSeq
    <2> DEFINE K == {k \in 1..Len(infos) : infos[k].score > 50}
    <2>2. important = Sublist(infos, K)
        BY DEF Important
    <2> HIDE DEF K, important
    <2>3. important \in Seq({infos[k] : k \in K \cap 1..Len(infos)})
        BY <2>1, <2>2, SublistOf
    <2> QED
        BY <2>3
<1>2. SelectSlotsForMutation(infos, variant) \in {slots, first}
    BY DEF SelectSlotsForMutation
<1> HIDE DEF important
<1> HIDE DEF n
<1>3. taken = Unrolled(taken, n)
    <2> DEFINE Good(f, m) == f = Unrolled(f, m)
               Bad == {m \in Nat : m <= n /\ ~(\E f : Good(f, m))}
    <2> HIDE DEF Good
    <2>1. Bad = {}
        <3> SUFFICES ASSUME Bad # {} PROVE FALSE
            OBVIOUS
        <3>1. PICK m \in Bad : \A k \in Bad : m <= k
            BY LeastNumber
        <3>2. m \in Nat /\ m <= n /\ ~(\E f : Good(f, m))
            BY <3>1
        <3>3. m # 0
            <4> DEFINE e == [k \in {0} |-> {}]
            <4> HIDE DEF next
            <4>1. e = Unrolled(e, 0)
                OBVIOUS
            <4>2. Good(e, 0)
                BY <4>1 DEF Good
            <4> QED
                BY <3>2, <4>2
        <3>4. m - 1 \in Nat /\ m - 1 <= n /\ ~(m <= m - 1)
            BY <1>1, <3>2, <3>3
        <3>5. m - 1 \notin Bad
            BY <3>1, <3>4
        <3>6. PICK f : Good(f, m - 1)
            BY <3>4, <3>5
        <3> DEFINE g == [k \in 0..m |-> IF k = 0 THEN {} ELSE next(f[k - 1], k)]
        <3> HIDE DEF next
        <3>7. ASSUME NEW k \in 0..m, k # 0 PROVE g[k - 1] = f[k - 1]
            <4>1. k - 1 \in 0..(m - 1) /\ k - 1 \in 0..m
                BY <3>2, <3>7
            <4>2. f = [j \in 0..(m - 1) |-> IF j = 0 THEN {} ELSE next(f[j - 1], j)]
                BY <3>6 DEF Good
            <4>3. f[k - 1] = IF k - 1 = 0 THEN {} ELSE next(f[(k - 1) - 1], k - 1)
                BY <4>1, <4>2
            <4> QED
                BY <4>1, <4>3
        <3>8. g = Unrolled(g, m)
            BY <3>7
        <3> HIDE DEF g
        <3>9. Good(g, m)
            BY <3>8 DEF Good
        <3> QED
            BY <3>2, <3>9
    <2>2. \E f : Good(f, n)
        BY <1>1, <2>1
    <2>3. \E f : f = Unrolled(f, n)
        BY <2>2 DEF Good
    <2> HIDE DEF next
    <2> QED
        BY <2>3
<1> HIDE DEF taken
<1>4. taken[0] = {} /\ \A k \in 1..n : taken[k] = next(taken[k - 1], k)
    <2> HIDE DEF next
    <2>1. \A k \in 0..n : taken[k] = IF k = 0 THEN {} ELSE next(taken[k - 1], k)
        BY <1>3
    <2>2. 0 \in 0..n /\ \A k \in 1..n : k \in 0..n /\ k # 0
        BY <1>1
    <2> QED
        BY <2>1, <2>2
<1> DEFINE Right(k) == taken[k] = {} \/ \E slot : taken[k] = {slot} /\ variant % 2 = 0
           Wrong == {k \in Nat : k <= n /\ ~Right(k)}
<1>5. Wrong = {}
    <2> HIDE DEF Right
    <2> SUFFICES ASSUME Wrong # {} PROVE FALSE
        OBVIOUS
    <2>1. PICK k \in Wrong : \A j \in Wrong : k <= j
        BY LeastNumber
    <2>2. k \in Nat /\ k <= n /\ ~Right(k)
        BY <2>1
    <2>3. k # 0
        <3>1. Right(0)
            BY <1>4 DEF Right
        <3> QED
            BY <2>2, <3>1
    <2>4. k \in 1..n /\ k - 1 \in Nat /\ k - 1 <= n /\ ~(k <= k - 1)
        BY <1>1, <2>2, <2>3
    <2>5. Right(k - 1)
        BY <2>1, <2>4
    <2>6. taken[k] = next(taken[k - 1], k)
        BY <1>4, <2>4
    <2>7. CASE taken[k - 1] = {}
        <3>1. Cardinality({}) = 0
            BY FS_EmptySet
        <3>2. taken[k] = {} \/ (taken[k] = {important[k].slot} /\ variant % 2 = 0)
            BY <2>6, <2>7, <3>1
        <3> QED
            BY <2>2, <3>2 DEF Right
    <2>8. ASSUME NEW slot, taken[k - 1] = {slot}, variant % 2 = 0 PROVE Right(k)
        <3>1. Cardinality({slot}) = 1
            BY FS_Singleton
        <3>2. (variant + 1) % 2 # 0
            BY <2>8
        <3>3. next({slot}, k) = {slot}
            BY <3>1, <3>2
        <3> QED
            BY <2>6, <2>8, <3>3 DEF Right
    <2> QED
        BY <2>2, <2>5, <2>7, <2>8 DEF Right
<1>6. Right(n)
    <2> HIDE DEF Right
    <2> QED
        BY <1>1, <1>5
<1>7. \E slot : slots \subseteq {slot}
    BY <1>6
<1> HIDE DEF slots
<1> QED
    BY <1>2, <1>7

\* The storage of a contract has finitely many slots.
IsStorage(storage) == storage \in [DOMAIN storage -> Nat] /\ IsFiniteSet(DOMAIN storage)

\* No value is taken for a mapping or an array, and one taken for an integer is
\* below the balances.
IsInfos(infos) ==
    /\ IsSeq(infos)
    /\ \A k \in 1..Len(infos) :
          /\ infos[k].type \notin {"mapping", "array"}
          /\ infos[k].type = "uint256" => infos[k].value \in Nat /\ infos[k].value < SmallValue

\* The analysis of a storage describes its slots.
LEMMA Analyzed ==
    ASSUME NEW storage, IsStorage(storage), NEW order \in SetToSeqs(DOMAIN storage), NEW hasABI
    PROVE  IsInfos(AnalyzeContractStorage(storage, order, hasABI))
<1> DEFINE n == Cardinality(DOMAIN storage)
           infos == AnalyzeContractStorage(storage, order, hasABI)
           value(k) == storage[order[k]]
           type(k) == InferSlotType(value(k))
           score(k) == IF hasABI THEN CalculateSlotImportance(order[k], type(k), value(k)) ELSE 0
<1>1. n \in Nat
    BY FS_CardinalityType DEF IsStorage
<1>2. order \in [1..n -> DOMAIN storage]
    BY DEF SetToSeqs
<1> HIDE DEF n
<1>3. Len(order) = n /\ \A k \in 1..n : value(k) \in Nat
    BY <1>1, <1>2 DEF IsStorage
<1> HIDE DEF score
<1>4. infos = [k \in 1..n |->
                 [slot |-> order[k], value |-> value(k), type |-> type(k), score |-> score(k)]]
    BY <1>3 DEF AnalyzeContractStorage, score
<1> HIDE DEF infos
<1>5. IsSeq(infos) /\ Len(infos) = n
    <2>1. infos = [k \in 1..n |-> infos[k]]
        BY <1>4
    <2> QED
        BY <1>1, <2>1, FunctionIsSeq
<1>6. \A k \in 1..n : infos[k].type = type(k) /\ infos[k].value = value(k)
    BY <1>4
<1>7. \A v \in Nat : /\ InferSlotType(v) \notin {"mapping", "array"}
                     /\ InferSlotType(v) = "uint256" => v < SmallValue
    BY StorageAnalyzerAssumption DEF InferSlotType, LooksLikeLength
<1>8. \A k \in 1..n : /\ infos[k].type \notin {"mapping", "array"}
                      /\ infos[k].type = "uint256" => infos[k].value < SmallValue
    BY <1>3, <1>6, <1>7
<1> HIDE DEF value, type
<1>9. IsInfos(infos)
    BY <1>3, <1>5, <1>6, <1>8 DEF IsInfos
<1> QED
    BY <1>9 DEF infos

\* Storage that is mutated keeps its slots, and changes in one at most.
LEMMA StorageMutated ==
    ASSUME NEW storage, IsStorage(storage), NEW order \in SetToSeqs(DOMAIN storage), NEW hasABI,
           NEW variant \in Nat, NEW random
    PROVE  LET new == MutateStorage(storage, order, hasABI, variant, random)
               changed == {slot \in DOMAIN storage : new[slot] # storage[slot]}
           IN  /\ DOMAIN new = DOMAIN storage
               /\ new = <<>> <=> storage = <<>>
               /\ Cardinality(changed) <= 1
<1> DEFINE new == MutateStorage(storage, order, hasABI, variant, random)
           changed == {slot \in DOMAIN storage : new[slot] # storage[slot]}
           infos == AnalyzeContractStorage(storage, order, hasABI)
           chosen == SelectSlotsForMutation(infos, variant)
           value(slot) == MutateSlotValue(CHOOSE info \in ToSet(infos) : info.slot = slot,
                                          variant, random)
<1>1. PICK slot : chosen \subseteq {slot}
    BY Analyzed, OneSlotChosen DEF IsInfos
<1> HIDE DEF value
<1>2. new = [s \in DOMAIN storage |-> IF s \in chosen THEN value(s) ELSE storage[s]]
    BY DEF MutateStorage, value
<1> HIDE DEF new, chosen
<1>3. changed \subseteq {slot}
    BY <1>1, <1>2
<1>4. Cardinality(changed) <= 1
    <2> HIDE DEF changed
    <2>1. changed = {} \/ changed = {slot}
        BY <1>3
    <2>2. Cardinality({}) = 0 /\ Cardinality({slot}) = 1
        BY FS_EmptySet, FS_Singleton
    <2>3. Cardinality(changed) = 0 \/ Cardinality(changed) = 1
        BY <2>1, <2>2
    <2> QED
        BY <2>3
<1>5. \A f : f = [x \in DOMAIN f |-> f[x]] => (f = <<>> <=> DOMAIN f = {})
    OBVIOUS
<1>6. storage = [x \in DOMAIN storage |-> storage[x]]
    BY DEF IsStorage
<1>7. new = [x \in DOMAIN new |-> new[x]] /\ DOMAIN new = DOMAIN storage
    BY <1>2
<1> QED
    BY <1>4, <1>5, <1>6, <1>7 DEF new
-----------------------------------------------------------------------------
(* Plans                                                                   *)

\* What is planned for an input, and for the storage that infos describes.
IsPlan(plan, input) ==
    /\ IsSeq(plan.storage) /\ IsSeq(plan.input)
    /\ \A k \in 1..Len(plan.storage) :
          /\ plan.storage[k].strategy \in Strategies
          /\ plan.storage[k].variant \in Nat
    /\ \A k \in 1..Len(plan.input) :
          /\ plan.input[k].strategy \in Strategies /\ plan.input[k].variant \in Nat
          /\ ParamCount(input) >= 1

\* An element of a concatenation is an element of one of its parts.
LEMMA FlattenedElements ==
    ASSUME NEW s, IsSeq(s), \A i \in 1..Len(s) : IsSeq(s[i])
    PROVE  /\ IsSeq(FlattenSeq(s))
           /\ \A k \in 1..Len(FlattenSeq(s)) :
                 \E i \in 1..Len(s) : \E j \in 1..Len(s[i]) : FlattenSeq(s)[k] = s[i][j]
<1> DEFINE n == Len(s)
           S == UNION {Elements(s[i]) : i \in 1..n}
           flat == FlattenSeq(s)
<1>1. n \in Nat /\ s \in [1..n -> Elements(s)]
    BY DEF IsSeq
<1>2. \A i \in 1..n : s[i] \in Seq(S)
    <2> SUFFICES ASSUME NEW i \in 1..n PROVE s[i] \in Seq(S)
        OBVIOUS
    <2>1. s[i] \in Seq(Elements(s[i]))
        BY DEF IsSeq
    <2>2. Elements(s[i]) \subseteq S
        OBVIOUS
    <2> HIDE DEF S
    <2> QED
        BY <2>1, <2>2
<1>3. \A x \in S : \E i \in 1..n : \E j \in 1..Len(s[i]) : x = s[i][j]
    BY DEF Elements
<1> HIDE DEF S
<1>4. s \in Seq(Seq(S))
    <2>1. s \in [1..n -> Seq(S)]
        BY <1>1, <1>2
    <2> QED
        BY <1>1, <2>1
<1>5. flat \in Seq(S)
    BY <1>4, Flattened
<1> HIDE DEF flat
<1>6. IsSeq(flat) /\ \A k \in 1..Len(flat) : flat[k] \in S
    BY <1>5, SeqOfElements
<1> QED
    BY <1>3, <1>6 DEF flat

\* A sublist has a length, and is empty if nothing is selected.
LEMMA SublistLength ==
    ASSUME NEW s, IsSeq(s), NEW K
    PROVE  /\ IsSeq(Sublist(s, K)) /\ Len(Sublist(s, K)) \in Nat
           /\ K = {} => Len(Sublist(s, K)) = 0
<1> DEFINE P == {s[k] : k \in K \cap 1..Len(s)}
<1>1. s \in Seq(Elements(s))
    BY DEF IsSeq
<1>2. Sublist(s, K) \in Seq(P)
    BY <1>1, SublistOf
<1>3. K = {} => P = {}
    OBVIOUS
<1> HIDE DEF P
<1>4. K = {} => Sublist(s, K) \in Seq({})
    BY <1>2, <1>3
<1>5. \A t \in Seq({}) : Len(t) = 0
    OBVIOUS
<1> QED
    BY <1>2, <1>4, <1>5, SeqOfElements

\* A strategy has some number of targets.
LEMMA TargetSlots ==
    ASSUME NEW infos, IsInfos(infos), NEW strategy
    PROVE  Len(SelectTargetSlots(strategy, infos)) \in Nat
<1>1. IsSeq(infos) /\ Len(infos) \in Nat
    BY SeqOfElements DEF IsInfos, IsSeq
<1>2. \A type : Len(FilterSlotsByType(infos, type)) \in Nat
    BY <1>1, SublistLength DEF FilterSlotsByType
<1>3. Len(FilterSlotsLikeBalance(infos)) \in Nat /\ Len(FilterSlotsLikeCounter(infos)) \in Nat
    BY <1>1, SublistLength DEF FilterSlotsLikeBalance, FilterSlotsLikeCounter
<1>4. Len(ByScore(infos)) \in Nat
    <2> DEFINE ranked == ByScore(infos)
    <2>1. ranked = [k \in 1..Len(infos) |-> ranked[k]]
        BY DEF ByScore
    <2> HIDE DEF ranked
    <2>2. Len(ranked) = Len(infos)
        BY <1>1, <2>1, FunctionIsSeq
    <2> QED
        BY <1>1, <2>2 DEF ranked
<1>5. SelectTargetSlots(strategy, infos) \in
        {FilterSlotsByType(infos, type) : type \in {"address", "bool", "mapping", "array"}}
        \cup {FilterSlotsLikeBalance(infos), FilterSlotsLikeCounter(infos), ByScore(infos)}
    BY DEF SelectTargetSlots
<1> QED
    BY <1>2, <1>3, <1>4, <1>5

\* What is left of the batch for each strategy is an integer.
LEMMA Shares ==
    ASSUME NEW batch \in Nat, NEW ranking \in SetToSeqs(Strategies)
    PROVE  LET share == IF batch < Len(ranking) THEN 1 ELSE batch \div Len(ranking)
           IN  /\ Len(ranking) \in Nat /\ \A i \in 1..Len(ranking) : ranking[i] \in Strategies
               /\ \A i \in 1..Len(ranking) : AtMost(share, batch - (i - 1) * share) \in Int
<1> DEFINE n == Cardinality(Strategies)
           share == IF batch < n THEN 1 ELSE batch \div n
<1>1. n \in Nat /\ n # 0
    BY MutationStrategyAssumption, FS_CardinalityType, FS_EmptySet
<1>2. ranking \in [1..n -> Strategies]
    BY DEF SetToSeqs
<1> HIDE DEF n
<1>3. Len(ranking) = n
    BY <1>1, <1>2
<1>4. share \in Int
    BY <1>1
<1> HIDE DEF share
<1>5. \A i \in 1..n : batch - (i - 1) * share \in Int
    BY <1>1, <1>4
<1>6. \A i \in 1..n : AtMost(share, batch - (i - 1) * share) \in Int
    BY <1>4, <1>5 DEF AtMost
<1> QED
    BY <1>1, <1>2, <1>3, <1>6 DEF share

\* Storage plans are of the strategy that made them.
LEMMA StoragePlanned ==
    ASSUME NEW strategy \in Strategies, NEW infos, IsInfos(infos), NEW variants \in Nat \ {0}
    PROVE  LET plans == GenerateStorageMutationPlans(strategy, infos, variants)
           IN  /\ IsSeq(plans)
               /\ \A k \in 1..Len(plans) : /\ plans[k].strategy \in Strategies
                                           /\ plans[k].variant \in Nat
<1> DEFINE plans == GenerateStorageMutationPlans(strategy, infos, variants)
           targets == SelectTargetSlots(strategy, infos)
           n == AtMost(variants, Len(targets))
<1>1. Len(targets) \in Nat
    BY TargetSlots
<1>2. plans = [i \in 1..n |-> [strategy |-> strategy, slot |-> targets[i].slot, variant |-> i - 1]]
    BY DEF GenerateStorageMutationPlans
<1> HIDE DEF targets, plans
<1>3. n \in Nat
    BY <1>1 DEF AtMost
<1> HIDE DEF n
<1>4. IsSeq(plans) /\ Len(plans) = n
    <2>1. plans = [i \in 1..n |-> plans[i]]
        BY <1>2
    <2> QED
        BY <1>3, <2>1, FunctionIsSeq
<1>5. \A k \in 1..n : plans[k].strategy = strategy /\ plans[k].variant = k - 1
    BY <1>2
<1>6. \A k \in 1..n : plans[k].strategy \in Strategies /\ plans[k].variant \in Nat
    BY <1>3, <1>5
<1> QED
    BY <1>4, <1>6 DEF plans

\* Input plans are made only for an input with a parameter.
LEMMA InputPlanned ==
    ASSUME NEW strategy \in Strategies, NEW input \in Seq(0..255), NEW variants \in Nat \ {0}
    PROVE  LET plans == GenerateInputMutationPlans(strategy, input, variants)
           IN  /\ IsSeq(plans)
               /\ \A k \in 1..Len(plans) : /\ plans[k].strategy \in Strategies
                                           /\ plans[k].variant \in Nat
                                           /\ ParamCount(input) >= 1
<1> DEFINE plans == GenerateInputMutationPlans(strategy, input, variants)
           targets == SelectTargetPositions(strategy, input)
           count == ParamCount(input)
           n == AtMost(variants, Len(targets))
<1>1. count \in Nat
    <2>1. Len(input) \in Nat /\ WordBytes \in Nat \ {0}
        BY StepMutationAssumption
    <2>2. CASE Len(input) <= 4
        BY <2>2 DEF ParamCount, SelectorBytes
    <2>3. CASE ~(Len(input) <= 4)
        <3>1. count = (Len(input) - 4) \div WordBytes
            BY <2>3 DEF ParamCount, SelectorBytes
        <3>2. Len(input) - 4 \in Nat
            BY <2>1, <2>3
        <3> HIDE DEF count
        <3>3. \A a \in Nat, b \in Nat \ {0} : a \div b \in Nat
            OBVIOUS
        <3> QED
            BY <2>1, <3>1, <3>2, <3>3
    <2> QED
        BY <2>2, <2>3
<1>2. targets = [k \in 1..count |-> targets[k]]
    BY DEF SelectTargetPositions
<1>3. plans = [i \in 1..n |-> [strategy |-> strategy, argument |-> targets[i], variant |-> i - 1]]
    BY DEF GenerateInputMutationPlans
<1> HIDE DEF targets, plans, count
<1>4. Len(targets) = count
    BY <1>1, <1>2, FunctionIsSeq
<1>5. n \in Nat /\ n <= count
    BY <1>1, <1>4 DEF AtMost
<1> HIDE DEF n
<1>6. IsSeq(plans) /\ Len(plans) = n
    <2>1. plans = [i \in 1..n |-> plans[i]]
        BY <1>3
    <2> QED
        BY <1>5, <2>1, FunctionIsSeq
<1>7. \A k \in 1..n : plans[k].strategy = strategy /\ plans[k].variant = k - 1
    BY <1>3
<1>8. \A k \in 1..n : /\ plans[k].strategy \in Strategies /\ plans[k].variant \in Nat
                      /\ count >= 1
    BY <1>1, <1>5, <1>7
<1> QED
    BY <1>6, <1>8 DEF plans, count

\* A plan is for strategies of the smart strategy alone.
LEMMA Planning ==
    ASSUME NEW strategy, strategy.batch \in Nat, NEW ranking \in SetToSeqs(Strategies),
           NEW infos, IsInfos(infos), NEW input \in Seq(0..255)
    PROVE  LET plan == GetOptimalMutationPlan(strategy, ranking, infos, input)
           IN  \A c : IsPlan([contract |-> c, storage |-> plan.storage, input |-> plan.input],
                             input)
<1> DEFINE n == Len(ranking)
           share == IF strategy.batch < n THEN 1 ELSE strategy.batch \div n
           variants(i) == AtMost(share, strategy.batch - (i - 1) * share)
           pairs == [i \in 1..n |-> <<ranking[i], variants(i)>>]
           K == {i \in 1..n : variants(i) > 0}
           planned == Sublist(pairs, K)
           mutates == {i \in 1..Len(planned) : IsStorageStrategy(planned[i][1])}
           others == (1..Len(planned)) \ mutates
           storage == Sublist(planned, mutates)
           inputs == Sublist(planned, others)
           forStorage == [i \in 1..Len(storage) |->
                            GenerateStorageMutationPlans(storage[i][1], infos, storage[i][2])]
           forInput == [i \in 1..Len(inputs) |->
                            GenerateInputMutationPlans(inputs[i][1], input, inputs[i][2])]
           plan == GetOptimalMutationPlan(strategy, ranking, infos, input)
<1>1. plan = [storage |-> FlattenSeq(forStorage), input |-> FlattenSeq(forInput)]
    BY DEF GetOptimalMutationPlan
<1> HIDE DEF plan
<1>2. /\ n \in Nat /\ \A i \in 1..n : ranking[i] \in Strategies
      /\ \A i \in 1..n : variants(i) \in Int
    BY Shares
<1> HIDE DEF variants, share, n
<1>3. pairs \in Seq(Strategies \X Int) /\ Len(pairs) = n
    BY <1>2
<1>4. \A k \in K \cap 1..Len(pairs) : pairs[k] \in Strategies \X (Nat \ {0})
    BY <1>2, <1>3
<1> HIDE DEF pairs, K
<1>5. planned \in Seq(Strategies \X (Nat \ {0}))
    <2> DEFINE P == {pairs[k] : k \in K \cap 1..Len(pairs)}
    <2>1. planned \in Seq(P)
        BY <1>3, SublistOf
    <2>2. P \subseteq Strategies \X (Nat \ {0})
        BY <1>4
    <2> HIDE DEF P
    <2> QED
        BY <2>1, <2>2
<1> HIDE DEF planned
<1>6. \A L : Sublist(planned, L) \in Seq(Strategies \X (Nat \ {0}))
    <2> SUFFICES ASSUME NEW L PROVE Sublist(planned, L) \in Seq(Strategies \X (Nat \ {0}))
        OBVIOUS
    <2> DEFINE P == {planned[k] : k \in L \cap 1..Len(planned)}
    <2>1. Sublist(planned, L) \in Seq(P)
        BY <1>5, SublistOf
    <2>2. P \subseteq Strategies \X (Nat \ {0})
        BY <1>5
    <2> HIDE DEF P
    <2> QED
        BY <2>1, <2>2
<1>7. storage \in Seq(Strategies \X (Nat \ {0})) /\ inputs \in Seq(Strategies \X (Nat \ {0}))
    BY <1>6
<1> HIDE DEF storage, inputs
<1>8. /\ IsSeq(FlattenSeq(forStorage))
      /\ \A k \in 1..Len(FlattenSeq(forStorage)) :
            /\ FlattenSeq(forStorage)[k].strategy \in Strategies
            /\ FlattenSeq(forStorage)[k].variant \in Nat
    <2>1. Len(storage) \in Nat /\ \A i \in 1..Len(storage) :
             storage[i][1] \in Strategies /\ storage[i][2] \in Nat \ {0}
        BY <1>7
    <2>2. \A i \in 1..Len(storage) :
             /\ forStorage[i] = GenerateStorageMutationPlans(storage[i][1], infos, storage[i][2])
             /\ IsSeq(forStorage[i])
             /\ \A k \in 1..Len(forStorage[i]) :
                   /\ forStorage[i][k].strategy \in Strategies
                   /\ forStorage[i][k].variant \in Nat
        BY <2>1, StoragePlanned
    <2>3. forStorage = [i \in 1..Len(storage) |-> forStorage[i]]
        OBVIOUS
    <2> HIDE DEF forStorage
    <2>4. IsSeq(forStorage) /\ Len(forStorage) = Len(storage)
        BY <2>1, <2>3, FunctionIsSeq
    <2>5. /\ IsSeq(FlattenSeq(forStorage))
          /\ \A k \in 1..Len(FlattenSeq(forStorage)) :
                \E i \in 1..Len(forStorage) : \E j \in 1..Len(forStorage[i]) :
                    FlattenSeq(forStorage)[k] = forStorage[i][j]
        BY <2>2, <2>4, FlattenedElements
    <2>6. ASSUME NEW k \in 1..Len(FlattenSeq(forStorage))
          PROVE  /\ FlattenSeq(forStorage)[k].strategy \in Strategies
                 /\ FlattenSeq(forStorage)[k].variant \in Nat
        <3>1. PICK i \in 1..Len(storage) : \E j \in 1..Len(forStorage[i]) :
                  FlattenSeq(forStorage)[k] = forStorage[i][j]
            BY <2>4, <2>5, <2>6
        <3>2. PICK j \in 1..Len(forStorage[i]) : FlattenSeq(forStorage)[k] = forStorage[i][j]
            BY <3>1
        <3>3. forStorage[i][j].strategy \in Strategies /\ forStorage[i][j].variant \in Nat
            BY <2>2, <3>1, <3>2
        <3> QED
            BY <3>2, <3>3
    <2> QED
        BY <2>5, <2>6
<1>9. /\ IsSeq(FlattenSeq(forInput))
      /\ \A k \in 1..Len(FlattenSeq(forInput)) :
            /\ FlattenSeq(forInput)[k].strategy \in Strategies
            /\ FlattenSeq(forInput)[k].variant \in Nat
            /\ ParamCount(input) >= 1
    <2>1. Len(inputs) \in Nat /\ \A i \in 1..Len(inputs) :
             inputs[i][1] \in Strategies /\ inputs[i][2] \in Nat \ {0}
        BY <1>7
    <2>2. \A i \in 1..Len(inputs) :
             /\ forInput[i] = GenerateInputMutationPlans(inputs[i][1], input, inputs[i][2])
             /\ IsSeq(forInput[i])
             /\ \A k \in 1..Len(forInput[i]) :
                   /\ forInput[i][k].strategy \in Strategies /\ forInput[i][k].variant \in Nat
                   /\ ParamCount(input) >= 1
        BY <2>1, InputPlanned
    <2>3. forInput = [i \in 1..Len(inputs) |-> forInput[i]]
        OBVIOUS
    <2> HIDE DEF forInput
    <2>4. IsSeq(forInput) /\ Len(forInput) = Len(inputs)
        BY <2>1, <2>3, FunctionIsSeq
    <2>5. /\ IsSeq(FlattenSeq(forInput))
          /\ \A k \in 1..Len(FlattenSeq(forInput)) :
                \E i \in 1..Len(forInput) : \E j \in 1..Len(forInput[i]) :
                    FlattenSeq(forInput)[k] = forInput[i][j]
        BY <2>2, <2>4, FlattenedElements
    <2>6. ASSUME NEW k \in 1..Len(FlattenSeq(forInput))
          PROVE  /\ FlattenSeq(forInput)[k].strategy \in Strategies
                 /\ FlattenSeq(forInput)[k].variant \in Nat
                 /\ ParamCount(input) >= 1
        <3>1. PICK i \in 1..Len(inputs) :
                \E j \in 1..Len(forInput[i]) : FlattenSeq(forInput)[k] = forInput[i][j]
            BY <2>4, <2>5, <2>6
        <3>2. PICK j \in 1..Len(forInput[i]) : FlattenSeq(forInput)[k] = forInput[i][j]
            BY <3>1
        <3> QED
            BY <2>2, <3>2
    <2> QED
        BY <2>5, <2>6
<1> HIDE DEF forStorage, forInput
<1>10. plan.storage = FlattenSeq(forStorage) /\ plan.input = FlattenSeq(forInput)
    BY <1>1
<1>11. IsPlan(plan, input)
    BY <1>8, <1>9, <1>10 DEF IsPlan
<1> QED
    BY <1>11 DEF IsPlan, plan
-----------------------------------------------------------------------------
(* Mutated inputs keep the selector's length                               *)

\* A picked step is one of the steps.
LEMMA Picked ==
    ASSUME NEW S, NEW s \in Seq(S), Len(s) # 0, NEW variant \in Nat
    PROVE  Pick(s, variant) \in S
<1>1. Len(s) \in Nat \ {0}
    OBVIOUS
<1>2. variant % Len(s) \in 0..(Len(s) - 1)
    BY <1>1
<1> QED
    BY <1>1, <1>2 DEF Pick

\* Replacing an element, also one that is not there, keeps the length.
LEMMA Replaced ==
    ASSUME NEW s, IsSeq(s), NEW i, NEW v
    PROVE  IsSeq([s EXCEPT ![i] = v]) /\ Len([s EXCEPT ![i] = v]) = Len(s)
<1> DEFINE f == [s EXCEPT ![i] = v]
<1>1. Len(s) \in Nat /\ DOMAIN s = 1..Len(s)
    BY DEF IsSeq
<1>2. f = [j \in 1..Len(s) |-> f[j]]
    BY <1>1
<1> HIDE DEF f
<1> QED
    BY <1>1, <1>2, FunctionIsSeq DEF f

\* An input, and whatever it is mutated to, reach past the selector.
IsInput(input) == IsSeq(input) /\ Len(input) >= SelectorBytes

\* What is cut out of a sequence is a sequence of the length asked for.
LEMMA SubIsSeq ==
    ASSUME NEW s, IsSeq(s), NEW m \in Int, NEW n \in Int
    PROVE  /\ IsSeq(SubSeq(s, m, n))
           /\ 1 + n - m \in Nat => Len(SubSeq(s, m, n)) = 1 + n - m
<1> DEFINE f == SubSeq(s, m, n)
           len == IF 1 + n - m >= 0 THEN 1 + n - m ELSE 0
<1>1. f = [i \in 1..(1 + n - m) |-> s[i + m - 1]]
    OBVIOUS
<1>2. len \in Nat /\ 1..len = 1..(1 + n - m)
    OBVIOUS
<1> HIDE DEF len
<1>3. f = [i \in 1..len |-> f[i]]
    BY <1>1, <1>2
<1> HIDE DEF f
<1>4. IsSeq(f) /\ Len(f) = len
    BY <1>2, <1>3, FunctionIsSeq
<1> QED
    BY <1>4 DEF f, len

\* A selector has its four bytes, whatever the input.
LEMMA SelectorIsSeq ==
    ASSUME NEW input, IsSeq(input)
    PROVE  IsSeq(Selector(input)) /\ Len(Selector(input)) = SelectorBytes
<1>1. 1 \in Int /\ 4 \in Int /\ 1 + 4 - 1 \in Nat /\ 1 + 4 - 1 = 4
    OBVIOUS
<1> QED
    BY <1>1, SubIsSeq DEF Selector, SelectorBytes

\* Writing a word keeps an input an input, one that has a selector.
LEMMA WordReplaced ==
    ASSUME NEW input, IsInput(input), NEW k \in Nat, NEW word, IsSeq(word)
    PROVE  IsInput(ReplaceWord(input, k, word))
<1> DEFINE start == 4 + k * WordBytes
           front == SubSeq(input, 1, start)
           back == SubSeq(input, start + WordBytes + 1, Len(input))
<1>1. IsSeq(input) /\ Len(input) \in Nat /\ WordBytes \in Nat
    BY StepMutationAssumption DEF IsInput, IsSeq
<1>2. k * WordBytes \in Nat
    BY <1>1
<1>3. start \in Nat /\ start >= 4 /\ start + WordBytes + 1 \in Int /\ 1 + start - 1 = start
    BY <1>1, <1>2
<1>4. ReplaceWord(input, k, word) = front \o word \o back
    BY DEF ReplaceWord, SelectorBytes
<1> HIDE DEF start
<1>5. IsSeq(front) /\ Len(front) = start /\ IsSeq(back)
    BY <1>1, <1>3, SubIsSeq
<1> HIDE DEF front, back
<1>6. IsSeq(front \o word) /\ Len(front \o word) >= 4 /\ Len(front \o word) \in Nat
    BY <1>3, <1>5, Concatenated
<1>7. IsSeq(front \o word \o back) /\ Len(front \o word \o back) >= 4
    BY <1>5, <1>6, Concatenated
<1> QED
    BY <1>4, <1>7 DEF IsInput, SelectorBytes

\* So does writing a value.
LEMMA ValueWritten ==
    ASSUME NEW input, IsInput(input), NEW k \in Nat, NEW value
    PROVE  IsInput(WriteValue(input, k, value))
<1> DEFINE bytes == ToBytes(value, WordBytes)
           written == ReplaceWord(input, k, bytes)
<1>1. bytes = [i \in 1..WordBytes |-> bytes[i]]
    BY DEF ToBytes
<1> HIDE DEF bytes
<1>2. IsInput(written)
    BY <1>1, StepMutationAssumption, FunctionIsSeq, WordReplaced
<1> HIDE DEF written
<1>3. \A i, v : IsInput([written EXCEPT ![i] = v])
    BY <1>2, Replaced DEF IsInput
<1> QED
    BY <1>2, <1>3 DEF WriteValue, written, bytes

\* So does the mutation without an ABI, by any strategy.
LEMMA BasicStrategyKept ==
    ASSUME NEW input \in Seq(0..255), ParamCount(input) >= 1, NEW strategy, NEW variant \in Nat
    PROVE  IsInput(ModifyInputDataBasicStrategy(input, strategy, variant))
<1>1. IsSeq(input) /\ Len(input) \in Nat /\ Len(input) > 4
    <2>1. Len(input) > 4
        BY DEF ParamCount, SelectorBytes
    <2> QED
        BY <2>1, SeqOfElements
<1>2. IsInput(input)
    BY <1>1 DEF IsInput, SelectorBytes
<1>3. ParamCount(input) \in Nat \ {0}
    <2>1. ParamCount(input) = (Len(input) - 4) \div WordBytes
        BY <1>1 DEF ParamCount, SelectorBytes
    <2>2. Len(input) - 4 \in Nat /\ WordBytes \in Nat \ {0}
        BY <1>1, StepMutationAssumption
    <2>3. \A a \in Nat, b \in Nat \ {0} : a \div b \in Nat
        OBVIOUS
    <2>4. ParamCount(input) \in Nat
        BY <2>1, <2>2, <2>3
    <2> QED
        BY <2>4
<1>4. \A n \in Nat \ {0} : variant % n \in Nat /\ variant \div n \in Nat
    OBVIOUS
<1>5. variant % ParamCount(input) \in Nat
    BY <1>3, <1>4
<1>6. \A choices : Len(choices) \in Nat \ {0} => Target(input, choices, variant) \in Nat
    <2> SUFFICES ASSUME NEW choices, Len(choices) \in Nat \ {0}
                 PROVE  Target(input, choices, variant) \in Nat
        OBVIOUS
    <2>1. variant \div Len(choices) \in Nat
        BY <1>4
    <2>2. \A a \in Nat, b \in Nat \ {0} : a % b \in Nat
        OBVIOUS
    <2> QED
        BY <1>3, <2>1, <2>2 DEF Target
<1>7. IsInput(MutateAddressesInParams(input, variant))
    <2> DEFINE f == MutateAddressesInParams(input, variant)
    <2>1. f = [p \in 1..Len(input) |-> f[p]]
        BY DEF MutateAddressesInParams, ChangeAddresses
    <2> HIDE DEF f
    <2> QED
        BY <1>1, <2>1, FunctionIsSeq DEF f, IsInput, SelectorBytes
<1>8. IsInput(MutateAddressesNearby(input, variant))
    <2> DEFINE f == MutateAddressesNearby(input, variant)
    <2>1. f = [p \in 1..Len(input) |-> f[p]]
        BY DEF MutateAddressesNearby, ChangeAddresses
    <2> HIDE DEF f
    <2> QED
        BY <1>1, <2>1, FunctionIsSeq DEF f, IsInput, SelectorBytes
<1>9. IsInput(MutateUintBoundary(input, variant))
    <2> DEFINE low == [p \in 1..WordBytes |-> 0]
               high == [p \in 1..WordBytes |-> 255]
               boundaries == <<low, high>>
    <2>1. IsSeq(low) /\ IsSeq(high)
        <3>1. low = [p \in 1..WordBytes |-> low[p]] /\ high = [p \in 1..WordBytes |-> high[p]]
            OBVIOUS
        <3> HIDE DEF low, high
        <3> QED
            BY <3>1, StepMutationAssumption, FunctionIsSeq
    <2>2. MutateUintBoundary(input, variant) =
            ReplaceWord(input, Target(input, boundaries, variant), Pick(boundaries, variant))
        BY DEF MutateUintBoundary
    <2> HIDE DEF low, high
    <2> DEFINE words == {low, high}
    <2>3. boundaries \in Seq(words) /\ Len(boundaries) # 0 /\ Len(boundaries) \in Nat \ {0}
        OBVIOUS
    <2> HIDE DEF boundaries, words
    <2>4. Pick(boundaries, variant) \in words
        BY <2>3, Picked
    <2>5. Target(input, boundaries, variant) \in Nat
        BY <1>6, <2>3
    <2>6. Pick(boundaries, variant) \in {low, high}
        BY <2>4 DEF words
    <2> QED
        BY <1>2, <2>1, <2>2, <2>5, <2>6, WordReplaced
<1>10. IsInput(MutateUintStep(input, variant))
    <2>1. Len(ParamSteps) \in Nat \ {0}
        BY DEF ParamSteps
    <2>2. Target(input, ParamSteps, variant) \in Nat
        BY <1>6, <2>1
    <2> QED
        BY <1>2, <2>2, ValueWritten DEF MutateUintStep
<1>11. IsInput(MutateUintMultiplier(input, variant))
    <2>1. Len(Multipliers) \in Nat \ {0}
        BY DEF Multipliers
    <2>2. Target(input, Multipliers, variant) \in Nat
        BY <1>6, <2>1
    <2>3. \A value : IsInput(WriteValue(input, Target(input, Multipliers, variant), value))
        BY <1>2, <2>2, ValueWritten
    <2> QED
        BY <2>3, Zenon DEF MutateUintMultiplier
<1>12. IsInput(MutateBoolFlip(input, variant))
    <2>1. \A i, v : IsInput([input EXCEPT ![i] = v])
        BY <1>2, Replaced DEF IsInput
    <2> QED
        BY <2>1 DEF MutateBoolFlip
<1>13. IsInput(MutateBytePatterns(input, variant))
    <2> DEFINE word == [p \in 1..WordBytes |-> Pick(Patterns, variant)]
    <2>1. word = [p \in 1..WordBytes |-> word[p]]
        OBVIOUS
    <2>2. MutateBytePatterns(input, variant) =
            ReplaceWord(input, Target(input, Patterns, variant), word)
        BY DEF MutateBytePatterns
    <2> HIDE DEF word
    <2>3. IsSeq(word)
        BY <2>1, StepMutationAssumption, FunctionIsSeq
    <2>4. Len(Patterns) \in Nat \ {0}
        BY DEF Patterns
    <2>5. Target(input, Patterns, variant) \in Nat
        BY <1>6, <2>4
    <2> QED
        BY <1>2, <2>2, <2>3, <2>5, WordReplaced
<1>14. IsInput(MutateStringLength(input, variant))
    BY <1>2, <1>5, ValueWritten DEF MutateStringLength
<1>15. IsInput(ModifyInputDataDefault(input, variant))
    <2>1. \A s, i, v : IsInput(s) => IsInput([s EXCEPT ![i] = v])
        BY Replaced DEF IsInput
    <2> DEFINE n == Len(input) - SelectorBytes
               bump(data, p, by) == [data EXCEPT ![SelectorBytes + p + 1] = (@ + by) % 256]
               first == bump(input, variant % n, variant + 1)
               second == bump(first, (7 * variant) % n, 2 * variant)
    <2>2. ModifyInputDataDefault(input, variant) \in {input, first, second}
        BY DEF ModifyInputDataDefault
    <2>3. IsInput(first)
        BY <1>2, <2>1
    <2> HIDE DEF first
    <2>4. IsInput(second)
        BY <2>1, <2>3
    <2> HIDE DEF second
    <2> QED
        BY <1>2, <2>2, <2>3, <2>4
<1> DEFINE result == ModifyInputDataBasicStrategy(input, strategy, variant)
<1>16. result \in {MutateAddressesInParams(input, variant), MutateAddressesNearby(input, variant),
                   MutateUintBoundary(input, variant), MutateUintStep(input, variant),
                   MutateUintMultiplier(input, variant), MutateBoolFlip(input, variant),
                   MutateBytePatterns(input, variant), MutateStringLength(input, variant),
                   ModifyInputDataDefault(input, variant)}
    BY DEF ModifyInputDataBasicStrategy
<1> HIDE DEF result
<1>17. IsInput(result)
    BY <1>7, <1>8, <1>9, <1>10, <1>11, <1>12, <1>13, <1>14, <1>15, <1>16
<1> QED
    BY <1>17 DEF result

\* An address is mutated to an address, whatever it was.
LEMMA AddressMutated ==
    ASSUME NEW addr, IsSeq(addr), NEW variant \in Nat, NEW random \in [1..AddressBytes -> 0..255]
    PROVE  /\ IsSeq(MutateAddress(addr, variant, random))
           /\ Len(MutateAddress(addr, variant, random)) = AddressBytes
<1> DEFINE Address(a) == IsSeq(a) /\ Len(a) = AddressBytes
<1>1. AddressBytes \in Nat
    BY TypeAwareMutatorAssumption, StepMutationAssumption
<1>2. \A f \in [1..AddressBytes -> 0..255] : Address(f)
    <2> SUFFICES ASSUME NEW f \in [1..AddressBytes -> 0..255] PROVE Address(f)
        OBVIOUS
    <2>1. f = [p \in 1..AddressBytes |-> f[p]]
        OBVIOUS
    <2> QED
        BY <1>1, <2>1, FunctionIsSeq
<1>3. Address(FlipAddressBytes(addr, variant))
    <2> DEFINE f == FlipAddressBytes(addr, variant)
    <2>1. f = [p \in 1..AddressBytes |-> f[p]]
        BY DEF FlipAddressBytes
    <2> HIDE DEF f
    <2> QED
        BY <1>1, <2>1, FunctionIsSeq DEF f
<1>4. Address(Pick(KnownAddresses, variant))
    <2>1. Len(KnownAddresses) # 0
        BY TypeAwareMutatorAssumption
    <2>2. Pick(KnownAddresses, variant) \in [1..AddressBytes -> 0..255]
        BY <2>1, TypeAwareMutatorAssumption, Picked
    <2> QED
        BY <1>2, <2>2
<1>5. Address(GenerateNearbyAddr(addr, variant))
    <2>1. \A n : IsSeq(MinimalBytes(n, AddressBytes)) /\ Len(MinimalBytes(n, AddressBytes)) \in 0..AddressBytes
        <3> SUFFICES ASSUME NEW n
                     PROVE  /\ IsSeq(MinimalBytes(n, AddressBytes))
                            /\ Len(MinimalBytes(n, AddressBytes)) \in 0..AddressBytes
            OBVIOUS
        <3> DEFINE bytes == ToBytes(n, AddressBytes)
                   first == {p \in 1..AddressBytes : \A q \in 1..p : bytes[q] = 0}
                   c == Cardinality(first)
        <3>1. bytes = [i \in 1..AddressBytes |-> bytes[i]]
            BY DEF ToBytes
        <3>2. MinimalBytes(n, AddressBytes) = SubSeq(bytes, c + 1, AddressBytes)
            BY DEF MinimalBytes
        <3> HIDE DEF bytes
        <3>3. IsSeq(bytes)
            BY <1>1, <3>1, FunctionIsSeq
        <3>4. first \subseteq 1..AddressBytes /\ IsFiniteSet(1..AddressBytes)
            BY <1>1, FS_Interval
        <3> HIDE DEF first
        <3>5. c \in Nat /\ c <= AddressBytes
            <4>1. Cardinality(first) <= Cardinality(1..AddressBytes)
                BY <3>4, FS_Subset
            <4>2. Cardinality(1..AddressBytes) = AddressBytes
                <5>1. 1 \in Int /\ AddressBytes \in Int
                    BY <1>1
                <5>2. Cardinality(1..AddressBytes) =
                        IF 1 > AddressBytes THEN 0 ELSE AddressBytes - 1 + 1
                    BY <5>1, FS_Interval
                <5> QED
                    BY <1>1, <5>2
            <4>3. Cardinality(first) \in Nat
                BY <3>4, FS_Subset, FS_CardinalityType
            <4> QED
                BY <1>1, <4>1, <4>2, <4>3
        <3> HIDE DEF c
        <3>6. /\ c + 1 \in Int /\ 1 + AddressBytes - (c + 1) = AddressBytes - c
              /\ AddressBytes - c \in 0..AddressBytes
            BY <1>1, <3>5
        <3> QED
            BY <1>1, <3>2, <3>3, <3>6, SubIsSeq
    <2> DEFINE step == (variant % 1000) + 1
               moved == (FromBytes(addr) + (IF variant % 2 = 0 THEN step ELSE -step)) % AddressLimit
               bytes == MinimalBytes(moved, AddressBytes)
               rest == SubSeq(addr, Len(bytes) + 1, AddressBytes)
    <2>2. GenerateNearbyAddr(addr, variant) = bytes \o rest
        BY DEF GenerateNearbyAddr
    <2>3. IsSeq(bytes) /\ Len(bytes) \in 0..AddressBytes
        BY <2>1
    <2> HIDE DEF bytes
    <2>4. IsSeq(rest) /\ Len(rest) = AddressBytes - Len(bytes)
        <3>1. /\ Len(bytes) + 1 \in Int /\ AddressBytes - Len(bytes) \in Nat
              /\ 1 + AddressBytes - (Len(bytes) + 1) = AddressBytes - Len(bytes)
            BY <1>1, <2>3
        <3> QED
            BY <1>1, <3>1, SubIsSeq
    <2> HIDE DEF rest
    <2>5. IsSeq(bytes \o rest) /\ Len(bytes \o rest) = Len(bytes) + Len(rest)
        BY <2>3, <2>4, Concatenated
    <2> QED
        BY <1>1, <2>2, <2>3, <2>4, <2>5
<1>6. Address(ZeroAddress) /\ Address(random)
    <2>1. ZeroAddress \in [1..AddressBytes -> 0..255]
        BY DEF ZeroAddress
    <2> QED
        BY <1>2, <2>1
<1>7. variant % 5 \in 0..4
    OBVIOUS
<1>8. MutateAddress(addr, variant, random) \in
        {FlipAddressBytes(addr, variant), Pick(KnownAddresses, variant),
         GenerateNearbyAddr(addr, variant), ZeroAddress, random}
    BY <1>7 DEF MutateAddress
<1> HIDE DEF Address
<1>9. Address(MutateAddress(addr, variant, random))
    BY <1>3, <1>4, <1>5, <1>6, <1>8
<1> QED
    BY <1>9 DEF Address

\* Packed parameters are a word each.
LEMMA Packed ==
    ASSUME NEW types, Len(types) \in Nat, NEW values
    PROVE  IsSeq(Pack(types, values)) /\ Len(Pack(types, values)) = Len(types) * WordBytes
<1> DEFINE n == Len(types) * WordBytes
           pack == Pack(types, values)
<1>1. n \in Nat
    BY StepMutationAssumption
<1>2. pack = [p \in 1..n |-> pack[p]]
    BY DEF Pack
<1> HIDE DEF n, pack
<1>3. IsSeq(pack) /\ Len(pack) = n
    BY <1>1, <1>2, FunctionIsSeq
<1> QED
    BY <1>3 DEF n, pack

\* And packing parameters behind the selector.
LEMMA ABIMutationKept ==
    ASSUME NEW types, Len(types) \in Nat, NEW input, IsSeq(input), NEW values
    PROVE  IsInput(Selector(input) \o Pack(types, values))
<1> DEFINE front == Selector(input)
           back == Pack(types, values)
<1>1. IsSeq(front) /\ Len(front) = 4
    BY SelectorIsSeq DEF SelectorBytes
<1>2. IsSeq(back)
    BY Packed
<1> HIDE DEF front, back
<1>3. IsSeq(front \o back) /\ Len(front \o back) = Len(front) + Len(back) /\ Len(back) \in Nat
    BY <1>1, <1>2, Concatenated
<1>4. Len(front \o back) >= 4
    BY <1>1, <1>3
<1> QED
    BY <1>3, <1>4 DEF IsInput, SelectorBytes, front, back

\* A mutated input has a selector, with an ABI or without.
LEMMA InputMutationKept ==
    ASSUME NEW abi, \A method \in DOMAIN abi : Len(abi[method]) \in Nat,
           NEW input \in Seq(0..255), ParamCount(input) >= 1,
           NEW strategy, NEW variant \in Nat, NEW random \in [1..AddressBytes -> 0..255]
    PROVE  IsInput(ModifyInputDataWithStrategy(abi, input, strategy, variant, random))
<1>1. IsSeq(input)
    BY SeqOfElements
<1>2. CASE UsesABI(abi, input)
    <2> DEFINE types == abi[Selector(input)]
    <2>1. Len(types) \in Nat
        BY <1>2 DEF UsesABI
    <2>2. ModifyInputDataWithStrategy(abi, input, strategy, variant, random) =
            Selector(input) \o
              Pack(types, MutateParametersByStrategy(types, Unpack(types, input), variant, random))
        BY <1>2 DEF ModifyInputDataWithStrategy
    <2> HIDE DEF types
    <2> QED
        BY <1>1, <2>1, <2>2, ABIMutationKept
<1>3. CASE ~UsesABI(abi, input)
    BY <1>3, BasicStrategyKept DEF ModifyInputDataWithStrategy
<1> QED
    BY <1>2, <1>3
-----------------------------------------------------------------------------
(* Bytes and numbers                                                       *)

\* The recursion of Power256 has a solution, and its values are positive.
LEMMA Powers ==
    /\ Power256[0] = 1
    /\ \A k \in Nat : Power256[k] \in Nat \ {0} /\ Power256[k + 1] = 256 * Power256[k]
<1> DEFINE Unrolled(g, m) == [k \in 0..m |-> IF k = 0 THEN 1 ELSE 256 * g[k - 1]]
           Good(g, m) == g = Unrolled(g, m)
<1>1. \A m \in Nat : \E g : Good(g, m)
    <2> DEFINE Bad == {m \in Nat : ~(\E g : Good(g, m))}
    <2> HIDE DEF Good
    <2> SUFFICES ASSUME Bad # {} PROVE FALSE
        OBVIOUS
    <2>1. PICK m \in Bad : \A k \in Bad : m <= k
        BY LeastNumber
    <2>2. m \in Nat /\ ~(\E g : Good(g, m))
        BY <2>1
    <2>3. m # 0
        <3> DEFINE e == [k \in {0} |-> 1]
        <3>1. e = Unrolled(e, 0)
            OBVIOUS
        <3>2. Good(e, 0)
            BY <3>1 DEF Good
        <3> QED
            BY <2>2, <3>2
    <2>4. m - 1 \in Nat /\ m - 1 \notin Bad
        BY <2>1, <2>2, <2>3
    <2>5. PICK f : Good(f, m - 1)
        BY <2>4
    <2> DEFINE g == [k \in 0..m |-> IF k = 0 THEN 1 ELSE 256 * f[k - 1]]
    <2>6. ASSUME NEW k \in 0..m, k # 0 PROVE g[k - 1] = f[k - 1]
        <3>1. f = [j \in 0..(m - 1) |-> IF j = 0 THEN 1 ELSE 256 * f[j - 1]]
            BY <2>5 DEF Good
        <3>2. k - 1 \in 0..(m - 1) /\ k - 1 \in 0..m
            BY <2>2, <2>6
        <3>3. f[k - 1] = IF k - 1 = 0 THEN 1 ELSE 256 * f[(k - 1) - 1]
            BY <3>1, <3>2
        <3> QED
            BY <3>2, <3>3
    <2>7. g = Unrolled(g, m)
        BY <2>6
    <2> HIDE DEF g
    <2>8. Good(g, m)
        BY <2>7 DEF Good
    <2> QED
        BY <2>2, <2>8
<1>2. ASSUME NEW m, NEW g, Good(g, m), NEW k \in 0..m
      PROVE  g[k] = IF k = 0 THEN 1 ELSE 256 * g[k - 1]
    <2> HIDE DEF Good
    <2>1. g = Unrolled(g, m)
        BY <1>2 DEF Good
    <2> QED
        BY <1>2, <2>1
<1> HIDE DEF Good, Unrolled
<1>3. ASSUME NEW m \in Nat, NEW n \in Nat, NEW g, NEW h, Good(g, m), Good(h, n)
      PROVE  \A k \in Nat : k <= m /\ k <= n => g[k] = h[k]
    <2> DEFINE Bad == {k \in Nat : k <= m /\ k <= n /\ g[k] # h[k]}
    <2> SUFFICES ASSUME Bad # {} PROVE FALSE
        OBVIOUS
    <2>1. PICK k \in Bad : \A j \in Bad : k <= j
        BY LeastNumber
    <2>2. k \in Nat /\ k <= m /\ k <= n /\ g[k] # h[k] /\ k \in 0..m /\ k \in 0..n
        BY <2>1
    <2>3. /\ g[k] = IF k = 0 THEN 1 ELSE 256 * g[k - 1]
          /\ h[k] = IF k = 0 THEN 1 ELSE 256 * h[k - 1]
        BY <1>2, <1>3, <2>2
    <2>4. k # 0
        BY <2>2, <2>3
    <2>5. k - 1 \in Nat /\ k - 1 <= m /\ k - 1 <= n /\ ~(k <= k - 1)
        BY <2>2, <2>4
    <2>6. k - 1 \notin Bad
        BY <2>1, <2>5
    <2>7. g[k - 1] = h[k - 1]
        BY <2>5, <2>6
    <2> QED
        BY <2>2, <2>3, <2>4, <2>7
<1> DEFINE part(m) == CHOOSE g : Good(g, m)
           Whole(f) == f = [n \in Nat |-> IF n = 0 THEN 1 ELSE 256 * f[n - 1]]
           p == [n \in Nat |-> part(n)[n]]
<1>4. \A m \in Nat : Good(part(m), m)
    BY <1>1
<1> HIDE DEF part
<1>5. Whole(p)
    <2>1. ASSUME NEW n \in Nat PROVE p[n] = IF n = 0 THEN 1 ELSE 256 * p[n - 1]
        <3>1. n \in 0..n /\ part(n)[n] = IF n = 0 THEN 1 ELSE 256 * part(n)[n - 1]
            BY <1>2, <1>4
        <3>2. CASE n = 0
            BY <3>1, <3>2
        <3>3. CASE n # 0
            <4>1. n - 1 \in Nat /\ n - 1 <= n
                BY <3>3
            <4>2. part(n)[n - 1] = part(n - 1)[n - 1]
                BY <1>3, <1>4, <4>1
            <4> QED
                BY <3>1, <3>3, <4>1, <4>2
        <3> QED
            BY <3>2, <3>3
    <2> HIDE DEF p
    <2>2. p = [n \in Nat |-> p[n]]
        BY DEF p
    <2> QED
        BY <2>1, <2>2
<1>6. Whole(Power256)
    <2>1. Power256 = CHOOSE f : Whole(f)
        BY DEF Power256
    <2> HIDE DEF Whole
    <2> QED
        BY <1>5, <2>1
<1>7. \A n \in Nat : Power256[n] = IF n = 0 THEN 1 ELSE 256 * Power256[n - 1]
    BY <1>6
<1> DEFINE Bad == {k \in Nat : Power256[k] \notin Nat \ {0}}
<1>8. Bad = {}
    <2> SUFFICES ASSUME Bad # {} PROVE FALSE
        OBVIOUS
    <2>1. PICK k \in Bad : \A j \in Bad : k <= j
        BY LeastNumber
    <2>2. k # 0 /\ k \in Nat /\ Power256[k] \notin Nat \ {0}
        BY <1>7, <2>1
    <2>3. k - 1 \in Nat /\ k - 1 \notin Bad
        BY <2>1, <2>2
    <2>4. Power256[k - 1] \in Nat \ {0}
        BY <2>3
    <2> QED
        BY <1>7, <2>2, <2>4
<1>9. ASSUME NEW k \in Nat PROVE Power256[k + 1] = 256 * Power256[k]
    <2>1. k + 1 \in Nat /\ k + 1 # 0 /\ (k + 1) - 1 = k
        OBVIOUS
    <2> QED
        BY <1>7, <2>1
<1> QED
    BY <1>7, <1>8, <1>9

\* A quotient and a remainder that fit are the ones.
LEMMA Division ==
    ASSUME NEW d \in Nat \ {0}, NEW q \in Int, NEW r \in 0..(d - 1)
    PROVE  (d * q + r) \div d = q /\ (d * q + r) % d = r
<1> DEFINE n == d * q + r
           a == n \div d
           b == n % d
<1>1. n \in Int /\ a \in Int /\ b \in 0..(d - 1) /\ n = d * a + b
    OBVIOUS
<1> HIDE DEF a, b
<1>2. d * (a - q) = r - b /\ d * a = d * q + d * (a - q)
    BY <1>1
<1>3. a - q \in Int /\ (a - q >= 1 => d * (a - q) >= d) /\ (a - q <= -1 => d * (a - q) <= -d)
    BY <1>1
<1>4. a = q
    BY <1>1, <1>2, <1>3
<1> QED
    BY <1>1, <1>4 DEF a, b

TwoDigits(n, d) == n \div d = 256 * (n \div (256 * d)) + ((n \div d) % 256)

\* Dividing by 256 times as much is dividing twice.
LEMMA DividedTwice ==
    ASSUME NEW n \in Nat, NEW d \in Nat \ {0}
    PROVE  TwoDigits(n, d)
<1> DEFINE q == n \div d
           r == n % d
           a == q \div 256
           b == q % 256
<1>1. q \in Nat /\ r \in 0..(d - 1) /\ n = d * q + r
    OBVIOUS
<1>2. a \in Nat /\ b \in 0..255 /\ q \in Nat /\ q = 256 * a + b /\ b = q % 256
    BY <1>1
<1> HIDE DEF q, r
<1> HIDE DEF a, b
<1>3. d * q = (256 * d) * a + d * b
    <2>1. d * (256 * a + b) = d * (256 * a) + d * b
        BY <1>2
    <2>2. d * (256 * a) = (256 * d) * a
        BY <1>2
    <2> QED
        BY <1>2, <2>1, <2>2
<1>4. d * b \in Nat /\ d * b <= d * 255
    BY <1>2
<1>5. n = (256 * d) * a + (d * b + r) /\ d * b + r \in 0..(256 * d - 1) /\ 256 * d \in Nat \ {0}
    <2> DEFINE x == (256 * d) * a
               y == d * b
    <2>1. x \in Int /\ y \in Nat /\ y <= 255 * d /\ n = x + y + r
        BY <1>1, <1>2, <1>3, <1>4
    <2> HIDE DEF x, y
    <2>2. n = x + (y + r) /\ y + r \in 0..(256 * d - 1) /\ 256 * d \in Nat \ {0}
        BY <1>1, <2>1
    <2> QED
        BY <2>2 DEF x, y
<1>6. n \div (256 * d) = a
    <2> DEFINE e == 256 * d
               s == d * b + r
    <2>1. e \in Nat \ {0} /\ s \in 0..(e - 1) /\ n = e * a + s
        BY <1>5
    <2> HIDE DEF e, s
    <2>2. n \div e = a
        BY <1>2, <2>1, Division
    <2> QED
        BY <2>2 DEF e
<1>7. n \div d = 256 * a + ((n \div d) % 256)
    BY <1>2 DEF q
<1> QED
    BY <1>6, <1>7 DEF TwoDigits

\* The recursion of FromBytes has a solution for every sequence of bytes.
LEMMA BytesAdded ==
    ASSUME NEW bytes, Len(bytes) \in Nat
    PROVE  \E value : /\ FromBytes(bytes) = value[Len(bytes)]
                      /\ value[0] = 0
                      /\ \A k \in 1..Len(bytes) : value[k] = 256 * value[k - 1] + bytes[k]
<1> DEFINE n == Len(bytes)
           Unrolled(f, m) == [k \in 0..m |-> IF k = 0 THEN 0 ELSE 256 * f[k - 1] + bytes[k]]
           Good(f, m) == f = Unrolled(f, m)
           value == CHOOSE f : Good(f, n)
<1>1. FromBytes(bytes) = value[n]
    BY DEF FromBytes
<1>2. \E f : Good(f, n)
    <2> DEFINE Bad == {m \in Nat : ~(\E f : Good(f, m))}
    <2> HIDE DEF Good
    <2>1. Bad = {}
        <3> SUFFICES ASSUME Bad # {} PROVE FALSE
            OBVIOUS
        <3>1. PICK m \in Bad : \A k \in Bad : m <= k
            BY LeastNumber
        <3>2. m \in Nat /\ ~(\E f : Good(f, m))
            BY <3>1
        <3>3. m # 0
            <4> DEFINE e == [k \in {0} |-> 0]
            <4>1. e = Unrolled(e, 0)
                OBVIOUS
            <4>2. Good(e, 0)
                BY <4>1 DEF Good
            <4> QED
                BY <3>2, <4>2
        <3>4. m - 1 \in Nat /\ m - 1 \notin Bad
            BY <3>1, <3>2, <3>3
        <3>5. PICK f : Good(f, m - 1)
            BY <3>4
        <3> DEFINE g == [k \in 0..m |-> IF k = 0 THEN 0 ELSE 256 * f[k - 1] + bytes[k]]
        <3>6. ASSUME NEW k \in 0..m, k # 0 PROVE g[k - 1] = f[k - 1]
            <4>1. f = [j \in 0..(m - 1) |-> IF j = 0 THEN 0 ELSE 256 * f[j - 1] + bytes[j]]
                BY <3>5 DEF Good
            <4>2. k - 1 \in 0..(m - 1) /\ k - 1 \in 0..m
                BY <3>2, <3>6
            <4>3. f[k - 1] = IF k - 1 = 0 THEN 0 ELSE 256 * f[(k - 1) - 1] + bytes[k - 1]
                BY <4>1, <4>2
            <4> QED
                BY <4>2, <4>3
        <3>7. g = Unrolled(g, m)
            BY <3>6
        <3> HIDE DEF g
        <3>8. Good(g, m)
            BY <3>7 DEF Good
        <3> QED
            BY <3>2, <3>8
    <2> QED
        BY <2>1
<1>3. value = Unrolled(value, n)
    <2>1. Good(value, n)
        <3> HIDE DEF Good
        <3> QED
            BY <1>2
    <2> QED
        BY <2>1
<1> HIDE DEF value
<1>4. value[0] = 0 /\ \A k \in 1..n : value[k] = 256 * value[k - 1] + bytes[k]
    BY <1>3
<1> QED
    BY <1>1, <1>4

\* Bytes stand for a natural number.
LEMMA BytesAreNumber ==
    ASSUME NEW bytes \in Seq(0..255)
    PROVE  FromBytes(bytes) \in Nat
<1>1. PICK value : /\ FromBytes(bytes) = value[Len(bytes)]
                   /\ value[0] = 0
                   /\ \A k \in 1..Len(bytes) : value[k] = 256 * value[k - 1] + bytes[k]
    BY BytesAdded
<1>2. Len(bytes) \in Nat /\ \A k \in 1..Len(bytes) : bytes[k] \in 0..255
    <2> DEFINE S == 0..255
    <2>1. bytes \in Seq(S)
        OBVIOUS
    <2> HIDE DEF S
    <2>2. Len(bytes) \in Nat /\ \A k \in 1..Len(bytes) : bytes[k] \in S
        BY <2>1
    <2> QED
        BY <2>2 DEF S
<1> DEFINE Bad == {k \in Nat : k <= Len(bytes) /\ value[k] \notin Nat}
<1>3. Bad = {}
    <2> SUFFICES ASSUME Bad # {} PROVE FALSE
        OBVIOUS
    <2>1. PICK k \in Bad : \A j \in Bad : k <= j
        BY LeastNumber
    <2>2. k \in 1..Len(bytes) /\ k - 1 \in Nat /\ k - 1 <= Len(bytes) /\ ~(k <= k - 1)
        BY <1>1, <1>2, <2>1
    <2>3. value[k - 1] \in Nat
        BY <2>1, <2>2
    <2>4. value[k] = 256 * value[k - 1] + bytes[k] /\ bytes[k] \in 0..255
        BY <1>1, <1>2, <2>2
    <2>5. \A v \in Nat : \A b \in 0..255 : 256 * v + b \in Nat
        OBVIOUS
    <2>6. value[k] \in Nat
        <3> DEFINE v == value[k - 1]
                   b == bytes[k]
        <3>1. v \in Nat /\ b \in 0..255 /\ value[k] = 256 * v + b
            BY <2>3, <2>4
        <3> HIDE DEF v, b
        <3>2. 256 * v + b \in Nat
            BY <2>5, <3>1
        <3> QED
            BY <3>1, <3>2
    <2> QED
        BY <2>1, <2>6
<1> QED
    BY <1>1, <1>2, <1>3

\* Reading what was written gives the number back, if it fits.
LEMMA RoundTrip ==
    ASSUME NEW k \in Nat, NEW n \in 0..(Power256[k] - 1)
    PROVE  FromBytes(ToBytes(n, k)) = n
<1> DEFINE bytes == ToBytes(n, k)
<1>0. n \in Nat /\ \A j \in Nat : Power256[j] \in Nat \ {0} /\ Power256[j + 1] = 256 * Power256[j]
    BY Powers
<1>1. bytes = [i \in 1..k |-> (n \div Power256[k - i]) % 256]
    BY DEF ToBytes
<1> HIDE DEF bytes
<1>2. Len(bytes) = k
    BY <1>1
<1>3. PICK value : /\ FromBytes(bytes) = value[k]
                   /\ value[0] = 0
                   /\ \A i \in 1..k : value[i] = 256 * value[i - 1] + bytes[i]
    <2>1. Len(bytes) \in Nat
        BY <1>2
    <2>2. \E value : /\ FromBytes(bytes) = value[Len(bytes)]
                     /\ value[0] = 0
                     /\ \A i \in 1..Len(bytes) : value[i] = 256 * value[i - 1] + bytes[i]
        BY <2>1, BytesAdded
    <2> QED
        BY <1>2, <2>2
<1> DEFINE Bad == {i \in Nat : i <= k /\ value[i] # n \div Power256[k - i]}
<1>4. Bad = {}
    <2> SUFFICES ASSUME Bad # {} PROVE FALSE
        OBVIOUS
    <2>1. PICK i \in Bad : \A j \in Bad : i <= j
        BY LeastNumber
    <2>2. i \in Nat /\ i <= k /\ value[i] # n \div Power256[k - i]
        BY <2>1
    <2>3. i # 0
        <3>1. n \div Power256[k] = 0
            <4> DEFINE d == Power256[k]
            <4>1. d \in Nat \ {0} /\ n \in 0..(d - 1)
                BY <1>0
            <4> HIDE DEF d
            <4>2. n \div d = 0
                BY <4>1
            <4> QED
                BY <4>2 DEF d
        <3>2. k - 0 = k
            OBVIOUS
        <3> QED
            BY <1>3, <2>2, <3>1, <3>2
    <2>4. /\ i \in 1..k /\ i - 1 \in Nat /\ i - 1 <= k /\ ~(i <= i - 1)
          /\ k - i \in Nat /\ k - (i - 1) = (k - i) + 1
        BY <2>2, <2>3
    <2> DEFINE d == Power256[k - i]
    <2>5. d \in Nat \ {0} /\ Power256[k - (i - 1)] = 256 * d
        BY <1>0, <2>4
    <2>6. bytes[i] = (n \div d) % 256
        BY <1>1, <2>4
    <2>7. value[i - 1] = n \div Power256[k - (i - 1)]
        BY <2>1, <2>4
    <2>8. value[i] = 256 * value[i - 1] + bytes[i]
        BY <1>3, <2>4
    <2> HIDE DEF d
    <2>9. value[i - 1] = n \div (256 * d)
        BY <2>5, <2>7
    <2>10. n \div d = 256 * (n \div (256 * d)) + ((n \div d) % 256)
        <3>1. n \in Nat /\ d \in Nat \ {0}
            BY <1>0, <2>5
        <3>2. TwoDigits(n, d)
            BY <3>1, DividedTwice
        <3> QED
            BY <3>2 DEF TwoDigits
    <2>11. value[i] = n \div d
        BY <2>6, <2>8, <2>9, <2>10
    <2> QED
        BY <2>2, <2>11 DEF d
<1>5. value[k] = n \div Power256[k - k]
    BY <1>4
<1>6. k - k = 0 /\ n \div 1 = n
    BY <1>0
<1> QED
    BY <1>3, <1>5, <1>6, Powers DEF bytes
-----------------------------------------------------------------------------
(* Packed parameters                                                       *)

\* What is cut out of a sequence, element by element.
LEMMA CutOut ==
    ASSUME NEW s, NEW m \in Int, NEW n \in Int
    PROVE  SubSeq(s, m, n) = [i \in 1..(1 + n - m) |-> s[i + m - 1]]
<1> QED
    OBVIOUS

\* The word of a parameter is found where it was packed.
LEMMA WordPacked ==
    ASSUME NEW types, Len(types) \in Nat, NEW values, NEW front, IsSeq(front),
           Len(front) = SelectorBytes, NEW k \in 1..Len(types),
           IsSeq(PackWord(types[k], values[k])), Len(PackWord(types[k], values[k])) = WordBytes
    PROVE  WordOf(front \o Pack(types, values), k - 1) = PackWord(types[k], values[k])
<1> DEFINE n == Len(types)
           pack == Pack(types, values)
           input == front \o pack
           word == PackWord(types[k], values[k])
           start == (k - 1) * WordBytes
           found == WordOf(input, k - 1)
<1>1. WordBytes \in Nat \ {0} /\ k \in Nat /\ k - 1 \in Nat /\ n \in Nat /\ k <= n
    BY StepMutationAssumption
<1>2. /\ start \in Nat /\ n * WordBytes \in Nat
      /\ ((k - 1) + 1) * WordBytes = start + WordBytes
      /\ start + WordBytes <= n * WordBytes
    <2>1. k * WordBytes <= n * WordBytes /\ k * WordBytes = start + WordBytes
        BY <1>1
    <2> QED
        BY <1>1, <2>1
<1>3. IsSeq(pack) /\ Len(pack) = n * WordBytes
    BY <1>1, Packed
<1>4. ASSUME NEW i \in 1..WordBytes PROVE pack[start + i] = word[i]
    <2> DEFINE p == start + i
               m == WordBytes
    <2>1. p \in 1..(n * WordBytes)
        BY <1>1, <1>2
    <2>2. i - 1 \in 0..(m - 1) /\ m \in Nat \ {0} /\ p - 1 = m * (k - 1) + (i - 1)
        BY <1>1
    <2>3. pack[p] = LET j == ((p - 1) \div m) + 1
                    IN  PackWord(types[j], values[j])[((p - 1) % m) + 1]
        BY <2>1 DEF Pack
    <2> HIDE DEF p, m, pack
    <2>4. (p - 1) \div m = k - 1 /\ (p - 1) % m = i - 1
        <3> DEFINE q == k - 1
                   r == i - 1
        <3>1. m \in Nat \ {0} /\ q \in Int /\ r \in 0..(m - 1) /\ p - 1 = m * q + r
            BY <1>1, <2>2
        <3> HIDE DEF q, r
        <3>2. (m * q + r) \div m = q /\ (m * q + r) % m = r
            BY <3>1, Division
        <3> QED
            BY <3>1, <3>2 DEF q, r
    <2>5. (k - 1) + 1 = k /\ (i - 1) + 1 = i
        BY <1>1
    <2> QED
        BY <2>3, <2>4, <2>5 DEF p
<1> HIDE DEF pack, word
<1>5. /\ IsSeq(input) /\ Len(input) = 4 + n * WordBytes
      /\ \A i \in 1..(n * WordBytes) : input[4 + i] = pack[i]
    <2> DEFINE size == n * WordBytes
    <2>1. IsSeq(pack) /\ Len(pack) = size
        BY <1>3
    <2> HIDE DEF size
    <2>2. /\ IsSeq(input) /\ Len(input) = Len(front) + Len(pack)
          /\ \A i \in 1..Len(pack) : input[Len(front) + i] = pack[i]
        BY <2>1, Concatenated
    <2>3. Len(front) = 4
        BY DEF SelectorBytes
    <2> QED
        BY <2>1, <2>2, <2>3 DEF size
<1> HIDE DEF input, start
<1>6. found = SubSeq(input, 4 + start + 1, 4 + (start + WordBytes))
    BY <1>2 DEF WordOf, SelectorBytes, start
<1> HIDE DEF found
<1>7. IsSeq(found) /\ Len(found) = WordBytes
    <2>1. /\ 4 + start + 1 \in Int /\ 4 + (start + WordBytes) \in Int
          /\ 1 + (4 + (start + WordBytes)) - (4 + start + 1) = WordBytes
        BY <1>1, <1>2
    <2> QED
        BY <1>1, <1>5, <1>6, <2>1, SubIsSeq
<1>8. ASSUME NEW i \in 1..WordBytes PROVE found[i] = word[i]
    <2>1. found = [j \in 1..(1 + (4 + (start + WordBytes)) - (4 + start + 1)) |->
                      input[j + (4 + start + 1) - 1]]
        BY <1>1, <1>2, <1>6, CutOut
    <2>2. 1 + (4 + (start + WordBytes)) - (4 + start + 1) = WordBytes
        BY <1>1, <1>2
    <2>3. i + (4 + start + 1) - 1 = 4 + (start + i) /\ start + i \in 1..(n * WordBytes)
        BY <1>1, <1>2
    <2> QED
        BY <1>4, <1>5, <2>1, <2>2, <2>3
<1>9. IsSeq(word) /\ Len(word) = WordBytes
    BY DEF word
<1>10. found = [i \in 1..WordBytes |-> found[i]] /\ word = [i \in 1..WordBytes |-> word[i]]
    BY <1>7, <1>9 DEF IsSeq
<1>11. found = word
    BY <1>8, <1>10
<1> QED
    BY <1>11 DEF found, input, pack, word

\* What Unpack makes of the word of a parameter.
Reading(type, word) ==
    IF type.kind = "address" THEN SubSeq(word, WordBytes - AddressBytes + 1, WordBytes)
    ELSE IF type.kind = "int" THEN Signed(word) ELSE FromBytes(word)

\* Unpack reads the word of each parameter.
LEMMA UnpackReads ==
    ASSUME NEW types, NEW input, NEW k \in 1..Len(types)
    PROVE  Unpack(types, input)[k] = Reading(types[k], WordOf(input, k - 1))
<1> QED
    BY DEF Unpack, Reading

\* Words are as large as all their bytes together.
LEMMA WordSize ==
    /\ WordLimit \in Nat /\ WordLimit >= 256
    /\ \A type : type.size = 8 => GoLimit(type) = 256
    /\ \A type : GoSized(type) => GoLimit(type) \in Nat /\ GoLimit(type) >= 256
<1>1. WordBytes - 1 \in Nat /\ (WordBytes - 1) + 1 = WordBytes
    BY StepMutationAssumption
<1>2. Power256[WordBytes] = 256 * Power256[WordBytes - 1] /\ Power256[WordBytes - 1] \in Nat \ {0}
    BY <1>1, Powers
<1>3. 8 \div 8 = 1 /\ 0 + 1 = 1 /\ 0 \in Nat
    OBVIOUS
<1>4. Power256[1] = 256
    BY <1>3, Powers
<1>5. ASSUME NEW type, GoSized(type) PROVE GoLimit(type) \in Nat /\ GoLimit(type) >= 256
    <2>1. type.size \div 8 \in {1, 2, 4, 8}
        BY <1>5 DEF GoSized
    <2>2. \A k \in {1, 2, 4, 8} : Power256[k] \in Nat /\ Power256[k] >= 256
        <3>1. ASSUME NEW k \in {1, 2, 4, 8} PROVE Power256[k] \in Nat /\ Power256[k] >= 256
            <4>1. k - 1 \in Nat /\ (k - 1) + 1 = k
                OBVIOUS
            <4>2. Power256[k - 1] \in Nat \ {0} /\ Power256[k] = 256 * Power256[k - 1]
                BY <4>1, Powers
            <4> QED
                BY <4>2
        <3> QED
            BY <3>1
    <2> QED
        BY <2>1, <2>2 DEF GoLimit
<1> QED
    BY <1>2, <1>3, <1>4, <1>5 DEF WordLimit, GoLimit

\* An integer, or a bool, is packed modulo the word.
LEMMA NumberPacked ==
    ASSUME NEW type, type.kind # "address", NEW value \in Int
    PROVE  /\ IsSeq(PackWord(type, value)) /\ Len(PackWord(type, value)) = WordBytes
           /\ FromBytes(PackWord(type, value)) = value % WordLimit
<1> DEFINE n == value % WordLimit
           word == ToBytes(n, WordBytes)
<1>1. PackWord(type, value) = word
    BY DEF PackWord
<1>2. WordBytes \in Nat /\ WordLimit \in Nat \ {0}
    BY StepMutationAssumption, WordSize
<1>3. n \in 0..(WordLimit - 1)
    BY <1>2
<1> HIDE DEF n
<1>4. FromBytes(word) = n
    BY <1>2, <1>3, RoundTrip DEF WordLimit
<1>5. word = [i \in 1..WordBytes |-> word[i]]
    BY DEF ToBytes
<1> HIDE DEF word
<1>6. IsSeq(word) /\ Len(word) = WordBytes
    BY <1>2, <1>5, FunctionIsSeq
<1> QED
    BY <1>1, <1>4, <1>6 DEF n, word

\* An address is read as it was packed.
LEMMA AddressPacked ==
    ASSUME NEW type, type.kind = "address", NEW value, IsSeq(value), Len(value) = AddressBytes
    PROVE  /\ IsSeq(PackWord(type, value)) /\ Len(PackWord(type, value)) = WordBytes
           /\ Reading(type, PackWord(type, value)) = value
<1> DEFINE d == WordBytes - AddressBytes
           zeros == [p \in 1..d |-> 0]
           word == zeros \o value
           read == SubSeq(word, d + 1, WordBytes)
<1>1. WordBytes \in Nat /\ AddressBytes \in Nat /\ d \in Nat /\ d + AddressBytes = WordBytes
    BY StepMutationAssumption, TypeAwareMutatorAssumption
<1>2. PackWord(type, value) = word
    BY DEF PackWord
<1>3. zeros = [p \in 1..d |-> zeros[p]]
    OBVIOUS
<1> HIDE DEF zeros
<1>4. IsSeq(zeros) /\ Len(zeros) = d
    BY <1>1, <1>3, FunctionIsSeq
<1>5. /\ IsSeq(word) /\ Len(word) = WordBytes
      /\ \A i \in 1..AddressBytes : word[d + i] = value[i]
    BY <1>1, <1>4, Concatenated
<1> HIDE DEF word, d
<1>6. read = [i \in 1..(1 + WordBytes - (d + 1)) |-> word[i + (d + 1) - 1]]
    BY <1>1
<1>7. 1 + WordBytes - (d + 1) = AddressBytes /\ \A i \in Int : i + (d + 1) - 1 = d + i
    BY <1>1
<1>8. read = [i \in 1..AddressBytes |-> word[d + i]]
    BY <1>6, <1>7
<1>9. value = [i \in 1..AddressBytes |-> value[i]]
    BY DEF IsSeq
<1>10. read = value
    BY <1>5, <1>8, <1>9
<1> QED
    BY <1>2, <1>5, <1>10 DEF Reading, d

\* What a number loses when it is packed is a multiple of the words there are.
LEMMA Wrapped ==
    ASSUME NEW v \in Int
    PROVE  \E m \in Int : /\ v = m + (v % WordLimit) /\ v % WordLimit \in 0..(WordLimit - 1)
                          /\ m = 0 \/ m >= WordLimit \/ m = -WordLimit \/ m <= -2 * WordLimit
<1> DEFINE w == WordLimit
           q == v \div w
           n == v % w
           m == w * q
<1>1. w \in Nat \ {0}
    BY WordSize
<1> HIDE DEF w
<1>2. q \in Int /\ n \in 0..(w - 1) /\ v = m + n /\ m \in Int
    BY <1>1
<1>3. m = 0 \/ m >= w \/ m = -w \/ m <= -2 * w
    <2>1. q = 0 \/ q >= 1 \/ q = -1 \/ q <= -2
        BY <1>2
    <2>2. q >= 1 => w * q >= w
        BY <1>1, <1>2
    <2>3. q <= -2 => w * q <= w * (-2)
        BY <1>1, <1>2
    <2> QED
        BY <1>1, <1>2, <2>1, <2>2, <2>3
<1> HIDE DEF m, q, n
<1>4. \E k \in Int : v = k + n /\ n \in 0..(w - 1) /\ (k = 0 \/ k >= w \/ k = -w \/ k <= -2 * w)
    BY <1>2, <1>3
<1> QED
    BY <1>4 DEF w, n

\* A packed number is the one it was exactly if it fits its type, and within a
\* fifth of it exactly if it also is not negative.
LEMMA NumberKept ==
    ASSUME NEW v \in Int
    PROVE  LET w == WordLimit
               n == v % WordLimit
               s == IF 2 * n < w THEN n ELSE n - w
               Near(x) == FifthAround(v).min <= x /\ x <= FifthAround(v).max
           IN  /\ n = v <=> v \in 0..(w - 1)
               /\ Near(n) <=> v \in 0..(w - 1)
               /\ s = v <=> -w <= 2 * v /\ 2 * v < w
               /\ Near(s) <=> v >= 0 /\ 2 * v < w
<1> DEFINE w == WordLimit
           n == v % WordLimit
           s == IF 2 * n < w THEN n ELSE n - w
           fifth == v \div 5
           min == NonNegative(v - fifth)
           Near(x) == min <= x /\ x <= v + fifth
<1>1. PICK m \in Int : /\ v = m + n /\ n \in 0..(w - 1)
                       /\ m = 0 \/ m >= w \/ m = -w \/ m <= -2 * w
    BY Wrapped
<1>2. w \in Nat /\ w >= 256
    BY WordSize
<1>3. fifth \in Int /\ 5 * fifth <= v /\ v < 5 * fifth + 5
    OBVIOUS
<1> HIDE DEF w, n, fifth
<1>4. n = v <=> v \in 0..(w - 1)
    BY <1>1, <1>2
<1>5. s = v <=> -w <= 2 * v /\ 2 * v < w
    BY <1>1, <1>2
<1>6. min = IF v - fifth < 0 THEN 0 ELSE v - fifth
    BY DEF NonNegative
<1> HIDE DEF min
<1>7. Near(n) <=> v \in 0..(w - 1)
    BY <1>1, <1>2, <1>3, <1>6
<1>8. Near(s) <=> v >= 0 /\ 2 * v < w
    BY <1>1, <1>2, <1>3, <1>6
<1>9. FifthAround(v).min = min /\ FifthAround(v).max = v + fifth
    BY DEF FifthAround, min, fifth
<1> QED
    BY <1>4, <1>5, <1>7, <1>8, <1>9 DEF w, n
-----------------------------------------------------------------------------
(* Values of a type                                                        *)

\* The values of a type that a parameter may be given.
HeldBy(type, value) ==
    /\ type.kind = "address" => IsSeq(value) /\ Len(value) = AddressBytes
    /\ type.kind = "bool" => value \in 0..1
    /\ type.kind \in {"uint", "int"} => value \in Int
    /\ IsKind(type, "uint", 8) => value \in 0..255

\* An integer of 256 bits is big: its range is a fifth around it.
LEMMA BigRange ==
    ASSUME NEW change, change.type.kind \in {"uint", "int"}, change.type.size = 256
    PROVE  CalculateValueRange(change) = FifthAround(change.modified)
<1>1. IsBig(change.type)
    BY DEF IsBig, GoSized
<1> QED
    BY <1>1 DEF CalculateValueRange, IsKind

\* A parameter's rule holds of the packed value it was made from, unless that
\* left the type, or has a range below zero.
LEMMA ParameterCovered ==
    ASSUME NEW type \in OneWordTypes, NEW index, NEW original, NEW value, HeldBy(type, value),
           NEW ratio, IsKind(type, "int", 8) => ratio = TenPercent
    PROVE  LET rule == ParameterRule(Change(index, type, original, value, ratio))
           IN  Satisfies(rule, Reading(type, PackWord(type, value)))
                 <=> Fits(rule.type, rule.value) /\ ~(rule.check = "range" /\ rule.value < 0)
<1> DEFINE change == Change(index, type, original, value, ratio)
           rule == ParameterRule(change)
           seen == Reading(type, PackWord(type, value))
           check == DetermineCheckType(change)
           range == IF check = "range" THEN CalculateValueRange(change) ELSE NoRange
<1>1. change.type = type /\ change.modified = value /\ change.ratio = ratio
    BY DEF Change
<1> HIDE DEF change
<1>2. rule.type = type /\ rule.value = value /\ rule.check = check /\ rule.range = range
    BY <1>1 DEF ParameterRule
<1> HIDE DEF rule, check, range, seen
<1> DEFINE Covered ==
               (IF check = "range" THEN range.min <= seen /\ seen <= range.max ELSE seen = value)
                 <=> Fits(type, value) /\ ~(check = "range" /\ value < 0)
<1>3. type.kind \in {"uint", "int", "bool", "address"} /\ type.size \in Nat
    BY DEF OneWordTypes
<1>4. /\ check \in {"range", "exact"}
      /\ check = "range" => /\ type.kind \in {"uint", "int"} /\ type.size \in {8, 256}
                            /\ Ranged(ratio)
    BY <1>1 DEF check, DetermineCheckType, IsKind
<1>5. ASSUME type.kind = "address" PROVE Covered
    <2>1. check = "exact"
        BY <1>4, <1>5
    <2>2. seen = value
        BY <1>5, AddressPacked DEF HeldBy, seen
    <2>3. Fits(type, value)
        BY <1>5 DEF Fits
    <2> QED
        BY <2>1, <2>2, <2>3
<1>6. ASSUME type.kind = "bool" PROVE Covered
    <2>1. check = "exact"
        BY <1>4, <1>6
    <2>2. value \in 0..1
        BY <1>6 DEF HeldBy
    <2>3. seen = value % WordLimit
        BY <1>6, <2>2, NumberPacked DEF Reading, seen
    <2>4. seen = value
        BY <2>2, <2>3, WordSize, NumberKept
    <2>5. Fits(type, value)
        BY <1>6 DEF Fits
    <2> QED
        BY <2>1, <2>4, <2>5
<1>7. ASSUME type.kind \in {"uint", "int"} PROVE Covered
    <2> DEFINE w == WordLimit
               n == value % WordLimit
               s == IF 2 * n < w THEN n ELSE n - w
               Near(x) == FifthAround(value).min <= x /\ x <= FifthAround(value).max
    <2>1. value \in Int /\ w \in Nat /\ w >= 256
        BY <1>7, WordSize DEF HeldBy
    <2>2. /\ n = value <=> value \in 0..(w - 1)
          /\ Near(n) <=> value \in 0..(w - 1)
          /\ s = value <=> -w <= 2 * value /\ 2 * value < w
          /\ Near(s) <=> value >= 0 /\ 2 * value < w
        BY <2>1, NumberKept
    <2>3. FromBytes(PackWord(type, value)) = n
        BY <1>7, <2>1, NumberPacked
    <2>4. CASE type.kind = "uint"
        <3>1. seen = n
            BY <2>3, <2>4 DEF Reading, seen
        <3>2. Fits(type, value) <=> value \in 0..(w - 1)
            BY <2>4 DEF Fits
        <3> HIDE DEF w, n
        <3>3. CASE check = "exact"
            BY <2>2, <3>1, <3>2, <3>3
        <3>4. CASE check = "range" /\ type.size = 8
            <4>1. value \in 0..255
                BY <2>4, <3>4 DEF HeldBy, IsKind
            <4>2. /\ range.min = NonNegative(value - 20)
                  /\ range.max = AtMost(value + 20, 255)
                BY <1>1, <2>4, <3>4 DEF range, CalculateValueRange, IsBig, GoSized, IsKind
            <4>3. value \in 0..(w - 1) /\ n = value
                BY <2>1, <2>2, <4>1
            <4>4. range.min <= n /\ n <= range.max /\ ~(value < 0)
                BY <4>1, <4>2, <4>3 DEF NonNegative, AtMost
            <4> QED
                BY <3>1, <3>2, <3>4, <4>3, <4>4
        <3>5. CASE check = "range" /\ type.size # 8
            <4>1. type.size = 256
                BY <1>4, <3>5
            <4>2. range = FifthAround(value)
                BY <1>1, <2>4, <3>5, <4>1, BigRange DEF range
            <4>3. value \in 0..(w - 1) => ~(value < 0)
                BY <2>1
            <4> QED
                BY <2>2, <3>1, <3>2, <3>5, <4>2, <4>3
        <3> QED
            BY <1>4, <3>3, <3>4, <3>5
    <2>5. CASE type.kind = "int"
        <3>1. seen = s
            BY <2>3, <2>5 DEF Reading, Signed, seen
        <3>2. Fits(type, value) <=> -w <= 2 * value /\ 2 * value < w
            BY <2>5 DEF Fits
        <3> HIDE DEF w, n, s
        <3>3. CASE check = "exact"
            BY <2>2, <3>1, <3>2, <3>3
        <3>4. CASE check = "range"
            <4>1. type.size = 256
                <5>1. ~Ranged(TenPercent)
                    BY DEF Ranged, TenPercent, Fraction
                <5> QED
                    BY <1>4, <2>5, <3>4, <5>1 DEF IsKind
            <4>2. range = FifthAround(value)
                BY <1>1, <2>5, <3>4, <4>1, BigRange DEF range
            <4>3. (value >= 0 /\ 2 * value < w)
                    <=> (-w <= 2 * value /\ 2 * value < w) /\ ~(value < 0)
                BY <2>1 DEF w
            <4> QED
                BY <2>2, <3>1, <3>2, <3>4, <4>2, <4>3
        <3> QED
            BY <1>4, <3>3, <3>4
    <2> QED
        BY <1>7, <2>4, <2>5
<1>8. Covered
    BY <1>3, <1>5, <1>6, <1>7
<1>9. Satisfies(rule, seen) <=> Fits(rule.type, rule.value) /\ ~(rule.check = "range" /\ rule.value < 0)
    BY <1>2, <1>8 DEF Satisfies
<1> QED
    BY <1>9 DEF rule, change, seen

\* Parameters are unpacked to values of their types.
LEMMA ArgumentHeld ==
    ASSUME NEW types \in Seq(OneWordTypes), NEW input \in Seq(0..255), Unpacks(types, input),
           NEW k \in 1..Len(types)
    PROVE  HeldBy(types[k], Unpack(types, input)[k])
<1> DEFINE type == types[k]
           word == WordOf(input, k - 1)
           start == (k - 1) * WordBytes
           arg == Unpack(types, input)[k]
<1>1. /\ WordBytes \in Nat \ {0} /\ AddressBytes \in Nat /\ AddressBytes <= WordBytes
      /\ k \in Nat /\ k - 1 \in Nat /\ Len(types) \in Nat /\ k <= Len(types) /\ IsSeq(input)
    BY StepMutationAssumption, TypeAwareMutatorAssumption, SeqOfElements
<1>2. arg = Reading(type, word) /\ Decodes(type, word)
    BY UnpackReads DEF Unpacks
<1>3. word \in Seq(0..255) /\ IsSeq(word) /\ Len(word) = WordBytes
    <2>1. /\ start \in Nat /\ ((k - 1) + 1) * WordBytes = start + WordBytes
          /\ start + WordBytes <= Len(types) * WordBytes /\ Len(types) * WordBytes \in Nat
        <3>1. ASSUME NEW n \in Nat, k <= n
              PROVE  /\ start \in Nat /\ ((k - 1) + 1) * WordBytes = start + WordBytes
                     /\ start + WordBytes <= n * WordBytes /\ n * WordBytes \in Nat
            <4>1. k * WordBytes <= n * WordBytes /\ k * WordBytes = start + WordBytes
                BY <1>1, <3>1
            <4> QED
                BY <1>1, <3>1, <4>1
        <3> QED
            BY <1>1, <3>1
    <2> DEFINE size == Len(types) * WordBytes
    <2>2. Len(input) - 4 >= size
        BY DEF Unpacks, SelectorBytes
    <2> HIDE DEF start, size
    <2>3. word = SubSeq(input, 4 + start + 1, 4 + (start + WordBytes))
        BY <2>1 DEF WordOf, SelectorBytes, start
    <2>4. word = [i \in 1..(1 + (4 + (start + WordBytes)) - (4 + start + 1)) |->
                    input[i + (4 + start + 1) - 1]]
        BY <1>1, <2>1, <2>3, CutOut
    <2>5. /\ 1 + (4 + (start + WordBytes)) - (4 + start + 1) = WordBytes
          /\ \A i \in 1..WordBytes : i + (4 + start + 1) - 1 = 4 + (start + i)
          /\ start + WordBytes <= size /\ size \in Nat
        BY <1>1, <2>1 DEF size
    <2>6. word = [i \in 1..WordBytes |-> input[4 + (start + i)]]
        BY <2>4, <2>5
    <2>7. ASSUME NEW i \in 1..WordBytes PROVE input[4 + (start + i)] \in 0..255
        <3> DEFINE S == 0..255
        <3>1. input \in Seq(S)
            OBVIOUS
        <3> HIDE DEF S
        <3>2. Len(input) \in Nat /\ \A j \in 1..Len(input) : input[j] \in S
            BY <3>1
        <3>3. 4 + (start + i) \in 1..Len(input)
            BY <1>1, <2>1, <2>2, <2>5, <3>2
        <3> QED
            BY <3>2, <3>3 DEF S
    <2> HIDE DEF word
    <2>8. word \in [1..WordBytes -> 0..255]
        BY <2>6, <2>7
    <2>9. word \in Seq(0..255) /\ Len(word) = WordBytes
        BY <1>1, <2>8
    <2> QED
        BY <2>9, SeqOfElements
<1> HIDE DEF word
<1>4. FromBytes(word) \in Nat /\ Signed(word) \in Int
    BY <1>3, BytesAreNumber, WordSize DEF Signed
<1> HIDE DEF arg, type
<1>5. type.kind = "address" => IsSeq(arg) /\ Len(arg) = AddressBytes
    <2>1. /\ WordBytes - AddressBytes + 1 \in Int
          /\ 1 + WordBytes - (WordBytes - AddressBytes + 1) = AddressBytes
        BY <1>1
    <2> QED
        BY <1>1, <1>2, <1>3, <2>1, SubIsSeq DEF Reading
<1>6. type.kind = "bool" => arg \in 0..1
    BY <1>2, <1>4 DEF Reading, Decodes
<1>7. type.kind \in {"uint", "int"} => arg \in Int
    BY <1>2, <1>4 DEF Reading
<1>8. IsKind(type, "uint", 8) => arg \in 0..255
    <2> SUFFICES ASSUME IsKind(type, "uint", 8) PROVE arg \in 0..255
        OBVIOUS
    <2>1. type.kind = "uint" /\ type.size = 8 /\ GoLimit(type) = 256
        BY WordSize DEF IsKind
    <2>2. GoSized(type)
        BY <2>1 DEF GoSized
    <2>3. FromBytes(word) < 256
        BY <1>2, <2>1, <2>2 DEF Decodes
    <2>4. arg = FromBytes(word)
        BY <1>2, <2>1 DEF Reading
    <2>5. \A n \in Nat : n < 256 => n \in 0..255
        OBVIOUS
    <2> QED
        BY <1>4, <2>3, <2>4, <2>5
<1> QED
    BY <1>5, <1>6, <1>7, <1>8 DEF HeldBy, arg, type

\* A choice is made out of the list.
LEMMA PickedAt ==
    ASSUME NEW s, Len(s) \in Nat \ {0}, NEW variant, variant \in Nat
    PROVE  \E j \in 1..Len(s) : Pick(s, variant) = s[j]
<1> DEFINE n == Len(s)
<1>1. n \in Nat \ {0}
    OBVIOUS
<1> HIDE DEF n
<1>2. (variant % n) + 1 \in 1..n
    BY <1>1
<1>3. Pick(s, variant) = s[(variant % n) + 1]
    BY DEF Pick, n
<1> QED
    BY <1>2, <1>3 DEF n

\* Mutation by type gives a value of the type.
LEMMA MutatedHeld ==
    ASSUME NEW type \in OneWordTypes, NEW value, HeldBy(type, value), NEW variant \in Nat,
           NEW random \in [1..AddressBytes -> 0..255]
    PROVE  HeldBy(type, MutateByType(type, value, variant, random))
<1> DEFINE new == MutateByType(type, value, variant, random)
<1>1. type.kind \in {"uint", "int", "bool", "address"} /\ type.size \in Nat
    BY DEF OneWordTypes
<1>2. CASE type.kind = "address"
    <2>1. new = MutateAddress(value, variant, random)
        BY <1>2 DEF MutateByType
    <2>2. IsSeq(value)
        BY <1>2 DEF HeldBy
    <2> HIDE DEF new
    <2>3. IsSeq(new) /\ Len(new) = AddressBytes
        BY <2>1, <2>2, AddressMutated
    <2> QED
        BY <1>2, <2>3 DEF HeldBy, IsKind, new
<1>3. CASE type.kind = "bool"
    <2>1. new = 1 - value
        BY <1>3 DEF MutateByType
    <2> HIDE DEF new
    <2>2. new \in 0..1
        BY <1>3, <2>1 DEF HeldBy
    <2> QED
        BY <1>3, <2>2 DEF HeldBy, IsKind, new
<1>4. CASE type.kind = "uint" /\ GoSized(type)
    <2> DEFINE limit == GoLimit(type)
               choices == <<(value + 1) % limit, (value - 1) % limit, 0, limit - 1,
                            limit - 1 - value, (2 * value) % limit, value \div 2>>
    <2>1. value \in Int /\ limit \in Nat /\ limit >= 256
        BY <1>4, WordSize DEF HeldBy
    <2>2. new = Pick(choices, variant)
        <3>1. new = MutateUintN(value, limit - 1, variant)
            BY <1>4 DEF MutateByType
        <3>2. (limit - 1) + 1 = limit
            BY <2>1
        <3> QED
            BY <3>1, <3>2 DEF MutateUintN
    <2> HIDE DEF new, limit
    <2>3. choices \in [1..7 -> Int] /\ Len(choices) = 7 /\ Len(choices) \in Nat \ {0}
        BY <2>1
    <2>4. type.size = 8 => value \in 0..255 /\ limit = 256
        BY <1>4, WordSize DEF HeldBy, IsKind, limit
    <2>5. ASSUME type.size = 8 PROVE \A j \in 1..7 : choices[j] \in 0..255
        <3>1. value \in 0..255 /\ limit = 256
            BY <2>4, <2>5
        <3>2. /\ (value + 1) % 256 \in 0..255 /\ (value - 1) % 256 \in 0..255
              /\ (2 * value) % 256 \in 0..255 /\ value \div 2 \in 0..255
              /\ 256 - 1 \in 0..255 /\ 256 - 1 - value \in 0..255
            BY <3>1
        <3>3. /\ choices[1] \in 0..255 /\ choices[2] \in 0..255 /\ choices[3] \in 0..255
              /\ choices[4] \in 0..255 /\ choices[5] \in 0..255 /\ choices[6] \in 0..255
              /\ choices[7] \in 0..255
            BY <3>1, <3>2
        <3> HIDE DEF choices
        <3> TAKE j \in 1..7
        <3>4. j = 1 \/ j = 2 \/ j = 3 \/ j = 4 \/ j = 5 \/ j = 6 \/ j = 7
            OBVIOUS
        <3> QED
            BY <3>3, <3>4
    <2> HIDE DEF choices
    <2>6. new \in Int
        <3>1. PICK j \in 1..7 : new = choices[j]
            BY <2>2, <2>3, PickedAt
        <3> QED
            BY <2>3, <3>1
    <2>7. ASSUME type.size = 8 PROVE new \in 0..255
        <3>1. PICK j \in 1..7 : new = choices[j]
            BY <2>2, <2>3, PickedAt
        <3> QED
            BY <2>5, <2>7, <3>1
    <2> QED
        BY <1>4, <2>6, <2>7 DEF HeldBy, IsKind, new
<1>5. CASE type.kind = "uint" /\ ~GoSized(type)
    <2>1. new = MutateBigUint(value, variant)
        BY <1>5 DEF MutateByType
    <2>2. value \in Int /\ Max32 \in Nat
        BY <1>5, TypeAwareMutatorAssumption DEF HeldBy
    <2>3. type.size # 8
        BY <1>5 DEF GoSized
    <2> HIDE DEF new
    <2>4. Pick(UintMutationSteps, variant) \in Int
        <3>1. UintMutationSteps \in [1..8 -> Int] /\ Len(UintMutationSteps) = 8 /\ Len(UintMutationSteps) \in Nat \ {0}
            BY DEF UintMutationSteps
        <3>2. PICK j \in 1..8 : Pick(UintMutationSteps, variant) = UintMutationSteps[j]
            BY <3>1, PickedAt
        <3> QED
            BY <3>1, <3>2
    <2>5. Pick(<<2, 10, 0>>, variant) \in Int
        <3> DEFINE factors == <<2, 10, 0>>
        <3>1. factors \in [1..3 -> Int] /\ Len(factors) = 3 /\ Len(factors) \in Nat \ {0}
            OBVIOUS
        <3> HIDE DEF factors
        <3>2. PICK j \in 1..3 : Pick(factors, variant) = factors[j]
            BY <3>1, PickedAt
        <3>3. Pick(factors, variant) \in Int
            BY <3>1, <3>2
        <3> QED
            BY <3>3 DEF factors
    <2>6. Pick(UintBoundaries, variant) \in Int
        <3>1. UintBoundaries \in [1..5 -> Int] /\ Len(UintBoundaries) = 5 /\ Len(UintBoundaries) \in Nat \ {0}
            BY <2>2 DEF UintBoundaries
        <3>2. PICK j \in 1..5 : Pick(UintBoundaries, variant) = UintBoundaries[j]
            BY <3>1, PickedAt
        <3> QED
            BY <3>1, <3>2
    <2>7. Pick(BitPatterns, variant) \in Int
        <3>1. BitPatterns \in [1..3 -> Int] /\ Len(BitPatterns) = 3 /\ Len(BitPatterns) \in Nat \ {0}
            BY <2>2 DEF BitPatterns
        <3>2. PICK j \in 1..3 : Pick(BitPatterns, variant) = BitPatterns[j]
            BY <3>1, PickedAt
        <3> QED
            BY <3>1, <3>2
    <2>8. SetSpecialValues(value, variant) \in Int
        <3>1. variant % 9 \in Nat
            OBVIOUS
        <3>2. 2^(variant % 9) \in Int
            BY <3>1
        <3> QED
            BY <3>2 DEF SetSpecialValues
    <2>9. AddStepToBigInt(value, variant) \in Int /\ value * Pick(<<2, 10, 0>>, variant) \in Int
        BY <2>2, <2>4, <2>5 DEF AddStepToBigInt, NonNegative
    <2>10. variant % 5 \in 0..4
        OBVIOUS
    <2>11. new \in Int
        BY <2>1, <2>6, <2>7, <2>8, <2>9, <2>10 DEF MutateBigUint
    <2> QED
        BY <1>5, <2>3, <2>11 DEF HeldBy, IsKind, new
<1>6. CASE type.kind = "int" /\ GoSized(type)
    <2> DEFINE half == GoLimit(type) \div 2
               max == half - 1
               wrap(n) == ((n + max + 1) % (2 * max + 2)) - max - 1
               choices == <<wrap(value + 1), wrap(value - 1), 0, max, -max - 1, wrap(-value),
                            IF value < 0 THEN -value - max - 2 ELSE max - value>>
    <2>1. value \in Int /\ half \in Nat \ {0}
        BY <1>6, WordSize DEF HeldBy
    <2>2. new = Pick(choices, variant)
        BY <1>6 DEF MutateByType, MutateIntN
    <2> HIDE DEF new, half
    <2>3. max \in Int /\ 2 * max + 2 \in Nat \ {0}
        BY <2>1
    <2>4. \A n \in Int : wrap(n) \in Int
        BY <2>3
    <2> HIDE DEF max, wrap
    <2>5. choices \in [1..7 -> Int] /\ Len(choices) = 7 /\ Len(choices) \in Nat \ {0}
        <3>1. wrap(value + 1) \in Int /\ wrap(value - 1) \in Int /\ wrap(-value) \in Int
            BY <2>1, <2>4
        <3> QED
            BY <2>1, <2>3, <3>1
    <2> HIDE DEF choices
    <2>6. new \in Int
        <3>1. PICK j \in 1..7 : new = choices[j]
            BY <2>2, <2>5, PickedAt
        <3> QED
            BY <2>5, <3>1
    <2> QED
        BY <1>6, <2>6 DEF HeldBy, IsKind, new
<1>7. CASE type.kind = "int" /\ ~GoSized(type)
    <2>1. new = MutateBigInt(value, variant)
        BY <1>7 DEF MutateByType
    <2>2. value \in Int /\ Max32 \in Nat
        BY <1>7, TypeAwareMutatorAssumption DEF HeldBy
    <2> HIDE DEF new
    <2>3. Pick(SignedSteps, variant) \in Int
        <3>1. SignedSteps \in [1..8 -> Int] /\ Len(SignedSteps) = 8 /\ Len(SignedSteps) \in Nat \ {0}
            BY DEF SignedSteps
        <3>2. PICK j \in 1..8 : Pick(SignedSteps, variant) = SignedSteps[j]
            BY <3>1, PickedAt
        <3> QED
            BY <3>1, <3>2
    <2>4. Pick(SignedBoundaries, variant) \in Int
        <3>1. SignedBoundaries \in [1..9 -> Int] /\ Len(SignedBoundaries) = 9 /\ Len(SignedBoundaries) \in Nat \ {0}
            BY <2>2 DEF SignedBoundaries
        <3>2. PICK j \in 1..9 : Pick(SignedBoundaries, variant) = SignedBoundaries[j]
            BY <3>1, PickedAt
        <3> QED
            BY <3>1, <3>2
    <2>5. variant % 3 \in 0..2
        OBVIOUS
    <2>6. new \in Int
        BY <2>1, <2>2, <2>3, <2>4, <2>5 DEF MutateBigInt
    <2> QED
        BY <1>7, <2>6 DEF HeldBy, IsKind, new
<1> QED
    BY <1>1, <1>2, <1>3, <1>4, <1>5, <1>6, <1>7

\* A step gives a value of the type, if it changes anything.
StepGives(type, result) == result.changed => HeldBy(type, result.value)

\* A step keeps a value of its type, whether nearby or not.
LEMMA SteppedHeld ==
    ASSUME NEW type \in OneWordTypes, NEW arg, HeldBy(type, arg), NEW variant \in Nat
    PROVE  /\ StepGives(type, ModifyWithSteps(type, arg, variant))
           /\ StepGives(type, ModifyNearbyWithSteps(type, arg, variant))
<1> DEFINE up == Pick(UintSteps, variant)
           step == Pick(IntSteps, variant)
           sign == IF variant % 2 = 0 THEN 1 ELSE -1
           result == ModifyWithSteps(type, arg, variant)
           nearby == ModifyNearbyWithSteps(type, arg, variant)
<1>1. type.kind \in {"uint", "int", "bool", "address"} /\ type.size \in Nat
    BY DEF OneWordTypes
<1>2. up \in Nat /\ step \in Int /\ Pick(AddressSteps, variant) \in Int
    <2>1. UintSteps \in [1..7 -> Nat] /\ Len(UintSteps) = 7 /\ Len(UintSteps) \in Nat \ {0}
        BY DEF UintSteps
    <2>2. Pick(UintSteps, variant) \in Nat
        BY <2>1, PickedAt
    <2>3. IntSteps \in [1..10 -> Int] /\ Len(IntSteps) = 10 /\ Len(IntSteps) \in Nat \ {0}
        BY DEF IntSteps
    <2>4. Pick(IntSteps, variant) \in Int
        BY <2>3, PickedAt
    <2>5. AddressSteps \in [1..8 -> Int] /\ Len(AddressSteps) = 8 /\ Len(AddressSteps) \in Nat \ {0}
        BY DEF AddressSteps
    <2>6. Pick(AddressSteps, variant) \in Int
        BY <2>5, PickedAt
    <2> QED
        BY <2>2, <2>4, <2>6
<1>3. ~Unchanged.changed /\ \A v : ChangedTo(v).changed /\ ChangedTo(v).value = v
    BY DEF Unchanged, ChangedTo
<1>4. type.kind \in {"uint", "int"} => arg \in Int
    BY DEF HeldBy
<1> HIDE DEF up, step
<1>5. \A v \in Int : type.kind \in {"uint", "int"} /\ type.size # 8 => HeldBy(type, v)
    BY DEF HeldBy, IsKind
<1>6. IsBig(type) => type.kind \in {"uint", "int"} /\ type.size # 8
    BY DEF IsBig, GoSized
<1>7. \A count : HeldBy(type, arg) /\ type.kind = "address" =>
        HeldBy(type, AddToLastBytes(arg, count, Pick(AddressSteps, variant)))
    <2> SUFFICES ASSUME NEW count, type.kind = "address"
                 PROVE  HeldBy(type, AddToLastBytes(arg, count, Pick(AddressSteps, variant)))
        OBVIOUS
    <2> DEFINE f == AddToLastBytes(arg, count, Pick(AddressSteps, variant))
    <2>1. f = [p \in 1..AddressBytes |-> f[p]]
        BY DEF AddToLastBytes
    <2> HIDE DEF f
    <2>2. IsSeq(f) /\ Len(f) = AddressBytes
        BY <2>1, FunctionIsSeq, TypeAwareMutatorAssumption, StepMutationAssumption
    <2> QED
        BY <2>2 DEF HeldBy, IsKind, f
<1>8. StepGives(type, result)
    <2>1. CASE type.kind = "uint" /\ IsBig(type)
        <3>1. result = ChangedTo(arg + up)
            BY <1>6, <2>1 DEF ModifyWithSteps, up, IsKind
        <3>2. arg + up \in Int
            BY <1>2, <1>4, <2>1
        <3> QED
            BY <1>3, <1>5, <1>6, <2>1, <3>1, <3>2 DEF StepGives
    <2>2. CASE type.kind = "int" /\ IsBig(type)
        <3>1. result = ChangedTo(arg + step)
            BY <1>6, <2>2 DEF ModifyWithSteps, step, IsKind
        <3>2. arg + step \in Int
            BY <1>2, <1>4, <2>2
        <3> QED
            BY <1>3, <1>5, <1>6, <2>2, <3>1, <3>2 DEF StepGives
    <2>3. CASE IsKind(type, "uint", 8)
        <3>1. arg \in 0..255 /\ type.kind = "uint" /\ type.size = 8
            BY <2>3 DEF HeldBy, IsKind
        <3>2. result \in {ChangedTo(AtMost(arg + up, 255)), Unchanged}
            BY <2>3, <3>1 DEF ModifyWithSteps, up, IsBig, GoSized, IsKind
        <3>3. AtMost(arg + up, 255) \in 0..255
            BY <1>2, <3>1 DEF AtMost
        <3>4. HeldBy(type, AtMost(arg + up, 255))
            BY <3>1, <3>3 DEF HeldBy, IsKind
        <3> QED
            BY <1>3, <3>2, <3>4 DEF StepGives
    <2>4. CASE IsKind(type, "int", 8)
        <3>1. arg \in Int /\ type.kind = "int" /\ type.size = 8
            BY <1>4, <2>4 DEF IsKind
        <3>2. result = ChangedTo(Clamp(arg + step, -128, 127))
            BY <2>4, <3>1 DEF ModifyWithSteps, step, IsBig, GoSized, IsKind
        <3>3. Clamp(arg + step, -128, 127) \in Int
            BY <1>2, <3>1 DEF Clamp, AtMost
        <3>4. HeldBy(type, Clamp(arg + step, -128, 127))
            BY <3>1, <3>3 DEF HeldBy, IsKind
        <3> QED
            BY <1>3, <3>2, <3>4 DEF StepGives
    <2>5. CASE type.kind = "bool"
        <3>1. result = ChangedTo(1 - arg)
            BY <2>5 DEF ModifyWithSteps, IsKind
        <3>2. HeldBy(type, 1 - arg)
            BY <2>5 DEF HeldBy, IsKind
        <3> QED
            BY <1>3, <3>1, <3>2 DEF StepGives
    <2>6. CASE type.kind = "address"
        <3>1. result = ChangedTo(AddToLastBytes(arg, 2, Pick(AddressSteps, variant)))
            BY <2>6 DEF ModifyWithSteps, IsKind
        <3> QED
            BY <1>3, <1>7, <2>6, <3>1 DEF StepGives
    <2>7. CASE type.kind \in {"uint", "int"} /\ ~IsBig(type) /\ type.size # 8
        <3>1. result = Unchanged
            BY <2>7 DEF ModifyWithSteps, IsKind
        <3> QED
            BY <1>3, <3>1 DEF StepGives
    <2> QED
        BY <1>1, <2>1, <2>2, <2>3, <2>4, <2>5, <2>6, <2>7 DEF IsKind
<1>9. StepGives(type, nearby)
    <2>1. CASE type.kind = "uint" /\ IsBig(type)
        <3> DEFINE new == NonNegative(arg + sign * up)
        <3>1. nearby = ChangedTo(new)
            BY <2>1 DEF ModifyNearbyWithSteps, up
        <3>2. new \in Int
            BY <1>2, <1>4, <2>1 DEF NonNegative
        <3> QED
            BY <1>3, <1>5, <1>6, <2>1, <3>1, <3>2 DEF StepGives
    <2>2. CASE type.kind = "int" /\ IsBig(type)
        <3> DEFINE new == arg + sign * step
        <3>1. nearby = ChangedTo(new)
            BY <2>2 DEF ModifyNearbyWithSteps, step
        <3>2. new \in Int
            BY <1>2, <1>4, <2>2
        <3> QED
            BY <1>3, <1>5, <1>6, <2>2, <3>1, <3>2 DEF StepGives
    <2>3. CASE ~(type.kind \in {"uint", "int"} /\ IsBig(type))
        <3>1. nearby = result
            BY <2>3 DEF ModifyNearbyWithSteps
        <3> QED
            BY <1>8, <3>1
    <2> QED
        BY <2>1, <2>2, <2>3
<1> QED
    BY <1>8, <1>9

\* So does the modification of one parameter, whichever way is chosen.
LEMMA ChosenHeld ==
    ASSUME NEW type \in OneWordTypes, NEW arg, HeldBy(type, arg), NEW strategy,
           NEW variant \in Nat, NEW typeAware \in BOOLEAN
    PROVE  StepGives(type, ModifyArgumentByStepStrategy(
                               typeAware, type, arg, strategy, variant, ZeroAddress))
<1> DEFINE mutated == MutateByType(type, arg, variant, ZeroAddress)
<1>1. ZeroAddress \in [1..AddressBytes -> 0..255]
    BY DEF ZeroAddress
<1>2. HeldBy(type, mutated)
    BY <1>1, MutatedHeld
<1> HIDE DEF mutated
<1>3. StepGives(type, ChangedTo(mutated))
    BY <1>2 DEF StepGives, ChangedTo
<1> QED
    BY <1>3, SteppedHeld DEF ModifyArgumentByStepStrategy, mutated

\* And the one that is forced when no step changed anything.
LEMMA ForcedHeld ==
    ASSUME NEW type \in OneWordTypes, NEW arg, HeldBy(type, arg), NEW variant \in Nat
    PROVE  HeldBy(type, ForceStepModifyArgument(type, arg, variant))
<1> DEFINE stepped == ModifyWithSteps(type, arg, variant)
           forced == ForceStepModifyArgument(type, arg, variant)
<1> SUFFICES HeldBy(type, forced)
    OBVIOUS
<1>1. stepped.changed => HeldBy(type, stepped.value)
    BY SteppedHeld DEF StepGives
<1> HIDE DEF stepped, forced
<1>2. CASE type.kind = "address"
    <2> DEFINE by == Pick(AddressSteps, variant)
    <2>1. forced = AddToLastBytes(arg, 1, by)
        BY <1>2 DEF forced, ForceStepModifyArgument, IsKind
    <2>2. forced = [p \in 1..AddressBytes |-> forced[p]]
        BY <2>1 DEF AddToLastBytes
    <2>3. IsSeq(forced) /\ Len(forced) = AddressBytes
        BY <2>2, FunctionIsSeq, TypeAwareMutatorAssumption, StepMutationAssumption
    <2> QED
        BY <1>2, <2>3 DEF HeldBy, IsKind
<1>3. CASE IsKind(type, "uint", 8) /\ ~stepped.changed
    <2>1. forced = (arg + 1) % 256
        BY <1>3 DEF forced, ForceStepModifyArgument, IsKind, stepped
    <2>2. arg \in 0..255
        BY <1>3 DEF HeldBy
    <2>3. forced \in 0..255
        BY <2>1, <2>2
    <2> QED
        BY <1>3, <2>3 DEF HeldBy, IsKind
<1>4. CASE type.kind # "address" /\ ~(IsKind(type, "uint", 8) /\ ~stepped.changed)
    <2>1. forced = IF stepped.changed THEN stepped.value ELSE arg
        BY <1>4 DEF forced, ForceStepModifyArgument, stepped
    <2> QED
        BY <1>1, <2>1
<1> QED
    BY <1>2, <1>3, <1>4
-----------------------------------------------------------------------------
(* Variations and their rules                                              *)

\* A changed argument is what its change says, if all changes of it agree.
LEMMA ModifiedAt ==
    ASSUME NEW args, NEW changes, Len(changes) \in Nat, NEW k \in 1..Len(args),
           NEW i \in 1..Len(changes), changes[i].index = k - 1,
           \A j \in 1..Len(changes) :
               changes[j].index = k - 1 => changes[j].modified = changes[i].modified
    PROVE  ModifiedArguments(args, changes)[k] = changes[i].modified
<1> DEFINE here == {j \in 1..Len(changes) : changes[j].index = k - 1}
<1>1. i \in here /\ here \subseteq Nat /\ here \subseteq 1..Len(changes)
    OBVIOUS
<1>2. ModifiedArguments(args, changes)[k] = changes[Min(here)].modified
    BY <1>1 DEF ModifiedArguments
<1>3. \A j \in here : changes[j].modified = changes[i].modified
    OBVIOUS
<1> HIDE DEF here
<1>4. \E m \in here : \A n \in here : m <= n
    BY <1>1, LeastNumber
<1>5. Min(here) \in here
    BY <1>4 DEF Min
<1> QED
    BY <1>2, <1>3, <1>5

\* What a rule made from a change says of the parameters of an input.
CoveredBy(types, change, input) ==
    LET rule == ParameterRule(change)
    IN  rule.type.kind # "bytes" =>
            (Satisfies(rule, Unpack(types, input)[rule.index + 1])
                <=> Fits(rule.type, rule.value) /\ ~(rule.check = "range" /\ rule.value < 0))
Covers(types, modification) ==
    \A i \in 1..Len(modification.changes) :
        CoveredBy(types, modification.changes[i], modification.input)

\* The packed input is covered by a change whose value is of its type.
LEMMA ChangeCovered ==
    ASSUME NEW types \in Seq(OneWordTypes), NEW input, IsSeq(Selector(input)),
           Len(Selector(input)) = SelectorBytes, NEW args, Len(args) = Len(types),
           NEW changes, Len(changes) \in Nat, NEW i \in 1..Len(changes), NEW k \in 1..Len(types),
           NEW original, NEW value, NEW ratio,
           changes[i] = Change(k - 1, types[k], original, value, ratio),
           HeldBy(types[k], value), IsKind(types[k], "int", 8) => ratio = TenPercent,
           \A j \in 1..Len(changes) : changes[j].index = k - 1 => changes[j].modified = value
    PROVE  CoveredBy(types, changes[i], Selector(input) \o Pack(types, ModifiedArguments(args, changes)))
<1> DEFINE type == types[k]
           values == ModifiedArguments(args, changes)
           word == PackWord(type, value)
           packed == Selector(input) \o Pack(types, values)
           change == Change(k - 1, type, original, value, ratio)
           rule == ParameterRule(change)
<1>1. type \in OneWordTypes /\ Len(types) \in Nat /\ k \in Nat
    OBVIOUS
<1>2. change.index = k - 1 /\ change.modified = value
    BY DEF Change
<1>3. values[k] = value
    BY <1>2, ModifiedAt
<1>4. IsSeq(word) /\ Len(word) = WordBytes
    <2>1. type.kind \in {"uint", "int", "bool", "address"}
        BY <1>1 DEF OneWordTypes
    <2>2. CASE type.kind = "address"
        BY <2>2, AddressPacked DEF HeldBy
    <2>3. CASE type.kind # "address"
        <3>1. \A v \in 0..1 : v \in Int
            OBVIOUS
        <3>2. value \in Int
            BY <2>1, <2>3, <3>1 DEF HeldBy
        <3> QED
            BY <2>3, <3>2, NumberPacked
    <2> QED
        BY <2>2, <2>3
<1> HIDE DEF values, word
<1>5. WordOf(packed, k - 1) = word
    BY <1>1, <1>3, <1>4, WordPacked DEF word
<1> HIDE DEF packed
<1>6. Unpack(types, packed)[k] = Reading(type, word)
    BY <1>5, UnpackReads
<1>7. rule.index + 1 = k
    <2>1. rule.index = k - 1
        BY <1>2 DEF ParameterRule
    <2> HIDE DEF rule
    <2> QED
        BY <1>1, <2>1
<1>8. Satisfies(rule, Reading(type, word))
        <=> Fits(rule.type, rule.value) /\ ~(rule.check = "range" /\ rule.value < 0)
    BY <1>1, ParameterCovered DEF word
<1> HIDE DEF rule
<1>9. CoveredBy(types, change, packed)
    BY <1>6, <1>7, <1>8 DEF CoveredBy, rule
<1> QED
    BY <1>9 DEF packed, values

\* A number of one byte keeps its rule exact.
LEMMA SmallRatio ==
    ASSUME NEW type, IsKind(type, "int", 8), NEW original, NEW modified
    PROVE  CalculateParameterChangeRatio(type, original, modified) = TenPercent
<1>1. type.kind = "int" /\ ~IsBig(type)
    BY DEF IsKind, IsBig, GoSized
<1> QED
    BY <1>1 DEF CalculateParameterChangeRatio, IsKind

\* The modifier's variation is covered by the rules made of its changes.
LEMMA VariationCovered ==
    ASSUME NEW types, types = NoMethod \/ types \in Seq(OneWordTypes), NEW input \in Seq(0..255),
           NEW strategy, NEW variant \in Nat, NEW typeAware \in BOOLEAN
    PROVE  Covers(types, GenerateStepBasedInputModification(types, input, strategy, variant,
                                                            typeAware, ZeroAddress))
<1> DEFINE args == Unpack(types, input)
           new(k) == ModifyArgumentByStepStrategy(typeAware, types[k], args[k], strategy, variant,
                                                  ZeroAddress)
           places == [k \in 1..Len(types) |-> k]
           K == {k \in 1..Len(types) : new(k).changed}
           stepped == Sublist(places, K)
           forced == ForceStepModifyArgument(types[1], args[1], variant)
           one == <<Change(0, types[1], args[1], forced, TenPercent)>>
           Stepped(k) == Change(k - 1, types[k], args[k], new(k).value,
                                CalculateParameterChangeRatio(types[k], args[k], new(k).value))
           each == [i \in 1..Len(stepped) |-> Stepped(stepped[i])]
           changes == IF stepped = <<>> THEN one ELSE each
           whole == [changes |-> changes,
                     input |-> Selector(input) \o Pack(types, ModifiedArguments(args, changes))]
           given == GenerateStepBasedInputModification(types, input, strategy, variant,
                                                       typeAware, ZeroAddress)
<1>1. given = IF \/ Len(input) < SelectorBytes \/ types \in {NoMethod, <<>>}
                 \/ ~Unpacks(types, input)
              THEN NoModification ELSE whole
    BY DEF GenerateStepBasedInputModification
<1>2. Covers(types, NoModification)
    BY DEF Covers, NoModification
<1>3. ASSUME Len(input) >= SelectorBytes, types \in Seq(OneWordTypes), types # <<>>,
             Unpacks(types, input)
      PROVE  Covers(types, whole)
    <2>1. whole.changes = changes
          /\ whole.input = Selector(input) \o Pack(types, ModifiedArguments(args, changes))
        OBVIOUS
    <2>2. Len(types) \in Nat \ {0} /\ \A k \in 1..Len(types) : types[k] \in OneWordTypes
        BY <1>3
    <2>3. IsSeq(Selector(input)) /\ Len(Selector(input)) = SelectorBytes
        <3>1. IsSeq(input)
            BY SeqOfElements
        <3> QED
            BY <1>3, <3>1, SelectorIsSeq
    <2>4. Len(args) = Len(types)
        BY <2>2 DEF Unpack
    <2>5. \A k \in 1..Len(types) : HeldBy(types[k], args[k])
        BY <1>3, ArgumentHeld
    <2> HIDE DEF whole, args
    <2>6. \A k \in K : HeldBy(types[k], new(k).value)
        <3> SUFFICES ASSUME NEW k \in K PROVE HeldBy(types[k], new(k).value)
            OBVIOUS
        <3>1. StepGives(types[k], new(k))
            BY <2>2, <2>5, ChosenHeld
        <3> HIDE DEF new
        <3> QED
            BY <3>1 DEF StepGives
    <2>7. HeldBy(types[1], forced)
        BY <2>2, <2>5, ForcedHeld
    <2>8. Len(stepped) \in Nat /\ \A i \in 1..Len(stepped) : stepped[i] \in K
        <3>1. places \in Seq(Nat) /\ Len(places) = Len(types)
            BY <2>2
        <3>2. \A k \in K \cap 1..Len(places) : places[k] = k
            BY <3>1
        <3> HIDE DEF places, K
        <3>3. stepped \in Seq({places[k] : k \in K \cap 1..Len(places)})
            BY <3>1, SublistOf
        <3>4. {places[k] : k \in K \cap 1..Len(places)} \subseteq K
            BY <3>2
        <3> HIDE DEF stepped
        <3> QED
            BY <3>3, <3>4
    <2>9. K \subseteq 1..Len(types)
        OBVIOUS
    <2> HIDE DEF new, K, forced
    <2> DEFINE after == Selector(input) \o Pack(types, ModifiedArguments(args, changes))
    <2>10. ASSUME stepped = <<>>, NEW i \in 1..Len(changes) PROVE CoveredBy(types, changes[i], after)
        <3> DEFINE k == 1
        <3> HIDE DEF stepped, one, each, after
        <3>1. changes = one
            BY <2>10
        <3>2. Len(one) = 1 /\ one[1] = Change(k - 1, types[k], args[k], forced, TenPercent)
            BY DEF one
        <3>3. k \in 1..Len(types)
            BY <2>2
        <3> HIDE DEF changes, k
        <3>4. Len(changes) \in Nat /\ \A j \in 1..Len(changes) : j = 1
            BY <3>1, <3>2
        <3>5. /\ changes[i] = Change(k - 1, types[k], args[k], forced, TenPercent)
              /\ \A j \in 1..Len(changes) : changes[j].index = k - 1 => changes[j].modified = forced
            BY <2>10, <3>1, <3>2, <3>4 DEF Change
        <3>6. HeldBy(types[k], forced)
            BY <2>7 DEF k
        <3> QED
            BY <1>3, <2>3, <2>4, <2>10, <3>3, <3>4, <3>5, <3>6, ChangeCovered DEF after
    <2>11. ASSUME stepped # <<>>, NEW i \in 1..Len(changes) PROVE CoveredBy(types, changes[i], after)
        <3> HIDE DEF stepped, Stepped
        <3>1. changes = each
            BY <2>11
        <3>2. /\ Len(changes) \in Nat /\ Len(changes) = Len(stepped)
              /\ \A j \in 1..Len(changes) : changes[j] = Stepped(stepped[j])
            BY <2>8, <3>1
        <3> HIDE DEF changes
        <3> DEFINE k == stepped[i]
        <3>0. \A j \in 1..Len(changes) :
                 stepped[j] \in K /\ stepped[j] \in 1..Len(types) /\ stepped[j] \in Nat
            <4> TAKE j \in 1..Len(changes)
            <4>1. j \in 1..Len(stepped)
                BY <3>2
            <4>2. stepped[j] \in K
                BY <2>8, <4>1
            <4>3. stepped[j] \in 1..Len(types)
                BY <2>9, <4>2
            <4> QED
                BY <2>2, <4>2, <4>3
        <3>3. k \in K /\ k \in 1..Len(types) /\ k \in Nat
            BY <2>11, <3>0
        <3>4. ASSUME NEW j \in 1..Len(changes), changes[j].index = k - 1
              PROVE  changes[j].modified = new(k).value
            <4>1. stepped[j] \in Nat /\ changes[j] = Stepped(stepped[j])
                BY <3>0, <3>2, <3>4
            <4>2. changes[j].index = stepped[j] - 1 /\ changes[j].modified = new(stepped[j]).value
                BY <4>1 DEF Change, Stepped
            <4>3. stepped[j] = k
                BY <3>3, <3>4, <4>1, <4>2
            <4> QED
                BY <4>2, <4>3
        <3> HIDE DEF k
        <3>5. changes[i] = Change(k - 1, types[k], args[k], new(k).value,
                       CalculateParameterChangeRatio(types[k], args[k], new(k).value))
            BY <2>11, <3>2 DEF Stepped, k
        <3>6. HeldBy(types[k], new(k).value)
            BY <2>6, <3>3
        <3> DEFINE value == new(k).value
                   ratio == CalculateParameterChangeRatio(types[k], args[k], value)
        <3>7. IsKind(types[k], "int", 8) => ratio = TenPercent
            BY SmallRatio
        <3> HIDE DEF value, ratio
        <3>8. /\ changes[i] = Change(k - 1, types[k], args[k], value, ratio)
              /\ HeldBy(types[k], value)
              /\ \A j \in 1..Len(changes) : changes[j].index = k - 1 => changes[j].modified = value
            BY <3>4, <3>5, <3>6 DEF value, ratio
        <3> QED
            BY <1>3, <2>3, <2>4, <2>11, <3>2, <3>3, <3>7, <3>8, ChangeCovered
    <2> QED
        BY <2>1, <2>10, <2>11 DEF Covers
<1> HIDE DEF whole, given
<1>4. types = NoMethod \/ types = <<>> \/ ~(Len(input) >= SelectorBytes) \/ ~Unpacks(types, input)
        => given = NoModification
    <2>1. Len(input) \in Nat /\ SelectorBytes \in Nat
        BY DEF SelectorBytes
    <2> QED
        BY <1>1, <2>1
<1>5. Covers(types, given)
    BY <1>1, <1>2, <1>3, <1>4
<1> QED
    BY <1>5 DEF given

\* The fallback's change is of the whole input, which no rule reads back.
LEMMA FallbackCovered ==
    ASSUME NEW types, NEW input, NEW variant
    PROVE  Covers(types, GenerateFallbackStepBasedInputModification(types, input, variant))
<1> DEFINE bytes == [kind |-> "bytes", size |-> 0]
           modified == Selector(input) \o
               ApplyStepMutationToParameterBytes(Params(input), Pick(BytesSteps, variant), variant)
           change == Change(0, bytes, input, modified, TenPercent)
           whole == [changes |-> <<change>>, input |-> modified]
           given == GenerateFallbackStepBasedInputModification(types, input, variant)
<1>1. given \in {NoModification, whole}
    BY DEF GenerateFallbackStepBasedInputModification
<1>2. Covers(types, NoModification)
    BY DEF Covers, NoModification
<1> HIDE DEF given, modified
<1>3. Len(whole.changes) = 1 /\ whole.changes[1] = change
    OBVIOUS
<1>4. ParameterRule(change).type.kind = "bytes"
    BY DEF ParameterRule, Change
<1> HIDE DEF whole, change
<1>5. Covers(types, whole)
    BY <1>3, <1>4 DEF Covers, CoveredBy
<1> QED
    BY <1>1, <1>2, <1>5 DEF given

\* RulesInv, and the variation covered by its changes before a rule is made of
\* them.
CoverInv ==
    /\ RulesInv
    /\ protection.typeAware \in BOOLEAN
    /\ Covers(protection.call.types, protection.input)
    /\ protection.stage \notin {"validate", "done"} => protection.rule.inputs = <<>>

\* Nothing is to be covered at first, and each step of the caller keeps it so.
LEMMA InitCoverInv == RulesInit => CoverInv
<1> SUFFICES ASSUME RulesInit PROVE CoverInv
    OBVIOUS
<1>1. RulesInv
    BY InitRulesInv
<1>2. protection.input = NoModification /\ protection.rule.inputs = <<>>
      /\ protection.typeAware \in BOOLEAN
    BY DEF RulesInit
<1>3. Covers(protection.call.types, NoModification)
    BY DEF Covers, NoModification
<1> QED
    BY <1>1, <1>2, <1>3 DEF CoverInv

LEMMA VaryInputCovers == ASSUME CoverInv, VaryInput PROVE CoverInv'
<1>1. RulesInv /\ RulesInv'
    BY VaryInputStep DEF CoverInv
<1>2. protection.stage = "input" /\ protection.call \in Calls
    BY <1>1 DEF VaryInput, RulesInv
<1>3. /\ protection.call.types = NoMethod \/ protection.call.types \in Seq(OneWordTypes)
      /\ protection.call.input \in Seq(0..255)
    BY <1>2, RulesAssumption
<1>4. PICK variant \in 0..MaxVariant, strategy \in RuleStrategies :
         LET call == protection.call
             stepped == GenerateStepBasedInputModification(call.types, call.input, strategy,
                            variant, protection.typeAware, ZeroAddress)
             fallback == GenerateFallbackStepBasedInputModification(call.types, call.input, variant)
             Give(modification) ==
                 protection' = [protection EXCEPT !.stage = "storage", !.input = modification]
         IN  \/ Give(NoModification)
             \/ Give(stepped)
             \/ ~FallbackPanics(call.input, variant) /\ Give(fallback)
             \/ /\ FallbackPanics(call.input, variant) /\ call.types # NoMethod
                /\ protection' = [protection EXCEPT !.stage = "panicked"]
    BY DEF VaryInput
<1> DEFINE stepped == GenerateStepBasedInputModification(protection.call.types,
               protection.call.input, strategy, variant, protection.typeAware, ZeroAddress)
           fallback == GenerateFallbackStepBasedInputModification(
               protection.call.types, protection.call.input, variant)
<1>5. /\ Covers(protection.call.types, NoModification)
      /\ Covers(protection.call.types, stepped)
      /\ Covers(protection.call.types, fallback)
    <2>1. variant \in Nat /\ protection.typeAware \in BOOLEAN
        BY RulesAssumption DEF CoverInv
    <2>2. Covers(protection.call.types, NoModification)
        BY DEF Covers, NoModification
    <2> QED
        BY <1>3, <2>1, <2>2, VariationCovered, FallbackCovered
<1>6. \/ protection' = [protection EXCEPT !.stage = "storage", !.input = NoModification]
      \/ protection' = [protection EXCEPT !.stage = "storage", !.input = stepped]
      \/ protection' = [protection EXCEPT !.stage = "storage", !.input = fallback]
      \/ protection' = [protection EXCEPT !.stage = "panicked"]
    BY <1>4
<1> HIDE DEF stepped, fallback
<1>7. /\ protection'.call = protection.call /\ protection'.typeAware = protection.typeAware
      /\ protection'.rule = protection.rule
      /\ protection'.input \in {NoModification, stepped, fallback, protection.input}
    BY <1>1, <1>6 DEF RulesInv
<1> QED
    BY <1>1, <1>2, <1>5, <1>7 DEF CoverInv

LEMMA NextCoverInv == CoverInv /\ [RulesNext]_protection => CoverInv'
<1> SUFFICES ASSUME CoverInv, [RulesNext]_protection PROVE CoverInv'
    OBVIOUS
<1>1. RulesInv /\ RulesInv'
    BY NextRulesInv DEF CoverInv
<1>2. CASE VaryStorage
    <2>1. PICK modification :
            protection' = [protection EXCEPT !.stage = "create", !.storage = modification]
        BY <1>2 DEF VaryStorage
    <2>2. /\ protection'.call = protection.call /\ protection'.typeAware = protection.typeAware
          /\ protection'.rule = protection.rule /\ protection'.input = protection.input
        BY <1>1, <2>1 DEF RulesInv
    <2>3. protection.stage = "storage"
        BY <1>2 DEF VaryStorage
    <2> QED
        BY <1>1, <2>2, <2>3 DEF CoverInv
<1>3. CASE CreateRule \/ ValidateRule
    <2>1. /\ protection'.call = protection.call /\ protection'.typeAware = protection.typeAware
          /\ protection'.input = protection.input /\ protection'.stage \in {"validate", "done"}
        BY <1>1, <1>3 DEF CreateRule, ValidateRule, RulesInv
    <2> QED
        BY <1>1, <2>1 DEF CoverInv
<1>4. CASE UNCHANGED protection
    BY <1>4, <1>1 DEF CoverInv
<1> QED
    BY <1>2, <1>3, <1>4, VaryInputCovers DEF RulesNext, RulesEnd

\* A rule on the parameters holds of the very input it was made from, unless a
\* step left the type and the packed parameter wrapped, or the rule is a range
\* around a negative number, which is cut at zero and empty (types.go:941).
THEOREM VariationCovers == Spec => []RuleCoversVariation
<1>1. ASSUME CoverInv PROVE RuleCoversVariation
    <2> DEFINE input == protection.input
               rules == CreateInputProtectionRule(input)
               types == protection.call.types
    <2>1. protection.rule.inputs = <<>> \/ (protection.rule.inputs = <<rules>> /\ input # NoModification)
        <3>1. CASE protection.stage \in {"validate", "done"}
            <4>1. protection.rule = CreateProtectionRule(protection.contract, input, protection.storage)
                BY <1>1, <3>1 DEF CoverInv, RulesInv
            <4> HIDE DEF rules
            <4> QED
                BY <4>1 DEF CreateProtectionRule, CreateFallbackProtectionRule, rules
        <3>2. CASE protection.stage \notin {"validate", "done"}
            BY <1>1, <3>2 DEF CoverInv
        <3> QED
            BY <3>1, <3>2
    <2>2. input # NoModification =>
            /\ Len(rules) = Len(input.changes)
            /\ \A k \in 1..Len(rules) : rules[k] = ParameterRule(input.changes[k])
        BY <1>1 DEF CoverInv, RulesInv, GoodInput, CreateInputProtectionRule
    <2>3. Covers(types, input)
        BY <1>1 DEF CoverInv
    <2> HIDE DEF rules
    <2>4. CASE protection.rule.inputs = <<>>
        BY <2>4 DEF RuleCoversVariation
    <2>5. CASE protection.rule.inputs = <<rules>> /\ input # NoModification
        <3> SUFFICES ASSUME NEW i \in 1..Len(protection.rule.inputs),
                            NEW k \in 1..Len(protection.rule.inputs[i])
                     PROVE  LET rule == protection.rule.inputs[i][k]
                                negative == rule.check = "range" /\ rule.value < 0
                            IN  rule.type.kind # "bytes" =>
                                (Satisfies(rule, Unpack(types, input.input)[rule.index + 1])
                                    <=> Fits(rule.type, rule.value) /\ ~negative)
            BY DEF RuleCoversVariation
        <3>1. protection.rule.inputs[i] = rules
            BY <2>5
        <3>2. k \in 1..Len(input.changes) /\ rules[k] = ParameterRule(input.changes[k])
            BY <2>2, <2>5, <3>1
        <3>3. CoveredBy(types, input.changes[k], input.input)
            BY <2>3, <3>2 DEF Covers
        <3> QED
            BY <3>1, <3>2, <3>3 DEF CoveredBy
    <2> QED
        BY <2>1, <2>4, <2>5
<1>2. RulesSpec => []CoverInv
    BY InitCoverInv, NextCoverInv, PTL DEF RulesSpec
<1> QED
    BY <1>1, <1>2, Components, PTL
-----------------------------------------------------------------------------
(* Paths                                                                   *)

\* The path of an execution is a sequence.
LEMMA PathIsSeq ==
    ASSUME NEW to, NEW input, NEW prestate
    PROVE  IsSeq(ExecuteTransaction(to, input, prestate))
<1>1. \A x, y : IsSeq(<<>>) /\ IsSeq(<<x>>) /\ IsSeq(<<x, y>>)
    <2> SUFFICES ASSUME NEW x, NEW y PROVE IsSeq(<<>>) /\ IsSeq(<<x>>) /\ IsSeq(<<x, y>>)
        OBVIOUS
    <2>1. <<>> \in Seq({x, y}) /\ <<x>> \in Seq({x, y}) /\ <<x, y>> \in Seq({x, y})
        OBVIOUS
    <2> QED
        BY <2>1, SeqOfElements
<1> DEFINE slots == IF HasStorage(prestate, to)
                    THEN IF input = <<>> THEN <<"SLOAD">> ELSE <<"SLOAD", "SSTORE">> ELSE <<>>
           transfer == IF Len(input) >= SelectorBytes /\ Selector(input) \in Transfers
                       THEN <<ToString(Selector(input))>> ELSE <<>>
<1>2. IsSeq(slots) /\ IsSeq(transfer) /\ IsSeq(<<"CALL">>) /\ IsSeq(<<"RETURN">>)
      /\ IsSeq(<<"CREATE">>)
    BY <1>1
<1>3. ExecuteTransaction(to, input, prestate) =
        IF to = NoTo THEN <<"CREATE">> ELSE <<"CALL">> \o slots \o transfer \o <<"RETURN">>
    BY DEF ExecuteTransaction
<1> HIDE DEF slots, transfer
<1>4. IsSeq(<<"CALL">> \o slots)
    BY <1>2, Concatenated
<1>5. IsSeq(<<"CALL">> \o slots \o transfer)
    BY <1>2, <1>4, Concatenated
<1>6. IsSeq(<<"CALL">> \o slots \o transfer \o <<"RETURN">>)
    BY <1>2, <1>5, Concatenated
<1> QED
    BY <1>2, <1>3, <1>6

\* A path compared with itself scores one.
LEMMA SimilarToItself ==
    ASSUME NEW path, IsSeq(path)
    PROVE  LET similarity == CalculateSimilarity(path, path)
           IN  similarity.num = similarity.den
<1> DEFINE n == Len(path)
           m == AtMost(n, n)
           longer == IF n < n THEN n ELSE n
           matches == {i \in 1..m : path[i] = path[i]}
<1>1. CalculateSimilarity(path, path) =
        IF longer = 0 THEN [num |-> 1, den |-> 1]
        ELSE [num |-> Cardinality(matches), den |-> longer]
    BY DEF CalculateSimilarity
<1>2. n \in Nat /\ matches = 1..m /\ longer = n
    BY DEF IsSeq
<1> HIDE DEF n, matches, longer
<1>3. m = n
    BY <1>2 DEF AtMost
<1>4. Cardinality(matches) = n
    BY <1>2, <1>3, FS_Interval
<1> QED
    BY <1>1, <1>2, <1>4

\* The path depends on the length and the selector of the input, and on whether
\* the receiver has storage.
LEMMA SamePath ==
    ASSUME NEW to, NEW input, NEW other, NEW prestate, NEW new,
           \/ input = other
           \/ IsInput(input) /\ IsInput(other) /\ Selector(input) = Selector(other),
           HasStorage(prestate, to) <=> HasStorage(new, to)
    PROVE  ExecuteTransaction(to, input, prestate) = ExecuteTransaction(to, other, new)
<1>1. CASE input = other
    BY <1>1 DEF ExecuteTransaction
<1>2. CASE IsInput(input) /\ IsInput(other) /\ Selector(input) = Selector(other)
    <2>1. Len(<<>>) = 0
        OBVIOUS
    <2>2. input # <<>> /\ other # <<>> /\ Len(input) >= SelectorBytes /\ Len(other) >= SelectorBytes
        BY <1>2, <2>1 DEF IsInput, SelectorBytes
    <2> QED
        BY <1>2, <2>2 DEF ExecuteTransaction
<1> QED
    BY <1>1, <1>2

\* The mutation of the storage leaves a contract with storage and one without as
\* they were.
LEMMA StorageStays ==
    ASSUME NEW prestate, NEW c \in DOMAIN prestate, NEW new, new = <<>> <=> prestate[c] = <<>>,
           NEW to
    PROVE  HasStorage(prestate, to) <=> HasStorage([prestate EXCEPT ![c] = new], to)
<1> QED
    BY DEF HasStorage, NoStorage
-----------------------------------------------------------------------------
(* Campaigns                                                               *)

\* What is recorded was measured: a result is recorded when every plan so far has
\* been executed.
ProgressInv ==
    /\ DOMAIN campaign = {"stage", "target", "enabled", "infos", "plans", "plan", "item",
                          "results", "recorded", "recording"}
    /\ campaign.stage \in {"start", "analyse", "execute", "record", "done", "failed", "panicked"}
    /\ campaign.item \in Nat \ {0} /\ campaign.plan \in Nat \ {0}
    /\ campaign.recorded \in Nat /\ campaign.recording \in BOOLEAN
    /\ campaign.recorded <= Len(campaign.results)
    /\ campaign.recording =>
         campaign.stage = "record" /\ campaign.recorded < Len(campaign.results)

\* Only a contract with an ABI is analysed, and only its ABI is kept.
AnalysisInv ==
    /\ tx \in Transactions
    /\ DOMAIN campaign.infos \subseteq DOMAIN Abi
    /\ \A c \in DOMAIN campaign.infos : IsInfos(campaign.infos[c])
    /\ \A f \in fetched : f[2] \in DOMAIN Abi

PlansInv ==
    /\ IsSeq(campaign.plans)
    /\ \A i \in 1..Len(campaign.plans) : IsPlan(campaign.plans[i], tx.input)

\* A result is of a base strategy, changes a slot at most and has the path of the
\* original if it has its selector.
IsResult(result) ==
    /\ result.strategy \in Strategies
    /\ Cardinality(result.changed) <= 1
    /\ result.selector = Selector(tx.input) => result.similarity.num = result.similarity.den
ResultsInv ==
    /\ IsSeq(campaign.results)
    /\ \A i \in 1..Len(campaign.results) : IsResult(campaign.results[i])

\* Between the two halves of a record the strategies are one ahead of the total,
\* between those of a reset they have nothing to show.
StatisticsInv ==
    /\ DOMAIN sms = {"attempts", "successes", "total", "high", "batch", "threshold"}
    /\ sms.attempts \in [Strategies -> Nat] /\ sms.successes \in [Strategies -> Nat]
    /\ \A s \in Strategies : sms.successes[s] <= sms.attempts[s]
    /\ sms.total \in Nat /\ sms.high \in Nat /\ sms.high <= sms.total
    /\ sms.batch \in MinBatch..MaxBatch
ResetInv ==
    /\ DOMAIN reset = {"at", "calls", "overlapped"}
    /\ reset.at \in {"idle", "halfway"} /\ reset.calls \in 0..MaxResets
    /\ reset.overlapped \in BOOLEAN
    /\ ~reset.overlapped /\ reset.at = "halfway" => ~campaign.recording /\ Sum(sms.attempts) = 0
    /\ ~reset.overlapped /\ reset.at = "idle" =>
         Sum(sms.attempts) = sms.total + IF campaign.recording THEN 1 ELSE 0

CampaignInv ==
    ProgressInv /\ AnalysisInv /\ PlansInv /\ ResultsInv /\ StatisticsInv /\ ResetInv

\* A campaign starts with nothing planned, measured or recorded.
LEMMA InitCampaignInv == CampaignInit => CampaignInv
<1> SUFFICES ASSUME CampaignInit PROVE CampaignInv
    OBVIOUS
<1>1. IsSeq(<<>>) /\ Len(<<>>) = 0
    <2>1. <<>> \in Seq({}) /\ Len(<<>>) = 0
        OBVIOUS
    <2> QED
        BY <2>1, SeqOfElements
<1>2. /\ campaign.stage = "start" /\ campaign.item = 1 /\ campaign.plan = 1
      /\ campaign.recorded = 0 /\ campaign.recording = FALSE
      /\ campaign.infos = <<>> /\ campaign.plans = <<>> /\ campaign.results = <<>>
    BY DEF CampaignInit
<1>3. ProgressInv
    <2>1. DOMAIN campaign = {"stage", "target", "enabled", "infos", "plans", "plan", "item",
                             "results", "recorded", "recording"}
        BY DEF CampaignInit
    <2>2. campaign.recording \in BOOLEAN /\ ~campaign.recording
        BY <1>2
    <2>3. campaign.recorded \in Nat /\ campaign.recorded <= Len(campaign.results)
        BY <1>1, <1>2
    <2> QED
        BY <1>2, <2>1, <2>2, <2>3 DEF ProgressInv
<1>4. AnalysisInv
    <2>1. DOMAIN campaign.infos = {}
        BY <1>2
    <2> QED
        BY <2>1 DEF AnalysisInv, CampaignInit
<1>5. PlansInv /\ ResultsInv
    <2>1. 1..Len(campaign.plans) = {} /\ 1..Len(campaign.results) = {}
        BY <1>1, <1>2
    <2> QED
        BY <1>1, <1>2, <2>1 DEF PlansInv, ResultsInv
<1>6. StatisticsInv
    <2> DEFINE none == [s \in Strategies |-> 0]
    <2>1. sms = [attempts |-> none, successes |-> none, total |-> 0, high |-> 0,
                 batch |-> InitialBatch, threshold |-> SmartThreshold]
        BY DEF CampaignInit, NewSmartMutationStrategy
    <2>2. none \in [Strategies -> Nat] /\ \A s \in Strategies : none[s] <= none[s]
        OBVIOUS
    <2> HIDE DEF none
    <2>3. /\ DOMAIN sms = {"attempts", "successes", "total", "high", "batch", "threshold"}
          /\ sms.attempts = none /\ sms.successes = none /\ sms.total = 0 /\ sms.high = 0
          /\ sms.batch = InitialBatch
        BY <2>1
    <2>4. InitialBatch \in MinBatch..MaxBatch
        BY MutationStrategyAssumption
    <2> QED
        BY <2>2, <2>3, <2>4 DEF StatisticsInv
<1>7. ResetInv
    <2>1. sms.attempts = [s \in Strategies |-> 0] /\ sms.total = 0
        BY DEF CampaignInit, NewSmartMutationStrategy
    <2>2. Sum(sms.attempts) = 0
        BY <2>1, SumZero, MutationStrategyAssumption
    <2>3. reset = [at |-> "idle", calls |-> 0, overlapped |-> FALSE]
        BY DEF CampaignInit
    <2>4. MaxResets \in Nat
        BY CampaignAssumption
    <2> QED
        BY <1>2, <2>1, <2>2, <2>3, <2>4 DEF ResetInv
<1> QED
    BY <1>3, <1>4, <1>5, <1>6, <1>7 DEF CampaignInv

\* The first half of a record puts the strategies one ahead of the total.
LEMMA StrategyRecorded ==
    ASSUME StatisticsInv, NEW strategy \in Strategies, NEW success,
           sms' = RecordStrategy(sms, strategy, success)
    PROVE  /\ StatisticsInv' /\ sms'.total = sms.total
           /\ Sum(sms'.attempts) = Sum(sms.attempts) + 1 /\ Sum(sms.attempts) \in Nat
<1> DEFINE more == [sms.attempts EXCEPT ![strategy] = @ + 1]
           won == [sms.successes EXCEPT ![strategy] = @ + IF success THEN 1 ELSE 0]
<1>1. /\ DOMAIN sms' = DOMAIN sms /\ sms'.attempts = more /\ sms'.successes = won
      /\ sms'.total = sms.total /\ sms'.high = sms.high /\ sms'.batch = sms.batch
    BY DEF RecordStrategy, StatisticsInv
<1>2. Sum(more) = Sum(sms.attempts) + 1 /\ Sum(sms.attempts) \in Nat
    BY SumOne, MutationStrategyAssumption DEF StatisticsInv
<1>3. more \in [Strategies -> Nat] /\ won \in [Strategies -> Nat]
    BY DEF StatisticsInv
<1>4. ASSUME NEW s \in Strategies PROVE won[s] <= more[s]
    <2>1. /\ sms.successes[s] \in Nat /\ sms.attempts[s] \in Nat
          /\ sms.successes[s] <= sms.attempts[s]
        BY DEF StatisticsInv
    <2>2. CASE s = strategy
        <3>1. more[s] = sms.attempts[s] + 1
            BY <2>2 DEF StatisticsInv
        <3>2. won[s] = sms.successes[s] + 1 \/ won[s] = sms.successes[s]
            BY <2>1, <2>2 DEF StatisticsInv
        <3> HIDE DEF more, won
        <3> QED
            BY <2>1, <3>1, <3>2
    <2>3. CASE s # strategy
        <3>1. more[s] = sms.attempts[s] /\ won[s] = sms.successes[s]
            BY <2>3
        <3> QED
            BY <2>1, <3>1
    <2> QED
        BY <2>2, <2>3
<1> HIDE DEF more, won
<1>5. StatisticsInv'
    BY <1>1, <1>3, <1>4 DEF StatisticsInv
<1> QED
    BY <1>1, <1>2, <1>5

\* The batch size stays between its limits, whatever it is adapted to.
LEMMA BatchAdapted ==
    ASSUME NEW strategy, strategy.batch \in MinBatch..MaxBatch
    PROVE  AdaptBatchSize(strategy) \in MinBatch..MaxBatch
<1>1. MinBatch \in Nat /\ MaxBatch \in Int /\ MinBatch <= MaxBatch
    BY MutationStrategyAssumption
<1> DEFINE adapted == IF 10 * strategy.high > 3 * strategy.total THEN (strategy.batch * 11) \div 10
                      ELSE IF 10 * strategy.high < strategy.total THEN (strategy.batch * 9) \div 10
                      ELSE strategy.batch
<1>2. adapted \in Int
    <2>1. strategy.batch \in Int
        BY <1>1
    <2>2. (strategy.batch * 11) \div 10 \in Int /\ (strategy.batch * 9) \div 10 \in Int
        BY <2>1
    <2> QED
        BY <2>1, <2>2
<1>3. AdaptBatchSize(strategy) =
        IF strategy.total < Warmup THEN strategy.batch
        ELSE IF adapted < MinBatch THEN MinBatch ELSE AtMost(adapted, MaxBatch)
    BY DEF AdaptBatchSize
<1> HIDE DEF adapted
<1>4. ~(adapted < MinBatch) => AtMost(adapted, MaxBatch) \in MinBatch..MaxBatch
    <2>1. CASE adapted < MaxBatch
        BY <1>1, <1>2, <2>1 DEF AtMost
    <2>2. CASE ~(adapted < MaxBatch)
        BY <1>1, <1>2, <2>2 DEF AtMost
    <2> QED
        BY <2>1, <2>2
<1>5. MinBatch \in MinBatch..MaxBatch
    BY <1>1
<1> QED
    BY <1>3, <1>4, <1>5

\* The second half lets the total catch up.
LEMMA TotalsRecorded ==
    ASSUME StatisticsInv, NEW similarity, sms' = RecordTotals(sms, similarity)
    PROVE  StatisticsInv' /\ sms'.attempts = sms.attempts /\ sms'.total = sms.total + 1
<1> DEFINE high == IF 100 * similarity.num >= sms.threshold * similarity.den THEN 1 ELSE 0
           counted == [sms EXCEPT !.total = @ + 1, !.high = @ + high]
<1>1. high \in 0..1
    OBVIOUS
<1>2. sms' = [counted EXCEPT !.batch = AdaptBatchSize(counted)]
    BY DEF RecordTotals
<1> HIDE DEF high
<1>3. /\ DOMAIN counted = DOMAIN sms /\ counted.attempts = sms.attempts
      /\ counted.successes = sms.successes /\ counted.total = sms.total + 1
      /\ counted.high = sms.high + high /\ counted.batch = sms.batch
    BY DEF StatisticsInv
<1> HIDE DEF counted
<1>4. AdaptBatchSize(counted) \in MinBatch..MaxBatch
    BY <1>3, BatchAdapted DEF StatisticsInv
<1>5. /\ DOMAIN sms' = DOMAIN sms /\ sms'.attempts = sms.attempts
      /\ sms'.successes = sms.successes /\ sms'.total = sms.total + 1
      /\ sms'.high = sms.high + high /\ sms'.batch = AdaptBatchSize(counted)
    BY <1>2, <1>3 DEF StatisticsInv
<1>6. sms.total + 1 \in Nat /\ sms.high + high \in Nat /\ sms.high + high <= sms.total + 1
    BY <1>1 DEF StatisticsInv
<1>7. StatisticsInv'
    BY <1>4, <1>5, <1>6 DEF StatisticsInv
<1> QED
    BY <1>5, <1>7

Stages == {"start", "analyse", "execute", "record", "done", "failed", "panicked"}

\* A step outside the recording keeps the invariant if what it puts into the
\* campaign is as it should be.
LEMMA CampaignMoves ==
    ASSUME CampaignInv, ~campaign.recording,
           DOMAIN campaign' = DOMAIN campaign, campaign'.stage \in Stages,
           campaign'.item \in Nat \ {0}, campaign'.plan \in Nat \ {0},
           campaign'.recorded = campaign.recorded, campaign'.recording = campaign.recording,
           Len(campaign.results) <= Len(campaign'.results),
           AnalysisInv', PlansInv', ResultsInv', sms' = sms, reset' = reset
    PROVE  CampaignInv'
<1>1. ProgressInv'
    <2>1. Len(campaign.results) \in Nat /\ Len(campaign'.results) \in Nat
        BY DEF CampaignInv, ResultsInv, IsSeq
    <2>2. campaign'.recorded \in Nat /\ campaign'.recorded <= Len(campaign'.results)
        BY <2>1 DEF CampaignInv, ProgressInv
    <2>3. campaign'.recording \in BOOLEAN /\ ~campaign'.recording
        BY DEF CampaignInv, ProgressInv
    <2> QED
        BY <2>2, <2>3 DEF CampaignInv, ProgressInv, Stages
<1>2. StatisticsInv'
    BY DEF CampaignInv, StatisticsInv
<1>3. ResetInv'
    <2>1. sms'.attempts = sms.attempts /\ sms'.total = sms.total
        OBVIOUS
    <2>2. Sum(sms.attempts)' = Sum(sms.attempts)
        BY <2>1
    <2> QED
        BY <2>1, <2>2 DEF CampaignInv, ResetInv
<1> QED
    BY <1>1, <1>2, <1>3 DEF CampaignInv

\* A part of the invariant stays when what it is about stays.
LEMMA AnalysisKept ==
    ASSUME AnalysisInv, tx' = tx, campaign'.infos = campaign.infos,
           \A f \in fetched' : f[2] \in DOMAIN Abi
    PROVE  AnalysisInv'
<1> QED
    BY DEF AnalysisInv

LEMMA PlansKept ==
    ASSUME PlansInv, tx' = tx, campaign'.plans = campaign.plans
    PROVE  PlansInv'
<1> QED
    BY DEF PlansInv

LEMMA ResultsKept ==
    ASSUME ResultsInv, tx' = tx, campaign'.results = campaign.results
    PROVE  ResultsInv' /\ Len(campaign.results) <= Len(campaign'.results)
<1>1. Len(campaign.results) \in Nat
    BY DEF ResultsInv, IsSeq
<1>2. ResultsInv'
    BY DEF ResultsInv, IsResult
<1> QED
    BY <1>1, <1>2

\* Only an ABI that exists is found and cached.
LEMMA ABIFetched ==
    ASSUME AnalysisInv, NEW manager, NEW c, NEW found, GetContractABI(manager, c, found)
    PROVE  /\ \A f \in fetched' : f[2] \in DOMAIN Abi
           /\ found \in BOOLEAN /\ (found => c \in DOMAIN Abi)
<1>1. <<manager, c>>[2] = c
    OBVIOUS
<1>2. found \in BOOLEAN /\ (found => c \in DOMAIN Abi)
    BY <1>1 DEF GetContractABI, AnalysisInv
<1> QED
    BY <1>1, <1>2 DEF GetContractABI, AnalysisInv

\* The stage, the plan and the item of a plan are all that these steps change.
LEMMA StageMoves ==
    ASSUME CampaignInv,
           StartCampaign \/ PlansDone \/ PlanExecuted \/ PlanRecorded \/ CampaignDone
    PROVE  CampaignInv'
<1>1. /\ ProgressInv /\ AnalysisInv /\ PlansInv /\ ResultsInv
      /\ tx' = tx /\ sms' = sms /\ fetched' = fetched /\ reset' = reset
    BY DEF CampaignInv, StartCampaign, PlansDone, PlanExecuted, PlanRecorded, CampaignDone
<1> DEFINE Moves ==
        /\ ~campaign.recording
        /\ DOMAIN campaign' = DOMAIN campaign /\ campaign'.stage \in Stages
        /\ campaign'.item \in Nat \ {0} /\ campaign'.plan \in Nat \ {0}
        /\ campaign'.recorded = campaign.recorded /\ campaign'.recording = campaign.recording
        /\ campaign'.infos = campaign.infos /\ campaign'.plans = campaign.plans
        /\ campaign'.results = campaign.results
<1>2. ASSUME NEW next \in Stages, campaign' = [campaign EXCEPT !.stage = next],
             campaign.stage # "record"
      PROVE  Moves
    BY <1>1, <1>2 DEF ProgressInv
<1>3. ASSUME PlanRecorded PROVE Moves
    <2>1. campaign.recorded = Len(campaign.results) /\ "execute" \in Stages
        BY <1>3 DEF PlanRecorded, Stages
    <2>2. ~campaign.recording
        BY <1>1, <2>1 DEF ProgressInv
    <2>3. campaign' = [campaign EXCEPT !.stage = "execute", !.plan = campaign.plan + 1, !.item = 1]
        BY <1>3 DEF PlanRecorded
    <2>4. /\ DOMAIN campaign' = DOMAIN campaign /\ campaign'.stage = "execute"
          /\ campaign'.item = 1 /\ campaign'.plan = campaign.plan + 1
          /\ campaign'.recorded = campaign.recorded /\ campaign'.recording = campaign.recording
          /\ campaign'.infos = campaign.infos /\ campaign'.plans = campaign.plans
          /\ campaign'.results = campaign.results
        BY <1>1, <2>3 DEF ProgressInv
    <2>5. campaign.plan + 1 \in Nat \ {0} /\ 1 \in Nat \ {0}
        BY <1>1 DEF ProgressInv
    <2> QED
        BY <2>1, <2>2, <2>4, <2>5
<1>4. Moves
    <2> HIDE DEF Moves
    <2>1. CASE StartCampaign
        <3>1. PICK next \in {"analyse", "failed"} : campaign' = [campaign EXCEPT !.stage = next]
            BY <2>1 DEF StartCampaign
        <3>2. next \in Stages /\ campaign.stage # "record"
            BY <2>1 DEF StartCampaign, Stages
        <3> QED
            BY <1>2, <3>1, <3>2
    <2>2. CASE PlansDone
        BY <1>2, <2>2 DEF PlansDone, Stages
    <2>3. CASE PlanExecuted
        BY <1>2, <2>3 DEF PlanExecuted, Executing, Stages
    <2>4. CASE CampaignDone
        BY <1>2, <2>4 DEF CampaignDone, Stages
    <2> QED
        BY <1>3, <2>1, <2>2, <2>3, <2>4
<1>5. AnalysisInv'
    BY <1>1, <1>4, AnalysisKept DEF AnalysisInv
<1>6. PlansInv' /\ ResultsInv' /\ Len(campaign.results) <= Len(campaign'.results)
    BY <1>1, <1>4, PlansKept, ResultsKept
<1> QED
    BY <1>1, <1>4, <1>5, <1>6, CampaignMoves

\* An appended sequence has the old elements and the new one.
LEMMA OneMore ==
    ASSUME NEW s, IsSeq(s), NEW x
    PROVE  /\ IsSeq(Append(s, x)) /\ Len(s) \in Nat /\ Len(Append(s, x)) = Len(s) + 1
           /\ \A i \in 1..Len(Append(s, x)) :
                 (i \in 1..Len(s) /\ Append(s, x)[i] = s[i]) \/ Append(s, x)[i] = x
<1> DEFINE S == Elements(s) \cup {x}
           more == Append(s, x)
<1>1. s \in Seq(S) /\ x \in S
    BY DEF IsSeq
<1> HIDE DEF S
<1>2. more \in Seq(S) /\ Len(s) \in Nat /\ Len(more) = Len(s) + 1
    BY <1>1
<1>3. \A i \in 1..Len(more) : (i \in 1..Len(s) /\ more[i] = s[i]) \/ more[i] = x
    BY <1>1
<1> HIDE DEF more
<1>4. IsSeq(more)
    BY <1>2, SeqOfElements
<1> QED
    BY <1>2, <1>3, <1>4 DEF more

LEMMA AnalyzeTargetStep == ASSUME CampaignInv, AnalyzeTarget PROVE CampaignInv'
<1>1. /\ ProgressInv /\ AnalysisInv /\ PlansInv /\ ResultsInv
      /\ campaign.stage = "analyse" /\ tx' = tx /\ sms' = sms /\ reset' = reset
    BY DEF CampaignInv, AnalyzeTarget
<1> DEFINE c == Targets[campaign.target]
           enabled == [campaign EXCEPT !.target = @ + 1, !.enabled = c]
           kept == {f \in fetched : f[1] # "input"}
           infos(order, hasABI) ==
               [t \in DOMAIN enabled.infos \cup {c} |->
                   IF t = c THEN AnalyzeContractStorage(tx.prestate[c], order, hasABI)
                   ELSE enabled.infos[t]]
<1>2. ~campaign.recording
    BY <1>1 DEF ProgressInv
<1>3. \/ campaign' = enabled /\ fetched' = kept
      \/ /\ c \in DOMAIN Abi /\ c \in DOMAIN tx.prestate
         /\ \E hasABI \in IF <<"analysis", c>> \in fetched THEN {TRUE} ELSE BOOLEAN,
               order \in SetToSeqs(DOMAIN tx.prestate[c]) :
               /\ campaign' = [enabled EXCEPT !.infos = infos(order, hasABI)]
               /\ fetched' = kept \cup IF hasABI THEN {<<"analysis", c>>} ELSE {}
    BY DEF AnalyzeTarget
<1>4. /\ DOMAIN enabled = DOMAIN campaign /\ enabled.stage = campaign.stage
      /\ enabled.item = campaign.item /\ enabled.plan = campaign.plan
      /\ enabled.recorded = campaign.recorded /\ enabled.recording = campaign.recording
      /\ enabled.infos = campaign.infos /\ enabled.plans = campaign.plans
      /\ enabled.results = campaign.results
    BY <1>1 DEF ProgressInv
<1> HIDE DEF enabled
<1>5. kept \subseteq fetched
    OBVIOUS
<1>6. campaign.stage \in Stages /\ campaign.item \in Nat \ {0} /\ campaign.plan \in Nat \ {0}
    BY <1>1 DEF ProgressInv, Stages
<1> HIDE DEF kept, infos
<1>7. CASE campaign' = enabled /\ fetched' = kept
    <2>1. \A f \in fetched' : f[2] \in DOMAIN Abi
        BY <1>1, <1>5, <1>7 DEF AnalysisInv
    <2>2. /\ AnalysisInv' /\ PlansInv' /\ ResultsInv'
          /\ Len(campaign.results) <= Len(campaign'.results)
        BY <1>1, <1>4, <1>7, <2>1, AnalysisKept, PlansKept, ResultsKept
    <2> QED
        BY <1>1, <1>2, <1>4, <1>6, <1>7, <2>2, CampaignMoves
<1>8. CASE /\ c \in DOMAIN Abi /\ c \in DOMAIN tx.prestate
           /\ \E hasABI \in IF <<"analysis", c>> \in fetched THEN {TRUE} ELSE BOOLEAN,
                 order \in SetToSeqs(DOMAIN tx.prestate[c]) :
                 /\ campaign' = [enabled EXCEPT !.infos = infos(order, hasABI)]
                 /\ fetched' = kept \cup IF hasABI THEN {<<"analysis", c>>} ELSE {}
    <2>1. PICK hasABI \in IF <<"analysis", c>> \in fetched THEN {TRUE} ELSE BOOLEAN,
               order \in SetToSeqs(DOMAIN tx.prestate[c]) :
             /\ campaign' = [enabled EXCEPT !.infos = infos(order, hasABI)]
             /\ fetched' = kept \cup IF hasABI THEN {<<"analysis", c>>} ELSE {}
        BY <1>8
    <2>2. IsStorage(tx.prestate[c])
        BY <1>1, <1>8, CampaignAssumption DEF AnalysisInv, IsStorage
    <2>3. IsInfos(AnalyzeContractStorage(tx.prestate[c], order, hasABI))
        BY <2>1, <2>2, Analyzed
    <2> DEFINE analysed == infos(order, hasABI)
    <2>4. /\ DOMAIN analysed = DOMAIN campaign.infos \cup {c}
          /\ \A t \in DOMAIN analysed : IsInfos(analysed[t])
        BY <1>1, <1>4, <2>3 DEF infos, AnalysisInv
    <2> HIDE DEF analysed
    <2>5. /\ DOMAIN campaign' = DOMAIN campaign /\ campaign'.stage = campaign.stage
          /\ campaign'.item = campaign.item /\ campaign'.plan = campaign.plan
          /\ campaign'.recorded = campaign.recorded /\ campaign'.recording = campaign.recording
          /\ campaign'.infos = analysed /\ campaign'.plans = campaign.plans
          /\ campaign'.results = campaign.results
        BY <1>1, <1>4, <2>1 DEF ProgressInv, analysed
    <2>6. \A f \in fetched' : f[2] \in DOMAIN Abi
        <3>1. <<"analysis", c>>[2] = c
            OBVIOUS
        <3> HIDE DEF c
        <3>2. \A f \in fetched' : f \in fetched \/ f = <<"analysis", c>>
            BY <1>5, <2>1
        <3> QED
            BY <1>1, <1>8, <3>1, <3>2 DEF AnalysisInv
    <2>7. AnalysisInv'
        BY <1>1, <1>8, <2>4, <2>5, <2>6 DEF AnalysisInv
    <2>8. PlansInv' /\ ResultsInv' /\ Len(campaign.results) <= Len(campaign'.results)
        BY <1>1, <2>5, PlansKept, ResultsKept
    <2> QED
        BY <1>1, <1>2, <1>6, <2>5, <2>7, <2>8, CampaignMoves
<1> QED
    BY <1>3, <1>7, <1>8

LEMMA PlanTargetStep == ASSUME CampaignInv, PlanTarget PROVE CampaignInv'
<1>1. /\ ProgressInv /\ AnalysisInv /\ PlansInv /\ ResultsInv /\ StatisticsInv
      /\ campaign.stage = "analyse"
      /\ tx' = tx /\ sms' = sms /\ fetched' = fetched /\ reset' = reset
    BY DEF CampaignInv, PlanTarget
<1>2. ~campaign.recording
    BY <1>1 DEF ProgressInv
<1>3. PICK c \in DOMAIN campaign.infos \ Planned, ranking \in SetToSeqs(Strategies) :
         LET plan == GetOptimalMutationPlan(sms, ranking, campaign.infos[c], tx.input)
         IN  campaign' = [campaign EXCEPT !.plans =
                  Append(@, [contract |-> c, storage |-> plan.storage, input |-> plan.input])]
    BY DEF PlanTarget
<1> DEFINE plan == GetOptimalMutationPlan(sms, ranking, campaign.infos[c], tx.input)
           one == [contract |-> c, storage |-> plan.storage, input |-> plan.input]
<1>4. campaign' = [campaign EXCEPT !.plans = Append(campaign.plans, one)]
    BY <1>3
<1>5. IsPlan(one, tx.input)
    <2>1. IsInfos(campaign.infos[c])
        BY <1>1, <1>3 DEF AnalysisInv
    <2>2. tx.input \in Seq(0..255)
        BY <1>1, CampaignAssumption DEF AnalysisInv
    <2>3. sms.batch \in Nat
        BY <1>1, MutationStrategyAssumption DEF StatisticsInv
    <2> QED
        BY <1>3, <2>1, <2>2, <2>3, Planning
<1> HIDE DEF one
<1>6. /\ DOMAIN campaign' = DOMAIN campaign /\ campaign'.stage = campaign.stage
      /\ campaign'.item = campaign.item /\ campaign'.plan = campaign.plan
      /\ campaign'.recorded = campaign.recorded /\ campaign'.recording = campaign.recording
      /\ campaign'.infos = campaign.infos /\ campaign'.plans = Append(campaign.plans, one)
      /\ campaign'.results = campaign.results
    BY <1>1, <1>4 DEF ProgressInv
<1>7. PlansInv'
    <2>1. /\ IsSeq(campaign.plans)
          /\ \A i \in 1..Len(campaign.plans) : IsPlan(campaign.plans[i], tx.input)
        BY <1>1 DEF PlansInv
    <2>2. /\ IsSeq(Append(campaign.plans, one))
          /\ \A i \in 1..Len(Append(campaign.plans, one)) :
                IsPlan(Append(campaign.plans, one)[i], tx.input)
        <3> DEFINE more == Append(campaign.plans, one)
        <3>1. /\ IsSeq(more)
              /\ \A i \in 1..Len(more) :
                    (i \in 1..Len(campaign.plans) /\ more[i] = campaign.plans[i]) \/ more[i] = one
            BY <2>1, OneMore
        <3> HIDE DEF more
        <3> QED
            BY <1>5, <2>1, <3>1 DEF more
    <2> QED
        BY <1>1, <1>6, <2>2 DEF PlansInv
<1>8. AnalysisInv' /\ ResultsInv' /\ Len(campaign.results) <= Len(campaign'.results)
    BY <1>1, <1>6, AnalysisKept, ResultsKept DEF AnalysisInv
<1>9. campaign'.stage \in Stages /\ campaign'.item \in Nat \ {0} /\ campaign'.plan \in Nat \ {0}
    BY <1>1, <1>6 DEF ProgressInv, Stages
<1> QED
    BY <1>1, <1>2, <1>6, <1>7, <1>8, <1>9, CampaignMoves

\* A mutation of a plan that is measured adds a result.
LEMMA ItemMeasured ==
    ASSUME CampaignInv, Executing, NEW result, IsResult(result), campaign' = NextItem(result),
           \A f \in fetched' : f[2] \in DOMAIN Abi, tx' = tx, sms' = sms, reset' = reset
    PROVE  CampaignInv'
<1>1. /\ ProgressInv /\ AnalysisInv /\ PlansInv /\ ResultsInv /\ campaign.stage = "execute"
    BY DEF CampaignInv, Executing
<1>2. ~campaign.recording
    BY <1>1 DEF ProgressInv
<1> DEFINE more == Append(campaign.results, result)
<1>3. campaign' = [campaign EXCEPT !.item = campaign.item + 1, !.results = more]
    BY DEF NextItem
<1>4. /\ IsSeq(campaign.results) /\ Len(campaign.results) \in Nat
      /\ IsSeq(more) /\ Len(more) = Len(campaign.results) + 1
      /\ \A i \in 1..Len(more) :
            (i \in 1..Len(campaign.results) /\ more[i] = campaign.results[i]) \/ more[i] = result
    <2>1. IsSeq(campaign.results)
        BY <1>1 DEF ResultsInv
    <2> QED
        BY <2>1, OneMore
<1> HIDE DEF more
<1>5. /\ DOMAIN campaign' = DOMAIN campaign /\ campaign'.stage = campaign.stage
      /\ campaign'.item = campaign.item + 1 /\ campaign'.plan = campaign.plan
      /\ campaign'.recorded = campaign.recorded /\ campaign'.recording = campaign.recording
      /\ campaign'.infos = campaign.infos /\ campaign'.plans = campaign.plans
      /\ campaign'.results = more
    BY <1>1, <1>3 DEF ProgressInv
<1>6. \A i \in 1..Len(more) : IsResult(more[i])
    BY <1>1, <1>4 DEF ResultsInv
<1>7. ResultsInv'
    BY <1>4, <1>5, <1>6 DEF ResultsInv, IsResult
<1>8. Len(campaign.results) <= Len(campaign'.results)
    BY <1>4, <1>5
<1>9. AnalysisInv' /\ PlansInv'
    BY <1>1, <1>5, AnalysisKept, PlansKept
<1>10. campaign'.stage \in Stages /\ campaign'.item \in Nat \ {0} /\ campaign'.plan \in Nat \ {0}
    BY <1>1, <1>5 DEF ProgressInv, Stages
<1> QED
    BY <1>2, <1>5, <1>7, <1>8, <1>9, <1>10, CampaignMoves

\* Mutated storage is on the original's path.
LEMMA StorageMutationStep == ASSUME CampaignInv, ExecuteStorageMutation PROVE CampaignInv'
<1>1. /\ ProgressInv /\ AnalysisInv /\ PlansInv /\ Executing
      /\ campaign.item <= Len(Plan.storage)
      /\ tx' = tx /\ sms' = sms /\ reset' = reset
    BY DEF CampaignInv, ExecuteStorageMutation
<1> DEFINE item == Plan.storage[campaign.item]
<1>2. item.strategy \in Strategies /\ item.variant \in Nat
    <2>1. campaign.plan \in 1..Len(campaign.plans)
        BY <1>1 DEF ProgressInv, Executing, PlansInv, IsSeq
    <2>2. IsPlan(Plan, tx.input)
        BY <1>1, <2>1 DEF PlansInv, Plan
    <2>3. campaign.item \in 1..Len(Plan.storage)
        BY <1>1, <2>2 DEF ProgressInv, IsPlan, IsSeq
    <2> QED
        BY <2>2, <2>3 DEF IsPlan
<1>3. PICK c \in {t \in DOMAIN tx.prestate : tx.prestate[t] # NoStorage},
           random \in RandomAddresses, hasABI \in BOOLEAN :
         \E order \in SetToSeqs(DOMAIN tx.prestate[c]) :
            LET old == tx.prestate[c]
                new == MutateStorage(old, order, hasABI, item.variant, random)
                changed == {slot \in DOMAIN old : new[slot] # old[slot]}
            IN  /\ GetContractABI("analysis", c, hasABI)
                /\ campaign' = NextItem(
                     Result(item, tx.input, [tx.prestate EXCEPT ![c] = new], changed))
    BY DEF ExecuteStorageMutation
<1> DEFINE old == tx.prestate[c]
<1>4. PICK order \in SetToSeqs(DOMAIN old) :
            LET new == MutateStorage(old, order, hasABI, item.variant, random)
                changed == {slot \in DOMAIN old : new[slot] # old[slot]}
            IN  /\ GetContractABI("analysis", c, hasABI)
                /\ campaign' = NextItem(
                     Result(item, tx.input, [tx.prestate EXCEPT ![c] = new], changed))
    BY <1>3
<1> DEFINE new == MutateStorage(old, order, hasABI, item.variant, random)
           changed == {slot \in DOMAIN old : new[slot] # old[slot]}
           prestate == [tx.prestate EXCEPT ![c] = new]
           result == Result(item, tx.input, prestate, changed)
<1>5. GetContractABI("analysis", c, hasABI) /\ campaign' = NextItem(result)
    BY <1>4
<1>6. c \in DOMAIN tx.prestate /\ IsStorage(old)
    BY <1>1, <1>3, CampaignAssumption DEF AnalysisInv, IsStorage
<1> HIDE DEF item
<1>7. (new = <<>> <=> old = <<>>) /\ Cardinality(changed) <= 1
    <2>1. \A variant \in Nat :
             LET stored == MutateStorage(old, order, hasABI, variant, random)
             IN  /\ stored = <<>> <=> old = <<>>
                 /\ Cardinality({slot \in DOMAIN old : stored[slot] # old[slot]}) <= 1
        <3> HIDE DEF old
        <3> QED
            BY <1>6, StorageMutated
    <2> QED
        BY <1>2, <2>1
<1> HIDE DEF new, changed
<1>8. HasStorage(tx.prestate, tx.to) <=> HasStorage(prestate, tx.to)
    BY <1>6, <1>7, StorageStays
<1> HIDE DEF prestate
<1> DEFINE path == ExecuteTransaction(tx.to, tx.input, tx.prestate)
           mutated == ExecuteTransaction(tx.to, tx.input, prestate)
<1>9. result = [strategy |-> item.strategy, variant |-> item.variant, success |-> TRUE,
                selector |-> Selector(tx.input), changed |-> changed,
                similarity |-> CalculateSimilarity(path, mutated)]
    BY DEF Result
<1>10. path = mutated
    BY <1>8, SamePath
<1>11. IsSeq(path)
    BY PathIsSeq
<1> HIDE DEF path, mutated, result
<1>12. CalculateSimilarity(path, mutated).num = CalculateSimilarity(path, mutated).den
    BY <1>10, <1>11, SimilarToItself
<1>13. IsResult(result)
    <2>1. /\ result.strategy = item.strategy /\ result.changed = changed
          /\ result.similarity = CalculateSimilarity(path, mutated)
        BY <1>9
    <2> QED
        BY <1>2, <1>7, <1>12, <2>1 DEF IsResult
<1>14. \A f \in fetched' : f[2] \in DOMAIN Abi
    BY <1>1, <1>5, ABIFetched
<1> QED
    BY <1>1, <1>5, <1>13, <1>14, ItemMeasured

\* A mutated input that keeps its selector is on the original's path.
LEMMA InputMutationStep == ASSUME CampaignInv, ExecuteInputMutation PROVE CampaignInv'
<1>1. /\ ProgressInv /\ AnalysisInv /\ PlansInv /\ ResultsInv /\ Executing
      /\ campaign.item \in (Len(Plan.storage) + 1)..(Len(Plan.storage) + Len(Plan.input))
      /\ tx' = tx /\ sms' = sms /\ reset' = reset
    BY DEF CampaignInv, ExecuteInputMutation
<1> DEFINE item == Plan.input[campaign.item - Len(Plan.storage)]
<1>2. /\ item.strategy \in Strategies /\ item.variant \in Nat
      /\ ParamCount(tx.input) >= 1
    <2>1. campaign.plan \in 1..Len(campaign.plans)
        BY <1>1 DEF ProgressInv, Executing, PlansInv, IsSeq
    <2>2. IsPlan(Plan, tx.input)
        BY <1>1, <2>1 DEF PlansInv, Plan
    <2>3. Len(Plan.storage) \in Nat /\ Len(Plan.input) \in Nat
        BY <2>2 DEF IsPlan, IsSeq
    <2>4. campaign.item - Len(Plan.storage) \in 1..Len(Plan.input)
        <3> DEFINE a == Len(Plan.storage)
                   b == Len(Plan.input)
        <3>1. campaign.item \in (a + 1)..(a + b)
            BY <1>1
        <3>2. a \in Nat /\ b \in Nat
            BY <2>3
        <3> HIDE DEF a, b
        <3>3. campaign.item - a \in 1..b
            BY <3>1, <3>2
        <3> QED
            BY <3>3 DEF a, b
    <2> QED
        BY <2>2, <2>4 DEF IsPlan
<1>3. PICK hasABI \in BOOLEAN, random \in RandomAddresses :
         LET abi == IF hasABI THEN Abi[campaign.enabled] ELSE <<>>
             input == ModifyInputDataWithStrategy(abi, tx.input, item.strategy,
                                                  item.variant, random)
         IN  /\ GetContractABI("input", campaign.enabled, hasABI)
             /\ IF ModifyPanics(abi, tx.input) \/ tx.to = NoTo
                THEN campaign' = [campaign EXCEPT !.stage = "panicked"]
                ELSE campaign' = NextItem(Result(item, input, tx.prestate, {}))
    BY DEF ExecuteInputMutation
<1> DEFINE abi == IF hasABI THEN Abi[campaign.enabled] ELSE <<>>
           input == ModifyInputDataWithStrategy(abi, tx.input, item.strategy, item.variant, random)
           result == Result(item, input, tx.prestate, {})
<1>4. /\ GetContractABI("input", campaign.enabled, hasABI)
      /\ campaign' = [campaign EXCEPT !.stage = "panicked"] \/ campaign' = NextItem(result)
    BY <1>3
<1> HIDE DEF item
<1>5. \A f \in fetched' : f[2] \in DOMAIN Abi
    BY <1>1, <1>4, ABIFetched
<1>6. hasABI => campaign.enabled \in DOMAIN Abi
    BY <1>1, <1>4, ABIFetched
<1>7. \A method \in DOMAIN abi : Len(abi[method]) \in Nat
    <2>1. CASE hasABI
        BY <1>6, <2>1, CampaignAssumption
    <2>2. CASE ~hasABI
        <3>1. DOMAIN abi = {}
            BY <2>2
        <3> QED
            BY <3>1
    <2> QED
        BY <2>1, <2>2
<1> HIDE DEF abi
<1>8. tx.input \in Seq(0..255)
    BY <1>1, CampaignAssumption DEF AnalysisInv
<1>9. random \in [1..AddressBytes -> 0..255]
    BY CampaignAssumption
<1>10. IsInput(input) /\ IsInput(tx.input)
    <2>1. IsInput(input)
        BY <1>2, <1>7, <1>8, <1>9, InputMutationKept
    <2>2. Len(tx.input) \in Nat /\ Len(tx.input) >= 4
        BY <1>2, <1>8 DEF ParamCount, SelectorBytes
    <2>3. IsInput(tx.input)
        BY <1>8, <2>2, SeqOfElements DEF IsInput, SelectorBytes
    <2> QED
        BY <2>1, <2>3
<1> HIDE DEF input
<1> DEFINE path == ExecuteTransaction(tx.to, tx.input, tx.prestate)
           mutated == ExecuteTransaction(tx.to, input, tx.prestate)
<1>11. result = [strategy |-> item.strategy, variant |-> item.variant, success |-> TRUE,
                 selector |-> Selector(input), changed |-> {},
                 similarity |-> CalculateSimilarity(path, mutated)]
    BY DEF Result
<1>12. Selector(input) = Selector(tx.input) => path = mutated
    BY <1>10, SamePath
<1>13. IsSeq(path)
    BY PathIsSeq
<1> HIDE DEF path, mutated, result
<1>14. Selector(input) = Selector(tx.input) =>
          CalculateSimilarity(path, mutated).num = CalculateSimilarity(path, mutated).den
    BY <1>12, <1>13, SimilarToItself
<1>15. IsResult(result)
    <2>1. /\ result.strategy = item.strategy /\ result.changed = {}
          /\ result.selector = Selector(input)
          /\ result.similarity = CalculateSimilarity(path, mutated)
        BY <1>11
    <2>2. Cardinality({}) = 0
        BY FS_EmptySet
    <2>3. Cardinality(result.changed) <= 1
        BY <2>1, <2>2
    <2> QED
        BY <1>2, <1>14, <2>1, <2>3 DEF IsResult
<1>16. CASE campaign' = NextItem(result)
    BY <1>1, <1>5, <1>15, <1>16, ItemMeasured
<1>17. CASE campaign' = [campaign EXCEPT !.stage = "panicked"]
    <2>1. ~campaign.recording
        BY <1>1 DEF ProgressInv, Executing
    <2>2. /\ DOMAIN campaign' = DOMAIN campaign /\ campaign'.stage = "panicked"
          /\ campaign'.item = campaign.item /\ campaign'.plan = campaign.plan
          /\ campaign'.recorded = campaign.recorded /\ campaign'.recording = campaign.recording
          /\ campaign'.infos = campaign.infos /\ campaign'.plans = campaign.plans
          /\ campaign'.results = campaign.results
        BY <1>1, <1>17 DEF ProgressInv
    <2>3. campaign'.stage \in Stages /\ campaign'.item \in Nat \ {0} /\ campaign'.plan \in Nat \ {0}
        BY <1>1, <2>2 DEF ProgressInv, Stages
    <2>4. /\ AnalysisInv' /\ PlansInv' /\ ResultsInv'
          /\ Len(campaign.results) <= Len(campaign'.results)
        BY <1>1, <1>5, <2>2, AnalysisKept, PlansKept, ResultsKept
    <2> QED
        BY <1>1, <2>1, <2>2, <2>3, <2>4, CampaignMoves
<1> QED
    BY <1>4, <1>16, <1>17

\* What a record or a reset does not touch.
LEMMA OtherParts ==
    ASSUME CampaignInv, tx' = tx, fetched' = fetched,
           campaign'.infos = campaign.infos, campaign'.plans = campaign.plans,
           campaign'.results = campaign.results
    PROVE  AnalysisInv' /\ PlansInv' /\ ResultsInv'
<1>1. \A f \in fetched' : f[2] \in DOMAIN Abi
    BY DEF CampaignInv, AnalysisInv
<1> QED
    BY <1>1, AnalysisKept, PlansKept, ResultsKept DEF CampaignInv

LEMMA BeginRecordStep == ASSUME CampaignInv, BeginRecord PROVE CampaignInv'
<1>1. /\ ProgressInv /\ ResultsInv /\ StatisticsInv /\ ResetInv
      /\ campaign.stage = "record" /\ ~campaign.recording
      /\ campaign.recorded < Len(campaign.results)
      /\ sms' = RecordStrategy(sms, NextResult.strategy, NextResult.success)
      /\ campaign' = [campaign EXCEPT !.recording = TRUE]
      /\ reset' = [reset EXCEPT !.overlapped = reset.overlapped \/ reset.at = "halfway"]
      /\ tx' = tx /\ fetched' = fetched
    BY DEF BeginRecord, CampaignInv
<1>2. NextResult.strategy \in Strategies
    <2>1. campaign.recorded + 1 \in 1..Len(campaign.results)
        BY <1>1 DEF ProgressInv, ResultsInv, IsSeq
    <2> QED
        BY <1>1, <2>1 DEF ResultsInv, IsResult, NextResult
<1>3. /\ StatisticsInv' /\ sms'.total = sms.total
      /\ Sum(sms'.attempts) = Sum(sms.attempts) + 1 /\ Sum(sms.attempts) \in Nat
    BY <1>1, <1>2, StrategyRecorded
<1>4. /\ DOMAIN campaign' = DOMAIN campaign /\ campaign'.stage = campaign.stage
      /\ campaign'.item = campaign.item /\ campaign'.plan = campaign.plan
      /\ campaign'.recorded = campaign.recorded /\ campaign'.recording = TRUE
      /\ campaign'.infos = campaign.infos /\ campaign'.plans = campaign.plans
      /\ campaign'.results = campaign.results
    BY <1>1 DEF ProgressInv
<1>5. ProgressInv'
    <2>1. campaign'.recording \in BOOLEAN
        BY <1>4
    <2> QED
        BY <1>1, <1>4, <2>1 DEF ProgressInv
<1>6. /\ DOMAIN reset' = DOMAIN reset /\ reset'.at = reset.at /\ reset'.calls = reset.calls
      /\ reset'.overlapped = (reset.overlapped \/ reset.at = "halfway")
    BY <1>1 DEF ResetInv
<1>7. ResetInv'
    <2>1. reset'.overlapped \in BOOLEAN
        BY <1>6
    <2>2. ~reset'.overlapped => ~reset.overlapped /\ reset.at = "idle"
        BY <1>1, <1>6 DEF ResetInv
    <2>3. ~reset'.overlapped => Sum(sms.attempts) = sms.total
        BY <1>1, <2>2 DEF ResetInv, StatisticsInv
    <2>4. ~reset'.overlapped => Sum(sms'.attempts) = sms'.total + 1
        BY <1>3, <2>3
    <2>5. campaign'.recording
        BY <1>4
    <2> QED
        BY <1>1, <1>6, <2>1, <2>2, <2>4, <2>5 DEF ResetInv
<1>8. AnalysisInv' /\ PlansInv' /\ ResultsInv'
    BY <1>1, <1>4, OtherParts
<1> QED
    BY <1>3, <1>5, <1>7, <1>8 DEF CampaignInv

LEMMA EndRecordStep == ASSUME CampaignInv, EndRecord PROVE CampaignInv'
<1>1. /\ ProgressInv /\ ResultsInv /\ StatisticsInv /\ ResetInv
      /\ campaign.recording /\ sms' = RecordTotals(sms, NextResult.similarity)
      /\ campaign' = [campaign EXCEPT !.recording = FALSE, !.recorded = campaign.recorded + 1]
      /\ tx' = tx /\ fetched' = fetched /\ reset' = reset
    BY DEF EndRecord, CampaignInv
<1>2. StatisticsInv' /\ sms'.attempts = sms.attempts /\ sms'.total = sms.total + 1
    BY <1>1, TotalsRecorded
<1>3. /\ DOMAIN campaign' = DOMAIN campaign /\ campaign'.stage = campaign.stage
      /\ campaign'.item = campaign.item /\ campaign'.plan = campaign.plan
      /\ campaign'.recorded = campaign.recorded + 1 /\ campaign'.recording = FALSE
      /\ campaign'.infos = campaign.infos /\ campaign'.plans = campaign.plans
      /\ campaign'.results = campaign.results
    BY <1>1 DEF ProgressInv
<1>4. ProgressInv'
    <2>1. campaign'.recording \in BOOLEAN /\ ~campaign'.recording
        BY <1>3
    <2>2. campaign.recorded + 1 \in Nat /\ campaign.recorded + 1 <= Len(campaign.results)
        BY <1>1 DEF ProgressInv, ResultsInv, IsSeq
    <2> QED
        BY <1>1, <1>3, <2>1, <2>2 DEF ProgressInv
<1>5. ResetInv'
    <2>1. Sum(sms.attempts)' = Sum(sms.attempts)
        BY <1>2
    <2>2. ~reset.overlapped => reset.at = "idle" /\ Sum(sms.attempts) = sms.total + 1
        BY <1>1 DEF ResetInv
    <2>3. sms.total \in Nat /\ sms'.total + 0 = sms.total + 1
        BY <1>1, <1>2 DEF StatisticsInv
    <2>4. ~campaign'.recording
        BY <1>3
    <2> QED
        BY <1>1, <2>1, <2>2, <2>3, <2>4 DEF ResetInv
<1>6. AnalysisInv' /\ PlansInv' /\ ResultsInv'
    BY <1>1, <1>3, OtherParts
<1> QED
    BY <1>2, <1>4, <1>5, <1>6 DEF CampaignInv

LEMMA BeginResetStep == ASSUME CampaignInv, BeginReset PROVE CampaignInv'
<1>1. /\ StatisticsInv /\ ResetInv
      /\ reset.at = "idle" /\ reset.calls < MaxResets /\ sms' = ResetStatistics(sms)
      /\ reset' = [at |-> "halfway", calls |-> reset.calls + 1,
                   overlapped |-> reset.overlapped \/ campaign.recording]
      /\ tx' = tx /\ campaign' = campaign /\ fetched' = fetched
    BY DEF BeginReset, CampaignInv
<1> DEFINE none == [s \in Strategies |-> 0]
<1>2. /\ DOMAIN sms' = DOMAIN sms /\ sms'.attempts = none /\ sms'.successes = none
      /\ sms'.total = sms.total /\ sms'.high = sms.high /\ sms'.batch = sms.batch
    BY <1>1 DEF ResetStatistics, StatisticsInv
<1>3. Sum(none) = 0
    BY SumZero, MutationStrategyAssumption
<1>4. none \in [Strategies -> Nat] /\ \A s \in Strategies : none[s] <= none[s]
    OBVIOUS
<1> HIDE DEF none
<1>5. StatisticsInv'
    BY <1>1, <1>2, <1>4 DEF StatisticsInv
<1>6. ResetInv'
    <2>1. /\ DOMAIN reset' = {"at", "calls", "overlapped"} /\ reset'.at = "halfway"
          /\ reset'.calls = reset.calls + 1
          /\ reset'.overlapped = (reset.overlapped \/ campaign.recording)
        BY <1>1
    <2>2. reset.calls + 1 \in 0..MaxResets
        BY <1>1, CampaignAssumption DEF ResetInv
    <2>3. reset'.overlapped \in BOOLEAN /\ (~reset'.overlapped => ~campaign.recording)
        BY <2>1
    <2>4. Sum(sms.attempts)' = 0
        BY <1>2, <1>3
    <2>5. campaign'.recording = campaign.recording
        BY <1>1
    <2> QED
        BY <2>1, <2>2, <2>3, <2>4, <2>5 DEF ResetInv
<1>7. ProgressInv' /\ AnalysisInv' /\ PlansInv' /\ ResultsInv'
    <2>1. ProgressInv'
        BY <1>1 DEF CampaignInv, ProgressInv
    <2> QED
        BY <1>1, <2>1, OtherParts
<1> QED
    BY <1>5, <1>6, <1>7 DEF CampaignInv

LEMMA EndResetStep == ASSUME CampaignInv, EndReset PROVE CampaignInv'
<1>1. /\ StatisticsInv /\ ResetInv
      /\ reset.at = "halfway" /\ sms' = ResetTotals(sms)
      /\ reset' = [reset EXCEPT !.at = "idle"]
      /\ tx' = tx /\ campaign' = campaign /\ fetched' = fetched
    BY DEF EndReset, CampaignInv
<1>2. /\ DOMAIN sms' = DOMAIN sms /\ sms'.attempts = sms.attempts
      /\ sms'.successes = sms.successes
      /\ sms'.total = 0 /\ sms'.high = 0 /\ sms'.batch = InitialBatch
    BY <1>1 DEF ResetTotals, StatisticsInv
<1>3. StatisticsInv'
    BY <1>1, <1>2, MutationStrategyAssumption DEF StatisticsInv
<1>4. ResetInv'
    <2>1. /\ DOMAIN reset' = DOMAIN reset /\ reset'.at = "idle" /\ reset'.calls = reset.calls
          /\ reset'.overlapped = reset.overlapped
        BY <1>1 DEF ResetInv
    <2>2. Sum(sms.attempts)' = Sum(sms.attempts)
        BY <1>2
    <2>3. ~reset.overlapped => ~campaign.recording /\ Sum(sms.attempts) = 0
        BY <1>1 DEF ResetInv
    <2>4. campaign'.recording = campaign.recording
        BY <1>1
    <2>5. ~reset.overlapped =>
             Sum(sms.attempts) = sms'.total + IF campaign.recording THEN 1 ELSE 0
        BY <1>2, <2>3
    <2> QED
        BY <1>1, <2>1, <2>2, <2>4, <2>5 DEF ResetInv
<1>5. ProgressInv' /\ AnalysisInv' /\ PlansInv' /\ ResultsInv'
    <2>1. ProgressInv'
        BY <1>1 DEF CampaignInv, ProgressInv
    <2> QED
        BY <1>1, <2>1, OtherParts
<1> QED
    BY <1>3, <1>4, <1>5 DEF CampaignInv

LEMMA NextCampaignInv == CampaignInv /\ [CampaignNext]_campaignVars => CampaignInv'
<1> SUFFICES ASSUME CampaignInv, [CampaignNext]_campaignVars PROVE CampaignInv'
    OBVIOUS
<1>1. CASE UNCHANGED campaignVars
    <2>1. tx' = tx /\ campaign' = campaign /\ sms' = sms /\ fetched' = fetched /\ reset' = reset
        BY <1>1 DEF campaignVars
    <2>2. ProgressInv' /\ StatisticsInv' /\ ResetInv'
        <3>1. Sum(sms.attempts)' = Sum(sms.attempts)
            BY <2>1
        <3> QED
            BY <2>1, <3>1 DEF CampaignInv, ProgressInv, StatisticsInv, ResetInv
    <2> QED
        BY <2>1, <2>2, OtherParts DEF CampaignInv
<1>2. CASE CampaignEnds
    BY <1>1, <1>2 DEF CampaignEnds
<1>3. CASE StartCampaign \/ PlansDone \/ PlanExecuted \/ PlanRecorded \/ CampaignDone
    BY <1>3, StageMoves
<1>4. CASE AnalyzeTarget
    BY <1>4, AnalyzeTargetStep
<1>5. CASE PlanTarget
    BY <1>5, PlanTargetStep
<1>6. CASE ExecuteStorageMutation
    BY <1>6, StorageMutationStep
<1>7. CASE ExecuteInputMutation
    BY <1>7, InputMutationStep
<1>8. CASE BeginRecord
    BY <1>8, BeginRecordStep
<1>9. CASE EndRecord
    BY <1>9, EndRecordStep
<1>10. CASE BeginReset
    BY <1>10, BeginResetStep
<1>11. CASE EndReset
    BY <1>11, EndResetStep
<1> QED
    BY <1>1, <1>2, <1>3, <1>4, <1>5, <1>6, <1>7, <1>8, <1>9, <1>10, <1>11 DEF CampaignNext

\* However a campaign and the resets of its statistics interleave, the plans, the
\* results and the statistics are as CampaignInv says (txReplayer.go:1925).
THEOREM CampaignInvariance == CampaignSpec => []CampaignInv
<1> QED
    BY InitCampaignInv, NextCampaignInv, PTL DEF CampaignSpec

\* The state of a campaign is what the code's types allow, and the batch size
\* stays in its range (smart_mutation_strategy.go:199).
THEOREM CampaignTypes == CampaignSpec => []CampaignTypeOK
<1>1. CampaignInv => CampaignTypeOK
    BY CampaignAssumption
        DEF CampaignInv, ProgressInv, AnalysisInv, StatisticsInv, ResetInv, CampaignTypeOK
<1> QED
    BY <1>1, CampaignInvariance, PTL

\* Outside a record and a reset the attempts add up to the total and there are no
\* more successes than attempts, unless a reset met a record
\* (smart_mutation_strategy.go:135, 538).
THEOREM StatisticsTold == Spec => []StatisticsAgree
<1>1. CampaignInv => StatisticsAgree
    <2> SUFFICES ASSUME CampaignInv, ~campaign.recording, reset.at = "idle", ~reset.overlapped
                 PROVE  /\ sms.total = Sum(sms.attempts) /\ sms.high <= sms.total
                        /\ \A s \in Strategies : sms.successes[s] <= sms.attempts[s]
        BY DEF StatisticsAgree, Sum
    <2>1. Sum(sms.attempts) = sms.total + 0
        BY DEF CampaignInv, ResetInv
    <2> QED
        BY <2>1 DEF CampaignInv, StatisticsInv
<1> QED
    BY <1>1, Components, CampaignInvariance, PTL

\* Whatever a campaign mutates, it measures the original's path, except where a
\* step overflows into the selector (execution_engine.go:309, modifier.go:1402).
THEOREM EveryMutationSimilar == Spec => []EveryMutationScoresOne
<1>1. CampaignInv => EveryMutationScoresOne
    BY DEF CampaignInv, ResultsInv, IsResult, EveryMutationScoresOne
<1> QED
    BY <1>1, Components, CampaignInvariance, PTL

\* A storage mutation changes one slot at most (storage_analyzer.go:384).
THEOREM OneSlotOnly == Spec => []OneSlotMutated
<1>1. CampaignInv => OneSlotMutated
    BY DEF CampaignInv, ResultsInv, IsResult, OneSlotMutated
<1> QED
    BY <1>1, Components, CampaignInvariance, PTL

-----------------------------------------------------------------------------
(* The replayer                                                            *)

\* Whichever operation the caller runs, the state of each is what the code's types
\* allow, the table's constraints hold, and the manager's limiter keeps within its
\* capacity.
THEOREM TypeCorrect == Spec => []TypeOK
<1>1. RulesInv => RulesTypeOK
    BY DEF RulesInv, GoodStorage, RulesTypeOK
<1>2. Spec => []RulesTypeOK
    BY <1>1, Components, RulesInvariance, PTL
<1>3. Spec => [](operation \in {"collect", "campaign", "rule", "record", "operate"})
    <2> DEFINE OperationOK == operation \in {"collect", "campaign", "rule", "record", "operate"}
    <2>1. Init => OperationOK
        BY DEF Init
    <2>2. OperationOK /\ [Next]_replayerVars => OperationOK'
        BY DEF Next, Collect, Campaign, Rule, Record, Operate, replayerVars
    <2> QED
        BY <2>1, <2>2, PTL DEF Spec
<1>4. /\ operation \in {"collect", "campaign", "rule", "record", "operate"} /\ CollectTypeOK
      /\ CampaignTypeOK /\ RulesTypeOK /\ TableTypeOK /\ ManagerTypeOK
      => TypeOK
    BY DEF TypeOK
<1> QED
    BY <1>2, <1>3, <1>4, Components, CollectTypes, CampaignTypes, TableTypes, ManagerTypes,
       PTL

\* What is proved of the collection of mutations, of the table and of the manager
\* holds of the replayer that runs them: every execution that overlapped no other is
\* collected with its own path, those of candidates that write the same agree, the
\* batches repeat the first one, the path of the original is kept while candidates
\* are compared with it, a call reaches only the rows it names, and no slot of the
\* manager leaks (txReplayer.go:1012, 1814; execution_engine.go:208; types.go:47;
\* attack_tx.go:358; concurrency.go:48).
THEOREM PartsKept ==
    Spec => /\ []OwnResultsCollected /\ []LoneCandidatesAgree /\ []BatchesRepeat
            /\ OriginalPathKept /\ CallsReachTheirRows
            /\ []NothingLeaks /\ []CleanMeansDrained
<1> QED
    BY Components, Collected, LoneAgree, BatchesAlike, OriginalKept, OthersKept,
       LeakFree, CleanShutdown, PTL
=============================================================================
