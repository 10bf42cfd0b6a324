---------------------------- MODULE SmartCampaign ----------------------------
(***************************************************************************)
(* ExecuteSmartMutationCampaign of the attack replayer                     *)
(* (tracing/replay/txReplayer.go): the target contracts are analysed, a    *)
(* plan is made for each, every mutation of a plan is executed on the      *)
(* execution engine's simplified ExecuteTransaction and measured, and the  *)
(* results of a plan are recorded in the smart strategy.                   *)
(*                                                                         *)
(* ResetSmartStrategy may be called meanwhile: it takes the strategy's own *)
(* lock, RecordMutationResult the concurrency manager's.                   *)
(***************************************************************************)
EXTENDS MutationStrategy

CONSTANTS
    Transactions,     \* the attacks: [to, input, prestate], to NoTo for a creation
    NoTo,             \* a nil To()
    Targets,          \* targetContracts, a sequence
    Abi,              \* the ABIs of the contracts the explorers have one for
    RandomAddresses,  \* what crypto/rand may give
    SmartThreshold,   \* the smart strategy's similarityThreshold, in percent
    MaxResets         \* bound: calls of ResetSmartStrategy

ASSUME CampaignAssumption ==
    /\ SmartThreshold \in 0..100 /\ MaxResets \in Nat
    /\ RandomAddresses \subseteq [1..AddressBytes -> 0..255]
    /\ \A t \in Transactions :
          /\ t.input \in Seq(0..255)
          /\ \A c \in DOMAIN t.prestate : /\ t.prestate[c] \in [DOMAIN t.prestate[c] -> Nat]
                                         /\ IsFiniteSet(DOMAIN t.prestate[c])
    /\ \A c \in DOMAIN Abi : \A method \in DOMAIN Abi[c] : Len(Abi[c][method]) \in Nat

VARIABLES
    tx,          \* the original transaction and its prestate
    campaign,    \* the progress of ExecuteSmartMutationCampaign
    sms,         \* smartStrategy
    fetched,     \* the ABIs in the memory caches of the replayer's ABI managers
    reset        \* ResetStrategies: where it is and how often it was called

campaignVars == <<tx, campaign, sms, fetched, reset>>

NoStorage == <<>>
HasStorage(prestate, c) == c \in DOMAIN prestate /\ prestate[c] # NoStorage

\* The selectors whose path has a transfer.
Transfers == {<<169, 5, 156, 187>>, <<9, 94, 167, 179>>, <<35, 184, 114, 221>>}

\* Bug form: the path depends on the whole input.
ExecuteTransactionOnInput(to, input, prestate) ==
    IF to = NoTo THEN <<"CREATE">>
    ELSE <<"CALL">> \o (IF HasStorage(prestate, to) THEN <<"SLOAD", ToString(input)>> ELSE <<>>)
         \o <<"RETURN">>

\* ExecuteTransaction: a path from the receiver and the length and selector of
\* the input alone.
ExecuteTransaction(to, input, prestate) ==
    IF to = NoTo THEN <<"CREATE">>
    ELSE <<"CALL">>
         \o (IF HasStorage(prestate, to)
             THEN IF input = <<>> THEN <<"SLOAD">> ELSE <<"SLOAD", "SSTORE">> ELSE <<>>)
         \o (IF Len(input) >= SelectorBytes /\ Selector(input) \in Transfers
             THEN <<ToString(Selector(input))>> ELSE <<>>)
         \o <<"RETURN">>

CalculateSimilarity(path1, path2) ==
    LET n == AtMost(Len(path1), Len(path2))
        longer == IF Len(path1) < Len(path2) THEN Len(path2) ELSE Len(path1)
        matches == {i \in 1..n : path1[i] = path2[i]}
    IN  IF longer = 0 THEN [num |-> 1, den |-> 1]
        ELSE [num |-> Cardinality(matches), den |-> longer]

CampaignInit ==
    /\ tx \in Transactions
    /\ campaign = [stage |-> "start", target |-> 1, enabled |-> NoTo, infos |-> <<>>,
                   plans |-> <<>>, plan |-> 1, item |-> 1, results |-> <<>>, recorded |-> 0,
                   recording |-> FALSE]
    /\ sms = NewSmartMutationStrategy(SmartThreshold)
    /\ fetched = {}
    /\ reset = [at |-> "idle", calls |-> 0, overlapped |-> FALSE]

\* GetContractABI: from the manager's cache, else from the explorer, which may
\* not answer.  A file of the cache directory is never read back.
GetContractABI(manager, c, found) ==
    /\ found \in IF <<manager, c>> \in fetched THEN {TRUE}
                 ELSE IF c \in DOMAIN Abi THEN BOOLEAN ELSE {FALSE}
    /\ fetched' = IF found THEN fetched \cup {<<manager, c>>} ELSE fetched
-----------------------------------------------------------------------------
(* Analysis and plans.                                                     *)

\* The transaction and its prestate are there, or the call returns an error.
StartCampaign ==
    /\ campaign.stage = "start"
    /\ \E stage \in {"analyse", "failed"} : campaign' = [campaign EXCEPT !.stage = stage]
    /\ UNCHANGED <<tx, sms, fetched, reset>>

\* EnableTypeAwareMutation gives the input modifier a new ABI manager and this
\* contract, AnalyzeContract asks another new one and may fail, and the storage,
\* if the contract is in the prestate, is analysed with the replayer's own.
AnalyzeTarget ==
    /\ campaign.stage = "analyse" /\ campaign.target <= Len(Targets)
    /\ LET c == Targets[campaign.target]
           enabled == [campaign EXCEPT !.target = @ + 1, !.enabled = c]
           kept == {f \in fetched : f[1] # "input"}
       IN  \/ campaign' = enabled /\ fetched' = kept
           \/ /\ c \in DOMAIN Abi /\ c \in DOMAIN tx.prestate
              /\ \E hasABI \in IF <<"analysis", c>> \in fetched THEN {TRUE} ELSE BOOLEAN,
                    order \in SetToSeqs(DOMAIN tx.prestate[c]) :
                     /\ campaign' = [enabled EXCEPT !.infos =
                            [t \in DOMAIN @ \cup {c} |->
                                IF t = c THEN AnalyzeContractStorage(tx.prestate[c], order, hasABI)
                                ELSE @[t]]]
                     /\ fetched' = kept \cup IF hasABI THEN {<<"analysis", c>>} ELSE {}
    /\ UNCHANGED <<tx, sms, reset>>

\* allSlotInfos is a map: the contracts are planned in any order.
Planned == {campaign.plans[i].contract : i \in 1..Len(campaign.plans)}
PlanTarget ==
    /\ campaign.stage = "analyse" /\ campaign.target > Len(Targets)
    /\ \E c \in DOMAIN campaign.infos \ Planned, ranking \in SetToSeqs(Strategies) :
           LET plan == GetOptimalMutationPlan(sms, ranking, campaign.infos[c], tx.input)
           IN  campaign' = [campaign EXCEPT !.plans =
                    Append(@, [contract |-> c, storage |-> plan.storage, input |-> plan.input])]
    /\ UNCHANGED <<tx, sms, fetched, reset>>

PlansDone ==
    /\ campaign.stage = "analyse" /\ campaign.target > Len(Targets)
    /\ Planned = DOMAIN campaign.infos
    /\ campaign' = [campaign EXCEPT !.stage = "execute"]
    /\ UNCHANGED <<tx, sms, fetched, reset>>
-----------------------------------------------------------------------------
(* executeMutationPlan: the storage mutations, then those of the input.    *)

Executing == campaign.stage = "execute" /\ campaign.plan <= Len(campaign.plans)
Plan == campaign.plans[campaign.plan]
Result(item, input, prestate, changed) ==
    [strategy |-> item.strategy, variant |-> item.variant, success |-> TRUE,
     selector |-> Selector(input), changed |-> changed,
     similarity |-> CalculateSimilarity(ExecuteTransaction(tx.to, tx.input, tx.prestate),
                                        ExecuteTransaction(tx.to, input, prestate))]
NextItem(result) == [campaign EXCEPT !.item = @ + 1, !.results = Append(@, result)]

\* The contract whose storage is mutated is the first with storage that the
\* copied prestate's map gives, not the plan's.  There is one: a plan with
\* storage mutations has its slots from the prestate.
ExecuteStorageMutation ==
    /\ Executing /\ campaign.item <= Len(Plan.storage)
    /\ LET item == Plan.storage[campaign.item]
           stored == {c \in DOMAIN tx.prestate : tx.prestate[c] # NoStorage}
       IN  \E c \in stored, random \in RandomAddresses, hasABI \in BOOLEAN :
               \E order \in SetToSeqs(DOMAIN tx.prestate[c]) :
                    LET old == tx.prestate[c]
                        new == MutateStorage(old, order, hasABI, item.variant, random)
                        changed == {slot \in DOMAIN old : new[slot] # old[slot]}
                    IN  /\ GetContractABI("analysis", c, hasABI)
                        /\ campaign' = NextItem(
                             Result(item, tx.input, [tx.prestate EXCEPT ![c] = new], changed))
    /\ UNCHANGED <<tx, sms, reset>>

\* The contract type-aware mutation was last enabled for gives the ABI.
ExecuteInputMutation ==
    /\ Executing
    /\ campaign.item \in (Len(Plan.storage) + 1)..(Len(Plan.storage) + Len(Plan.input))
    /\ LET item == Plan.input[campaign.item - Len(Plan.storage)]
       IN  \E hasABI \in BOOLEAN, random \in RandomAddresses :
             LET abi == IF hasABI THEN Abi[campaign.enabled] ELSE <<>>
                 input == ModifyInputDataWithStrategy(abi, tx.input, item.strategy,
                                                      item.variant, random)
             IN  /\ GetContractABI("input", campaign.enabled, hasABI)
                 /\ IF ModifyPanics(abi, tx.input) \/ tx.to = NoTo
                    THEN campaign' = [campaign EXCEPT !.stage = "panicked"]
                    ELSE campaign' = NextItem(Result(item, input, tx.prestate, {}))
    /\ UNCHANGED <<tx, sms, reset>>

\* The results of the plan are recorded next.
PlanExecuted ==
    /\ Executing /\ campaign.item > Len(Plan.storage) + Len(Plan.input)
    /\ campaign' = [campaign EXCEPT !.stage = "record"]
    /\ UNCHANGED <<tx, sms, fetched, reset>>
-----------------------------------------------------------------------------
(* Recording and resetting.                                                *)

NextResult == campaign.results[campaign.recorded + 1]
BeginRecord ==
    /\ campaign.stage = "record" /\ ~campaign.recording
    /\ campaign.recorded < Len(campaign.results)
    /\ sms' = RecordStrategy(sms, NextResult.strategy, NextResult.success)
    /\ campaign' = [campaign EXCEPT !.recording = TRUE]
    /\ reset' = [reset EXCEPT !.overlapped = @ \/ reset.at = "halfway"]
    /\ UNCHANGED <<tx, fetched>>

EndRecord ==
    /\ campaign.recording
    /\ sms' = RecordTotals(sms, NextResult.similarity)
    /\ campaign' = [campaign EXCEPT !.recording = FALSE, !.recorded = @ + 1]
    /\ UNCHANGED <<tx, fetched, reset>>

PlanRecorded ==
    /\ campaign.stage = "record" /\ campaign.recorded = Len(campaign.results)
    /\ campaign' = [campaign EXCEPT !.stage = "execute", !.plan = @ + 1, !.item = 1]
    /\ UNCHANGED <<tx, sms, fetched, reset>>

\* The rate of a campaign without results is not a number.
SuccessRate ==
    IF campaign.results = <<>> THEN NaN
    ELSE [num |-> Cardinality({i \in DOMAIN campaign.results : campaign.results[i].success}),
          den |-> Len(campaign.results)]
CampaignDone ==
    /\ campaign.stage = "execute" /\ campaign.plan > Len(campaign.plans)
    /\ campaign' = [campaign EXCEPT !.stage = "done"]
    /\ UNCHANGED <<tx, sms, fetched, reset>>

BeginReset ==
    /\ reset.at = "idle" /\ reset.calls < MaxResets
    /\ sms' = ResetStatistics(sms)
    /\ reset' = [at |-> "halfway", calls |-> reset.calls + 1,
                 overlapped |-> reset.overlapped \/ campaign.recording]
    /\ UNCHANGED <<tx, campaign, fetched>>

EndReset ==
    /\ reset.at = "halfway"
    /\ sms' = ResetTotals(sms)
    /\ reset' = [reset EXCEPT !.at = "idle"]
    /\ UNCHANGED <<tx, campaign, fetched>>

CampaignEnds ==
    /\ campaign.stage \in {"done", "failed", "panicked"}
    /\ UNCHANGED campaignVars

CampaignNext ==
    \/ StartCampaign \/ AnalyzeTarget \/ PlanTarget \/ PlansDone
    \/ ExecuteStorageMutation \/ ExecuteInputMutation \/ PlanExecuted
    \/ BeginRecord \/ EndRecord \/ PlanRecorded \/ CampaignDone
    \/ BeginReset \/ EndReset \/ CampaignEnds
-----------------------------------------------------------------------------
(* Properties.                                                             *)

\* The state is what the code's types allow; the batch size stays in its range.
CampaignTypeOK ==
    /\ tx \in Transactions
    /\ campaign.stage \in {"start", "analyse", "execute", "record", "done", "failed", "panicked"}
    /\ campaign.recorded <= Len(campaign.results)
    /\ DOMAIN campaign.infos \subseteq DOMAIN Abi
    /\ DOMAIN sms.attempts = Strategies /\ DOMAIN sms.successes = Strategies
    /\ sms.total \in Nat /\ sms.high \in Nat
    /\ sms.batch \in MinBatch..MaxBatch
    /\ reset.at \in {"idle", "halfway"} /\ reset.calls <= MaxResets

\* Outside a record and a reset the strategies' attempts add up to the total
\* and no strategy has more successes than attempts, unless a reset met a
\* record: the two hold different locks (smart_mutation_strategy.go:135, 538).
StatisticsAgree ==
    ~campaign.recording /\ reset.at = "idle" /\ ~reset.overlapped =>
        /\ sms.total = FoldFunction(LAMBDA a, b : a + b, 0, sms.attempts)
        /\ sms.high <= sms.total
        /\ \A s \in Strategies : sms.successes[s] <= sms.attempts[s]

\* Whatever a campaign mutates, it measures the path of the original: the
\* simplified execution looks at nothing a mutation changes
\* (execution_engine.go:309), except where a step overflows into the selector
\* (modifier.go:1402).
EveryMutationScoresOne ==
    \A i \in 1..Len(campaign.results) :
        LET r == campaign.results[i]
        IN  r.selector = Selector(tx.input) => r.similarity.num = r.similarity.den

\* A storage mutation changes one slot at most: the parity that admits a slot
\* flips with the first one taken, so the limit of three is never reached
\* (storage_analyzer.go:384).
OneSlotMutated ==
    \A i \in 1..Len(campaign.results) : Cardinality(campaign.results[i].changed) <= 1

CampaignSpec == CampaignInit /\ [][CampaignNext]_campaignVars
=============================================================================
