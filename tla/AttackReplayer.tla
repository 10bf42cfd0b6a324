---------------------------- MODULE AttackReplayer ----------------------------
(***************************************************************************)
(* The attack replayer: its caller runs the collection of mutations        *)
(* (MutationCollection) or a smart mutation campaign (SmartCampaign),      *)
(* makes a protection rule from a variation (ProtectionRules), keeps the   *)
(* attacks to replay in the table of its database (AttackTx), or runs      *)
(* operations through the manager that the smart strategy owns             *)
(* (ConcurrencyManager).  They share the mutations and nothing of their    *)
(* state: a campaign asks the jump tracer only for a similarity, a rule is *)
(* given one, an attack is replayed by the hash the caller gives, not by a *)
(* row, and of the manager a campaign takes nothing but one of its locks.  *)
(***************************************************************************)
EXTENDS MutationCollection, SmartCampaign, ProtectionRules, AttackTx,
        ConcurrencyManager

VARIABLE operation   \* the operation the caller runs

replayerVars == <<operation, collectVars, campaignVars, protection, table, managerVars>>

\* An operation that does not run gets some input it never reads.
Init ==
    /\ operation \in {"collect", "campaign", "rule", "record", "operate"}
    /\ CollectInit /\ CampaignInit /\ RulesInit /\ TableInit /\ ManagerInit
    /\ operation # "collect" => attack = CHOOSE a \in Attacks : TRUE
    /\ operation # "campaign" => tx = CHOOSE t \in Transactions : TRUE
    /\ operation # "rule" =>
         /\ protection.call = CHOOSE c \in Calls : TRUE
         /\ protection.contract = ZeroContract /\ ~protection.typeAware

Collect ==
    /\ operation = "collect" /\ CollectNext
    /\ UNCHANGED <<operation, campaignVars, protection, table, managerVars>>
Campaign ==
    /\ operation = "campaign" /\ CampaignNext
    /\ UNCHANGED <<operation, collectVars, protection, table, managerVars>>
Rule ==
    /\ operation = "rule" /\ RulesNext
    /\ UNCHANGED <<operation, collectVars, campaignVars, table, managerVars>>
Record ==
    /\ operation = "record" /\ TableNext
    /\ UNCHANGED <<operation, collectVars, campaignVars, protection, managerVars>>
Operate ==
    /\ operation = "operate" /\ ManagerNext
    /\ UNCHANGED <<operation, collectVars, campaignVars, protection, table>>

Next == Collect \/ Campaign \/ Rule \/ Record \/ Operate

\* The state of every operation is what the code's types allow; the batch size
\* of the smart strategy stays in its range, the table's constraints hold, and the
\* manager's limiter keeps within its capacity.
TypeOK ==
    /\ operation \in {"collect", "campaign", "rule", "record", "operate"}
    /\ CollectTypeOK /\ CampaignTypeOK /\ RulesTypeOK /\ TableTypeOK /\ ManagerTypeOK

Spec == Init /\ [][Next]_replayerVars

\* What Go's scheduler and timers give the manager's calls.
FairSpec == Spec /\ ManagerFairness
=============================================================================
