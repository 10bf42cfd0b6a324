-------------------------- MODULE RequestContract --------------------------
(***************************************************************************)
(* What a caller of BatchTransactionSender may rely on, without queues,    *)
(* workers and locks: a submitted request gets at most one outcome, which  *)
(* stands; its updates are published in their order, each once and under   *)
(* a nonce of its own, and only while the outcome is open; a success says  *)
(* that the whole package is out under consecutive nonces; and nothing     *)
(* happens any more once Stop has returned.                                *)
(***************************************************************************)
EXTENDS Naturals

CONSTANTS
    Requests,   \* the requests a caller may submit
    Updates     \* [Requests -> Nat]: the number of transactions of a request

VARIABLES
    phase,      \* Stop: "open", "stopping", "closed"
    status,     \* [Requests -> "new", "pending" or the outcome]
    published   \* the transactions of the requests: [nonce, owner, index]

vars == <<phase, status, published>>

Outcomes == {"succeeded", "failed", "lost"}

Init ==
    /\ phase = "open"
    /\ status = [r \in Requests |-> "new"]
    /\ published = {}

\* Refused during Stop, lost after it, and lost also when there is no room.
Submit(r) ==
    /\ phase # "stopping"
    /\ status[r] = "new"
    /\ \/ phase = "open" /\ status' = [status EXCEPT ![r] = "pending"]
       \/ status' = [status EXCEPT ![r] = "lost"]
    /\ UNCHANGED <<phase, published>>

\* The next update of a pending request, under a nonce nothing else has.
Publish(r) ==
    /\ phase # "closed"
    /\ status[r] = "pending"
    /\ \E tx \in published' \ published :
          /\ published' = published \cup {tx}
          /\ tx.owner = r /\ tx.index \in 1..Updates[r]
          /\ {t.index : t \in {u \in published : u.owner = r}} = 1..(tx.index - 1)
          /\ \A t \in published : t.nonce # tx.nonce
    /\ UNCHANGED <<phase, status>>

Whole(r) ==
    /\ Updates[r] > 0
    /\ \E first \in {t.nonce : t \in published} : \A i \in 1..Updates[r] :
          [nonce |-> first + i - 1, owner |-> r, index |-> i] \in published

Answer(r) ==
    /\ phase # "closed"
    /\ status[r] = "pending"
    /\ \E outcome \in Outcomes :
          /\ outcome = "succeeded" => Whole(r)
          /\ status' = [status EXCEPT ![r] = outcome]
    /\ UNCHANGED <<phase, published>>

BeginStop ==
    /\ phase = "open"
    /\ phase' = "stopping"
    /\ UNCHANGED <<status, published>>

EndStop ==
    /\ phase = "stopping"
    /\ phase' = "closed"
    /\ UNCHANGED <<status, published>>

Next ==
    \/ \E r \in Requests : Submit(r) \/ Publish(r) \/ Answer(r)
    \/ BeginStop \/ EndStop

Spec == Init /\ [][Next]_vars

=============================================================================
