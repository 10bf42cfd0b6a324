---------------------------- MODULE SlotContract ----------------------------
(***************************************************************************)
(* What a caller of ConcurrencyManager may rely on: a counting semaphore   *)
(* and a drain.  No more functions are waited for at a time than there are *)
(* slots, a call that is answered had a function that ended, and a         *)
(* shutdown that succeeds found the calls whose functions had started when *)
(* it began gone; one admitted whose function had not is owed nothing.  It *)
(* says nothing of how slots are counted, and a function may outlive its   *)
(* call.                                                                   *)
(***************************************************************************)
EXTENDS Naturals

CONSTANTS
    Operations, \* the calls
    Slots       \* how many run at a time

VARIABLES
    free,     \* the slots nobody has
    call,     \* [Operations -> "waiting", "running" or the outcome]
    function, \* [Operations -> "off", "running", "ended"]
    drain,    \* the shutdown: "no", "waiting", "clean", "timeout"
    owed      \* the calls it waits for

vars == <<free, call, function, drain, owed>>

Init ==
    /\ free = Slots
    /\ call = [o \in Operations |-> "waiting"]
    /\ function = [o \in Operations |-> "off"]
    /\ drain = "no"
    /\ owed = {}

Admit(o) ==
    /\ call[o] = "waiting"
    /\ free > 0
    /\ free' = free - 1
    /\ call' = [call EXCEPT ![o] = "running"]
    /\ UNCHANGED <<function, drain, owed>>

Refuse(o) ==
    /\ call[o] = "waiting"
    /\ call' = [call EXCEPT ![o] = "refused"]
    /\ UNCHANGED <<free, function, drain, owed>>

Start(o) ==
    /\ call[o] = "running" /\ function[o] = "off"
    /\ function' = [function EXCEPT ![o] = "running"]
    /\ UNCHANGED <<free, call, drain, owed>>

End(o) ==
    /\ function[o] = "running"
    /\ function' = [function EXCEPT ![o] = "ended"]
    /\ UNCHANGED <<free, call, drain, owed>>

\* The slot is free again, and whoever waits for the call sees it gone.
Finish(o) ==
    /\ call[o] = "running" /\ function[o] # "off"
    /\ \/ function[o] = "ended" /\ call' = [call EXCEPT ![o] = "answered"]
       \/ call' = [call EXCEPT ![o] = "timeout"]
    /\ free' = free + 1
    /\ owed' = owed \ {o}
    /\ UNCHANGED <<function, drain>>

\* A call that has its slot and whose function has not started is missed.
BeginShutdown ==
    /\ drain = "no"
    /\ drain' = "waiting"
    /\ owed' = {o \in Operations : call[o] = "running" /\ function[o] # "off"}
    /\ UNCHANGED <<free, call, function>>

EndShutdown ==
    /\ drain = "waiting"
    /\ \/ owed = {} /\ drain' = "clean"
       \/ drain' = "timeout"
    /\ UNCHANGED <<free, call, function, owed>>

Next ==
    \/ \E o \in Operations :
          Admit(o) \/ Refuse(o) \/ Start(o) \/ End(o) \/ Finish(o)
    \/ BeginShutdown \/ EndShutdown

Spec == Init /\ [][Next]_vars

=============================================================================
