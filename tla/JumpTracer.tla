----------------------------- MODULE JumpTracer -----------------------------
(***************************************************************************)
(* The jump tracer (tracing/utils/types.go) as a record, each of its       *)
(* methods an operator from the tracer before to the tracer after, and the *)
(* similarity of two recorded paths.  One tracer serves every execution of *)
(* an attack replayer and nothing locks it.                                *)
(*                                                                         *)
(* A path is an object: the tracer holds its identity, paths holds the     *)
(* jumps appended to it, and whoever got it from StopTrace keeps it.       *)
(***************************************************************************)
EXTENDS Integers, Sequences, FiniteSets

CONSTANT NoContract   \* the zero address: no target set

NewJumpTracer ==
    [active |-> FALSE, target |-> NoContract, recording |-> FALSE,
     targetDepth |-> -1, depth |-> 0, path |-> 0]

\* Bug form: the path is allocated only once.
StartTraceOnOldPath(t, newPath) ==
    [t EXCEPT !.active = TRUE, !.path = IF @ = 0 THEN newPath ELSE @]

\* A new path; what was recorded of the target stays as it is.
StartTrace(t, newPath) == [t EXCEPT !.active = TRUE, !.path = newPath]

StopTrace(t) == [t EXCEPT !.active = FALSE]

\* Bug form: what was recorded of the target before stays.
SetTargetContractOnly(t, contract) == [t EXCEPT !.target = contract]

SetTargetContract(t, contract) ==
    [t EXCEPT !.target = contract, !.targetDepth = -1, !.recording = FALSE]

OnTargetContractCalled(t, contract) ==
    IF contract = t.target /\ ~t.recording
    THEN [t EXCEPT !.recording = TRUE, !.targetDepth = t.depth] ELSE t

OnEnter(t, to, depth) ==
    IF to = t.target /\ ~t.recording /\ t.targetDepth = -1
    THEN [t EXCEPT !.depth = depth, !.recording = TRUE, !.targetDepth = depth]
    ELSE [t EXCEPT !.depth = depth]

OnExit(t, depth) ==
    [t EXCEPT !.depth = depth, !.recording = @ /\ depth > t.targetDepth]

\* onOpcode for a jump that is taken: whether it is appended to the path.
RecordsJump(t, depth) ==
    /\ t.active
    /\ t.target = NoContract \/ t.recording
    /\ t.targetDepth = -1 \/ depth >= t.targetDepth

\* calculatePathSimilarity, a fraction: the jumps that agree, place by place,
\* over the length of the longer path.
PathSimilarity(original, modified) ==
    LET shorter == IF Len(original) < Len(modified) THEN original ELSE modified
        longer == IF Len(original) < Len(modified) THEN modified ELSE original
        matches == {i \in 1..Len(shorter) : shorter[i] = longer[i]}
    IN  IF longer = <<>> THEN [num |-> 1, den |-> 1]
        ELSE [num |-> Cardinality(matches), den |-> Len(longer)]

AtLeast(similarity, percent) == 100 * similarity.num >= percent * similarity.den
=============================================================================
